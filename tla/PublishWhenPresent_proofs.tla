------------------------ MODULE PublishWhenPresent_proofs ------------------------
(***************************************************************************)
(* Proofs about PublishWhenPresent for any items, any serial numbers and a *)
(* caller that makes any call in any order, or any platform.               *)
(***************************************************************************)
EXTENDS PublishWhenPresent, TLAPS

(* While a loop runs, what it has to visit is cached and its mark is made; *)
(* what markPresent() has visited has been published.                      *)
LoopControl ==
    /\ running # "none" =>
           path \in Paths /\ todo \subseteq Cached(path) /\ Cached(path) # {}
    /\ running = "publish" =>
           /\ presentCache[path] = "present"
           /\ \A i \in Cached(path) \ todo : held[path][i] = objectCache[path][i]
    /\ running \in {"withdraw", "retract"} => presentCache[path] = "absent"
    /\ running = "withdraw" => todo = Cached(path)

Control == DecoratorType /\ LoopControl

(* What holds in addition when no call fails.  An item that no loop is     *)
(* working on is published as cached, or blank and absent; contents are in *)
(* the inventory only of what is cached, so that withdrawing that is       *)
(* withdrawing all.                                                        *)
Quiet(p) == running = "none" \/ path # p

FaithfulItem(p) ==
    /\ \A i \in Ifaces \ Cached(p) : held[p][i] = Blank
    /\ present[p] => Cached(p) # {}
    /\ (running = "publish" /\ path = p) =>
           ~present[p] /\ \A i \in Ifaces : objectCache[p][i] # Default
    /\ (running = "retract" /\ path = p) =>
           ~present[p] /\ \A i \in Ifaces \ todo : held[p][i] = Blank
    /\ (Quiet(p) /\ presentCache[p] = "present") =>
           \A i \in Cached(p) :
               objectCache[p][i] # Default => held[p][i] = objectCache[p][i]
    /\ (Quiet(p) /\ presentCache[p] # "present") =>
           ~present[p] /\ \A i \in Ifaces :
               held[p][i] = Blank /\ objectCache[p][i] # Default

Faithful == \A p \in Paths : FaithfulItem(p)

USE DEF inventory, caches, loop, decoratorVars

------------------------------------------------------------------------------
(* Writing one interface of one item.                                      *)

LEMMA OneInterface ==
    ASSUME NEW S, NEW f \in [Paths -> [Ifaces -> S]], NEW p \in Paths,
           NEW i \in Ifaces, NEW v \in S, NEW g, g = [f EXCEPT ![p][i] = v]
    PROVE  /\ g \in [Paths -> [Ifaces -> S]]
           /\ g[p][i] = v
           /\ \A q \in Paths : \A j \in Ifaces : (q # p \/ j # i) => g[q][j] = f[q][j]
           /\ \A q \in Paths : q # p => g[q] = f[q]
OBVIOUS

LEMMA FirstFacts ==
    ASSUME NEW is \in SUBSET Ifaces, is # {}
    PROVE  First(is) \in is
BY DEF First, Ifaces

LEMMA ContentsFacts ==
    ASSUME NEW i \in Ifaces
    PROVE  /\ Contents(i) \subseteq Serials \cup {Located}
           /\ Default \notin Contents(i) /\ NoEntry \notin Contents(i)
           /\ Blank \notin Contents(i)
           /\ Default # NoEntry /\ Blank # NoEntry /\ Blank # Default
BY MarkersAssumption DEF Contents, Ifaces

(* The calls to the InventoryManager.                                      *)
LEMMA HeldFacts ==
    ASSUME DecoratorType, NEW p \in Paths, NEW i \in Ifaces,
           NEW v \in Contents(i) \cup {Blank},
           held' = [held EXCEPT ![p][i] = v] \/ UNCHANGED held
    PROVE  /\ held' \in [Paths -> [Ifaces -> Serials \cup {Located, Blank}]]
           /\ \A q \in Paths \ {p} : held'[q] = held[q]
           /\ \A j \in Ifaces \ {i} : held'[p][j] = held[p][j]
           /\ \A q \in Paths : \A j \in Ifaces : held'[q][j] \in Contents(j) \cup {Blank}
           /\ held'[p][i] \in {held[p][i], v}
           /\ held' = [held EXCEPT ![p][i] = v] => held'[p][i] = v
<1>1. held \in [Paths -> [Ifaces -> Serials \cup {Located, Blank}]]
      /\ \A q \in Paths : \A j \in Ifaces : held[q][j] \in Contents(j) \cup {Blank}
    BY DEF DecoratorType
<1>2. v \in Serials \cup {Located, Blank}
    BY ContentsFacts
<1>3. CASE UNCHANGED held
    <2>1. held'[p] = held[p] /\ held'[p][i] = held[p][i]
        BY <1>3
    <2>2. ASSUME held' = [held EXCEPT ![p][i] = v] PROVE held'[p][i] = v
        BY <1>1, <1>2, <2>2, OneInterface
    <2> QED BY <1>1, <1>3, <2>1, <2>2
<1>4. CASE held' = [held EXCEPT ![p][i] = v]
    <2>1. /\ held' \in [Paths -> [Ifaces -> Serials \cup {Located, Blank}]]
          /\ held'[p][i] = v
          /\ \A q \in Paths : \A j \in Ifaces :
                 (q # p \/ j # i) => held'[q][j] = held[q][j]
          /\ \A q \in Paths : q # p => held'[q] = held[q]
        BY <1>1, <1>2, <1>4, OneInterface
    <2> QED BY <1>1, <2>1
<1> QED BY <1>3, <1>4

LEMMA AddOutcome ==
    ASSUME NEW p \in Paths, NEW i \in Ifaces, NEW out,
           NEW iface \in Contents(i), InventoryAdd(p, i, iface, out)
    PROVE  /\ held' = [held EXCEPT ![p][i] = iface] \/ UNCHANGED held
           /\ out = "ok" => held' = [held EXCEPT ![p][i] = iface]
           /\ ~Faults => out = "ok"
BY ContentsFacts DEF InventoryAdd, Reply

LEMMA RemoveOutcome ==
    ASSUME NEW p \in Paths, NEW i \in Ifaces, NEW out, InventoryRemove(p, i, out)
    PROVE  /\ held' = [held EXCEPT ![p][i] = Blank] \/ UNCHANGED held
           /\ out = "ok" => held' = [held EXCEPT ![p][i] = Blank]
           /\ ~Faults => out = "ok"
BY DEF InventoryRemove, Reply

(* Caching one interface of one item.                                      *)
LEMMA CacheFacts ==
    ASSUME DecoratorType, NEW p \in Paths, NEW i \in Ifaces,
           NEW iface \in Contents(i) \cup {Default},
           objectCache' = [objectCache EXCEPT ![p][i] = iface]
    PROVE  /\ objectCache' \in
                  [Paths -> [Ifaces -> Serials \cup {Located, Default, NoEntry}]]
           /\ objectCache'[p][i] = iface
           /\ \A j \in Ifaces \ {i} : objectCache'[p][j] = objectCache[p][j]
           /\ \A q \in Paths \ {p} : objectCache'[q] = objectCache[q]
           /\ Cached(p)' = Cached(p) \cup {i}
           /\ \A q \in Paths : \A j \in Ifaces :
                  objectCache'[q][j] \in Contents(j) \cup {Default, NoEntry}
<1>1. objectCache \in [Paths -> [Ifaces -> Serials \cup {Located, Default, NoEntry}]]
    BY DEF DecoratorType
<1>2. iface \in Serials \cup {Located, Default, NoEntry} /\ iface # NoEntry
    BY ContentsFacts
<1>3. /\ objectCache' \in
             [Paths -> [Ifaces -> Serials \cup {Located, Default, NoEntry}]]
      /\ objectCache'[p][i] = iface
      /\ \A q \in Paths : \A j \in Ifaces :
             (q # p \/ j # i) => objectCache'[q][j] = objectCache[q][j]
    BY <1>1, <1>2, OneInterface
<1>4. \A q \in Paths \ {p} : objectCache'[q] = objectCache[q]
    BY <1>1, <1>2, OneInterface
<1>5. Cached(p)' = Cached(p) \cup {i}
    BY <1>2, <1>3 DEF Cached
<1>6. \A q \in Paths : \A j \in Ifaces :
          objectCache'[q][j] \in Contents(j) \cup {Default, NoEntry}
    BY <1>3 DEF DecoratorType
<1> QED BY <1>3, <1>4, <1>5, <1>6

LEMMA SameCache ==
    ASSUME UNCHANGED objectCache
    PROVE  \A p : Cached(p)' = Cached(p)
BY DEF Cached

(* An item that is neither written nor worked on stays as it is.           *)
Untouched(q) == /\ held'[q] = held[q] /\ objectCache'[q] = objectCache[q]
                /\ present'[q] = present[q] /\ presentCache'[q] = presentCache[q]

LEMMA Frame ==
    ASSUME NEW q \in Paths, Untouched(q), Quiet(q), Quiet(q)', FaithfulItem(q)
    PROVE  FaithfulItem(q)'
<1>1. Cached(q)' = Cached(q)
    BY DEF Untouched, Cached
<1>2. ~(running = "publish" /\ path = q)' /\ ~(running = "retract" /\ path = q)'
    BY DEF Quiet
<1> QED BY <1>1, <1>2 DEF Untouched, FaithfulItem

------------------------------------------------------------------------------
(* Each operation, from any caller.                                        *)

LEMMA AddStep ==
    ASSUME Control, running = "none", NEW p \in Paths, NEW i \in Ifaces,
           NEW iface \in Contents(i), NEW out, Add(p, i, iface, out)
    PROVE  Control' /\ (~Faults /\ Faithful => Faithful')
<1>1. /\ objectCache' = [objectCache EXCEPT ![p][i] = iface]
      /\ UNCHANGED <<present, presentCache, running, path, todo>>
    BY DEF Add
<1>2. DecoratorType /\ iface # Default /\ iface \in Contents(i) \cup {Default}
    BY ContentsFacts DEF Control
<1>3. LoopControl'
    BY <1>1 DEF LoopControl
<1>c. /\ \A q \in Paths \ {p} : objectCache'[q] = objectCache[q]
      /\ Cached(p)' = Cached(p) \cup {i} /\ objectCache'[p][i] = iface
      /\ \A j \in Ifaces \ {i} : objectCache'[p][j] = objectCache[p][j]
      /\ objectCache' \in
             [Paths -> [Ifaces -> Serials \cup {Located, Default, NoEntry}]]
      /\ \A q \in Paths : \A j \in Ifaces :
             objectCache'[q][j] \in Contents(j) \cup {Default, NoEntry}
    BY <1>1, <1>2, CacheFacts
<1>4. CASE presentCache[p] = "present"
    <2>1. InventoryAdd(p, i, iface, out)
        BY <1>4 DEF Add
    <2>2. DecoratorType'
        <3>1. held' = [held EXCEPT ![p][i] = iface] \/ UNCHANGED held
            BY <2>1, AddOutcome
        <3>2. /\ held' \in [Paths -> [Ifaces -> Serials \cup {Located, Blank}]]
              /\ \A q \in Paths \ {p} : held'[q] = held[q]
              /\ \A j \in Ifaces \ {i} : held'[p][j] = held[p][j]
              /\ \A q \in Paths : \A j \in Ifaces : held'[q][j] \in Contents(j) \cup {Blank}
            BY <1>2, <3>1, HeldFacts
        <3> QED BY <1>1, <1>2, <1>c, <3>2 DEF DecoratorType
    <2>3. ASSUME ~Faults, Faithful PROVE Faithful'
        <3>1. /\ held'[p][i] = iface
              /\ \A j \in Ifaces \ {i} : held'[p][j] = held[p][j]
              /\ \A q \in Paths \ {p} : held'[q] = held[q]
            BY <1>2, <2>1, <2>3, AddOutcome, HeldFacts
        <3>2. FaithfulItem(p)'
            <4>1. FaithfulItem(p) /\ Quiet(p) /\ running' = "none"
                BY <1>1, <2>3 DEF Faithful, Quiet
            <4>2. \A j \in Ifaces \ Cached(p)' : held'[p][j] = Blank
                BY <1>c, <3>1, <4>1 DEF FaithfulItem
            <4>3. \A j \in Cached(p)' :
                      objectCache'[p][j] # Default => held'[p][j] = objectCache'[p][j]
                BY <1>4, <1>c, <3>1, <4>1 DEF FaithfulItem, Cached
            <4>4. Cached(p)' # {}
                BY <1>c
            <4> QED BY <1>1, <1>4, <4>1, <4>2, <4>3, <4>4 DEF FaithfulItem
        <3>3. ASSUME NEW q \in Paths \ {p} PROVE FaithfulItem(q)'
            BY <1>1, <1>c, <2>3, <3>1, Frame DEF Untouched, Quiet, Faithful
        <3> QED BY <3>2, <3>3 DEF Faithful
    <2> QED BY <1>3, <2>2, <2>3 DEF Control
<1>5. CASE presentCache[p] # "present"
    <2>1. UNCHANGED held
        BY <1>5 DEF Add
    <2>2. DecoratorType'
        BY <1>1, <1>2, <1>c, <2>1 DEF DecoratorType
    <2>3. ASSUME Faithful PROVE Faithful'
        <3>2. FaithfulItem(p)'
            BY <1>1, <1>2, <1>5, <1>c, <2>1, <2>3 DEF Faithful, FaithfulItem, Quiet
        <3>3. ASSUME NEW q \in Paths \ {p} PROVE FaithfulItem(q)'
            BY <1>1, <1>c, <2>1, <2>3, Frame DEF Untouched, Quiet, Faithful
        <3> QED BY <3>2, <3>3 DEF Faithful
    <2> QED BY <1>3, <2>2, <2>3 DEF Control
<1> QED BY <1>4, <1>5

LEMMA RemoveStep ==
    ASSUME Control, running = "none", NEW p \in Paths, NEW i \in Ifaces,
           NEW iface \in Contents(i) \cup {Default}, NEW out, Remove(p, i, iface, out)
    PROVE  /\ Control'
           /\ ~Faults /\ iface \in {objectCache[p][i], Default} /\ Faithful => Faithful'
<1>1. UNCHANGED <<present, presentCache, running, path, todo>>
    BY DEF Remove
<1>2. DecoratorType
    BY DEF Control
<1>3. LoopControl'
    BY <1>1 DEF LoopControl
<1>4. CASE presentCache[p] = "present"
    <2>1. objectCache' = [objectCache EXCEPT ![p][i] = iface] /\ UNCHANGED held
        BY <1>4 DEF Remove
    <2>2. DecoratorType'
        BY <1>1, <1>2, <2>1, CacheFacts DEF DecoratorType
    <2>3. ASSUME Faithful, iface \in {objectCache[p][i], Default} PROVE Faithful'
        <3>1. /\ \A q \in Paths \ {p} : objectCache'[q] = objectCache[q]
              /\ Cached(p)' = Cached(p) \cup {i} /\ objectCache'[p][i] = iface
              /\ \A j \in Ifaces \ {i} : objectCache'[p][j] = objectCache[p][j]
            BY <1>2, <2>1, CacheFacts
        <3>2. iface # Default => Cached(p)' = Cached(p)
            BY <2>3, <3>1 DEF Cached
        <3>3. FaithfulItem(p)'
            BY <1>1, <1>4, <2>1, <2>3, <3>1, <3>2 DEF Faithful, FaithfulItem, Quiet
        <3>4. ASSUME NEW q \in Paths \ {p} PROVE FaithfulItem(q)'
            BY <1>1, <2>1, <2>3, <3>1, Frame DEF Untouched, Quiet, Faithful
        <3> QED BY <3>3, <3>4 DEF Faithful
    <2> QED BY <1>3, <2>2, <2>3 DEF Control
<1>5. CASE presentCache[p] # "present"
    <2>1. InventoryRemove(p, i, out) /\ UNCHANGED objectCache
        BY <1>5 DEF Remove
    <2>2. /\ held' \in [Paths -> [Ifaces -> Serials \cup {Located, Blank}]]
          /\ \A q \in Paths : \A j \in Ifaces : held'[q][j] \in Contents(j) \cup {Blank}
          /\ held'[p][i] \in {held[p][i], Blank}
          /\ \A j \in Ifaces \ {i} : held'[p][j] = held[p][j]
          /\ \A q \in Paths \ {p} : held'[q] = held[q]
        BY <1>2, <2>1, RemoveOutcome, HeldFacts
    <2>3. DecoratorType'
        BY <1>1, <1>2, <2>1, <2>2 DEF DecoratorType
    <2>4. ASSUME Faithful PROVE Faithful'
        <3>1. FaithfulItem(p)'
            BY <1>1, <1>5, <2>1, <2>2, <2>4, SameCache DEF Faithful, FaithfulItem, Quiet
        <3>2. ASSUME NEW q \in Paths \ {p} PROVE FaithfulItem(q)'
            BY <1>1, <2>1, <2>2, <2>4, Frame DEF Untouched, Quiet, Faithful
        <3> QED BY <3>1, <3>2 DEF Faithful
    <2> QED BY <1>3, <2>3, <2>4 DEF Control
<1> QED BY <1>4, <1>5

LEMMA MarkStep ==
    ASSUME Control, running = "none", NEW p \in Paths, NEW out,
           MarkPresent(p, out) \/ MarkAbsent(p, out)
    PROVE  Control' /\ (Faithful => Faithful')
<1> DEFINE mark == IF MarkPresent(p, out) THEN "present" ELSE "absent"
           name == IF MarkPresent(p, out) THEN "publish" ELSE "withdraw"
<1>1. /\ presentCache' = [presentCache EXCEPT ![p] = mark]
      /\ Enter(p, name, presentCache[p] # mark, out)
      /\ UNCHANGED <<present, held, objectCache>>
    BY DEF MarkPresent, MarkAbsent
<1>2. /\ mark \in {"present", "absent"} /\ name \in {"publish", "withdraw"}
      /\ name = "publish" <=> mark = "present"
    OBVIOUS
<1> HIDE DEF mark, name
<1>3. DecoratorType
    BY DEF Control
<1>4. /\ presentCache' \in [Paths -> {"present", "absent", NoEntry}]
      /\ presentCache'[p] = mark
      /\ \A q \in Paths \ {p} : presentCache'[q] = presentCache[q]
    BY <1>1, <1>2, <1>3 DEF DecoratorType
<1>5. \A q : Cached(q)' = Cached(q)
    BY <1>1, SameCache
<1>6. ASSUME NEW q \in Paths \ {p}, Quiet(q)', Faithful PROVE FaithfulItem(q)'
    BY <1>1, <1>4, <1>6, Frame DEF Untouched, Quiet, Faithful
<1>7. CASE presentCache[p] # mark /\ Cached(p) # {}
    <2>1. running' = name /\ path' = p /\ todo' = Cached(p)
        BY <1>1, <1>7 DEF Enter
    <2>2. DecoratorType'
        BY <1>1, <1>2, <1>3, <1>4, <2>1 DEF DecoratorType, Cached
    <2>3. LoopControl'
        BY <1>1, <1>2, <1>4, <1>5, <1>7, <2>1 DEF LoopControl
    <2>4. ASSUME Faithful PROVE FaithfulItem(p)'
        <3>1. FaithfulItem(p) /\ Quiet(p) /\ ~Quiet(p)'
            BY <1>2, <2>1, <2>4 DEF Faithful, Quiet
        <3>2. name = "publish" => presentCache[p] # "present"
            BY <1>2, <1>7
        <3> QED BY <1>1, <1>2, <1>5, <2>1, <3>1, <3>2 DEF FaithfulItem
    <2>5. \A q \in Paths \ {p} : Quiet(q)'
        BY <2>1 DEF Quiet
    <2> QED BY <1>6, <2>2, <2>3, <2>4, <2>5 DEF Control, Faithful
<1>8. CASE ~(presentCache[p] # mark /\ Cached(p) # {})
    <2>1. UNCHANGED <<running, path, todo>>
        BY <1>1, <1>8 DEF Enter
    <2>2. DecoratorType'
        BY <1>1, <1>3, <1>4, <2>1 DEF DecoratorType
    <2>3. LoopControl'
        BY <2>1 DEF LoopControl
    <2>4. ASSUME Faithful PROVE FaithfulItem(p)'
        <3>1. FaithfulItem(p) /\ Quiet(p) /\ running' = "none"
            BY <2>1, <2>4 DEF Faithful, Quiet
        <3>2. CASE presentCache[p] = mark
            <4>1. presentCache'[p] = presentCache[p]
                BY <1>4, <3>2
            <4> QED BY <1>1, <1>5, <3>1, <4>1 DEF FaithfulItem
        <3>3. CASE Cached(p) = {}
            <4>1. \A i \in Ifaces : held[p][i] = Blank /\ objectCache[p][i] # Default
                BY <3>1, <3>3, ContentsFacts DEF FaithfulItem, Cached
            <4> QED BY <1>1, <1>5, <3>1, <3>3, <4>1 DEF FaithfulItem
        <3> QED BY <1>8, <3>2, <3>3
    <2>5. \A q \in Paths \ {p} : Quiet(q)'
        BY <2>1 DEF Quiet
    <2> QED BY <1>6, <2>2, <2>3, <2>4, <2>5 DEF Control, Faithful
<1> QED BY <1>7, <1>8

------------------------------------------------------------------------------
(* The loops.                                                              *)

LEMMA LoopFacts ==
    ASSUME Control, running # "none", todo # {}
    PROVE  /\ path \in Paths /\ First(todo) \in todo /\ First(todo) \in Ifaces
           /\ First(todo) \in Cached(path)
           /\ objectCache[path][First(todo)] \in Contents(First(todo)) \cup {Default}
BY FirstFacts, ContentsFacts DEF Control, LoopControl, DecoratorType, Cached

LEMMA PublishStep ==
    ASSUME Control, NEW out, PublishInterface(out)
    PROVE  Control' /\ (~Faults /\ Faithful => Faithful')
<1> DEFINE f == First(todo)
<1>1. PICK reply \in Outcomes :
          /\ InventoryAdd(path, f, objectCache[path][f], reply)
          /\ IF reply = "ok"
             THEN todo' = todo \ {f} /\ UNCHANGED <<running, path>>
             ELSE Done
    BY DEF PublishInterface
<1>2. /\ running = "publish" /\ todo # {} /\ DecoratorType
      /\ UNCHANGED <<present, presentCache, objectCache>>
    BY DEF PublishInterface, Control
<1>3. /\ path \in Paths /\ f \in todo /\ f \in Ifaces /\ f \in Cached(path)
      /\ objectCache[path][f] \in Contents(f) \cup {Default}
    BY <1>2, LoopFacts
<1> HIDE DEF f
<1>4. \A q : Cached(q)' = Cached(q)
    BY <1>2, SameCache
<1>5. /\ held' \in [Paths -> [Ifaces -> Serials \cup {Located, Blank}]]
      /\ \A q \in Paths : \A j \in Ifaces : held'[q][j] \in Contents(j) \cup {Blank}
      /\ \A j \in Ifaces \ {f} : held'[path][j] = held[path][j]
      /\ \A q \in Paths \ {path} : held'[q] = held[q]
      /\ reply = "ok" => held'[path][f] = objectCache[path][f]
    <2>1. CASE objectCache[path][f] = Default
        BY <1>1, <1>2, <2>1 DEF InventoryAdd, DecoratorType
    <2>2. CASE objectCache[path][f] \in Contents(f)
        BY <1>1, <1>2, <1>3, <2>2, AddOutcome, HeldFacts
    <2> QED BY <1>3, <2>1, <2>2
<1>6. DecoratorType'
    BY <1>1, <1>2, <1>3, <1>5 DEF DecoratorType, Done
<1>7. CASE reply = "ok"
    <2>1. todo' = todo \ {f} /\ UNCHANGED <<running, path>>
        BY <1>1, <1>7
    <2>2. LoopControl'
        BY <1>2, <1>3, <1>4, <1>5, <1>7, <2>1 DEF Control, LoopControl, Cached
    <2>3. ASSUME Faithful PROVE Faithful'
        <3>1. FaithfulItem(path)'
            BY <1>2, <1>3, <1>4, <1>5, <2>1, <2>3 DEF Faithful, FaithfulItem, Quiet
        <3>2. ASSUME NEW q \in Paths \ {path} PROVE FaithfulItem(q)'
            BY <1>2, <1>5, <2>1, <2>3, <3>2, Frame DEF Untouched, Quiet, Faithful
        <3> QED BY <2>1, <3>1, <3>2 DEF Faithful
    <2> QED BY <1>6, <2>2, <2>3 DEF Control
<1>8. CASE reply # "ok"
    <2>1. LoopControl'
        BY <1>1, <1>8 DEF LoopControl, Done
    <2>2. ASSUME ~Faults, Faithful PROVE FALSE
        BY <1>1, <1>2, <1>3, <1>8, <2>2 DEF Faithful, FaithfulItem, InventoryAdd, Reply
    <2> QED BY <1>6, <2>1, <2>2 DEF Control
<1> QED BY <1>7, <1>8

LEMMA AnnounceStep ==
    ASSUME Control, NEW out, Announce(out)
    PROVE  Control' /\ (~Faults /\ Faithful => Faithful')
<1>1. /\ running = "publish" /\ todo = {} /\ Done /\ DecoratorType /\ path \in Paths
      /\ UNCHANGED <<held, presentCache, objectCache>>
      /\ InventoryMark(path, TRUE, out)
    BY DEF Announce, Control, LoopControl
<1>2. /\ present' \in [Paths -> BOOLEAN]
      /\ \A q \in Paths \ {path} : present'[q] = present[q]
    BY <1>1 DEF InventoryMark, DecoratorType
<1>3. DecoratorType' /\ LoopControl'
    BY <1>1, <1>2 DEF DecoratorType, LoopControl, Done
<1>4. ASSUME Faithful PROVE Faithful'
    <2>1. ASSUME NEW p \in Paths, p = path PROVE FaithfulItem(p)'
        BY <1>1, <1>4, <2>1, SameCache
        DEF Faithful, FaithfulItem, Control, LoopControl, Done
    <2>2. ASSUME NEW q \in Paths, q # path PROVE FaithfulItem(q)'
        BY <1>1, <1>2, <1>4, <2>2, Frame DEF Untouched, Quiet, Faithful, Done
    <2> QED BY <2>1, <2>2 DEF Faithful
<1> QED BY <1>3, <1>4 DEF Control

LEMMA WithdrawStep ==
    ASSUME Control, NEW out, Withdraw(out)
    PROVE  Control' /\ (~Faults /\ Faithful => Faithful')
<1>1. /\ running = "withdraw" /\ DecoratorType /\ path \in Paths /\ todo = Cached(path)
      /\ UNCHANGED <<held, presentCache, objectCache>>
    BY DEF Withdraw, Control, LoopControl
<1>2. PICK reply \in Outcomes :
          /\ InventoryMark(path, FALSE, reply)
          /\ IF reply = "ok" THEN running' = "retract" /\ UNCHANGED <<path, todo>>
                             ELSE Done
    BY DEF Withdraw
<1>3. /\ present' \in [Paths -> BOOLEAN]
      /\ \A q \in Paths \ {path} : present'[q] = present[q]
    BY <1>1, <1>2 DEF InventoryMark, DecoratorType
<1>4. DecoratorType'
    BY <1>1, <1>2, <1>3 DEF DecoratorType, Done
<1>5. LoopControl'
    BY <1>1, <1>2, SameCache DEF Control, LoopControl, Done
<1>6. ASSUME ~Faults, Faithful PROVE Faithful'
    <2>1. /\ running' = "retract" /\ UNCHANGED <<path, todo>> /\ ~present'[path]
        BY <1>1, <1>2, <1>6 DEF InventoryMark, Reply, DecoratorType
    <2>2. FaithfulItem(path)'
        BY <1>1, <1>6, <2>1, SameCache DEF Faithful, FaithfulItem, Quiet
    <2>3. ASSUME NEW q \in Paths \ {path} PROVE FaithfulItem(q)'
        BY <1>1, <1>3, <1>6, <2>1, Frame DEF Untouched, Quiet, Faithful
    <2> QED BY <2>1, <2>2, <2>3 DEF Faithful
<1> QED BY <1>4, <1>5, <1>6 DEF Control

LEMMA RetractStep ==
    ASSUME Control, NEW out, RetractInterface(out)
    PROVE  Control' /\ (~Faults /\ Faithful => Faithful')
<1> DEFINE f == First(todo)
<1>1. PICK reply \in Outcomes :
          /\ InventoryRemove(path, f, reply)
          /\ IF reply = "ok"
             THEN todo' = todo \ {f} /\ UNCHANGED <<running, path>>
             ELSE Done
    BY DEF RetractInterface
<1>2. /\ running = "retract" /\ todo # {} /\ DecoratorType
      /\ UNCHANGED <<present, presentCache, objectCache>>
    BY DEF RetractInterface, Control
<1>3. path \in Paths /\ f \in todo /\ f \in Ifaces /\ f \in Cached(path)
    BY <1>2, LoopFacts
<1> HIDE DEF f
<1>4. \A q : Cached(q)' = Cached(q)
    BY <1>2, SameCache
<1>5. /\ held' \in [Paths -> [Ifaces -> Serials \cup {Located, Blank}]]
      /\ \A q \in Paths : \A j \in Ifaces : held'[q][j] \in Contents(j) \cup {Blank}
      /\ \A j \in Ifaces \ {f} : held'[path][j] = held[path][j]
      /\ \A q \in Paths \ {path} : held'[q] = held[q]
      /\ reply = "ok" => held'[path][f] = Blank
    BY <1>1, <1>2, <1>3, RemoveOutcome, HeldFacts
<1>6. DecoratorType'
    BY <1>1, <1>2, <1>3, <1>5 DEF DecoratorType, Done
<1>7. LoopControl'
    BY <1>1, <1>2, <1>3, <1>4 DEF Control, LoopControl, Done
<1>8. ASSUME ~Faults, Faithful PROVE Faithful'
    <2>1. reply = "ok" /\ todo' = todo \ {f} /\ UNCHANGED <<running, path>>
        BY <1>1, <1>3, <1>8, RemoveOutcome
    <2>2. FaithfulItem(path)'
        BY <1>2, <1>3, <1>4, <1>5, <1>8, <2>1 DEF Faithful, FaithfulItem, Quiet
    <2>3. ASSUME NEW q \in Paths \ {path} PROVE FaithfulItem(q)'
        BY <1>2, <1>5, <1>8, <2>1, <2>3, Frame DEF Untouched, Quiet, Faithful
    <2> QED BY <2>1, <2>2, <2>3 DEF Faithful
<1> QED BY <1>6, <1>7, <1>8 DEF Control

LEMMA ForgetStep ==
    ASSUME Control, NEW out, Forget(out)
    PROVE  Control' /\ (Faithful => Faithful')
<1>1. /\ running = "retract" /\ todo = {} /\ Done /\ DecoratorType /\ path \in Paths
      /\ UNCHANGED <<present, held, presentCache>>
      /\ objectCache' = [objectCache EXCEPT ![path] = Empty[path]]
      /\ presentCache[path] = "absent"
    BY DEF Forget, Control, LoopControl
<1>2. Empty[path] = [i \in Ifaces |-> NoEntry]
    BY <1>1 DEF Empty
<1>3. /\ objectCache' \in
             [Paths -> [Ifaces -> Serials \cup {Located, Default, NoEntry}]]
      /\ \A i \in Ifaces : objectCache'[path][i] = NoEntry
      /\ \A q \in Paths \ {path} : objectCache'[q] = objectCache[q]
    BY <1>1, <1>2 DEF DecoratorType
<1>4. DecoratorType' /\ LoopControl'
    BY <1>1, <1>3 DEF DecoratorType, LoopControl, Done
<1>5. ASSUME Faithful PROVE Faithful'
    <2>1. ASSUME NEW p \in Paths, p = path PROVE FaithfulItem(p)'
        <3>1. Cached(p)' = {} /\ \A i \in Ifaces : objectCache'[p][i] # Default
            BY <1>3, <2>1, ContentsFacts DEF Cached
        <3>2. ~present[p] /\ \A i \in Ifaces : held[p][i] = Blank
            BY <1>1, <1>5, <2>1 DEF Faithful, FaithfulItem
        <3> QED BY <1>1, <2>1, <3>1, <3>2 DEF FaithfulItem, Done
    <2>2. ASSUME NEW q \in Paths, q # path PROVE FaithfulItem(q)'
        BY <1>1, <1>3, <1>5, <2>2, Frame DEF Untouched, Quiet, Faithful, Done
    <2> QED BY <2>1, <2>2 DEF Faithful
<1> QED BY <1>4, <1>5 DEF Control

LEMMA ContinueStep ==
    ASSUME Control, NEW out, Continue(out)
    PROVE  Control' /\ (~Faults /\ Faithful => Faithful')
BY PublishStep, AnnounceStep, WithdrawStep, RetractStep, ForgetStep DEF Continue

------------------------------------------------------------------------------
(* The specification of a caller that makes any call.                      *)

LEMMA InitControl == DecoratorInit => Control /\ Faithful
<1> SUFFICES ASSUME DecoratorInit PROVE Control /\ Faithful
    OBVIOUS
<1>1. \A p \in Paths : Cached(p) = {}
    BY DEF DecoratorInit, Construct, Empty, Cached
<1>2. DecoratorType
    BY DEF DecoratorInit, Construct, Empty, DecoratorType
<1>3. LoopControl
    BY DEF DecoratorInit, Construct, LoopControl
<1>4. ASSUME NEW p \in Paths PROVE FaithfulItem(p)
    BY <1>1, MarkersAssumption DEF DecoratorInit, Construct, Empty, FaithfulItem, Ifaces
<1> QED BY <1>2, <1>3, <1>4 DEF Control, Faithful

LEMMA ClientStep ==
    ASSUME Control, [ClientNext]_decoratorVars
    PROVE  Control' /\ (~Faults /\ Faithful => Faithful')
<1>1. ASSUME NEW p \in Paths, NEW out \in Outcomes, Call(p, out)
      PROVE  Control' /\ (~Faults /\ Faithful => Faithful')
    <2>1. running = "none"
        BY <1>1 DEF Call
    <2>2. ASSUME NEW i \in Ifaces, NEW iface \in Contents(i), Add(p, i, iface, out)
          PROVE  Control' /\ (~Faults /\ Faithful => Faithful')
        BY <2>1, <2>2, AddStep
    <2>3. ASSUME NEW i \in Ifaces, NEW iface \in {objectCache[p][i], Default},
                 iface # NoEntry, Remove(p, i, iface, out)
          PROVE  Control' /\ (~Faults /\ Faithful => Faithful')
        <3>1. iface \in Contents(i) \cup {Default}
            BY <2>3 DEF Control, DecoratorType
        <3> QED BY <2>1, <2>3, <3>1, RemoveStep
    <2> QED BY <1>1, <2>1, <2>2, <2>3, MarkStep DEF Call
<1>2. CASE UNCHANGED decoratorVars
    <2>1. DecoratorType' /\ LoopControl'
        BY <1>2, SameCache DEF Control, DecoratorType, LoopControl
    <2>2. Faithful => Faithful'
        BY <1>2, SameCache DEF Faithful, FaithfulItem, Quiet
    <2> QED BY <2>1, <2>2 DEF Control
<1> QED BY <1>1, <1>2, ContinueStep DEF ClientNext

LEMMA PlatformStep ==
    ASSUME Control, [PlatformNext]_decoratorVars
    PROVE  Control'
<1>1. CASE [ClientNext]_decoratorVars
    BY <1>1, ClientStep
<1>2. ASSUME NEW out \in Outcomes, NEW p \in Paths, RemoveForgotten(p, out)
      PROVE  Control'
    BY <1>2, RemoveStep DEF RemoveForgotten
<1>3. CASE Construct' /\ UNCHANGED inventory
    <2>1. /\ running' = "none" /\ todo' = {} /\ UNCHANGED <<present, held>>
          /\ presentCache' = [p \in Paths |-> NoEntry] /\ objectCache' = Empty
        BY <1>3 DEF Construct
    <2> QED BY <2>1 DEF Control, DecoratorType, LoopControl, Empty
<1> QED BY <1>1, <1>2, <1>3 DEF PlatformNext

(* The caller of ClientSpec is a platform that is never restarted.         *)
LEMMA ClientIsPlatform == ClientSpec => PlatformSpec
<1>1. [ClientNext]_decoratorVars => [PlatformNext]_decoratorVars
    BY DEF PlatformNext
<1> QED BY <1>1, PTL DEF ClientSpec, PlatformSpec

THEOREM ControlHolds == PlatformSpec => []Control
<1>1. DecoratorInit => Control
    BY InitControl
<1>2. Control /\ [PlatformNext]_decoratorVars => Control'
    BY PlatformStep
<1> QED BY <1>1, <1>2, PTL DEF PlatformSpec

THEOREM FaithfulHolds ==
    ASSUME ~Faults PROVE ClientSpec => [](Control /\ Faithful)
<1>1. DecoratorInit => Control /\ Faithful
    BY InitControl
<1>2. (Control /\ Faithful) /\ [ClientNext]_decoratorVars => (Control /\ Faithful)'
    BY ClientStep
<1> QED BY <1>1, <1>2, PTL DEF ClientSpec

(* DecoratorType, for any items and serial numbers, calls failing or not,  *)
(* and through restarts.                                                   *)
THEOREM DecoratorTypeCorrect == PlatformSpec => []DecoratorType
<1>1. Control => DecoratorType
    BY DEF Control
<1> QED BY <1>1, ControlHolds, PTL

(* AnnouncedWhole: an item becomes present only once everything that is    *)
(* cached of it is published, also when calls fail and when a process      *)
(* stops in the middle of it.                                              *)
THEOREM AnnouncedWholeHolds == PlatformSpec => AnnouncedWhole
<1>1. Control /\ [PlatformNext]_decoratorVars =>
          [\A p \in Paths : (~present[p] /\ present'[p]) =>
              /\ Cached(p) # {}
              /\ \A i \in Cached(p) : held[p][i] = objectCache[p][i]]_decoratorVars
    <2> SUFFICES ASSUME Control, PlatformNext, NEW p \in Paths, ~present[p], present'[p]
                 PROVE  /\ Cached(p) # {}
                        /\ \A i \in Cached(p) : held[p][i] = objectCache[p][i]
        OBVIOUS
    <2>1. PICK out : Announce(out) \/ Withdraw(out)
        BY DEF PlatformNext, RemoveForgotten, ClientNext, Call, Add, Remove, MarkPresent,
               MarkAbsent, Continue, PublishInterface, RetractInterface, Forget
    <2>2. ~Withdraw(out)
        BY DEF Withdraw, InventoryMark, Control, DecoratorType
    <2>3. running = "publish" /\ todo = {} /\ path = p
        BY <2>1, <2>2 DEF Announce, InventoryMark, Control, DecoratorType
    <2> QED BY <2>3 DEF Control, LoopControl
<1> QED BY <1>1, ControlHolds, PTL DEF PlatformSpec, AnnouncedWhole

(* PresentMirrorsCache: what was last added to an item that is marked      *)
(* present is what the inventory holds, unless calls fail.                 *)
THEOREM PresentMirrorsCacheHolds ==
    ASSUME ~Faults PROVE ClientSpec => []PresentMirrorsCache
<1>1. Faithful => PresentMirrorsCache
    BY DEF Faithful, FaithfulItem, Quiet, PresentMirrorsCache
<1> QED BY <1>1, FaithfulHolds, PTL

(* AbsentIsBlank: an item that is not marked present has no contents in    *)
(* the inventory, unless calls fail.                                       *)
THEOREM AbsentIsBlankHolds == ClientSpec => []AbsentIsBlank
<1>1. CASE Faults
    <2>1. AbsentIsBlank
        BY <1>1 DEF AbsentIsBlank
    <2> QED BY <2>1, PTL
<1>2. CASE ~Faults
    <2>1. Faithful => AbsentIsBlank
        BY DEF Faithful, FaithfulItem, Quiet, AbsentIsBlank
    <2> QED BY <1>2, <2>1, FaithfulHolds, PTL
<1> QED BY <1>1, <1>2

(* DefaultNeverPublished: `addProperties.value()' does not throw, unless   *)
(* calls fail.                                                             *)
THEOREM DefaultNeverPublishedHolds == ClientSpec => []DefaultNeverPublished
<1>1. CASE Faults
    <2>1. DefaultNeverPublished
        BY <1>1 DEF DefaultNeverPublished
    <2> QED BY <2>1, PTL
<1>2. CASE ~Faults
    <2>1. Control /\ Faithful => DefaultNeverPublished
        BY DEF Control, LoopControl, Faithful, FaithfulItem, DefaultNeverPublished
    <2> QED BY <1>2, <2>1, FaithfulHolds, PTL
<1> QED BY <1>1, <1>2
==============================================================================
