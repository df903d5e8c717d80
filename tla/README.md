# Verification of platform-fru-detect

`platform-fru-detect` is a single-threaded OpenBMC daemon that finds the NVMe
drives of IBM's Power10 systems (Rainier, Everest, Bonnell), follows them as
they are plugged and unplugged, and keeps the D-Bus inventory of the BMC in step.
This directory holds TLA+ models of it, the TLC configurations that check them
on small systems, and TLAPS proofs for systems of every size. Source paths
below are relative to `src/src/`; `PROJECT.json` maps each definition to its lines.

## 1. The system

### Components, their state and operations

| component | state it keeps | operations |
|---|---|---|
| `Notifier` (`notify.cpp`) | epoll descriptor and its interest list, signalfd | `add`, `remove`, `run`: one event per `epoll_wait`, the sink's `notify()` called and its exceptions caught, the sink disabled when it throws |
| `Connector<T>`, `PolledConnector<T>`, `PolledDevicePresence<T>` (`platform.hpp`) | `state` (uninitialised, populated, depopulated), the `device` object, the `poller` and its `timerfd` | `populate`, `depopulate`, `start`, `stop`, `notify` |
| Everest and Bonnell backplanes (`platforms/everest`, `platforms/bonnell`) | one polled connector per backplane, in it one per drive; the expander's sysfs device | `plug`, `unplug(notifier, mode)` of backplane and drive |
| Rainier: Nisqually, Flett, Williwakas (`platforms/rainier`) | one connector per card, each Flett and each Williwakas with a polled connector per drive of the same bays | `plug`, `unplug`; Flett follows a drive's I2C endpoint, Williwakas its presence GPIO |
| `PublishWhenPresentInventoryDecorator` (`inventory/publish-when-present.cpp`) | `objectCache`, `presentCache` | `add`, `remove`, `markPresent`, `markAbsent` |
| `InventoryManager` (`inventory/inventory-manager.cpp`) | none; the D-Bus objects live in another process and outlive this one | `add`, `remove`, `markPresent`, `markAbsent`, `migrate` |
| migrations (`inventory/migrations`) | none | move drive interfaces that old firmware published on slots |
| NVMe devices (`devices/nvme.*`) | `metadata`, `haveEndpoint` | poll, read metadata, `addToInventory`, `removeFromInventory` |
| sysfs I2C (`sysfs/i2c`) | devices in sysfs | `probeDevice`, `removeDevice` (`new_device`, `delete_device`) |
| `main`, `PlatformManager`, environments | the chosen platform and environment | `detectFrus`, exception policy of simics and of hardware |

### How they interact

Everything runs on one thread. `main()` registers a `DBusNotifySink`, lets the
platform plug its connectors, and stays in `Notifier::run()` until SIGINT or
SIGQUIT. A timer per connector calls `PolledConnector::notify()`, which asks the
hardware whether the device is there and populates or depopulates the connector;
that calls `plug()` or `unplug()` of the device, which may arm or disarm the
pollers of connectors below it and makes a sequence of blocking D-Bus calls. So
there is no preemption inside the process. What interleaves is the rest of the
world: drives are pulled, host power (and with it the drives' I2C endpoints) goes
away, the inventory's D-Bus service fails, the process dies, all *between any two
calls of one handler*, and the timers of different connectors fire in any order.

### What is hard

* A handler that throws leaves its connector in the old state, its pollers
  half armed, and the inventory half written. `run()` answers by disabling the
  sink.
* The inventory outlives the process, the connectors do not. A new process must
  repair what an old one left, including bays that were emptied in between: that
  is why an uninitialised connector is constructed only to be unplugged.
* The same `unplug()` withdraws drives while running and must retain them on exit.
* A drive without host power does not answer and must not be taken for removed.
* On Rainier two pollers, neither of which knows of the other, write one item
  through a cache that is empty after a restart.
* epoll holds raw pointers to pollers which handlers destroy.
* The sysfs devices of cards outlive the process and form a tree: deleting a mux
  takes what is behind it along, while pollers of another slot still use it.

Section 7 lists the disagreements with the repository's own docs and tests these
led to; `PROJECT.json` lists every hazard at its line.

### What makes each component correct

* Event loop: until the loop ends, every address epoll holds is an armed poller;
  only exceptions that are meant to escape end the loop; each ready sink, and the
  signal, is served; an orderly exit has closed every timer, but for the pollers
  that an exception has left behind.
* Backplane: between callbacks the inventory of a watched bay is what its
  connector stands for; a D-Bus reader never sees a present drive without its
  description; only a drive's absence withdraws it; exiting changes nothing; a
  bay or backplane that stays in one condition ends up reported so.
* Decorator: nothing is visible of an item that is not marked present; while it
  is, the service holds what was last added; an item is announced whole.
* sysfs I2C and Rainier's cards: a card that is watched can be reached; one that is
  not leaves no device behind; a card that fails costs no other its detection.
* Rainier's drives: both connectors together do for an item what the backplane's
  one connector does.

## 2. The modules

    DriveItem                 what an inventory item promises (abstract)
       ^ refined by, once per bay: DriveBackplane and RainierDrives
    DriveBackplane            Everest's and Bonnell's hot-plug backplane
       ^ EXTENDS              ^ EXTENDS
    MCDriveBackplane       DriveBackplane_proofs

    PublishWhenPresent        the decorator, a client of it, and any platform on it
       ^ EXTENDS              ^ EXTENDS             ^ EXTENDS
    MCPublishWhenPresent   PublishWhenPresent_proofs  RainierDrives   decorator + Flett + Williwakas
                                                    ^ EXTENDS
                                                 MCRainierDrives, RainierDrives_proofs
                                                                     ^ EXTENDS
                                                                  RainierItems_proofs

    SysfsI2C                  devices in sysfs, and SysfsI2CBus
       ^ EXTENDS
    RainierCards              Nisqually, its slots, muxes and cards
       ^ EXTENDS
    RainierCards_proofs

    Migrations                the inventory's migrations at the start
       ^ EXTENDS
    Migrations_proofs

    PollerLife                what the loop promises a poller (abstract)
       ^ refined by, once per poller
    Notifier                  the event loop, checked directly
       ^ EXTENDS
    Notifier_proofs

**DriveItem** is the contract with D-Bus consumers: `Describe`, `Announce`
(only a completely described drive), `Withdraw`, `Erase` (only a withdrawn one).

**DriveBackplane** models one backplane and its bays, the hardware under it and
the inventory over it. `at` is the next call of the running handler, and each
call that is visible outside (a D-Bus method, a timer, a sysfs write) is a step,
so the environment and a crash come between any two.

| action | code |
|---|---|
| `Boot`, `Exit` | `detectFrus()` of the platform up to and after `notifier.run()` |
| `PlugBackplane`, `StartDrive`, `BackplanePlugged` | `Connector::populate` of the backplane: `ctor`, the expander's `probeDevice`, one `start()` per bay |
| `UnplugBackplane`, `StopDrive`, `DrivesStopped`, `Release` | `Connector::depopulate`: `stop()` and `depopulate()` of each bay, removal of the expander (Everest only, `ReleasesChip`) |
| `NotifyDrive`, `PollFails` | `PolledConnector::notify` of a bay; `NVMeDrivePresence::poll` with `haveEndpoint` |
| `Fetch`, `AddI2C`, `AddVINI`, `MarkPresent` | `plug()` of a drive |
| `MarkAbsent`, `RemoveVINI`, `RemoveI2C` | `unplug(UNPLUG_REMOVES_INVENTORY)` of a drive |
| `CallFails`, `Unwind` | an exception, up to the catch clauses of `Notifier::run` |
| `Crash` | any end of the process that runs no cleanup |
| `Insert`, `Pull`, `SwitchHost`, `SwapBackplane` | the world |

A D-Bus call that fails may have taken effect or not: both are modelled (the
failing disjunct of each call, and `CallFails`).

**PublishWhenPresent** models the decorator's four operations over its two
caches. An operation that makes several D-Bus calls runs as a loop, one call per
step (`PublishInterface`, `Announce`, `Withdraw`, `RetractInterface`, `Forget`),
and gives its outcome to the caller: `ok`, `noSuchItem`, or `badAccess` for the
`std::bad_optional_access` of publishing an interface made without contents
(`Default`). `ClientSpec` composes it with a caller that makes calls in any order, like the
tests: it adds anything, marks at any time, and removes what the cache holds or an interface
without contents. `PlatformSpec` is what the connectors of a platform do with it: they
also remove an interface that `markAbsent()` has dropped from the cache since they added
it, and the process ends at any point and starts again. What neither does is to remove
one drive's interface while another's is cached.

**RainierDrives** implements `PlatformSpec`: it composes the decorator with both connectors of each bay:
`DetectFlettCards` and `DetectWilliwakasCard` are `Nisqually::plug` (a card is
missing, is there, or does not bind), `NotifyWilliwakas` and `NotifyFlett` the
pollers, `Invoke` the decorator operation a handler calls, `Respond` what the
handler does with its outcome: `unplug()` swallows `NoSuchInventoryItem`, `plug()`
lets it through. `Stop` is exit and crash alike, because the exit makes no
inventory call in this part.

**SysfsI2C** is the tree of I2C devices: a device is the path of numbers that
leads to it, so deleting a mux (`Tree`) deletes what is behind it. `RequireDevice`
takes a device that exists as it is; `ReleaseDevice` may find nothing, delete, or be
refused by the kernel, of which the code only logs a warning (`refused` remembers it
for the properties).

**RainierCards** composes it with the cards of both board revisions. `todo` holds the
parts that the running loop has still to visit and `step` is where it is with the first.

| action | code |
|---|---|
| `Start` | `main` up to `ingraham.plug()`; each process has connectors of its own |
| `Require`, `Plugged`, `Rejected` | `Connector::populate` of a card, or a slot mux's turn in `Nisqually1z::plug`: `requireDevice`, and `probeDevice`'s look at the driver link |
| `StopPollers`, `Release` | `unplug()` of a card: pollers and drives first, its device last |
| `AlreadyDepopulated` | the early return of `Connector::depopulate` |
| `Run`, `Leave`, `Exit` | `notifier.run()` and the two ends of the exit |
| `Poll` | a Flett's drives come and go (what `RainierDrives` has in detail) |
| `Crash` | a kill, or an exception that nothing names |
| `PowerCycle` | cards are fitted, taken out or replaced while the chassis is off |

A card is missing when the inventory does not report it, and also when asking fails:
`isPresent()` and `isModel()` answer false then (`MayBeMissing`).

**PollerLife** is the contract between the loop and one `PolledConnector`: its callback runs only while the
poller is registered and its timer has expired since the last time, only that callback
disarms it while it is made, and it is destroyed only when its callback does not run and it is
disarmed. It holds until the loop ends: on exit the code may destroy pollers that are registered.
`NotifyDrive`, `NotifyFlett` and `NotifyWilliwakas` assume of the loop what it says about being called: they
are enabled for registered pollers only.

**Notifier** models `add`, `remove`, `run` and `main()`'s end, with the pollers that the
platforms give the loop. Two choices are made in `Init`: whether `main()` catches
(`simics`), and whether the platform is Everest or Bonnell (`hotplug`), where `Root` is
the poller of the backplane and all others are `Nested` in the device that the backplane's
connector constructs, or a Rainier, which starts all of its pollers before the loop. It corresponds to
the code as follows.

| in the model | in the code |
|---|---|
| `timer`, `interest`, `engaged` | `PolledDevicePresence::timerfd`, epoll's interest list, `PolledConnector::poller` |
| `connector`, `Populate`, `Populated`, `Depopulate`, `Depopulated` | `Connector` of the backplane, with the calls of `plug()` and `unplug()` in between as steps |
| `handler` | the `plug()` or `unplug()` that runs, or what `add()` or `remove()` has thrown out of it (`Throw`) |
| `Populate` and `Depopulate` taking `Nested` out of `engaged` | `ctor()`, which destroys the pollers of the device it replaces without a `remove()` or a `close()` |
| `ready`, `readable` | the ready list of the epoll descriptor, and which descriptors have something to read |
| `Report`, `Drop` | `epoll_wait`, asked for one event at a time |
| `Escape`, `Disable` | no catch clause applies; a catch clause of `run()` removes the sink |
| `CleanedUp` | the end of `detectFrus()`, where the platform is destroyed |
| `abandoned` | a history variable: pollers of a `plug()` that threw half way, or of a platform that an exception has destroyed |

The ready list is lazy, as Linux's is: a level-triggered descriptor goes to its end when it
is reported, before the callback has drained it, and is dropped only when `epoll_wait` comes
to it and finds nothing to read. One that becomes readable again during its own callback, because
that took longer than the timer's second, therefore has its place ahead of those that became ready meanwhile.

After a nested `start()` has thrown, the backplane's connector is uninitialised or
depopulated while some of its pollers are in epoll. Its own poller is disabled by then, so they
stay there, and are called, until the loop ends. On exit `Connector::depopulate` either
replaces their device or returns early; in both cases they are destroyed without leaving
epoll. The model has both, and what it says of pollers is limited accordingly:
`RegisteredIsArmed` and `PollersKeepPromise` to the time until the loop ends,
`ExitReleasesAll` to pollers that are not `abandoned`.

**Migrations** models `InventoryManager::migrate` with the two migrations that
Rainier and Everest apply before they plug anything. `GetManagedObjects` takes the
snapshot; `Apply`, `Skip` and `ApplyFails` are one migration of one object; `next`
and `migration` are the two loops. A `Notify` call that fails ends the process,
because `NoSuchInventoryItem` is not an exception that `migrate` catches; so does a
failing `GetManagedObjects`, which leaves nothing behind and is no step. The drives' own
objects, vpd-manager and an earlier firmware, which may run while the process does
not, write to the same inventory. Its objects are not those of `DriveBackplane` or
`RainierDrives` (slots, not drives), so the modules need no composition beyond
`CleanBeforeRunning`, which is what those modules' `Boot` may rely on.

## 3. The runs

| run | instance | what it shows |
|---|---|---|
| `backplane` | 2 bays, 1 serial, all failures, crashes, restarts, fair | safety of the backplane: types, `NoDanglingSink`, `WatchedDriveMatches`, `ReleasedWithBackplane`, the refinement `ItemsKeepPromise`, `HostPowerNeverUnplugs`, `ExitLeavesInventory`; and convergence: `GoneDriveWithdrawn`, `SeatedDriveAnnounced`, `LostBackplaneWithdrawn`, also after restarts |
| `rainier_cards` | slots 8, 9, 10 and one Williwakas, both boards, all failures and crashes | `WatchedIsReached`, `OnlyUnboundIsSkipped`, `UnwatchedHasNoDevice`, `NothingLeftInSysfs`, `ExitKeepsDescriptions` |
| `gate` | 2 items, 2 serials, `ClientSpec` | `PresentMirrorsCache`, `AbsentIsBlank`, `DefaultNeverPublished` for any history of its calls |
| `rainier_faults` | 1 bay, 2 serials, failures and restarts | the refinement `PlatformSpec`, `WatchedMirrorsCache`, `AnnouncedWhole`, `PowerOffKeepsDescription` |
| `rainier_live` | 1 bay, 2 serials, restarts, fair | the refinement `ItemsKeepPromise` of `DriveItem`, `BothDepopulatedIsBlank`, `GoneDriveErased` |
| `notifier` | the root, 2 pollers, the bus; with and without a backplane, with and without simics; all failures, fair | `RegisteredIsArmed`, `ExitReleasesAll`, `LoopSurvives`, the refinement `PollersKeepPromise` of `PollerLife`, `ServedInOrder`, `ReadyIsServed`, `SignalEnds` |
| `migrations` | 2 NVMe slots around another slot and a drive, failures and crashes | `CleanBeforeRunning`, `OthersUntouched`, `CardVPDSurvives` |
| `rainier_lost`, `rainier_seated`, `rainier_swapped`, `notifier_bus_twice`, `rainier_aliased` | the smallest instance | each a statement of a comment or a test that the code does not keep: section 7 |

Deadlock is checked in every run. `Notifier` has an explicit `Finished` step for
the process that is gone.

### Why the bounds are enough

There are no counters to cap: the state spaces are finite once the sets are.

* *Bays.* Bays interact through the order in which a backplane starts and stops
  them and through a handler on one bay failing while the other is watched, and two
  bays have every such pair. On Rainier bays share only the running handler and the
  decorator, whose items `gate` has two of; one bay is
  enough for its two pollers, and the safety properties are proved for any number.
* *Serials.* Two tell "the right drive" from "a drive": `gate`, `rainier_faults` and
  `rainier_live` have two. The backplane's run has one; its safety properties are
  proved for any number, and its liveness properties speak of a drive being there or not.
  Serials are symmetric, and symmetry is used only in runs without liveness.
* *Slots.* 8 and 9 share a bus and, on a 1z board, the slot mux; 8 and 10 share the
  backplane; 9 and 10 have the same mux address on different buses. Slot 11 adds no
  further relation, and the second and third Williwakas are independent devices; both
  are covered by the proofs.
* *Pollers of the loop.* One that starts and stops others, two of these, so that a
  `plug()` or `unplug()` fails half way and one is ready while the other is stopped, and the
  bus, which cannot be disarmed.
* *Objects.* An object of each kind and two NVMe slots, the first and the last in
  the order of paths, so that a crash falls between any two migrations.
* *Faults.* A failure may happen at each call, any number of times.

## 4. Fairness

The handlers are sequential code: once entered, each call returns or throws, so
`Handler` (or `Fetch \/ CallInventory`) is weakly fair. A poller's timer expires
every second for ever, but its `Notify` step is disabled while another handler runs,
so its step needs strong fairness; the steps that must happen are those in which
the poll succeeds, a poll that fails is owed to nobody. What justifies it is the loop:
in `Notifier`, under weak fairness of the process's own steps only, which are sequential code that blocks
in nothing but `epoll_wait`, `ReadyIsServed` shows
that each descriptor that becomes readable is served, unless taken out, however busy
the others are. Its safety half, `ServedInOrder`, is proved for any number of pollers: nobody gets ahead of
a descriptor while it waits, whoever is served before it was ahead of it and is behind it
then, so each other one at most once. A signal ends the process by the same order (`SignalEnds`). Nothing is assumed of the environment: hardware may change for ever,
crashes may repeat for ever, and `Boot` is not fair. The liveness properties
therefore have the form "if the drive stays away *and the bay stays watched* then in
the end ...": a process that keeps crashing, or a sink that `run()` has disabled,
does not satisfy the premise. `LostBackplaneWithdrawn` makes one more exception, `Abandoned`:
a drive whose `plug()` threw after it had published something. Its connector counts as
depopulated, so unplugging the backplane passes it by and what was published stays. A disabled sink is how the code reports a drive it cannot
read, and no property claims that it recovers.

## 5. What is proved

Seven modules hold proofs. Each assumes what the module it is about declares of its
constants and nothing more: names that are no serial numbers or descriptors, Boolean
flags, natural numbers of bays and objects, slots within 8..11.

| module | for every | theorems |
|---|---|---|
| `DriveBackplane_proofs` | number of bays, set of serials, `ReleasesChip`, `Faults` | `TypeCorrect`, `NoDanglingSinkHolds`, `WatchedDriveMatchesHolds`, `ReleasedWithBackplaneHolds`, `ExitLeavesInventoryHolds`, `HostPowerNeverUnplugsHolds`, `ImplementsDriveItem`: every bay implements `DriveItem`, and `PresentIsDescribed`: no reader sees a present drive without its description |
| `PublishWhenPresent_proofs` | set of items and of serials | `DecoratorTypeCorrect`, `AnnouncedWholeHolds` for `PlatformSpec`, so with restarts and failing calls; for `ClientSpec` when no call fails `PresentMirrorsCacheHolds`, `AbsentIsBlankHolds`, `DefaultNeverPublishedHolds` |
| `RainierDrives_proofs` | number of bays and set of serials, with and without failing calls and restarts | `DrivesTypeCorrect`, `WatchedMirrorsCacheHolds`, `PowerOffKeepsDescriptionHolds` (failing calls too); when no call fails `BothDepopulatedIsBlankHolds`, `AnnouncedIsDescribedHolds` |
| `RainierItems_proofs` | number of bays and set of serials | `UsesDecoratorAsPlatform` and with it `DrivesAnnouncedWhole` (failing calls and restarts too); when no call fails `DrivesKeepPromise`; in one life of the process besides `PresentIsDescribed`, `LostDriveIsAbsentHolds` |
| `RainierCards_proofs` | set of slots and of backplanes, with and without failures | `CardsTypeCorrect`, `WatchedIsReachedHolds`, `OnlyUnboundIsSkippedHolds`, `UnwatchedHasNoDeviceHolds`, `NothingLeftInSysfsHolds`, `ExitKeepsDescriptionsHolds` |
| `Notifier_proofs` | set of pollers and of failures | `NotifierTypeCorrect`, `RegisteredIsArmedHolds`, `LoopSurvivesHolds`, `ExitReleasesAllHolds`, `ImplementsPollerLife`, `ServedInOrderHolds` |
| `Migrations_proofs` | number of objects and choice of slots | `MigrationsTypeCorrect`, `CleanBeforeRunningHolds`, `OthersUntouchedHolds`, `CardVPDSurvivesHolds` |

### The backplane

*The inductive invariant.* None of the invariants is inductive as it stands.
`Inductive == TypeOK /\ Control /\ Pollers /\ Contents`:

* `Control` says which sink and bay each program point belongs to. A drive's `plug()`
  runs only under its own sink, its `unplug()` under its own or the backplane's.
* `Pollers` carries `NoDanglingSink`. The hard case is `PlugBackplane`: the
  new device replaces the old one, whose pollers are destroyed without being
  removed from epoll. It is safe because a watched, unpopulated backplane has no
  poller left, which holds because a `plug()` that throws half way costs the
  backplane its own sink (`Unwind`). A walk of `unplug()` leaves pollers only in
  the bays still ahead of it.
* `Contents` carries `WatchedDriveMatches`: every watched bay is `Busy`, the
  one the running handler works on, or `Matches` its connector; and for the busy
  bay, what has been written so far at each program point. Its `haveEndpoint`
  conjunct gives `HostPowerNeverUnplugs`: a plugged drive's endpoint has been
  observed, so that only the GPIO can unplug it.

The proof that a step keeps `Inductive` has one lemma per group of actions and one step per
action. The step of `ItemsKeepPromise` follows from `Inductive` in the state before:
`MarkPresent` finds both interfaces filled in, `RemoveVINI` and `RemoveI2C` find the
item withdrawn.

### The migrations

The strengthening is `Progress`: of each slot that
still describes a drive, the snapshot says so too, and the migration is not yet
behind. The first half holds because only an earlier firmware writes such
descriptions, and it does not run at the same time.

### The decorator

`LoopControl` says what each point of the two loops knows of the path it runs for:
which mark it has, and that an interface is in `todo` only if it is cached.
`FaithfulItem`, stated per item, carries the rest when no call fails: outside a loop the service holds what
is cached of a present item and nothing of another one; inside, an interface that
`todo` no longer has is already right. Every operation touches one item, so a
`Frame` lemma keeps the others and the step lemmas (`AddStep`, `RemoveStep`,
`MarkStep`, `ContinueStep`) look at one. `AnnouncedWhole` needs only `LoopControl` and what the
publishing loop has done so far, which is why it survives failing calls and restarts, and why
it is proved of `PlatformSpec`. `PresentMirrorsCache` and the other two do not survive
a restart: the caches are empty then, and the inventory is not.

### Rainier's drives

The decorator's `FaithfulItem` does not survive here: after a restart the caches are
empty and the inventory is not. What remains is said of each bay, by `Bay(d)`:

* `Marked`: the item is marked present exactly while Williwakas' connector is populated,
  but for the handler that is changing one of the two. Before the pollers of
  Williwakas are registered no item is marked, whatever Flett has cached.
* `Mirrored` carries `WatchedMirrorsCache`. The hard case is a drive that Flett adds
  while the item is present: the first interface may be in the inventory while the second is
  not, and a failure in between leaves them so. It costs Flett its poller, which is
  why only bays with both pollers are mirrored.
* `Emptied` carries `BothDepopulatedIsBlank` when no call fails. A depopulated Flett
  connector has removed both interfaces, at once or, of a present item, by caching
  them for `markAbsent()`; `Cleared` says which of the two holds for an interface, and
  what the inventory has that is not cached was erased by this process.
* `Whole` carries `AnnouncedIsDescribed` when no call fails: the cache of an item has
  both interfaces or none, except between the two calls of one handler, and Williwakas
  cannot run between them.

`Tasking` ties the call that is due to the task and to the decorator's loop. The
`...Facts` lemmas say what each operation of the decorator does to its item, `BayFrame`
keeps the other bays, and `Assemble` puts a call's answer together; the `...Case` lemmas, one per call
or loop, are left with the one bay at which something happens.

### Rainier's items

Two refinements, one to the layer below and one to the reader above.

Below, `UsesDecoratorAsPlatform` shows that each step of the connectors is one that
`PlatformSpec` allows. It is not immediate, because `Remove` overwrites what is cached:
`Owned` says that what Flett removes of a drive is what it has added of it, or the cache has
dropped it since. What is proved once of the decorator then holds of Rainier
(`DrivesAnnouncedWhole`).

Above, `DrivesKeepPromise` shows that each D-Bus call leaves the item of a bay as
`DriveItem` allows, which two connectors that do not know of each other must
bring about together: no drive is announced in part, and none is erased before it is
withdrawn. `Retracting` says that `markAbsent()` blanks only what it has withdrawn. The
theorem assumes that no call fails, and `ItemsKeepPromise` has one exception,
`InheritedErased`: after a restart the decorator does not know that an item is present,
so that Flett's `remove()` blanks it at once; nor is it withdrawn later, which is what
`rainier_lost` shows.

That it takes a restart or a failing call is the other side of that finding: `Hidden` says that in
one life of the process without failing calls an item is present in the inventory only
while it is marked so here and something is cached of it. Then `InheritedErased` is empty, a present
drive is described at every moment (`PresentIsDescribed`), and no bay that both connectors take for
empty is present (`LostDriveIsAbsentHolds`). Everest and Bonnell need neither restriction
(`ImplementsDriveItem`, and `PresentIsDescribed` in `DriveBackplane_proofs`).

### Rainier's cards

`WatchedIsReached` is not inductive, because releasing one card's device could delete
another's. `CardApart` shows from the tables of buses, channels and addresses that a
card's device is no other part's and has none behind it, so only a slot mux could take
others along, and `MuxesLast` that the exit comes to a slot mux when no card
is left in `todo`. `Progress` ties `armed` to `todo`, `HalfWay` says what is true of a part
between two steps, and `Leftovers` what the loops leave behind them: the device of a
part that has been visited and is not watched is gone or was refused, which gives
`UnwatchedHasNoDevice` for detection and `NothingLeftInSysfs` for the exit.

### The event loop

`Inductive` has one conjunct for each thing that the steps rely on.

* `Registration`: a poller that is registered has an open timer, and the sink of a running
  callback is still registered: that is why `remove()` inside the catch clauses cannot throw.
* `HalfPlugged`: the pollers of a backplane whose connector is not populated are those
  of a `plug()` that runs, or that has thrown, and then `Root` is not in the loop any more and
  they are abandoned. `CtorDestroysNone` follows: before the loop ends, `ctor()`
  never destroys a registered poller. So does what the exit may leave behind.
* `Unremovable`: a poller that epoll would refuse to remove is one whose `start()`
  threw, under a connector that is not populated, where `stop()` does not come (`StopRemoves`).
* `Release`: a poller that is not engaged has left neither a timer nor a registration, unless it is
  abandoned and the loop has ended.
* `Handlers`: whose `plug()` or `unplug()` may run or have thrown, and on what state of the connector.
* `ReadyList`: epoll's ready list holds registered descriptors, each once, and all that are readable.

`RegisteredIsArmedHolds` and `ExitReleasesAllHolds` are consequences; `LoopSurvivesHolds` and
`ImplementsPollerLife` go through the disjuncts of `Next` with it. An expiry that epoll
has noted does not reach a poller that has been stopped, because `Removed` takes it off the list.

`OrderStep` shows `ServedInOrder`. An append puts a descriptor behind those that wait,
a removal keeps the order of the rest (`AheadAppend`, `AheadTail`, `AheadWithout`), and a report
moves to the end a descriptor that was ahead of every other (`AheadRequeue`). The ready
list may hold descriptors that have been drained, so the theorem is about those that
are readable before and after a step.

### Only model-checked

Liveness under fairness, which is out of the prover's reach: the temporal properties
of the runs `backplane`, `notifier` and `rainier_live` that section 4 is about. Every safety
property of a passing run, invariant or action property, has a theorem.

## 6. What is abstracted, and what is not modelled

* Inventory paths, I2C mux channel maps and metadata layout are data: a bay is a
  number, a drive its serial number. `I2CDevice` holds a bus and an address, which
  depend on the bay alone, so a Boolean (or `Located`) stands for it.
* A bus with several backplanes: each of Everest's and Bonnell's has connectors,
  pollers, expander and items of its own, and they share only the loop, which
  `Notifier` models. One of them is modelled.
* Rainier's cards and their drives are two modules. `RainierDrives` takes one Flett
  and its Williwakas through detection and follows every call on a drive's item;
  `RainierCards` has all cards and their devices, and one Boolean per backplane for
  what is published of its drives. The maps between mux channel and drive of a
  Flett are data of a bay.
* Which of GPIO and endpoint is read first within one poll makes no difference that
  the environment could see; a poll is one step.
* The model of the system and simics or hardware do not change while it is
  there: a board and an exception policy are chosen in `Init`, and the lookup of the one
  (`PlatformManager`) and the probe of the other are not modelled. A VINI interface without its RT or
  CC keyword, on which `viniData.at()` throws, is not modelled: the inventory
  service publishes all keywords of the interface. The sysfs path lookups, SMBus and
  file descriptor wrappers keep no state; their failures are the failures of the
  calls that use them.
* The properties-changed listeners have no caller in this repository.

## 7. Disagreements found

* `rainier_lost`, `LostDriveIsAbsent`. The comment in `Connector::depopulate`
  promises that a device removed while the power was out is removed from the
  inventory. On Rainier the new process has nothing cached for the bay, so
  `markAbsent()` is a no-op and `Present` stays true from the earlier life. (Its
  description *is* erased: `BothDepopulatedIsBlank`.) It takes a restart or a failing
  call: without either, `LostDriveIsAbsentHolds`.
* `rainier_seated`, `SeatedDriveIsPresent`. If the presence GPIO is seen
  before the endpoint answers, `markPresent()` has nothing to publish and returns
  without calling the inventory; the `add()` that follows never does. The drive is
  described and not present.
* `rainier_swapped`, `BothPopulatedIsDescribed`. A pull and re-insert seen by
  Williwakas and not by Flett erases the cache; Flett stays populated and
  describes the drive no more.
* `rainier_aliased`, `EmptySlotErasesNothing`. Slots 8 and 10 share an index, hence
  the inventory paths of their drives. Detection takes the empty one of the two for
  a Flett that was removed, and erases the descriptions of the drives behind
  the other one; while the host is off nothing publishes them again. (`RainierCards`
  abstracts from the presence that Williwakas publishes; the erased part is what
  Flett publishes.)
* `notifier_bus_twice`, `RemovedAgainIsSkipped`. A bus sink that `run()` has
  disabled is removed again at the end of `main()`; unlike a poller it has no
  disarmed state, `EPOLL_CTL_DEL` fails and the process terminates.

## 8. Plan

Done: the event loop, the connectors, the backplanes of Everest and Bonnell, Rainier's
cards and drives, the decorator, the migrations, and the proofs of section 5. What
would add most next:

1. A bus with several backplanes on one loop: `DriveBackplane` and `RainierDrives` over `PollerLife`,
   so that what they assume of the loop is what `ImplementsPollerLife` proves of it.
2. The exit of Rainier in `RainierDrives`, with `WilliwakasNVMeDrive::unplug`
   through a full decorator.
