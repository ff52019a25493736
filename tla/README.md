# lait in TLA+

A verification project for `lait`, a local-first tracker in which every device
keeps a replica of each Space it takes part in. It holds TLA+ modules
translated from the Rust sources, TLC configurations that check them on small
instances, and TLAPS proofs for every instance. `PROJECT.json` lists the
components, runs, mutants, findings, hazards and theorems, and maps every
definition to the source lines it stands for. Paths below are relative to the
repository.

## 1. The system

A *daemon* (one process per identity) serves local clients over a control
socket. For every Space there is a local *Orbit*: a directory with durable
stores. A *Station* is the runtime activated in an Orbit; it holds the Orbit's
store lock and takes part in the Space over a transport shared by all Stations
of the identity.

| Component | State | Operations | Interacts with | What is hard |
|---|---|---|---|---|
| journal, pack log (`crates/journal/src/pack.rs`, `medium.rs`) | slots of records; the open pack's table, seal chain, graveyard; views | open/recover, commit, compact, view | every durable store is one | torn writes, reordered blocks, failed flushes, readers across compactions |
| journal, migration (`retired.rs`, `lib.rs`) | the prior layout's entries beside a pack | migrate, retire, resume, refuse a fork | old binaries, the file system | a crash between any two renames or syncs |
| journal, Store (`lib.rs`) | object classes, leases, owner lock | commit_classified, sweep, pin | pack log, runtime | a pin racing the sweep, handover of the owner lock |
| Orbit router (`src/orbits/router.rs`) | per-Orbit slot with a placement, lifecycle lock | place, vacate, shutdown | StationRunner, control probe, transport hub | single flight, cancellation, deadlines, two locks |
| Station host (`src/orbital/hosting.rs`) | daemon lock, Station, clients | start, serve, stop, drain | router, runtime | clients that outlast a drain |
| transport hub, fan-out, pairing, markers, agents (`src/daemon/`) | endpoints, books, codes | periodic and on request | Stations, peers | shared endpoint lifetime, retries |
| correspondence, post | letters, outboxes | send, deliver, acknowledge | peers | duplicated and lost delivery |
| runtime (`crates/runtime/`) | sessions, publications, attempts, neighbours, generations | dock, submit, publish, execute, converge, rebuild | journal, mechanics, worlds | publication order, attempt leases, convergence |
| mechanics (`crates/mechanics/`) | signed authority ledger, actors, ceremonies | admit, revoke, rotate, DKG | runtime | concurrent authority changes |
| updates (`src/update/`) | channels, consent, staged trees | watch, stage, consent, swap | daemon | partial staging, relaunch |
| register, schedule, directory, address book | records | merge, resolve | products | ties in a merge |
| heads, displays, worlds, apps, receivers | presentation | | | I/O, outside the model |

What makes each correct, in one line: the journal *exposes the complete old or
the complete new state and never loses what it acknowledged*; the migration
*serves the newest history and refuses no store but a forked one*
(which it keeps only where no open was left half done: section 3); the Store *never
sweeps what someone requires, reads or leases*; the router *keeps
one owner per store, answers every request, and stops*; the hub *outlives its
Stations*; an Attempt of a Run *is
entered once, ends, and is chosen once*;
mechanics *draws the same verdict from the same facts in any order*.

## 2. Modules

| Module | Models | Notes |
|---|---|---|
| `PackRecords` | records, seals, chains, verification and election (`pack.rs`) | pure operators over a slot's blocks |
| `Medium` | slots of a medium, flush, failed flush, what a power loss leaves (`medium.rs`, and the file system as an external) | a slot is `vol` (what is read), `disk` (what each block may be after a loss of power), `dirty`, `len`, `name` |
| `PackLog` | `PackStore`: open, commit and its undo, compaction, graveyard, views, interruptions | one action per step between two points at which a crash or an error can fall |
| `DurableStore` | the abstract promise: complete old or complete new | `PackLog` implements it |
| `MCPackLog` | the refinement mapping and `ImplementsStore` | used by the pack runs |
| `PackLogProofs` | theorems about `PackLog`: types, acknowledgement, views | section 5 |
| `PackChainProofs` | its seal chains: what a recovery computes, and that sealed records stay in place | extends `PackLogProofs` |
| `PackReadProofs` | that what a table names is there; the machine stays up | extends `PackChainProofs` |
| `PackPowerProofs` | the same over power losses, and the refinement of `DurableStore` | extends `PackReadProofs` |
| `JournalStore` | `Store`: the two commit doors, Readers, leases, the sweep, the owner lock (`lib.rs`) | over an abstract pack: a commit is one step |
| `JournalStoreProofs` | theorems about `JournalStore` | section 5 |
| `Migration` | `open_native`, `migrate_retired`, `resume_retirement`, `retire` | the pack is one slot seen from the driver |
| `MigrationProofs` | theorems about `Migration` | section 5 |
| `OrbitRouter` | `Router`, `OrbitOccupancy`, `Placement`, `StationRunner`, the daemon's drain | one Orbit |
| `OrbitRouterProofs` | theorems about `OrbitRouter` | section 5 |
| `RunExec` | one durable Run in the Stations that replicate it (`exec.rs`, the Exec part of `session.rs`) | one Run, any number of Stations |
| `RunExecProofs` | theorems about `RunExec` | section 5 |

**PackLog and the code.** `pack` holds the fields of `PackStore`; `wip` the
local variables of `try_commit` or `compact` in flight; `pc` says between which
two effects the process is. A commit is `Commit` (append the objects),
`CommitSeal`, then `CommitFlush`, `CommitFlushFails` (the writer is poisoned) or
before the seal `CommitUndo`/`CommitUndoFails`. `OpenElected` elects and
truncates, `OpenTrimmed` is the flush that follows a truncation (and only a
truncation, as in the code), `OpenFresh`/`OpenFounded` start generation 0. A
compaction is `Compact` (successor slot and header), `CompactCopy`,
`CompactSwap`, or `CompactFails`, which may be the successor's flush that fails and
leaves its pages as a failed sync does. Whatever removes a slot (`Swept`: an open's
sweep, a stillborn migration, an abandoned successor, the graveyard) may fail to where
`RemovalFails`. `Sources` says whether a behaviour may start beside a prior layout whose
migration this pack is to carry (`MigrateCommit`, `RetireSource`, `Stillborn`). An object, a seal or a header is one block;
hashes and checks are modelled by what they tell apart (the salt, the offset,
the predecessor's content), so a stale block never verifies by accident.
`Restart` kills the process and keeps the page cache; `PowerLoss` followed by
`Survive` per slot chooses for each block any of the contents it may have, and
any length.

`Close` and `Restart` forget the store's `views`: no later store knows them, and its
graveyard does not wait for them. In the code they are read on
(`Store::release_owner_lock`), and what they rely on is stated of the slots
(`SealedStays`): a slot that keeps its name keeps every record up to its newest verified
seal, whichever store writes. A slot that is removed keeps its bytes for whoever has it
open, and nobody can open it again to write.

**Migration and the code.** `here`/`kept` are the root's entries now and after a
power loss, `slot` the pack file in the same way. `OldBinary` is a binary of
the prior generation that still writes to the source. `durable` is fixed for a
behaviour and drawn from `Durability`: whether the file system keeps a new name
with the next sync of a file, or only with a sync of the directory.
On the second kind the two halves of a rename may reach the disk apart: a piece is then
`"half"` moved, in place and under `retired/` too, and what retires it again ignores the
error of removing it (`retired.rs:418`). `exposed` is an observer: an open ended (a death,
an error, an ignored removal) leaving something that the next open takes for done.

**JournalStore and the code.** `mem[k]` is the manifest and the pack's table of
the k-th Store opened over the root. Commits take `&mut self`, sweeps and new
Readers `&self`: `Exclusive` is what the borrow checker and the Station's lock
make of it, so a commit waits for the sweep and for a Reader in the making, and
a sweep and Readers run together. `Store::reader` is two steps, because the
root's lease and the pack's view are taken under different mutexes
(`ReaderRoot`, `ReaderView`); the sweep is three (`SweepRoots`: view, manifest
and leased roots; `SweepPins`: leased objects, after the walk; `SweepCompact`).
`ReleaseOwnerLock` and `Open` are the handover at the close of a Station: the
successor opens while the Readers of the old Store live on in the same process.
`CommitRequiredSet` is the release build's: the `debug_assert`s on its added set are no
guards, and a call that breaks them reclassifies objects (`Reclassified`).
`owed` is an observer: which pinned objects were live when they were pinned.

**OrbitRouter and the code.** The slot's tokio mutex is FIFO: `queue[a]`
is who asked for it no later than `a` and has not left, so whoever is alone in its
own set holds the lock; nothing depends on where in the queue the others stand. `req[r]` is where a request stands in
`place_address_with_host`, `get_or_try_place`, `establish` and `start_owned`;
`uses[r]` is the `Arc<StationHost>` it holds afterwards. A host is opening, up,
draining, or *leaked*: its runner has returned because a client outlasted the
drain. `lock` is the per-home daemon lock and `lease` the Orbit's store lock.
`ElsewhereStarts` is another process hosting the Orbit. Shutdown goes through
the drain of the connections, the join of the daemon's own tasks, the lifecycle
guard or its deadline, the snapshot of the placements, their join and the
closing of the endpoints. `faults`, fixed for a behaviour and drawn from
`FaultSets`, is what may go wrong in it; `Calm` names the behaviours with no
spontaneous stop and no expired wait, which is where the promises of the
comments hold in full.

**RunExec and the code.** A Run is a DAG of immutable events in a Body that is
replicated. `history[s]` is what Station `s` has of it, `marker[s]` whether it
has the active marker the scan starts from. The drain decides a duty on one
snapshot (`Decide`, `next_perform_action`), lowers the event on a second
(`Lower`: the predecessors are the heads *then*), and commits it on a third
(`Commit`, without checking that the heads are still those); a Contact, a
cancellation or a choice may fall in between. A completion is first
checked on a snapshot of its own (`Reread`: the Began must still be there) and lowered on
the next. The commit of a Began and the claim of its worker are two steps (`CommitBegin`,
`Claim`), so a cancellation or a death may fall between; a claim that fails leaves the
Attempt without a worker. A Try or a cancellation may also be staged by a World and
submitted (`TryStaged`, `Cancel`), without the checks of the drain.
`Refused` is what
`record_attempt_result` and `release_attempt` make of a duty that could not be lowered
or committed. `worker` and `cancelled` are the claims of this activation and
their cancel flags; `Restart` loses both and keeps the events. Events are named
by Station and number; the hash by which the code orders leases is a rank drawn
when the lease is made, so every order of hashes is explored. `doing`, drawn
from `Scenarios`, is what users, clocks and handlers do in one behaviour.

## 3. Runs

Passing runs:

| Run | Bounds | Shows |
|---|---|---|
| `pack_power` | 2 objects, 2 generations, 4 blocks per slot, power losses; a founded pack with 2 commits and one migrated from a prior layout at sequence 1 with 2 more (`FoundedStopsEarlier`) | a torn birth seal is replaced and the store is never left unopenable, every table entry reads back, the manifest's objects are all there, bookkeeping agrees with a recovery, a published snapshot is durable, `DurableStore` is implemented |
| `pack_restart` | 2 objects, 2 commits, 2 generations, 3 blocks per slot, process deaths over an unflushed page cache, failing removals | an acknowledgement covers what an earlier process left unflushed; views stay readable and stable through commits, undone commits and compactions; what a store sealed stays in place for the views it leaves to read on beside its successor; `DurableStore` is implemented |
| `journal_store` | 2 objects, 2 Readers of which one leases objects, 2 Stores one after the other | every object required, leased through a root, or live when pinned survives each sweep; each Reader finds all its roots reach |
| `migration` | 5 interruptions, process deaths in all seven phases of an open, power losses on both kinds of file system, failing removals, an old binary writing in between | newest history served, only forks and `exposed` stores refused, forks kept, the source ends retired |
| `router` | 3 requests (a connection, the upgrade worker, another task), 3 hosts, three sets of faults | without faults every lifecycle promise; with every expired wait and spontaneous stop, and with clients that outlast the drain, one owner per store, no placement behind the snapshot, every request answered, shutdown ends |
| `exec_perform` | 2 Stations (one starts and chooses, one performs and restarts once), 2 Attempts, 6 events, 3 ranks, four scenarios | no handler entered twice, no Attempt returned twice, at most one choice, no worker of an ended Attempt, histories causally closed, every lease ends, every cancellation is delivered |

Two commits and two generations are the least in which a seal has a
predecessor, a checkpoint (`CheckpointEvery = 2`, 64 in the code) separates two
chains and a compaction has something to retire; a slot of four blocks fits a
header, two objects and two seals in the combinations that matter. One reader
suffices for the invariants about views, which speak of one view at a time; the
proofs cover any number. Three hosts are one more than can be alive together
with two requests. Two Readers are the least in which the release of one can
harm the other, two Stores the least with a handover; the proofs cover any
number. Two Attempts are the least with a retry or a competing lease, six events
the least in which an Attempt is leased, begun, returned, presumed or cancelled,
and chosen; three ranks let a retry's hash fall on either side of the first.
`exec_perform` splits what users do into four scenarios: cancellation at the performer's
own Station with retry, cancellation elsewhere with retry, presumption, each with a child
Start, and a Try staged by a World. It has one performer: two that lease and return take
more events than TLC reaches, and `ChosenOnce` and `ReturnsOnce` prove that case. Only the owner's acceptance is enabled;
a rejection is the same action with another kind. The lengths `MaxLen`, `MaxSeq`, `MaxGen` and `MaxCrashes`
are the only bounds on counters and appear in the guards; `FoundedStopsEarlier`
in `pack_power` is the one state constraint.

Violation runs, each with its finding in `PROJECT.json`:

| Run | Property | Shows |
|---|---|---|
| `pack_reopen_loses` | `AckedSurvives` | an open that truncates nothing flushes nothing. Commit 1 is acknowledged; a process dies between seal 2 and its flush; the reopen adopts seal 2 and seal 3 is appended to it; a power loss keeps seal 3 and loses seal 2. The chain of seal 3 ends in a gap, the pack is founded afresh and commit 1 is gone |
| `migration_empty` | `OnlyForksRefused` | a source that never committed is retired beside an unsealed pack, which the next open takes for a fork |
| `migration_unflushed` | `OnlyForksRefused` | a process dies between the migration's seal and its flush; the resumed retirement syncs the directory and not the slot before it moves the source, and a power loss tears the seal: a store nobody forked is refused |
| `router_upgrade` | `NothingBehindSnapshot` | the World upgrade worker starts a Station behind shutdown's snapshot |
| `exec_marker` | `ClosedRunsLeaveTheScan` | the owner's acceptance tombstones its own marker; the performer's stays, and the closed Run fails the scan of its whole World there |
| `exec_presumed` | `ReturnsAreAcceptable` | a presumption that arrives between Began and Returned becomes the only head: Returned cites it and not Began, and can be neither accepted nor rejected |

The passing runs keep some failure switches off; these settings show why, and
what the comments of the code promise beyond what it does there:

* `Restarts = TRUE` in `PackPower.cfg` violates `PublishedIsDurable`: an open adopts a seal
  that is only in the page cache (the cause of `pack_reopen_loses`).
* `RemovalFails = TRUE` in `PackPower.cfg` violates `PublishedIsDurable`, and then
  `AckedSurvives`: `compact` removes a successor it could not finish with an ignored error;
  one that is left has a whole birth seal no flush made durable, the next open elects it
  (same sequence, younger generation), finds no tail to cut and so flushes nothing, and
  sweeps the durable pack it was copied from.
* `FlushDropsPages = TRUE` with `Restarts = TRUE` violates `AckMeansDurable`: after a failed
  sync that marked pages clean, recovery verifies what the page cache answers. So does
  `FlushDropsPages` with `RemovalFails`: the successor of an abandoned compaction is such a
  slot when its removal fails.
* `EntriesDurable = FALSE` violates `AckedSurvives`: slot names are synced only by the
  migration, so a fresh store's first commits can vanish with the file's name.
* `OnlyForksRefused` in `Migration.cfg` fails in three ways, the ones `exposed` names and
  `OnlyForksFail` excuses. The seal unflushed is `migration_unflushed`. The second: where
  only a directory sync keeps names, the process dies with the last of them moved and not
  synced; the next open finds nothing left to retire and does not sync the directory, a
  commit drops the provenance that would let retirement resume, and a power loss brings a
  piece back. The third: a half-moved piece whose removal fails stays in place behind the
  tombstone, and after a commit the next open refuses it. Without the disjunct of either,
  `OnlyForksFail` fails in the run.
* A fault set of `"idle"`, `"join"` or `"silent"` alone, held to the promises of `Calm`,
  breaks `VacancyIsVacant` and `HubOutlivesStations`: a placement dropped because it is
  dead is joined by nobody, so the Orbit is called vacant, and the endpoints close, while
  its Station still drains.
* `"drain"` breaks `LockCoversStation` in the same way: a client that outlasts the drain
  keeps the Station while the runner returns its daemon lock.

What the models showed without a run of its own, by the states TLC reaches:

* A lease that something other than its Began was built on (a Contact between the two)
  can never be begun: `next_perform_action` finds it not begun each time and commits one
  Began after another until the Run is full. `LeasesEnd` excuses it as `Covered`.
* `can_local_try` asks whether the *latest* Attempt returned, and latest is by hash: after
  a return, an older Attempt of unknown outcome with the greater hash is retried
  (`session.rs`, around 9106).
* Two Stations that lease before they meet can exceed `limits.attempts` when they merge,
  and `Run::project` then refuses the Run everywhere; `limits.events` reserves no place
  for the event that would end an Attempt.
* A child Start that fails after Returned was committed records a failure on the returned
  Attempt, which can then not be accepted.
* An object that is *not* live when it is pinned, after the sweep took its snapshot of the
  leases, can be swept despite its lease; `lib.rs`, around 1578, promises a lease
  unconditionally. `PinnedLiveKept` speaks of live ones. `pin_objects` and the sweep are
  called only by tests at this commit.

Every property of a passing run has a mutant: an operator, next to the
definition it replaces, that a plausible slip in the code would give, under
which TLC finds the property violated.

## 4. Fairness

`PackLog` states none: its properties are safety and refinement. `Migration`
assumes that an open that has begun takes its next step (`WF_vars(Step)`): one
thread runs it to its end unless it is interrupted, and interruptions are
bounded. `OrbitRouter` assumes weak fairness of every task tokio polls: a routed
request, a host that was told to stop, a vacancy and its operation, shutdown.
Work under a host ends (`Done`): a request is bounded work. Nothing is assumed
of clients, of other processes, or of a Station's idleness. `JournalStore`
states none. `RunExec` assumes weak fairness of the drain's steps (it passes
again after every change and on its timer) and strong fairness of a commit,
since the mutation lane may refuse it any finite number of times. A handler is
only assumed to end when it was told of its cancellation; one that nobody
cancels may run for ever, and `LeasesEnd` says so (`Busy`). Contacts, users and
clocks owe nothing.

## 5. Proofs

Every theorem holds for all values of the constants that satisfy the assumptions in
the modules (`RecordsAssumption`, `MediumAssumption`, `PackLogAssumption`,
`StoreAssumption`, `ConstantsAssumption` and the like, each stated where the constants
are declared). Where a theorem has a further hypothesis it is in its `ASSUME`, and the
paragraph below says which run or setting of section 3 shows it to be needed.

### The pack log

Four modules, each extending the one before, for all `Objects`, `Salts`, `Readers`,
`MaxLen`, `MaxSeq`, `MaxGen`.

`PackLogProofs`:

* `TypeCorrect`: `Spec => []TypeOK`;
* `AckDurable`: if a failed sync keeps its pages dirty, or no store is reopened over an
  unflushed page cache and no removal fails, a commit that is acknowledged has every block
  its snapshot covers on the disk;
* `ViewsAreStable`: no step changes, cuts or unlinks a byte a held view can read.

`TypeOK` is not inductive: that a recovered pack is well typed depends on what
the blocks of a slot may be, and that a commit's undo spares a view depends on
where the writer stands. `Inv` adds: every slot is good (`GoodSlot`: its blocks
are records, a seal names the generation of its slot, a block that is not dirty
is on the disk), the writer stands where its phase says (`PhaseInv`: the slot is
named, the published seal is below its end, the undo point is not below the
seal), and a held view is of the current generation or one in the graveyard
(`ViewInv`). There is one lemma per action. The durability of an acknowledgement
comes from `CleanSlot`: a flush cleans *every* dirty block of the slot, the ones
an earlier session left included. Where a failed sync marks its pages clean it is the
poison that keeps this true (`CleanInv`): a writer whose flush failed never flushes again,
and an abandoned successor is removed. Where the hypothesis fails it fails, as section 3
says.

`PackChainProofs` (no hypothesis on the failure switches):

* `LogInvHolds` and `BookkeepingHolds`: the table and the checkpoint distance the
  writer keeps are what `recover_state` would compute from the slot, for a chain of
  any length;
* `SealedInPlace`: `SealedStays`, for any number of stores one after the other.

No induction along the chain is needed, because of how it is defined: `Reach` is the
least set of seals closed under the links, so a closed set bounds it, and `ChainTable`
is a comprehension over it. A seal links below itself (`Backward`, kept by every
write: `ShapeInv`), so two slots that agree up to a seal give it the same chain
(`SameChain`), and a delta appended to a chain adds its own entries and nothing else
(`DeltaTable`). `StandsInv` says the published seal describes the pack in memory,
`EndInv` where the slot ends in each phase, `FlightInv` that the seal in flight
follows the published one, `BirthInv` what a successor under construction holds. For
`SealedInPlace` they need one more, `TailInv`: what a commit has appended and may cut
again holds no seal.

`PackReadProofs` (hypothesis `~PowerCuts`: the machine stays up; processes may die,
stores may be reopened over an unflushed page cache, flushes and removals may fail):

* `TablesRead`, `ManifestsComplete`, `ViewsRead`: what the open pack's table, its
  manifest and every held view name is there and re-hashes.

Recovery re-hashes only the newest delta. `ReadInv` carries readability from one open
to the next and needs, of an open, only that the slot it elects reads in full
(`ElectedGood`). While the page cache survives that is `CacheInv`: *every* seal any slot
shows reads in full, as its objects were appended before it and a cut takes the seals
above it first.

`PackPowerProofs` (hypothesis `Setting`: `~Restarts`, `~RemovalFails`, `EntriesDurable`;
any number of power losses and failed syncs, dropped pages or not):

* `TablesSurvive`, `ManifestsSurvive`, `ViewsSurvive`: the same three after any number
  of recoveries;
* `PublishedDurable`: invariant I2, no published byte can be lost;
* `NeverRefused`: only a store with an authoritative source is ever refused;
* `AckedKept`: no open shows less than was acknowledged;
* `StoreImplemented`: `Spec => ImplementsStore`, the refinement, step by step.

A power loss mixes the old and new content of every unflushed block, so nothing
holds of one block at a time, and `CacheInv` is false. The argument is about one seal,
the *anchor* (`Anchor`): it is durable with all below it and reads in full; every seal
that may appear above it in its slot is one commit on top of it, whose outcome is open;
a younger slot may hold only copies of what it commits; an older slot cannot outrank it
whatever survives there (`Beaten` quantifies over every image a power loss may leave).
`ElectAnchor` shows that an open elects the anchor, that one commit, or the copy, and
that what is elected is an anchor again. `WorldInv` says in which phases there is an
anchor and in which nothing was ever acknowledged (`NoAnchor`); `DeskInv` what the open
pack and the observers agree on; `StoreInv` that a commit in flight is one sequence
after what callers know.

Why `Setting`: without `~Restarts` an open adopts a seal that is only in the page cache
and `AckedSurvives` fails (`pack_reopen_loses`); the theorems fail without
`EntriesDurable` or `~RemovalFails` as section 3 lists. `pack_restart` checks
`ImplementsStore` for `Restarts` and `RemovalFails` without power losses; that half of the
refinement is not proved.

### The migration

`MigrationProofs`, for any number of interruptions, any set of phases in which a
process may die and every kind of medium:

* `MigrationTyped`: `Spec => []TypeOK`, without a hypothesis;
* `AlwaysInAStage`, `LatestIsServed`, `NothingElseRefused`, `ForksAreKept`: under
  `Committed` (the source ever committed; `migration_empty` shows why) and no hypothesis
  on where a process dies or on the file system. `NothingElseRefused` is `OnlyForksFail`:
  a refusal means a fork or one of the three endings `exposed` names.

The properties are not inductive: that an open serves the newest history depends on
which of the source and the pack is authoritative, and no variable says so. The
invariant is that the store is always in one of six stages: the source alone
(`SourceStage`), the seal written and perhaps not durable (`SealStage`), the seal
durable and the source on its way out (`RetireStage`), the seal durable beside a source
an old binary went on with (`ForkStage`), the pack alone (`PackStage`), a store left
exposed whose seal is lost (`LostStage`). Each says what
is here and what a power loss may leave; each action keeps the stage or moves to a
named one.

### The Store

`JournalStoreProofs` proves, for all objects, metadata, caller indexes, any finite
set of Readers, any Pinners and any number of Stores (assumption
`StoreAssumption`):

* `StoreTyped`: `Spec => []TypeOK`;
* `RequirementsAreSound`: what the manifest requires is in one class and in the table
  with the nodes that lead to it;
* `LeasesKeep`: `LeasedRootsKept`, no sweep takes what a leased root reaches;
* `PinsKeep`: `PinnedLiveKept`, nor an object that was live when it was pinned;
* `ReadersAreCoherent`: a Reader's view holds all its roots reach.

None of them is inductive alone, and neither is their conjunction: that
`SweepCompact` spares a Reader's root depends on what the sweep saw two steps
earlier. `Inv` adds that the registries *count* their holders (`RootsCounted`,
`PinsCounted`: so the release of one Reader leaves the root of another above
zero), that a sweep works on the manifest and pack of the moment
(`SweepCurrent`, from the exclusion of commits), that its snapshot covers every
Reader made since (`SweepCovers`: such a Reader pins the manifest's own deferred
root, which the sweep spares anyway), and that Readers and leases are of Stores
still held (`Custody`).

### The Orbit router

`OrbitRouterProofs` proves, for any number of requests, Stations and foreign hosts and
all fault sets:

* `RouterTyped` (`TypeOK`) and `StoreOwnedOnce` (`StoreHasOneOwner`), under any faults;
* `LockCovers` (`LockCoversStation`), `VacancyHolds` (`VacancyIsVacant`) and `HubClosesLast`
  (`HubOutlivesStations`), each under the faults its property admits;
* `SnapshotCovers` (`NothingBehindSnapshot`), where no fault set has both `"upgrade"` and
  `"stop"`: `router_upgrade` shows that with both it fails.

`RouterInv` is why: the slot's lock has one holder (`QueueInv`, `AskInv`) and whoever
places or vacates holds it over an empty slot (`HoldInv`), so at most one Station opens
(`StartInv`) and the store lease has one owner (`LeaseInv`); shutdown passes its steps in
order (`StopInv`), the lifecycle guard keeps requests out of those behind it
(`GuardInv`); and where nothing stops on its own and no wait expires, every Station of
the daemon is in the slot, being started, or waited for (`CalmHosts`, `CalmStop`). The last
is what the promises about vacancy and the endpoints rest on, and what a spontaneous
stop breaks.

### The life of a Run

`RunExecProofs` proves, for all sets of Stations and Performers, all limits and
scenarios and any number of restarts (assumption `ConstantsAssumption`), the six
invariants of `exec_perform`: `RunTyped` (`TypeOK`), `ChosenOnce` (`AcceptedOnce`),
`ReturnsOnce` (`ReturnedOnce`), `EnteredOnce` (`NeverReinvoked`), `WorkersEnd`
(`WorkersHaveLiveAttempts`) and `HistoriesClosed` (`CausallyClosed`). The key is
`OwnKnown`, an event is known to the Station that committed it before anyone
hears of it, with `Written`: the events of an Attempt are its holder's, a choice
is the owner's. A Contact therefore never changes what a Station knows of its
*own* Attempts, and a duty decided on an old snapshot is still sound about them
when it lands (`DutySound`: what is begun, returned or recovered has not ended;
what is begun is not begun). `EnteredBegun` ties the observer to the history: a
handler was entered only for an Attempt that is begun, and no second Began is
decided for one. `Counted` carries the limit on events through the two snapshots
between which a user's request may take the last place.

### Only model-checked

Every invariant and every action property of a passing run is stated by a theorem, and so
is the refinement in the setting of `pack_power`. What stays with TLC: liveness, which the
prover cannot reach (`Retired`, `Answered`, `Stops`, `LeasesEnd`, `CancelDelivered`); the
refinement in the setting of `pack_restart`, whose argument is another one (no anchor is
durable there); and what the violation runs show.

## 6. Plan

Done: the pack log, the migration, the Store, the Orbit router, the life of a
Run, and the proofs of their safety. Next, in this order:

1. Proofs: the refinement of `DurableStore` for a machine that stays up (`Restarts`,
   `RemovalFails`); what of the power-loss theorems survives `RemovalFails`.
2. `RunExec`: checkpoints and Resume, Renewed heartbeats, consent per Spec.
3. `TransportHub`: registration of Space-scoped views on a shared endpoint,
   composed with `OrbitRouter`'s closing order.
4. `Sessions`: docking, submission, publication and dormancy of a Station
   (`lifecycle.rs`, `session.rs`, `publication.rs`).
5. `Contact`: convergence of two Stations over lost and duplicated messages.
6. `Authority`: order-independence of the ledger's verdicts; `Generations`: the
   pointer swap; `Consent`: a World upgrade from consent to relaunch.

## 7. Not modelled

Cryptography and encodings (their results are model values), the network
stack, relays and servers, HTTP heads, displays, receivers and apps, product
Worlds, and the prior layout's codec. In the pack log, the medium's batching of
appended bytes into pages is abstracted to one block per record: a record is
there or not, a torn record is one that does not verify. A seal's check
(`SealCheck`) stands for its sequence, manifest and entries; that the code's check also
covers the predecessor, base, provenance and generation is left out, which only makes the
model's test of a link weaker than the code's. In the router, content
streaming, doorbell payloads and the catalogue are left out; a cancelled
`open_inner` takes its blocking prelude with it, where in the code the prelude
finishes on its worker thread and is then dropped. A failure for want of blocking
capacity is one of the failures of an open (`OpenFails`), and a foreign host appears at
once with its store lock (`ElsewhereStarts`), without a stage of opening. In the Store,
an index is its set of keys with one node, shared by indexes with the same keys, and a commit's bytes are `PackLog`'s
subject. In a Run: Start itself, checkpoints and Resume, Renewed heartbeats,
terminals, builds and offers, consent per Spec (`Performers` stands for who
consents), budgets and content; a Contact delivers a whole history as `incorporate_bundle` takes a
bundle, in one step or not at all, so what a partial transfer would leave is not a state
of the model. The register has no caller in this commit, so
no sequence of the program's steps reaches it.
