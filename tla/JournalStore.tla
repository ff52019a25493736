---------------------------- MODULE JournalStore ----------------------------
(***************************************************************************)
(* What the journal's Store keeps alive, and for whom                      *)
(* (crates/journal/src/lib.rs).  Over the pack log it keeps a manifest of  *)
(* index roots: the objects required eagerly, those required lazily, the   *)
(* caller's own index and the caller's metadata.  A sweep compacts the     *)
(* pack to what the manifest and the leases reach, on its own thread,      *)
(* while Readers are made, pin objects and go away.  At the close of a     *)
(* Station the owner lock passes to a successor and the Readers of the old *)
(* Store live on.                                                          *)
(*                                                                         *)
(* An index is content addressed: the root over a set of keys is the set.  *)
(* Its nodes are one node here, absent for the empty index.  Whether bytes *)
(* reach the disk is PackLog's subject; here a commit is one step.         *)
(***************************************************************************)
EXTENDS Naturals, FiniteSets

CONSTANTS Objects,       \* the content addresses of payloads
          Metas,         \* those a caller uses for its metadata
          CallerRoots,   \* the indexes a caller keeps, as sets of keys
          Deltas,        \* bound: what one list of a commit may name
          Readers,       \* threads, each with at most one Reader
          Pinners,       \* those that also pin objects, under one ObjectLease each
          MaxStore       \* bound: the Stores opened, one after another, over the root

ASSUME StoreAssumption ==
    /\ Metas \subseteq Objects /\ Metas # {}
    /\ CallerRoots \subseteq SUBSET Objects
    /\ {} \in Deltas /\ Deltas \subseteq SUBSET Objects
    /\ IsFiniteSet(Readers) /\ Pinners \subseteq Readers
    /\ MaxStore \in Nat \ {0}

VARIABLES mem,      \* each Store: its manifest and the table of its pack
          cur,      \* the Store opened last
          held,     \* whether it holds the owner lock
          alive,    \* the Stores this process still holds
          reader,   \* Reader of each thread, in the making or made
          lease,    \* ObjectLease of each thread
          pins,     \* Store::pins, by Store
          rootPins, \* Store::root_pins, by Store
          sweep     \* the sweep of the current Store

vars == <<mem, cur, held, alive, reader, lease, pins, rootPins, sweep>>

Stores == 1 .. MaxStore
Roots == SUBSET Objects

Manifests == [eager : Roots, deferred : Roots, caller : Roots, meta : SUBSET Metas]
Packs == [objects : SUBSET Objects, nodes : SUBSET Roots]

\* No commit yet: no root and no metadata.
NoManifest == [eager |-> {}, deferred |-> {}, caller |-> {}, meta |-> {}]
NoPack == [objects |-> {}, nodes |-> {}]

NoReader == [stage |-> "none", store |-> 1, eager |-> {}, deferred |-> {}, view |-> NoPack]
NoLease == [store |-> 0, objects |-> {}, owed |-> {}]
NoSweep == [stage |-> "none", view |-> NoPack, manifest |-> NoManifest, roots |-> {},
            pinned |-> {}]

\* The nodes of an index.
Nodes(root) == IF root = {} THEN {} ELSE {root}

Required(m) == m.eager \cup m.deferred

\* index::validate: the nodes of every root are in the view.
Whole(roots, view) == \A root \in roots : Nodes(root) \subseteq view.nodes

-----------------------------------------------------------------------------
(* The owner: commits have the Store to themselves (&mut self), sweeps and *)
(* new Readers share it (&self).                                           *)

\* Mutant: a commit does not wait for the sweep.
ExclusiveOfReaders ==
    /\ held
    /\ \A r \in Readers : reader[r].stage = "rooted" => reader[r].store # cur

Exclusive ==
    /\ held
    /\ sweep.stage = "none"
    /\ \A r \in Readers : reader[r].stage = "rooted" => reader[r].store # cur

\* The manifest is sealed with the objects and the index nodes it needs.
Seal(m, added) ==
    LET p == mem[cur].pack IN
    mem' = [mem EXCEPT ![cur] =
              [manifest |-> m,
               pack |-> [objects |-> p.objects \cup added \cup m.meta,
                         nodes |-> p.nodes \cup Nodes(m.eager) \cup Nodes(m.deferred)
                                     \cup Nodes(m.caller)]]]

\* Mutant: what becomes eager stays deferred.
ReclassifiedOnce(m, ea, er, da, dr) ==
    LET dh == da \ ea IN
    [eager |-> ((m.eager \ er) \cup ea) \ dh,
     deferred |-> (m.deferred \ dr) \cup dh]

\* commit_classified: an object both added and removed is added, one added to
\* both classes is eager, and joining a class leaves the other.
Reclassified(m, ea, er, da, dr) ==
    LET dh == da \ ea IN
    [eager |-> ((m.eager \ er) \cup ea) \ dh,
     deferred |-> ((m.deferred \ dr) \cup dh) \ ea]

CommitClassified ==
    LET m == mem[cur].manifest IN
    /\ Exclusive
    /\ Whole({m.eager, m.deferred}, mem[cur].pack)
    /\ \E ea, er, da, dr \in Deltas, caller \in CallerRoots, meta \in Metas :
          LET c == Reclassified(m, ea, er, da, dr) IN
          Seal([eager |-> c.eager, deferred |-> c.deferred, caller |-> caller,
                meta |-> {meta}], ea \cup da)
    /\ UNCHANGED <<cur, held, alive, reader, lease, pins, rootPins, sweep>>

\* commit_required_set: of the objects it requires the caller names a part to keep,
\* and what it adds.  Whatever caller index there was is cleared, as the code asserts
\* (in debug builds) that there was none; the deferred objects stay.
CommitRequiredSet ==
    LET m == mem[cur].manifest IN
    /\ Exclusive
    /\ Whole({m.eager, m.deferred}, mem[cur].pack)
    /\ \E added \in Deltas, keep \in SUBSET m.eager, meta \in Metas :
          LET c == Reclassified(m, added, m.eager \ keep, {}, {}) IN
          /\ keep \subseteq mem[cur].pack.objects
          /\ Seal([eager |-> c.eager, deferred |-> c.deferred, caller |-> {},
                   meta |-> {meta}], added)
    /\ UNCHANGED <<cur, held, alive, reader, lease, pins, rootPins, sweep>>

-----------------------------------------------------------------------------
(* Readers and leases.                                                     *)

\* Store::reader, first half: the deferred root is pinned.  (The code keeps no
\* count for the empty index, which reaches nothing.)
ReaderRoot(r, k) ==
    LET m == mem[k].manifest IN
    /\ reader[r].stage = "none"
    /\ k \in alive
    /\ reader' = [reader EXCEPT ![r] =
                    [stage |-> "rooted", store |-> k, eager |-> m.eager,
                     deferred |-> m.deferred, view |-> NoPack]]
    /\ rootPins' = [rootPins EXCEPT ![k][m.deferred] = @ + 1]
    /\ UNCHANGED <<mem, cur, held, alive, lease, pins, sweep>>

\* Mutant: the view is of the pack as its successor has it.
ReaderViewLatest(r) ==
    /\ reader[r].stage = "rooted"
    /\ reader' = [reader EXCEPT ![r].stage = "ready", ![r].view = mem[cur].pack]
    /\ UNCHANGED <<mem, cur, held, alive, lease, pins, rootPins, sweep>>

\* Store::reader, second half: the view is taken under the pack's mutex.
ReaderView(r) ==
    /\ reader[r].stage = "rooted"
    /\ reader' = [reader EXCEPT ![r].stage = "ready", ![r].view = mem[reader[r].store].pack]
    /\ UNCHANGED <<mem, cur, held, alive, lease, pins, rootPins, sweep>>

\* Mutant: the first Reader to go takes the pin of all.
ReaderDropAll(r) ==
    /\ reader[r].stage = "ready"
    /\ rootPins' = [rootPins EXCEPT ![reader[r].store][reader[r].deferred] = 0]
    /\ reader' = [reader EXCEPT ![r] = NoReader]
    /\ UNCHANGED <<mem, cur, held, alive, lease, pins, sweep>>

\* Mutant: every clone of a Reader releases the pin they share.
ReaderDropClones(r) ==
    /\ reader[r].stage = "ready"
    /\ rootPins' = [rootPins EXCEPT ![reader[r].store][reader[r].deferred] = @ - 2]
    /\ reader' = [reader EXCEPT ![r] = NoReader]
    /\ UNCHANGED <<mem, cur, held, alive, lease, pins, sweep>>

\* PinnedRoot::drop.
ReaderDrop(r) ==
    /\ reader[r].stage = "ready"
    /\ rootPins' = [rootPins EXCEPT ![reader[r].store][reader[r].deferred] =
                      IF @ > 0 THEN @ - 1 ELSE 0]
    /\ reader' = [reader EXCEPT ![r] = NoReader]
    /\ UNCHANGED <<mem, cur, held, alive, lease, pins, sweep>>

\* Reader::pin_objects, at any time and of anything.  `owed` observes which of
\* the objects were live at that moment: required, or under the pinned root.
PinObjects(r) ==
    LET k == reader[r].store IN
    /\ reader[r].stage = "ready"
    /\ r \in Pinners /\ lease[r] = NoLease
    /\ \E os \in Deltas \ {{}} :
          /\ pins' = [pins EXCEPT ![k] = [o \in Objects |-> IF o \in os THEN @[o] + 1 ELSE @[o]]]
          /\ lease' = [lease EXCEPT ![r] =
                         [store |-> k, objects |-> os,
                          owed |-> os \cap (Required(mem[k].manifest) \cup reader[r].deferred)]]
    /\ UNCHANGED <<mem, cur, held, alive, reader, rootPins, sweep>>

\* PinnedObjects::drop; a lease may outlive its Reader.
LeaseDrop(r) ==
    LET k == lease[r].store IN
    /\ lease[r] # NoLease
    /\ pins' = [pins EXCEPT ![k] =
                  [o \in Objects |-> IF o \in lease[r].objects /\ @[o] > 0 THEN @[o] - 1 ELSE @[o]]]
    /\ lease' = [lease EXCEPT ![r] = NoLease]
    /\ UNCHANGED <<mem, cur, held, alive, reader, rootPins, sweep>>

-----------------------------------------------------------------------------
(* The sweep.                                                              *)

\* The view, the manifest and the pinned roots, as they are now.  Before the
\* first commit there is nothing to sweep.
SweepRoots ==
    /\ held /\ sweep.stage = "none"
    /\ mem[cur].manifest # NoManifest
    /\ sweep' = [stage |-> "roots", view |-> mem[cur].pack, manifest |-> mem[cur].manifest,
                 roots |-> {root \in Roots : rootPins[cur][root] > 0}, pinned |-> {}]
    /\ UNCHANGED <<mem, cur, held, alive, reader, lease, pins, rootPins>>

\* The pinned objects, after the indexes were walked.
SweepPins ==
    /\ sweep.stage = "roots"
    /\ sweep' = [sweep EXCEPT !.stage = "pins", !.pinned = {o \in Objects : pins[cur][o] > 0}]
    /\ UNCHANGED <<mem, cur, held, alive, reader, lease, pins, rootPins>>

\* Mutant: the sweep forgets the pinned objects.
LiveUnpinned ==
    LET m == sweep.manifest IN
    [objects |-> {o \in mem[cur].pack.objects :
                    o \in m.meta \cup Required(m) \cup UNION sweep.roots},
     nodes |-> mem[cur].pack.nodes]

\* What the closure `live` answers for.
Live ==
    LET m == sweep.manifest
        roots == {m.eager, m.deferred} \cup sweep.roots
    IN [objects |-> {o \in mem[cur].pack.objects :
                       o \in sweep.pinned \cup m.meta \cup UNION roots},
        nodes |-> {n \in mem[cur].pack.nodes : n \in roots \cup {m.caller}}]

\* A corrupt index stops the sweep before anything is dropped; otherwise the
\* live set becomes the next generation.
SweepCompact ==
    LET m == sweep.manifest IN
    /\ sweep.stage = "pins"
    /\ IF Whole({m.eager, m.deferred, m.caller} \cup sweep.roots, sweep.view)
         THEN mem' = [mem EXCEPT ![cur].pack = Live]
         ELSE UNCHANGED mem
    /\ sweep' = NoSweep
    /\ UNCHANGED <<cur, held, alive, reader, lease, pins, rootPins>>

-----------------------------------------------------------------------------
(* Custody.                                                                *)

\* Station close: no further commit, and the owner lock is released.  Readers
\* keep the Store.
ReleaseOwnerLock ==
    /\ Exclusive
    /\ held' = FALSE
    /\ UNCHANGED <<mem, cur, alive, reader, lease, pins, rootPins, sweep>>

\* verify_semantics.
Verifies(s) ==
    LET m == s.manifest IN
    /\ Whole({m.eager, m.deferred, m.caller}, s.pack)
    /\ m.eager \cup m.meta \subseteq s.pack.objects

\* Store::open by a successor, in this process or the next.
Open ==
    /\ ~held /\ cur < MaxStore
    /\ Verifies(mem[cur])
    /\ mem' = [mem EXCEPT ![cur + 1] = mem[cur]]
    /\ cur' = cur + 1
    /\ held' = TRUE
    /\ alive' = alive \cup {cur + 1}
    /\ UNCHANGED <<reader, lease, pins, rootPins, sweep>>

\* The process ends, and the kernel releases the lock.
Crash ==
    /\ alive # {}
    /\ held' = FALSE /\ alive' = {}
    /\ reader' = [r \in Readers |-> NoReader]
    /\ lease' = [r \in Readers |-> NoLease]
    /\ pins' = [k \in Stores |-> [o \in Objects |-> 0]]
    /\ rootPins' = [k \in Stores |-> [root \in Roots |-> 0]]
    /\ sweep' = NoSweep
    /\ mem' = [k \in Stores |-> IF k = cur THEN mem[k] ELSE [manifest |-> NoManifest, pack |-> NoPack]]
    /\ UNCHANGED cur

Init ==
    /\ mem = [k \in Stores |-> [manifest |-> NoManifest, pack |-> NoPack]]
    /\ cur = 1 /\ held = TRUE /\ alive = {1}
    /\ reader = [r \in Readers |-> NoReader]
    /\ lease = [r \in Readers |-> NoLease]
    /\ pins = [k \in Stores |-> [o \in Objects |-> 0]]
    /\ rootPins = [k \in Stores |-> [root \in Roots |-> 0]]
    /\ sweep = NoSweep

Next ==
    \/ CommitClassified \/ CommitRequiredSet
    \/ \E r \in Readers :
          \/ \E k \in Stores : ReaderRoot(r, k)
          \/ ReaderView(r) \/ ReaderDrop(r) \/ PinObjects(r) \/ LeaseDrop(r)
    \/ SweepRoots \/ SweepPins \/ SweepCompact
    \/ ReleaseOwnerLock \/ Open \/ Crash

Spec == Init /\ [][Next]_vars

-----------------------------------------------------------------------------
(* Properties.                                                             *)

\* The shape of every piece of state.
TypeOK ==
    /\ mem \in [Stores -> [manifest : Manifests, pack : Packs]]
    /\ cur \in Stores /\ held \in BOOLEAN /\ alive \subseteq Stores
    /\ reader \in [Readers -> [stage : {"none", "rooted", "ready"}, store : Stores,
                               eager : Roots, deferred : Roots, view : Packs]]
    /\ lease \in [Readers -> [store : Stores \cup {0}, objects : SUBSET Objects,
                              owed : SUBSET Objects]]
    /\ pins \in [Stores -> [Objects -> Nat]]
    /\ rootPins \in [Stores -> [Roots -> Nat]]
    /\ sweep \in [stage : {"none", "roots", "pins"}, view : Packs, manifest : Manifests,
                  roots : SUBSET Roots, pinned : SUBSET Objects]

\* Whatever is committed, reclassified and swept, a required object is required
\* in one class and is in the table with the nodes that lead to it: the next
\* open verifies, and a lazy read finds its payload.
RequirementsSound ==
    \A k \in Stores :
        LET m == mem[k].manifest IN
        /\ m.eager \cap m.deferred = {}
        /\ Required(m) \cup m.meta \subseteq mem[k].pack.objects
        /\ Whole({m.eager, m.deferred, m.caller}, mem[k].pack)

\* A Reader keeps the whole deferred index it was made on, in every later
\* generation of the pack, through the one root it pins.  A sweep that dropped
\* a part would fail every sweep after it as corrupt.
LeasedRootsKept ==
    \A r \in Readers : reader[r].stage # "none" =>
        LET p == mem[reader[r].store].pack IN
        /\ Whole({reader[r].deferred}, p)
        /\ reader[r].deferred \subseteq p.objects

\* An object that was live when it was pinned survives every sweep until its
\* lease is dropped, the sweep that was running at that moment included.
PinnedLiveKept ==
    \A r \in Readers : lease[r] # NoLease =>
        lease[r].owed \subseteq mem[lease[r].store].pack.objects

\* A Reader's view holds everything its roots reach, whichever sweeps, commits
\* and changes of owner fell between its two halves or came after.
ReadersCoherent ==
    \A r \in Readers : reader[r].stage = "ready" =>
        /\ Whole({reader[r].eager, reader[r].deferred}, reader[r].view)
        /\ reader[r].eager \cup reader[r].deferred \subseteq reader[r].view.objects
=============================================================================
