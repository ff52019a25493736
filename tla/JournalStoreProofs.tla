------------------------- MODULE JournalStoreProofs -------------------------
(***************************************************************************)
(* What the journal's Store keeps, for every number of objects, threads    *)
(* and Stores.  The four properties of JournalStore hold together or not   *)
(* at all: a pinned object is safe because required objects are in the     *)
(* table, a Reader's view is whole because its root was kept until then.   *)
(***************************************************************************)
EXTENDS JournalStore, FiniteSetTheorems, TLAPS

-----------------------------------------------------------------------------
(* The inductive invariant.                                                *)

\* Readers and leases are of Stores this process holds, none of them to come.
Custody ==
    /\ \A k \in alive : k <= cur
    /\ \A r \in Readers : reader[r].stage # "none" => reader[r].store \in alive
    /\ \A r \in Readers : lease[r] # NoLease => lease[r].store \in alive

\* Between its two halves a Reader is of the manifest its Store has.
RootedCurrent ==
    \A r \in Readers : reader[r].stage = "rooted" =>
        LET m == mem[reader[r].store].manifest IN
        reader[r].eager = m.eager /\ reader[r].deferred = m.deferred

\* A sweep works on the manifest and the pack of the moment: no commit lands
\* and no successor opens while it runs.
SweepCurrent ==
    sweep.stage # "none" =>
        held /\ sweep.manifest = mem[cur].manifest /\ sweep.view = mem[cur].pack

\* The Readers of a root, and the leases of an object.
Holders(k, root) ==
    {r \in Readers : reader[r].stage # "none" /\ reader[r].store = k
                       /\ reader[r].deferred = root}
Pinning(k, o) == {r \in Readers : lease[r].store = k /\ o \in lease[r].objects}

\* The registries count their holders.
RootsCounted ==
    \A k \in Stores, root \in Roots : rootPins[k][root] = Cardinality(Holders(k, root))
PinsCounted ==
    /\ \A k \in Stores, o \in Objects : pins[k][o] = Cardinality(Pinning(k, o))
    /\ \A r \in Readers : lease[r].owed \subseteq lease[r].objects

\* What the running sweep spares covers every Reader and every live pin.
SweepCovers ==
    /\ sweep.stage # "none" =>
          \A r \in Readers : reader[r].stage # "none" /\ reader[r].store = cur =>
              reader[r].deferred \in sweep.roots \cup {sweep.manifest.deferred}
    /\ sweep.stage = "pins" =>
          \A r \in Readers : lease[r].store = cur =>
              lease[r].owed \subseteq sweep.pinned \cup Required(sweep.manifest)
                                         \cup UNION sweep.roots

Inv ==
    /\ TypeOK
    /\ RequirementsSound
    /\ LeasedRootsKept
    /\ PinnedLiveKept
    /\ ReadersCoherent
    /\ Custody
    /\ RootedCurrent
    /\ SweepCurrent
    /\ RootsCounted
    /\ PinsCounted
    /\ SweepCovers

-----------------------------------------------------------------------------
(* Lemmas.                                                                 *)

\* The shapes of the empty values.
LEMMA Empties ==
    /\ NoManifest \in Manifests
    /\ NoPack \in Packs
    /\ NoReader.stage = "none"
    /\ NoLease.store = 0 /\ NoLease.objects = {} /\ NoLease.owed = {}
    /\ NoSweep.stage = "none"
BY DEF NoManifest, NoPack, NoReader, NoLease, NoSweep, Manifests, Packs, Roots

\* Sets of threads are finite, and one more or one less counts as one.
LEMMA Counting ==
    /\ \A S \in SUBSET Readers : IsFiniteSet(S) /\ Cardinality(S) \in Nat
    /\ \A S \in SUBSET Readers, r \in Readers :
          /\ r \notin S => Cardinality(S \cup {r}) = Cardinality(S) + 1
          /\ r \in S => /\ Cardinality(S \ {r}) = Cardinality(S) - 1
                        /\ Cardinality(S) > 0
<1>1. ASSUME NEW S \in SUBSET Readers
      PROVE  IsFiniteSet(S) /\ Cardinality(S) \in Nat
  BY StoreAssumption, FS_Subset, FS_CardinalityType DEF StoreAssumption
<1>2. ASSUME NEW S \in SUBSET Readers, NEW r \in Readers, r \notin S
      PROVE  Cardinality(S \cup {r}) = Cardinality(S) + 1
  BY <1>1, <1>2, FS_AddElement
<1>3. ASSUME NEW S \in SUBSET Readers, NEW r \in Readers, r \in S
      PROVE  Cardinality(S \ {r}) = Cardinality(S) - 1 /\ Cardinality(S) > 0
  <2>1. Cardinality(S \ {r}) = Cardinality(S) - 1
    BY <1>1, <1>3, FS_RemoveElement
  <2>2. S \ {r} \in SUBSET Readers
    OBVIOUS
  <2>3. Cardinality(S \ {r}) \in Nat /\ Cardinality(S) \in Nat
    BY <1>1, <2>2
  <2> QED
    BY <2>1, <2>3
<1> QED
  BY <1>1, <1>2, <1>3

\* The count of a Reader's root is above zero.
LEMMA HolderCounts ==
    ASSUME Inv, NEW r \in Readers, reader[r].stage # "none"
    PROVE  /\ reader[r].store \in Stores
           /\ reader[r].deferred \in Roots
           /\ rootPins[reader[r].store][reader[r].deferred] > 0
<1>1. reader[r].store \in Stores /\ reader[r].deferred \in Roots
  BY DEF Inv, TypeOK
<1>2. r \in Holders(reader[r].store, reader[r].deferred)
  BY DEF Holders
<1>3. Holders(reader[r].store, reader[r].deferred) \in SUBSET Readers
  BY DEF Holders
<1>4. Cardinality(Holders(reader[r].store, reader[r].deferred)) > 0
  BY <1>2, <1>3, Counting
<1> QED
  BY <1>1, <1>4 DEF Inv, RootsCounted

\* The count of a leased object is above zero.
LEMMA PinningCounts ==
    ASSUME Inv, NEW r \in Readers, lease[r].store \in Stores,
           NEW o \in lease[r].objects
    PROVE  o \in Objects /\ pins[lease[r].store][o] > 0
<1>1. o \in Objects
  BY DEF Inv, TypeOK
<1>2. r \in Pinning(lease[r].store, o)
  BY DEF Pinning
<1>3. Pinning(lease[r].store, o) \in SUBSET Readers
  BY DEF Pinning
<1>4. Cardinality(Pinning(lease[r].store, o)) > 0
  BY <1>2, <1>3, Counting
<1> QED
  BY <1>1, <1>4 DEF Inv, PinsCounted

-----------------------------------------------------------------------------
(* The initial states.                                                     *)

\* Nothing is committed, read or leased.
LEMMA InitInv == Init => Inv
<1> SUFFICES ASSUME Init PROVE Inv
  OBVIOUS
<1> USE Empties
<1>0. 1 \in Stores
  BY StoreAssumption DEF Stores, StoreAssumption
<1>1. TypeOK
  BY <1>0 DEF Init, TypeOK, NoReader, NoLease, NoSweep, NoPack, NoManifest, Packs, Manifests,
              Roots
<1>2. RequirementsSound
  BY DEF Init, RequirementsSound, Required, Whole, Nodes, NoManifest, NoPack
<1>3. LeasedRootsKept /\ PinnedLiveKept /\ ReadersCoherent /\ Custody /\ RootedCurrent
  BY <1>0 DEF Init, LeasedRootsKept, PinnedLiveKept, ReadersCoherent, Custody, RootedCurrent
<1>4. SweepCurrent /\ SweepCovers
  BY DEF Init, SweepCurrent, SweepCovers
<1>5. RootsCounted
  <2> SUFFICES ASSUME NEW k \in Stores, NEW root \in Roots
               PROVE  rootPins[k][root] = Cardinality(Holders(k, root))
    BY DEF RootsCounted
  <2>1. Holders(k, root) = {}
    BY DEF Init, Holders
  <2> QED
    BY <2>1, FS_EmptySet DEF Init
<1>6. PinsCounted
  <2>1. ASSUME NEW k \in Stores, NEW o \in Objects
        PROVE  pins[k][o] = Cardinality(Pinning(k, o))
    <3>1. Pinning(k, o) = {}
      BY DEF Init, Pinning
    <3> QED
      BY <3>1, FS_EmptySet DEF Init
  <2>2. \A r \in Readers : lease[r].owed \subseteq lease[r].objects
    BY DEF Init
  <2> QED
    BY <2>1, <2>2 DEF PinsCounted
<1> QED
  BY <1>1, <1>2, <1>3, <1>4, <1>5, <1>6 DEF Inv

-----------------------------------------------------------------------------
(* Readers and leases: the manifest and the pack stay as they are.         *)

\* The Reader gets the manifest's roots, and one count more.
LEMMA ReaderRootInv ==
    ASSUME Inv, NEW r \in Readers, NEW k \in Stores, ReaderRoot(r, k)
    PROVE  Inv'
<1> DEFINE m == mem[k].manifest
<1>0. m \in Manifests /\ m.deferred \in Roots /\ m.eager \in Roots
  BY DEF Inv, TypeOK, Manifests
<1>1. /\ reader' = [reader EXCEPT ![r] = [stage |-> "rooted", store |-> k, eager |-> m.eager,
                                          deferred |-> m.deferred, view |-> NoPack]]
      /\ rootPins' = [rootPins EXCEPT ![k][m.deferred] = @ + 1]
      /\ UNCHANGED <<mem, cur, held, alive, lease, pins, sweep>>
      /\ reader[r].stage = "none" /\ k \in alive
  BY DEF ReaderRoot
<1> HIDE DEF m
<1>2. TypeOK'
  BY <1>0, <1>1, Empties DEF Inv, TypeOK
<1>r. reader \in [Readers -> [stage : {"none", "rooted", "ready"}, store : Stores,
                              eager : Roots, deferred : Roots, view : Packs]]
  BY DEF Inv, TypeOK
<1>3. RequirementsSound' /\ PinnedLiveKept' /\ SweepCurrent'
  BY <1>1 DEF Inv, RequirementsSound, PinnedLiveKept, SweepCurrent
<1>4. LeasedRootsKept'
  <2>1. Whole({m.deferred}, mem[k].pack) /\ m.deferred \subseteq mem[k].pack.objects
    BY DEF m, Inv, RequirementsSound, Whole, Required
  <2> QED
    BY <1>1, <1>r, <2>1 DEF Inv, LeasedRootsKept
<1>5. ReadersCoherent' /\ Custody'
  BY <1>1, <1>r DEF Inv, ReadersCoherent, Custody
<1>6. RootedCurrent'
  BY <1>1, <1>r DEF m, Inv, RootedCurrent
<1>7. RootsCounted'
  <2> SUFFICES ASSUME NEW j \in Stores, NEW root \in Roots
               PROVE  rootPins'[j][root] = Cardinality(Holders(j, root)')
    BY DEF RootsCounted
  <2>1. rootPins \in [Stores -> [Roots -> Nat]]
    BY DEF Inv, TypeOK
  <2>2. rootPins[j][root] = Cardinality(Holders(j, root))
    BY DEF Inv, RootsCounted
  <2>3. CASE j = k /\ root = m.deferred
    <3>1. Holders(j, root)' = Holders(j, root) \cup {r} /\ r \notin Holders(j, root)
      BY <1>1, <1>r, <2>3 DEF Holders
    <3>2. Holders(j, root) \in SUBSET Readers
      BY DEF Holders
    <3> QED
      BY <1>0, <1>1, <2>1, <2>2, <2>3, <3>1, <3>2, Counting
  <2>4. CASE ~(j = k /\ root = m.deferred)
    <3>1. Holders(j, root)' = Holders(j, root)
      BY <1>1, <1>r, <2>4 DEF Holders
    <3> QED
      BY <1>0, <1>1, <2>1, <2>2, <2>4, <3>1
  <2> QED
    BY <2>3, <2>4
<1>8. PinsCounted'
  BY <1>1 DEF Inv, PinsCounted, Pinning
<1>9. SweepCovers'
  BY <1>1, <1>r DEF m, Inv, SweepCovers, SweepCurrent
<1> QED
  BY <1>2, <1>3, <1>4, <1>5, <1>6, <1>7, <1>8, <1>9 DEF Inv

\* The view is of the pack as it is: its root was kept until now.
LEMMA ReaderViewInv ==
    ASSUME Inv, NEW r \in Readers, ReaderView(r)
    PROVE  Inv'
<1> DEFINE p == mem[reader[r].store].pack
<1>r. reader \in [Readers -> [stage : {"none", "rooted", "ready"}, store : Stores,
                              eager : Roots, deferred : Roots, view : Packs]]
  BY DEF Inv, TypeOK
<1>0. p \in Packs
  BY <1>r DEF Inv, TypeOK
<1>1. /\ reader' = [reader EXCEPT ![r].stage = "ready", ![r].view = p]
      /\ UNCHANGED <<mem, cur, held, alive, lease, pins, rootPins, sweep>>
      /\ reader[r].stage = "rooted"
  BY DEF ReaderView
<1> HIDE DEF p
<1>2. TypeOK'
  <2>1. [reader[r] EXCEPT !.stage = "ready", !.view = p]
            \in [stage : {"none", "rooted", "ready"}, store : Stores,
                 eager : Roots, deferred : Roots, view : Packs]
    BY <1>0, <1>r
  <2>2. reader' \in [Readers -> [stage : {"none", "rooted", "ready"}, store : Stores,
                                 eager : Roots, deferred : Roots, view : Packs]]
    BY <1>1, <1>r, <2>1
  <2> QED
    BY <1>1, <2>2 DEF Inv, TypeOK
<1>3. RequirementsSound' /\ PinnedLiveKept' /\ SweepCurrent'
  BY <1>1 DEF Inv, RequirementsSound, PinnedLiveKept, SweepCurrent
<1>4. \A q \in Readers : /\ reader'[q].store = reader[q].store
                         /\ reader'[q].deferred = reader[q].deferred
                         /\ reader'[q].eager = reader[q].eager
                         /\ reader'[q].stage # "none" <=> reader[q].stage # "none"
                         /\ q # r => reader'[q] = reader[q]
  BY <1>1, <1>r
<1>5. LeasedRootsKept' /\ Custody' /\ SweepCovers'
  <2>1. LeasedRootsKept'
    BY <1>1, <1>4 DEF Inv, LeasedRootsKept
  <2>2. Custody'
    <3>1. \A q \in Readers : reader'[q].stage # "none" => reader'[q].store \in alive
      BY <1>4 DEF Inv, Custody
    <3> QED
      BY <1>1, <3>1 DEF Inv, Custody
  <2>3. SweepCovers'
    BY <1>1, <1>4 DEF Inv, SweepCovers
  <2> QED
    BY <2>1, <2>2, <2>3
<1>6. RootedCurrent'
  BY <1>1, <1>r DEF Inv, RootedCurrent
<1>7. RootsCounted'
  <2>1. \A k, root : Holders(k, root)' = Holders(k, root)
    BY <1>4 DEF Holders
  <2> QED
    BY <1>1, <2>1 DEF Inv, RootsCounted
<1>8. PinsCounted'
  BY <1>1 DEF Inv, PinsCounted, Pinning
<1>9. ReadersCoherent'
  <2>1. /\ Whole({reader[r].eager, reader[r].deferred}, p)
        /\ reader[r].eager \cup reader[r].deferred \subseteq p.objects
    BY <1>1, <1>r DEF p, Inv, RootedCurrent, RequirementsSound, Whole, Required
  <2> QED
    BY <1>1, <1>r, <2>1 DEF Inv, ReadersCoherent
<1> QED
  BY <1>2, <1>3, <1>5, <1>6, <1>7, <1>8, <1>9 DEF Inv

\* One count less, for the one Reader that goes.
LEMMA ReaderDropInv ==
    ASSUME Inv, NEW r \in Readers, ReaderDrop(r)
    PROVE  Inv'
<1> DEFINE k == reader[r].store  d == reader[r].deferred
<1>r. reader \in [Readers -> [stage : {"none", "rooted", "ready"}, store : Stores,
                              eager : Roots, deferred : Roots, view : Packs]]
  BY DEF Inv, TypeOK
<1>0. k \in Stores /\ d \in Roots /\ reader[r].stage = "ready" /\ rootPins[k][d] > 0
  BY <1>r, HolderCounts DEF ReaderDrop
<1>p. rootPins \in [Stores -> [Roots -> Nat]]
  BY DEF Inv, TypeOK
<1>1. /\ reader' = [reader EXCEPT ![r] = NoReader]
      /\ rootPins' = [rootPins EXCEPT ![k][d] = IF @ > 0 THEN @ - 1 ELSE 0]
      /\ UNCHANGED <<mem, cur, held, alive, lease, pins, sweep>>
  BY DEF ReaderDrop
<1> HIDE DEF k, d
<1>2. TypeOK'
  <2>1. NoReader \in [stage : {"none", "rooted", "ready"}, store : Stores,
                      eager : Roots, deferred : Roots, view : Packs]
    BY StoreAssumption DEF NoReader, NoPack, Packs, Roots, Stores, StoreAssumption
  <2>2. rootPins' \in [Stores -> [Roots -> Nat]]
    BY <1>0, <1>1, <1>p
  <2> QED
    BY <1>1, <1>r, <2>1, <2>2 DEF Inv, TypeOK
<1>3. RequirementsSound' /\ PinnedLiveKept' /\ SweepCurrent'
  BY <1>1 DEF Inv, RequirementsSound, PinnedLiveKept, SweepCurrent
<1>4. \A q \in Readers : /\ q = r => reader'[q].stage = "none"
                         /\ q # r => reader'[q] = reader[q]
  BY <1>1, <1>r, Empties
<1>5. LeasedRootsKept' /\ Custody' /\ SweepCovers' /\ ReadersCoherent' /\ RootedCurrent'
  <2>1. LeasedRootsKept'
    BY <1>1, <1>4 DEF Inv, LeasedRootsKept
  <2>2. Custody'
    BY <1>1, <1>4 DEF Inv, Custody
  <2>3. SweepCovers'
    BY <1>1, <1>4 DEF Inv, SweepCovers
  <2>4. ReadersCoherent'
    BY <1>1, <1>4 DEF Inv, ReadersCoherent
  <2>5. RootedCurrent'
    BY <1>1, <1>4 DEF Inv, RootedCurrent
  <2> QED
    BY <2>1, <2>2, <2>3, <2>4, <2>5
<1>7. RootsCounted'
  <2> SUFFICES ASSUME NEW j \in Stores, NEW root \in Roots
               PROVE  rootPins'[j][root] = Cardinality(Holders(j, root)')
    BY DEF RootsCounted
  <2>2. rootPins[j][root] = Cardinality(Holders(j, root))
    BY DEF Inv, RootsCounted
  <2>3. CASE j = k /\ root = d
    <3>1. Holders(j, root)' = Holders(j, root) \ {r} /\ r \in Holders(j, root)
      BY <1>0, <1>4, <2>3 DEF Holders, k, d
    <3>2. Holders(j, root) \in SUBSET Readers
      BY DEF Holders
    <3>3. rootPins'[j][root] = rootPins[j][root] - 1
      BY <1>0, <1>1, <1>p, <2>3
    <3> QED
      BY <2>2, <3>1, <3>2, <3>3, Counting
  <2>4. CASE ~(j = k /\ root = d)
    <3>1. Holders(j, root)' = Holders(j, root)
      BY <1>4, <2>4 DEF Holders, k, d
    <3>2. rootPins'[j][root] = rootPins[j][root]
      BY <1>0, <1>1, <1>p, <2>4
    <3> QED
      BY <2>2, <3>1, <3>2
  <2> QED
    BY <2>3, <2>4
<1>8. PinsCounted'
  BY <1>1 DEF Inv, PinsCounted, Pinning
<1> QED
  BY <1>2, <1>3, <1>5, <1>7, <1>8 DEF Inv

\* The leased objects are counted once more; those owed are in the table,
\* being required or under a root a Reader keeps.
LEMMA PinObjectsInv ==
    ASSUME Inv, NEW r \in Readers, PinObjects(r)
    PROVE  Inv'
<1> DEFINE k == reader[r].store
           live == Required(mem[k].manifest) \cup reader[r].deferred
<1>0. k \in Stores /\ reader[r].stage = "ready" /\ lease[r] = NoLease
  BY DEF Inv, TypeOK, PinObjects
<1>1. PICK os \in Deltas \ {{}} :
          /\ pins' = [pins EXCEPT ![k] = [o \in Objects |-> IF o \in os THEN @[o] + 1 ELSE @[o]]]
          /\ lease' = [lease EXCEPT ![r] = [store |-> k, objects |-> os,
                                            owed |-> os \cap live]]
  BY DEF PinObjects
<1>2. UNCHANGED <<mem, cur, held, alive, reader, rootPins, sweep>>
  BY DEF PinObjects
<1>3. os \subseteq Objects
  BY StoreAssumption DEF StoreAssumption
<1>l. lease \in [Readers -> [store : Stores \cup {0}, objects : SUBSET Objects,
                             owed : SUBSET Objects]]
  BY DEF Inv, TypeOK
<1>p. pins \in [Stores -> [Objects -> Nat]]
  BY DEF Inv, TypeOK
<1>v. /\ live \subseteq mem[k].pack.objects
      /\ live \subseteq Required(mem[k].manifest) \cup reader[r].deferred
  BY <1>0 DEF Inv, RequirementsSound, LeasedRootsKept
<1>c. k \in alive
  BY <1>0 DEF Inv, Custody
<1> HIDE DEF k, live
<1>4. \A q \in Readers : /\ q # r => lease'[q] = lease[q]
                         /\ q = r => /\ lease'[q].store = k /\ lease'[q].objects = os
                                     /\ lease'[q].owed = os \cap live
  BY <1>1, <1>l
<1>5. TypeOK'
  <2>1. pins' \in [Stores -> [Objects -> Nat]]
    BY <1>0, <1>1, <1>p
  <2>2. lease' \in [Readers -> [store : Stores \cup {0}, objects : SUBSET Objects,
                                owed : SUBSET Objects]]
    BY <1>0, <1>1, <1>3, <1>l
  <2> QED
    BY <1>2, <2>1, <2>2 DEF Inv, TypeOK
<1>6. RequirementsSound' /\ LeasedRootsKept' /\ ReadersCoherent' /\ RootedCurrent' /\ SweepCurrent'
  BY <1>2 DEF Inv, RequirementsSound, LeasedRootsKept, ReadersCoherent, RootedCurrent, SweepCurrent
<1>7. PinnedLiveKept'
  BY <1>2, <1>4, <1>v DEF Inv, PinnedLiveKept
<1>8. Custody'
  BY <1>2, <1>4, <1>c DEF Inv, Custody
<1>9. RootsCounted'
  BY <1>2 DEF Inv, RootsCounted, Holders
<1>10. PinsCounted'
  <2>1. ASSUME NEW j \in Stores, NEW o \in Objects
        PROVE  pins'[j][o] = Cardinality(Pinning(j, o)')
    <3>1. pins[j][o] = Cardinality(Pinning(j, o))
      BY DEF Inv, PinsCounted
    <3>2. r \notin Pinning(j, o)
      BY <1>0, Empties DEF Pinning
    <3>3. CASE j = k /\ o \in os
      <4>1. Pinning(j, o)' = Pinning(j, o) \cup {r}
        BY <1>4, <3>3 DEF Pinning
      <4>2. Pinning(j, o) \in SUBSET Readers
        BY DEF Pinning
      <4>3. pins'[j][o] = pins[j][o] + 1
        BY <1>0, <1>1, <1>p, <3>3
      <4> QED
        BY <3>1, <3>2, <4>1, <4>2, <4>3, Counting
    <3>4. CASE ~(j = k /\ o \in os)
      <4>1. Pinning(j, o)' = Pinning(j, o)
        BY <1>4, <3>2, <3>4 DEF Pinning
      <4>2. pins'[j][o] = pins[j][o]
        BY <1>0, <1>1, <1>p, <3>4
      <4> QED
        BY <3>1, <4>1, <4>2
    <3> QED
      BY <3>3, <3>4
  <2>2. \A q \in Readers : lease'[q].owed \subseteq lease'[q].objects
    BY <1>4 DEF Inv, PinsCounted
  <2> QED
    BY <2>1, <2>2 DEF PinsCounted
<1>11. SweepCovers'
  <2>1. ASSUME sweep.stage = "pins", k = cur
        PROVE  live \subseteq Required(sweep.manifest) \cup UNION sweep.roots
    <3>1. sweep.manifest = mem[cur].manifest
      BY <2>1 DEF Inv, SweepCurrent
    <3>2. reader[r].deferred \in sweep.roots \cup {sweep.manifest.deferred}
      BY <1>0, <2>1 DEF Inv, SweepCovers, k
    <3>3. reader[r].deferred \subseteq Required(sweep.manifest) \cup UNION sweep.roots
      BY <3>2 DEF Required
    <3> QED
      BY <1>v, <2>1, <3>1, <3>3
  <2> QED
    BY <1>2, <1>4, <2>1 DEF Inv, SweepCovers
<1> QED
  BY <1>5, <1>6, <1>7, <1>8, <1>9, <1>10, <1>11 DEF Inv

\* One count less for each object of the one lease that goes.
LEMMA LeaseDropInv ==
    ASSUME Inv, NEW r \in Readers, LeaseDrop(r)
    PROVE  Inv'
<1> DEFINE k == lease[r].store
<1>l. lease \in [Readers -> [store : Stores \cup {0}, objects : SUBSET Objects,
                             owed : SUBSET Objects]]
  BY DEF Inv, TypeOK
<1>p. pins \in [Stores -> [Objects -> Nat]]
  BY DEF Inv, TypeOK
<1>0. lease[r] # NoLease /\ k \in alive /\ k \in Stores
  BY DEF LeaseDrop, Inv, Custody, TypeOK
<1>1. /\ pins' = [pins EXCEPT ![k] = [o \in Objects |->
                    IF o \in lease[r].objects /\ @[o] > 0 THEN @[o] - 1 ELSE @[o]]]
      /\ lease' = [lease EXCEPT ![r] = NoLease]
      /\ UNCHANGED <<mem, cur, held, alive, reader, rootPins, sweep>>
  BY DEF LeaseDrop
<1>2. \A o \in lease[r].objects : o \in Objects /\ pins[k][o] > 0
  BY <1>0, PinningCounts
<1> HIDE DEF k
<1>3. 0 \notin Stores
  BY DEF Stores
<1>4. \A q \in Readers : /\ q # r => lease'[q] = lease[q]
                         /\ q = r => /\ lease'[q] = NoLease /\ lease'[q].store = 0
                                     /\ lease'[q].objects = {} /\ lease'[q].owed = {}
  BY <1>1, <1>l, Empties
<1>5. TypeOK'
  <2>1. pins' \in [Stores -> [Objects -> Nat]]
    BY <1>0, <1>1, <1>p
  <2>2. NoLease \in [store : Stores \cup {0}, objects : SUBSET Objects, owed : SUBSET Objects]
    BY DEF NoLease
  <2>3. lease' \in [Readers -> [store : Stores \cup {0}, objects : SUBSET Objects,
                                owed : SUBSET Objects]]
    BY <1>1, <1>l, <2>2
  <2> QED
    BY <1>1, <2>1, <2>3 DEF Inv, TypeOK
<1>6. RequirementsSound' /\ LeasedRootsKept' /\ ReadersCoherent' /\ RootedCurrent' /\ SweepCurrent'
  BY <1>1 DEF Inv, RequirementsSound, LeasedRootsKept, ReadersCoherent, RootedCurrent, SweepCurrent
<1>7. PinnedLiveKept'
  BY <1>1, <1>4 DEF Inv, PinnedLiveKept
<1>8. Custody'
  BY <1>1, <1>4 DEF Inv, Custody
<1>9. RootsCounted'
  BY <1>1 DEF Inv, RootsCounted, Holders
<1>10. PinsCounted'
  <2>1. ASSUME NEW j \in Stores, NEW o \in Objects
        PROVE  pins'[j][o] = Cardinality(Pinning(j, o)')
    <3>1. pins[j][o] = Cardinality(Pinning(j, o))
      BY DEF Inv, PinsCounted
    <3>3. CASE j = k /\ o \in lease[r].objects
      <4>1. Pinning(j, o)' = Pinning(j, o) \ {r} /\ r \in Pinning(j, o)
        BY <1>3, <1>4, <3>3 DEF Pinning, k
      <4>2. Pinning(j, o) \in SUBSET Readers
        BY DEF Pinning
      <4>3. pins'[j][o] = pins[j][o] - 1
        BY <1>0, <1>1, <1>2, <1>p, <3>3
      <4> QED
        BY <3>1, <4>1, <4>2, <4>3, Counting
    <3>4. CASE ~(j = k /\ o \in lease[r].objects)
      <4>1. Pinning(j, o)' = Pinning(j, o)
        BY <1>3, <1>4, <3>4 DEF Pinning, k
      <4>2. pins'[j][o] = pins[j][o]
        BY <1>0, <1>1, <1>p, <3>4
      <4> QED
        BY <3>1, <4>1, <4>2
    <3> QED
      BY <3>3, <3>4
  <2>2. \A q \in Readers : lease'[q].owed \subseteq lease'[q].objects
    BY <1>4 DEF Inv, PinsCounted
  <2> QED
    BY <2>1, <2>2 DEF PinsCounted
<1>11. SweepCovers'
  BY <1>1, <1>4 DEF Inv, SweepCovers
<1> QED
  BY <1>5, <1>6, <1>7, <1>8, <1>9, <1>10, <1>11 DEF Inv

-----------------------------------------------------------------------------
(* The sweep.                                                              *)

\* Every Reader there is has its root among the pinned ones.
LEMMA SweepRootsInv ==
    ASSUME Inv, SweepRoots
    PROVE  Inv'
<1> DEFINE pinnedRoots == {root \in Roots : rootPins[cur][root] > 0}
<1>1. /\ sweep' = [stage |-> "roots", view |-> mem[cur].pack, manifest |-> mem[cur].manifest,
                   roots |-> pinnedRoots, pinned |-> {}]
      /\ held
      /\ UNCHANGED <<mem, cur, held, alive, reader, lease, pins, rootPins>>
  BY DEF SweepRoots
<1>2. TypeOK'
  <2>1. mem[cur].pack \in Packs /\ mem[cur].manifest \in Manifests
    BY DEF Inv, TypeOK
  <2>2. sweep' \in [stage : {"none", "roots", "pins"}, view : Packs, manifest : Manifests,
                    roots : SUBSET Roots, pinned : SUBSET Objects]
    BY <1>1, <2>1
  <2> QED
    BY <1>1, <2>2 DEF Inv, TypeOK
<1>3. RequirementsSound' /\ LeasedRootsKept' /\ ReadersCoherent' /\ RootedCurrent' /\ PinnedLiveKept'
  BY <1>1 DEF Inv, RequirementsSound, LeasedRootsKept, ReadersCoherent, RootedCurrent,
              PinnedLiveKept
<1>4. Custody' /\ SweepCurrent'
  BY <1>1 DEF Inv, Custody, SweepCurrent
<1>5. RootsCounted' /\ PinsCounted'
  BY <1>1 DEF Inv, RootsCounted, PinsCounted, Holders, Pinning
<1>6. SweepCovers'
  <2>1. ASSUME NEW r \in Readers, reader[r].stage # "none", reader[r].store = cur
        PROVE  reader[r].deferred \in pinnedRoots
    BY <2>1, HolderCounts
  <2> HIDE DEF pinnedRoots
  <2>2. sweep'.stage = "roots" /\ sweep'.roots = pinnedRoots
    BY <1>1
  <2> QED
    BY <1>1, <2>1, <2>2 DEF SweepCovers
<1> QED
  BY <1>2, <1>3, <1>4, <1>5, <1>6 DEF Inv

\* Every lease there is has its objects among the pinned ones.
LEMMA SweepPinsInv ==
    ASSUME Inv, SweepPins
    PROVE  Inv'
<1> DEFINE pinned == {o \in Objects : pins[cur][o] > 0}
<1>0. sweep \in [stage : {"none", "roots", "pins"}, view : Packs, manifest : Manifests,
                 roots : SUBSET Roots, pinned : SUBSET Objects]
  BY DEF Inv, TypeOK
<1>1. /\ sweep' = [sweep EXCEPT !.stage = "pins", !.pinned = pinned]
      /\ sweep.stage = "roots"
      /\ UNCHANGED <<mem, cur, held, alive, reader, lease, pins, rootPins>>
  BY DEF SweepPins
<1>2. /\ sweep'.stage = "pins" /\ sweep'.pinned = pinned /\ sweep'.view = sweep.view
      /\ sweep'.manifest = sweep.manifest /\ sweep'.roots = sweep.roots
      /\ sweep' \in [stage : {"none", "roots", "pins"}, view : Packs, manifest : Manifests,
                     roots : SUBSET Roots, pinned : SUBSET Objects]
  BY <1>0, <1>1
<1>3. TypeOK'
  BY <1>1, <1>2 DEF Inv, TypeOK
<1>4. RequirementsSound' /\ LeasedRootsKept' /\ ReadersCoherent' /\ RootedCurrent' /\ PinnedLiveKept'
  BY <1>1 DEF Inv, RequirementsSound, LeasedRootsKept, ReadersCoherent, RootedCurrent,
              PinnedLiveKept
<1>5. Custody' /\ SweepCurrent'
  BY <1>1, <1>2 DEF Inv, Custody, SweepCurrent
<1>6. RootsCounted' /\ PinsCounted'
  BY <1>1 DEF Inv, RootsCounted, PinsCounted, Holders, Pinning
<1>7. SweepCovers'
  <2>1. ASSUME NEW r \in Readers, lease[r].store = cur
        PROVE  lease[r].owed \subseteq pinned
    <3>1. cur \in Stores
      BY DEF Inv, TypeOK
    <3>2. \A o \in lease[r].objects : o \in pinned
      BY <2>1, <3>1, PinningCounts
    <3> QED
      BY <3>2 DEF Inv, PinsCounted
  <2> HIDE DEF pinned
  <2> QED
    BY <1>1, <1>2, <2>1 DEF Inv, SweepCovers
<1> QED
  BY <1>3, <1>4, <1>5, <1>6, <1>7 DEF Inv

\* The live set spares what is required, what a Reader's root reaches and what
\* was live when it was pinned.
LEMMA SweepCompactInv ==
    ASSUME Inv, SweepCompact
    PROVE  Inv'
<1> DEFINE m == sweep.manifest
           roots == {m.eager, m.deferred} \cup sweep.roots
<1>t. /\ mem \in [Stores -> [manifest : Manifests, pack : Packs]] /\ cur \in Stores
      /\ sweep \in [stage : {"none", "roots", "pins"}, view : Packs, manifest : Manifests,
                    roots : SUBSET Roots, pinned : SUBSET Objects]
  BY DEF Inv, TypeOK
<1>0. /\ sweep.stage = "pins" /\ sweep' = NoSweep
      /\ UNCHANGED <<cur, held, alive, reader, lease, pins, rootPins>>
      /\ mem' = [mem EXCEPT ![cur].pack = Live] \/ mem' = mem
  BY DEF SweepCompact
<1>1. m = mem[cur].manifest /\ sweep.view = mem[cur].pack /\ held
  BY <1>0 DEF Inv, SweepCurrent
<1>2. /\ Live.objects = {o \in mem[cur].pack.objects :
                           o \in sweep.pinned \cup m.meta \cup UNION roots}
      /\ Live.nodes = {n \in mem[cur].pack.nodes : n \in roots \cup {m.caller}}
      /\ Live = [objects |-> Live.objects, nodes |-> Live.nodes]
  BY DEF Live
<1>3. Live \in Packs
  BY <1>2, <1>t DEF Packs
<1> HIDE DEF m
<1>4. \A k \in Stores : /\ mem'[k].manifest = mem[k].manifest
                        /\ k # cur => mem'[k] = mem[k]
                        /\ mem'[cur].pack = Live \/ mem'[cur].pack = mem[cur].pack
  BY <1>0, <1>t
<1>5. TypeOK'
  <2>1. mem' \in [Stores -> [manifest : Manifests, pack : Packs]]
    BY <1>0, <1>3, <1>t
  <2>2. NoSweep \in [stage : {"none", "roots", "pins"}, view : Packs, manifest : Manifests,
                     roots : SUBSET Roots, pinned : SUBSET Objects]
    BY Empties DEF NoSweep
  <2> QED
    BY <1>0, <2>1, <2>2 DEF Inv, TypeOK
<1>6. RequirementsSound'
  <2> SUFFICES ASSUME NEW k \in Stores
               PROVE  /\ mem'[k].manifest.eager \cap mem'[k].manifest.deferred = {}
                      /\ Required(mem'[k].manifest) \cup mem'[k].manifest.meta
                            \subseteq mem'[k].pack.objects
                      /\ Whole({mem'[k].manifest.eager, mem'[k].manifest.deferred,
                                mem'[k].manifest.caller}, mem'[k].pack)
    BY DEF RequirementsSound
  <2>1. /\ mem[k].manifest.eager \cap mem[k].manifest.deferred = {}
        /\ Required(mem[k].manifest) \cup mem[k].manifest.meta \subseteq mem[k].pack.objects
        /\ Whole({mem[k].manifest.eager, mem[k].manifest.deferred, mem[k].manifest.caller},
                 mem[k].pack)
    BY DEF Inv, RequirementsSound
  <2>2. CASE mem'[k] = mem[k]
    BY <2>1, <2>2
  <2>3. CASE k = cur /\ mem'[k].pack = Live
    <3>1. Required(m) \cup m.meta \subseteq Live.objects
      BY <1>1, <1>2, <2>1, <2>3 DEF Required
    <3>2. Whole({m.eager, m.deferred, m.caller}, Live)
      BY <1>1, <1>2, <2>1, <2>3 DEF Whole, Nodes
    <3> QED
      BY <1>1, <1>4, <2>1, <2>3, <3>1, <3>2
  <2> QED
    BY <1>0, <1>4, <1>t, <2>2, <2>3
<1>7. LeasedRootsKept'
  <2> SUFFICES ASSUME NEW r \in Readers, reader[r].stage # "none"
               PROVE  /\ Whole({reader[r].deferred}, mem'[reader[r].store].pack)
                      /\ reader[r].deferred \subseteq mem'[reader[r].store].pack.objects
    BY <1>0 DEF LeasedRootsKept
  <2>1. /\ Whole({reader[r].deferred}, mem[reader[r].store].pack)
        /\ reader[r].deferred \subseteq mem[reader[r].store].pack.objects
        /\ reader[r].store \in Stores
    BY DEF Inv, LeasedRootsKept, TypeOK
  <2>2. CASE mem'[reader[r].store].pack = mem[reader[r].store].pack
    BY <2>1, <2>2
  <2>3. CASE reader[r].store = cur /\ mem'[cur].pack = Live
    <3>1. reader[r].deferred \in roots
      BY <1>0, <2>3 DEF m, Inv, SweepCovers
    <3>2. reader[r].deferred \subseteq Live.objects
      BY <1>2, <2>1, <2>3, <3>1
    <3>3. Whole({reader[r].deferred}, Live)
      BY <1>2, <2>1, <2>3, <3>1 DEF Whole, Nodes
    <3> QED
      BY <2>3, <3>2, <3>3
  <2> QED
    BY <1>4, <2>1, <2>2, <2>3
<1>8. PinnedLiveKept'
  <2> SUFFICES ASSUME NEW r \in Readers, lease[r] # NoLease
               PROVE  lease[r].owed \subseteq mem'[lease[r].store].pack.objects
    BY <1>0 DEF PinnedLiveKept
  <2>1. /\ lease[r].owed \subseteq mem[lease[r].store].pack.objects
        /\ lease[r].store \in Stores
    BY DEF Inv, PinnedLiveKept, Custody, TypeOK
  <2>2. CASE mem'[lease[r].store].pack = mem[lease[r].store].pack
    BY <2>1, <2>2
  <2>3. CASE lease[r].store = cur /\ mem'[cur].pack = Live
    <3>1. lease[r].owed \subseteq sweep.pinned \cup Required(m) \cup UNION sweep.roots
      BY <1>0, <2>3 DEF m, Inv, SweepCovers
    <3>2. lease[r].owed \subseteq sweep.pinned \cup UNION roots
      BY <3>1 DEF Required
    <3> QED
      BY <1>2, <2>1, <2>3, <3>2
  <2> QED
    BY <1>4, <2>1, <2>2, <2>3
<1>9. ReadersCoherent' /\ Custody'
  BY <1>0 DEF Inv, ReadersCoherent, Custody
<1>10. RootedCurrent'
  <2>1. \A r \in Readers : reader[r].store \in Stores
    BY DEF Inv, TypeOK
  <2> QED
    BY <1>0, <1>4, <2>1 DEF Inv, RootedCurrent
<1>11. SweepCurrent' /\ SweepCovers'
  BY <1>0, Empties DEF SweepCurrent, SweepCovers
<1>12. RootsCounted' /\ PinsCounted'
  BY <1>0 DEF Inv, RootsCounted, PinsCounted, Holders, Pinning
<1> QED
  BY <1>5, <1>6, <1>7, <1>8, <1>9, <1>10, <1>11, <1>12 DEF Inv

-----------------------------------------------------------------------------
(* Commits.                                                                *)

\* Whatever manifest is sealed, the invariant holds after it if its classes are
\* disjoint and what it requires was in the table or is added: no Reader is
\* half made, no sweep runs, and a table only grows.
LEMMA SealInv ==
    ASSUME Inv, Exclusive,
           NEW m \in Manifests, NEW added \in SUBSET Objects,
           m.eager \cap m.deferred = {},
           Required(m) \subseteq mem[cur].pack.objects \cup added,
           Seal(m, added),
           UNCHANGED <<cur, held, alive, reader, lease, pins, rootPins, sweep>>
    PROVE  Inv'
<1> DEFINE p == mem[cur].pack
           q == [objects |-> p.objects \cup added \cup m.meta,
                 nodes |-> p.nodes \cup Nodes(m.eager) \cup Nodes(m.deferred)
                                   \cup Nodes(m.caller)]
<1>t. mem \in [Stores -> [manifest : Manifests, pack : Packs]] /\ cur \in Stores
  BY DEF Inv, TypeOK
<1>1. /\ mem' = [mem EXCEPT ![cur] = [manifest |-> m, pack |-> q]]
      /\ mem'[cur] = [manifest |-> m, pack |-> q]
      /\ \A k \in Stores : k # cur => mem'[k] = mem[k]
  BY <1>t DEF Seal
<1>2. m.meta \subseteq Objects
  BY StoreAssumption DEF Manifests, StoreAssumption
<1>3. p \in Packs /\ q \in Packs
  <2>1. p.objects \subseteq Objects /\ p.nodes \subseteq Roots /\ p \in Packs
    BY <1>t DEF Packs
  <2>2. m.eager \in Roots /\ m.deferred \in Roots /\ m.caller \in Roots
    BY DEF Manifests
  <2>3. Nodes(m.eager) \subseteq Roots /\ Nodes(m.deferred) \subseteq Roots
        /\ Nodes(m.caller) \subseteq Roots
    BY <2>2 DEF Nodes
  <2> QED
    BY <1>2, <2>1, <2>3 DEF Packs
<1>4. p.objects \subseteq q.objects /\ p.nodes \subseteq q.nodes
  OBVIOUS
<1>5. sweep.stage = "none" /\ \A r \in Readers : reader[r].stage = "rooted" => reader[r].store # cur
  BY DEF Exclusive
<1>6. /\ Required(m) \cup m.meta \subseteq q.objects
      /\ Whole({m.eager, m.deferred, m.caller}, q)
  <2>1. Required(m) \cup m.meta \subseteq q.objects
    OBVIOUS
  <2>2. Whole({m.eager, m.deferred, m.caller}, q)
    BY DEF Whole
  <2> QED
    BY <2>1, <2>2
<1> HIDE DEF q
<1>7. TypeOK'
  <2>1. mem' \in [Stores -> [manifest : Manifests, pack : Packs]]
    BY <1>1, <1>3, <1>t
  <2> QED
    BY <2>1 DEF Inv, TypeOK
<1>8. RequirementsSound'
  <2> SUFFICES ASSUME NEW k \in Stores
               PROVE  /\ mem'[k].manifest.eager \cap mem'[k].manifest.deferred = {}
                      /\ Required(mem'[k].manifest) \cup mem'[k].manifest.meta
                            \subseteq mem'[k].pack.objects
                      /\ Whole({mem'[k].manifest.eager, mem'[k].manifest.deferred,
                                mem'[k].manifest.caller}, mem'[k].pack)
    BY DEF RequirementsSound
  <2>1. CASE k = cur
    <3>1. mem'[k].manifest = m /\ mem'[k].pack = q
      BY <1>1, <2>1
    <3> QED
      BY <1>6, <3>1
  <2>2. CASE k # cur
    <3>1. mem'[k] = mem[k]
      BY <1>1, <2>2
    <3> QED
      BY <3>1 DEF Inv, RequirementsSound
  <2> QED
    BY <2>1, <2>2
<1>9. \A k \in Stores : /\ mem[k].pack.objects \subseteq mem'[k].pack.objects
                        /\ mem[k].pack.nodes \subseteq mem'[k].pack.nodes
  BY <1>1, <1>4
<1>10. LeasedRootsKept'
  <2>1. \A r \in Readers : reader[r].store \in Stores
    BY DEF Inv, TypeOK
  <2> SUFFICES ASSUME NEW r \in Readers, reader[r].stage # "none"
               PROVE  /\ Whole({reader[r].deferred}, mem'[reader[r].store].pack)
                      /\ reader[r].deferred \subseteq mem'[reader[r].store].pack.objects
    BY DEF LeasedRootsKept
  <2>2. /\ Whole({reader[r].deferred}, mem[reader[r].store].pack)
        /\ reader[r].deferred \subseteq mem[reader[r].store].pack.objects
    BY DEF Inv, LeasedRootsKept
  <2> QED
    BY <1>9, <2>1, <2>2 DEF Whole
<1>11. PinnedLiveKept'
  <2>1. \A r \in Readers : lease[r] # NoLease => lease[r].store \in Stores
    BY DEF Inv, TypeOK, Custody
  <2> QED
    BY <1>9, <2>1 DEF Inv, PinnedLiveKept
<1>12. ReadersCoherent' /\ Custody'
  BY DEF Inv, ReadersCoherent, Custody
<1>13. RootedCurrent'
  <2>1. \A r \in Readers : reader[r].store \in Stores
    BY DEF Inv, TypeOK
  <2> QED
    BY <1>1, <1>5, <2>1 DEF Inv, RootedCurrent
<1>14. SweepCurrent' /\ SweepCovers'
  BY <1>5 DEF SweepCurrent, SweepCovers
<1>15. RootsCounted' /\ PinsCounted'
  BY DEF Inv, RootsCounted, PinsCounted, Holders, Pinning
<1> QED
  BY <1>7, <1>8, <1>10, <1>11, <1>12, <1>13, <1>14, <1>15 DEF Inv

\* Joining a class leaves the other.
LEMMA CommitClassifiedInv ==
    ASSUME Inv, CommitClassified
    PROVE  Inv'
<1> DEFINE m == mem[cur].manifest
<1>0. m \in Manifests /\ m.eager \in SUBSET Objects /\ m.deferred \in SUBSET Objects
  BY DEF Inv, TypeOK, Manifests, Roots
<1>1. PICK ea, er, da, dr \in Deltas, caller \in CallerRoots, meta \in Metas :
          Seal([eager |-> Reclassified(m, ea, er, da, dr).eager,
                deferred |-> Reclassified(m, ea, er, da, dr).deferred, caller |-> caller,
                meta |-> {meta}], ea \cup da)
  BY DEF CommitClassified
<1>2. Exclusive /\ UNCHANGED <<cur, held, alive, reader, lease, pins, rootPins, sweep>>
  BY DEF CommitClassified
<1> DEFINE e == ((m.eager \ er) \cup ea) \ (da \ ea)
           d == ((m.deferred \ dr) \cup (da \ ea)) \ ea
           c == [eager |-> e, deferred |-> d, caller |-> caller, meta |-> {meta}]
<1>3. Seal(c, ea \cup da)
  BY <1>1 DEF Reclassified
<1>4. ea \in SUBSET Objects /\ da \in SUBSET Objects /\ caller \in SUBSET Objects /\ meta \in Metas
  BY StoreAssumption DEF StoreAssumption
<1>5. c \in Manifests
  BY <1>0, <1>4 DEF Manifests, Roots
<1>6. /\ m.eager \cap m.deferred = {}
      /\ m.eager \cup m.deferred \subseteq mem[cur].pack.objects
  BY DEF Inv, RequirementsSound, TypeOK, Required
<1>7. c.eager = e /\ c.deferred = d
  OBVIOUS
<1>8. c.eager \cap c.deferred = {}
  BY <1>6, <1>7
<1>9. Required(c) \subseteq mem[cur].pack.objects \cup (ea \cup da)
  BY <1>6, <1>7 DEF Required
<1>10. ea \cup da \in SUBSET Objects
  BY <1>4
<1> HIDE DEF c, m, e, d
<1> QED
  BY <1>2, <1>3, <1>5, <1>8, <1>9, <1>10, SealInv

\* What it keeps is required already, what it adds it writes.
LEMMA CommitRequiredSetInv ==
    ASSUME Inv, CommitRequiredSet
    PROVE  Inv'
<1> DEFINE m == mem[cur].manifest
<1>0. m \in Manifests /\ m.eager \in SUBSET Objects /\ m.deferred \in SUBSET Objects
  BY DEF Inv, TypeOK, Manifests, Roots
<1>1. PICK added \in Deltas, keep \in SUBSET m.eager, meta \in Metas :
          LET r == Reclassified(m, added, m.eager \ keep, {}, {}) IN
          /\ keep \subseteq mem[cur].pack.objects
          /\ Seal([eager |-> r.eager, deferred |-> r.deferred, caller |-> {},
                   meta |-> {meta}], added)
  BY DEF CommitRequiredSet
<1>2. Exclusive /\ UNCHANGED <<cur, held, alive, reader, lease, pins, rootPins, sweep>>
  BY DEF CommitRequiredSet
<1> DEFINE e == ((m.eager \ (m.eager \ keep)) \cup added) \ ({} \ added)
           d == ((m.deferred \ {}) \cup ({} \ added)) \ added
           c == [eager |-> e, deferred |-> d, caller |-> {}, meta |-> {meta}]
<1>3. added \in SUBSET Objects
  BY StoreAssumption DEF StoreAssumption
<1>4. c \in Manifests
  BY <1>0, <1>3 DEF Manifests, Roots
<1>5. /\ m.eager \cap m.deferred = {}
      /\ m.eager \cup m.deferred \subseteq mem[cur].pack.objects
  BY DEF Inv, RequirementsSound, TypeOK, Required
<1>6. c.eager = e /\ c.deferred = d
  OBVIOUS
<1>7. c.eager \cap c.deferred = {}
  BY <1>5, <1>6
<1>8. Required(c) \subseteq mem[cur].pack.objects \cup added
  BY <1>5, <1>6 DEF Required
<1>9. Seal(c, added)
  BY <1>1 DEF Reclassified
<1> HIDE DEF c, m, e, d
<1> QED
  BY <1>2, <1>3, <1>4, <1>7, <1>8, <1>9, SealInv

-----------------------------------------------------------------------------
(* Custody.                                                                *)

\* Nothing the Store keeps depends on its lock once no sweep runs.
LEMMA ReleaseOwnerLockInv ==
    ASSUME Inv, ReleaseOwnerLock
    PROVE  Inv'
<1>1. held' = FALSE /\ sweep.stage = "none"
      /\ UNCHANGED <<mem, cur, alive, reader, lease, pins, rootPins, sweep>>
  BY DEF ReleaseOwnerLock, Exclusive
<1>2. TypeOK'
  BY <1>1 DEF Inv, TypeOK
<1>3. RequirementsSound' /\ LeasedRootsKept' /\ ReadersCoherent' /\ RootedCurrent' /\ PinnedLiveKept'
  BY <1>1 DEF Inv, RequirementsSound, LeasedRootsKept, ReadersCoherent, RootedCurrent,
              PinnedLiveKept
<1>4. Custody' /\ SweepCurrent' /\ SweepCovers'
  BY <1>1 DEF Inv, Custody, SweepCurrent, SweepCovers
<1>5. RootsCounted' /\ PinsCounted'
  BY <1>1 DEF Inv, RootsCounted, PinsCounted, Holders, Pinning
<1> QED
  BY <1>2, <1>3, <1>4, <1>5 DEF Inv

\* The successor is a Store nobody has a Reader or a lease of.
LEMMA OpenInv ==
    ASSUME Inv, Open
    PROVE  Inv'
<1>t. mem \in [Stores -> [manifest : Manifests, pack : Packs]] /\ cur \in Stores
  BY DEF Inv, TypeOK
<1>0. cur \in Nat /\ cur + 1 \in Stores /\ cur + 1 # cur
  BY <1>t, StoreAssumption DEF Open, Stores, StoreAssumption
<1>1. /\ mem' = [mem EXCEPT ![cur + 1] = mem[cur]] /\ cur' = cur + 1
      /\ alive' = alive \cup {cur + 1} /\ held' = TRUE /\ ~held
      /\ UNCHANGED <<reader, lease, pins, rootPins, sweep>>
  BY DEF Open
<1>2. sweep.stage = "none"
  BY <1>1 DEF Inv, SweepCurrent
<1>3. cur + 1 \notin alive
  <2>1. \A k \in alive : k \in Nat /\ k <= cur
    BY DEF Inv, Custody, TypeOK, Stores
  <2> QED
    BY <1>0, <2>1
<1>4. /\ mem'[cur + 1] = mem[cur]
      /\ \A k \in Stores : k # cur + 1 => mem'[k] = mem[k]
  BY <1>0, <1>1, <1>t
<1>5. TypeOK'
  <2>1. mem' \in [Stores -> [manifest : Manifests, pack : Packs]]
    BY <1>0, <1>1, <1>t
  <2>2. cur' \in Stores /\ held' \in BOOLEAN /\ alive' \subseteq Stores
    BY <1>0, <1>1 DEF Inv, TypeOK
  <2> QED
    BY <1>1, <2>1, <2>2 DEF Inv, TypeOK
<1>6. RequirementsSound'
  <2> SUFFICES ASSUME NEW k \in Stores
               PROVE  /\ mem'[k].manifest.eager \cap mem'[k].manifest.deferred = {}
                      /\ Required(mem'[k].manifest) \cup mem'[k].manifest.meta
                            \subseteq mem'[k].pack.objects
                      /\ Whole({mem'[k].manifest.eager, mem'[k].manifest.deferred,
                                mem'[k].manifest.caller}, mem'[k].pack)
    BY DEF RequirementsSound
  <2>1. PICK j \in Stores : mem'[k] = mem[j]
    BY <1>4, <1>t
  <2> QED
    BY <2>1 DEF Inv, RequirementsSound
<1>7. /\ \A r \in Readers : reader[r].stage # "none" =>
            reader[r].store \in Stores /\ reader[r].store # cur + 1
      /\ \A r \in Readers : lease[r] # NoLease =>
            lease[r].store \in Stores /\ lease[r].store # cur + 1
  BY <1>3 DEF Inv, Custody, TypeOK
<1>8. LeasedRootsKept'
  BY <1>1, <1>4, <1>7 DEF Inv, LeasedRootsKept
<1>9. PinnedLiveKept'
  BY <1>1, <1>4, <1>7 DEF Inv, PinnedLiveKept
<1>10. RootedCurrent'
  BY <1>1, <1>4, <1>7 DEF Inv, RootedCurrent
<1>11. ReadersCoherent'
  BY <1>1 DEF Inv, ReadersCoherent
<1>12. Custody'
  <2>1. \A k \in alive' : k <= cur'
    BY <1>0, <1>1 DEF Inv, Custody, TypeOK, Stores
  <2> QED
    BY <1>1, <2>1 DEF Inv, Custody
<1>13. SweepCurrent' /\ SweepCovers'
  BY <1>1, <1>2 DEF SweepCurrent, SweepCovers
<1>14. RootsCounted' /\ PinsCounted'
  BY <1>1 DEF Inv, RootsCounted, PinsCounted, Holders, Pinning
<1> QED
  BY <1>5, <1>6, <1>8, <1>9, <1>10, <1>11, <1>12, <1>13, <1>14 DEF Inv

\* Only what the last Store sealed is left.
LEMMA CrashInv ==
    ASSUME Inv, Crash
    PROVE  Inv'
<1> DEFINE empty == [manifest |-> NoManifest, pack |-> NoPack]
<1>t. mem \in [Stores -> [manifest : Manifests, pack : Packs]] /\ cur \in Stores
  BY DEF Inv, TypeOK
<1>1. /\ held' = FALSE /\ alive' = {} /\ cur' = cur
      /\ reader' = [r \in Readers |-> NoReader]
      /\ lease' = [r \in Readers |-> NoLease]
      /\ pins' = [k \in Stores |-> [o \in Objects |-> 0]]
      /\ rootPins' = [k \in Stores |-> [root \in Roots |-> 0]]
      /\ sweep' = NoSweep
      /\ mem' = [k \in Stores |-> IF k = cur THEN mem[k] ELSE empty]
  BY DEF Crash
<1>2. TypeOK'
  <2>1. mem' \in [Stores -> [manifest : Manifests, pack : Packs]]
    BY <1>1, <1>t, Empties
  <2>2. NoReader \in [stage : {"none", "rooted", "ready"}, store : Stores,
                      eager : Roots, deferred : Roots, view : Packs]
    BY StoreAssumption DEF NoReader, NoPack, Packs, Roots, Stores, StoreAssumption
  <2>3. NoLease \in [store : Stores \cup {0}, objects : SUBSET Objects, owed : SUBSET Objects]
    BY DEF NoLease
  <2>4. NoSweep \in [stage : {"none", "roots", "pins"}, view : Packs, manifest : Manifests,
                     roots : SUBSET Roots, pinned : SUBSET Objects]
    BY Empties DEF NoSweep
  <2> QED
    BY <1>1, <1>t, <2>1, <2>2, <2>3, <2>4 DEF TypeOK
<1>3. RequirementsSound'
  <2> SUFFICES ASSUME NEW k \in Stores
               PROVE  /\ mem'[k].manifest.eager \cap mem'[k].manifest.deferred = {}
                      /\ Required(mem'[k].manifest) \cup mem'[k].manifest.meta
                            \subseteq mem'[k].pack.objects
                      /\ Whole({mem'[k].manifest.eager, mem'[k].manifest.deferred,
                                mem'[k].manifest.caller}, mem'[k].pack)
    BY DEF RequirementsSound
  <2>1. CASE k = cur
    <3>1. mem'[k] = mem[k]
      BY <1>1, <2>1
    <3> QED
      BY <3>1 DEF Inv, RequirementsSound
  <2>2. CASE k # cur
    <3>1. mem'[k].manifest = NoManifest /\ mem'[k].pack = NoPack
      BY <1>1, <2>2
    <3> QED
      BY <3>1 DEF Required, Whole, Nodes, NoManifest, NoPack
  <2> QED
    BY <2>1, <2>2
<1>4. \A r \in Readers : /\ reader'[r].stage = "none" /\ lease'[r] = NoLease
                         /\ lease'[r].store = 0 /\ lease'[r].owed = {} /\ lease'[r].objects = {}
  BY <1>1, Empties
<1>5. LeasedRootsKept' /\ PinnedLiveKept' /\ ReadersCoherent' /\ RootedCurrent'
  BY <1>4 DEF LeasedRootsKept, PinnedLiveKept, ReadersCoherent, RootedCurrent
<1>6. Custody' /\ SweepCurrent' /\ SweepCovers'
  BY <1>1, <1>4, Empties DEF Custody, SweepCurrent, SweepCovers
<1>7. RootsCounted'
  <2> SUFFICES ASSUME NEW k \in Stores, NEW root \in Roots
               PROVE  rootPins'[k][root] = Cardinality(Holders(k, root)')
    BY DEF RootsCounted
  <2>1. Holders(k, root)' = {}
    BY <1>4 DEF Holders
  <2> QED
    BY <1>1, <2>1, FS_EmptySet
<1>8. PinsCounted'
  <2>1. ASSUME NEW k \in Stores, NEW o \in Objects
        PROVE  pins'[k][o] = Cardinality(Pinning(k, o)')
    <3>1. Pinning(k, o)' = {}
      BY <1>4 DEF Pinning
    <3> QED
      BY <1>1, <3>1, FS_EmptySet
  <2> QED
    BY <1>4, <2>1 DEF PinsCounted
<1> QED
  BY <1>2, <1>3, <1>5, <1>6, <1>7, <1>8 DEF Inv

-----------------------------------------------------------------------------
(* The theorems.                                                           *)

\* Every step of the Store keeps the invariant.
LEMMA NextInv == Inv /\ [Next]_vars => Inv'
<1> SUFFICES ASSUME Inv, [Next]_vars PROVE Inv'
  OBVIOUS
<1>1. CASE UNCHANGED vars
  <2>1. TypeOK' /\ RequirementsSound' /\ LeasedRootsKept' /\ PinnedLiveKept'
    BY <1>1 DEF vars, Inv, TypeOK, RequirementsSound, LeasedRootsKept, PinnedLiveKept
  <2>2. ReadersCoherent' /\ Custody' /\ RootedCurrent' /\ SweepCurrent' /\ SweepCovers'
    BY <1>1 DEF vars, Inv, ReadersCoherent, Custody, RootedCurrent, SweepCurrent, SweepCovers
  <2>3. RootsCounted' /\ PinsCounted'
    BY <1>1 DEF vars, Inv, RootsCounted, PinsCounted, Holders, Pinning
  <2> QED
    BY <2>1, <2>2, <2>3 DEF Inv
<1>2. CASE CommitClassified
  BY <1>2, CommitClassifiedInv
<1>3. CASE CommitRequiredSet
  BY <1>3, CommitRequiredSetInv
<1>4. ASSUME NEW r \in Readers,
             \/ \E k \in Stores : ReaderRoot(r, k)
             \/ ReaderView(r) \/ ReaderDrop(r) \/ PinObjects(r) \/ LeaseDrop(r)
      PROVE  Inv'
  BY <1>4, ReaderRootInv, ReaderViewInv, ReaderDropInv, PinObjectsInv, LeaseDropInv
<1>5. CASE SweepRoots \/ SweepPins \/ SweepCompact
  BY <1>5, SweepRootsInv, SweepPinsInv, SweepCompactInv
<1>6. CASE ReleaseOwnerLock \/ Open \/ Crash
  BY <1>6, ReleaseOwnerLockInv, OpenInv, CrashInv
<1> QED
  BY <1>1, <1>2, <1>3, <1>4, <1>5, <1>6 DEF Next

\* The invariant holds in every reachable state.
LEMMA Invariance == Spec => []Inv
BY InitInv, NextInv, PTL DEF Spec

\* Every reachable state of the Store is well typed; no registry of leases ever
\* counts below zero.
THEOREM StoreTyped == Spec => []TypeOK
<1>1. Inv => TypeOK
  BY DEF Inv
<1> QED
  BY Invariance, <1>1, PTL

\* Commits, sweeps, hand-overs and deaths leave every requirement satisfied:
\* commit_classified and collect_unreachable together never lose a required
\* object, a metadata object or an index node.
THEOREM RequirementsAreSound == Spec => []RequirementsSound
<1>1. Inv => RequirementsSound
  BY DEF Inv
<1> QED
  BY Invariance, <1>1, PTL

\* The root lease of a Reader keeps its deferred index through every sweep.
THEOREM LeasesKeep == Spec => []LeasedRootsKept
<1>1. Inv => LeasedRootsKept
  BY DEF Inv
<1> QED
  BY Invariance, <1>1, PTL

\* What was live when PinnedReads::pin_objects leased it stays live through every
\* sweep, although a sweep reads its roots and its pins in two steps.
THEOREM PinsKeep == Spec => []PinnedLiveKept
<1>1. Inv => PinnedLiveKept
  BY DEF Inv
<1> QED
  BY Invariance, <1>1, PTL

\* The view of a Reader holds all its roots reach, whatever fell between the
\* two halves of Store::reader.
THEOREM ReadersAreCoherent == Spec => []ReadersCoherent
<1>1. Inv => ReadersCoherent
  BY DEF Inv
<1> QED
  BY Invariance, <1>1, PTL
=============================================================================
