--------------------------- MODULE PackReadProofs ----------------------------
(***************************************************************************)
(* That everything a table names is there: what a commit, a compaction and *)
(* a recovery leave can be read in full, by the writer and by every view   *)
(* it hands out.  Between two opens this needs no hypothesis.  An open     *)
(* re-hashes only the newest delta, so what it elects is readable only if  *)
(* the slots say so (ElectedGood): always while the page cache survives,   *)
(* which is proved here, and after a power loss by the argument of         *)
(* PackPowerProofs.                                                        *)
(***************************************************************************)
EXTENDS PackChainProofs

\* A commit that can be read in full: every object of its chain's table re-hashes, and
\* its manifest needs no other.
GoodAt(b, i) ==
    /\ DeltaHolds(b, ChainTable(b, i))
    /\ b[i].manifest \subseteq DOMAIN ChainTable(b, i)

\* A table is as readable in two logs that agree where it points.
LEMMA DeltaSame ==
    ASSUME NEW b, NEW c, NEW t, \A h \in DOMAIN t : b[t[h]] = c[t[h]], DeltaHolds(b, t)
    PROVE  DeltaHolds(c, t)
BY DEF DeltaHolds

LEMMA GoodAtSame ==
    ASSUME NEW b, NEW c, IsLog(b), IsLog(c), NEW i \in Seals(b), Same(b, c, i), GoodAt(b, i)
    PROVE  GoodAt(c, i)
<1>1. ChainTable(c, i) = ChainTable(b, i)
  BY SameConclusion
<1>2. b \in [Offsets -> Block] /\ i \in Nat /\ i \in Offsets
  BY SealFacts DEF IsLog
<1>3. \A h \in DOMAIN ChainTable(b, i) : ChainTable(b, i)[h] < i /\ ChainTable(b, i)[h] \in 1 .. MaxLen
  BY TableBelow
<1>4. \A h \in DOMAIN ChainTable(b, i) : b[ChainTable(b, i)[h]] = c[ChainTable(b, i)[h]]
  BY <1>2, <1>3 DEF Same, Offsets
<1>5. b[i] = c[i]
  BY <1>2 DEF Same
<1>6. DeltaHolds(c, ChainTable(b, i))
  BY <1>4, DeltaSame DEF GoodAt
<1> QED
  BY <1>1, <1>5, <1>6 DEF GoodAt

\* Two objects are never appended at one offset.
LEMMA PlacedApart ==
    ASSUME NEW new \in SUBSET Objects, NEW end \in Offsets, Fits(new, end),
           NEW g \in new, NEW h \in new, g < h
    PROVE  Placed(new, end)[g] # Placed(new, end)[h]
<1> DEFINE low(k) == {x \in new : x <= k}
<1>0. new \subseteq Nat /\ g \in Nat /\ h \in Nat
  BY RecordsAssumption
<1>1. IsFiniteSet(new) /\ Cardinality(new) \in Nat
  BY FS_Subset, FS_CardinalityType, RecordsAssumption
<1>2. \A k : low(k) \in SUBSET new
  OBVIOUS
<1>3. \A k : IsFiniteSet(low(k)) /\ Cardinality(low(k)) \in Nat
  BY <1>1, <1>2, FS_Subset, FS_CardinalityType
<1>4. h \notin low(g) /\ low(g) \cup {h} \subseteq low(h)
  <2>1. \A x \in new : x \in Nat /\ (x <= g => x <= h)
    BY <1>0
  <2>2. h <= h /\ ~(h <= g)
    BY <1>0
  <2> QED
    BY <2>1, <2>2
<1>5. Placed(new, end)[g] = end + Cardinality(low(g)) /\ Placed(new, end)[h] = end + Cardinality(low(h))
  BY DEF Placed
<1> HIDE DEF low
<1>6. Cardinality(low(g) \cup {h}) = Cardinality(low(g)) + 1
  BY <1>3, <1>4, FS_AddElement
<1>7. Cardinality(low(g) \cup {h}) <= Cardinality(low(h))
  BY <1>3, <1>4, FS_Subset
<1>8. end \in Nat
  BY DEF Offsets
<1> QED
  BY <1>3, <1>5, <1>6, <1>7, <1>8

\* The object records lie where the table says.
LEMMA RecordsPlaced ==
    ASSUME NEW new \in SUBSET Objects, NEW end \in Offsets, Fits(new, end), NEW h \in new
    PROVE  /\ Placed(new, end)[h] \in DOMAIN ObjectRecords(new, end)
           /\ Placed(new, end)[h] \in Offsets
           /\ ObjectRecords(new, end)[Placed(new, end)[h]] = ObjectRecord(h)
<1> DEFINE at == Placed(new, end)
           c  == CHOOSE g \in new : at[g] = at[h]
<1>1. DOMAIN ObjectRecords(new, end) = {at[g] : g \in new}
  BY DEF ObjectRecords
<1>2. at[h] \in DOMAIN ObjectRecords(new, end)
  BY <1>1
<1>3. ObjectRecords(new, end)[at[h]] = ObjectRecord(c)
  BY <1>1, <1>2 DEF ObjectRecords
<1>4. c \in new /\ at[c] = at[h]
  OBVIOUS
<1>5. c \in Nat /\ h \in Nat
  BY <1>4, RecordsAssumption
<1> HIDE DEF c, at
<1>6. c = h
  <2>1. c < h => at[c] # at[h]
    BY <1>4, PlacedApart DEF at
  <2>2. h < c => at[h] # at[c]
    BY <1>4, PlacedApart DEF at
  <2> QED
    BY <1>4, <1>5, <2>1, <2>2
<1>7. at[h] \in Offsets
  BY <1>2, ObjectRecordsFacts
<1> QED
  BY <1>2, <1>3, <1>6, <1>7 DEF at

\* What an append writes can be read back.
LEMMA WrittenHolds ==
    ASSUME NEW s \in Slot, NEW new \in SUBSET Objects, NEW end \in Offsets, Fits(new, end),
           NEW w, NEW last,
           \A i \in DOMAIN ObjectRecords(new, end) : i \in DOMAIN w /\ w[i] = ObjectRecords(new, end)[i]
    PROVE  DeltaHolds(Write(s, w, last).vol, Placed(new, end))
<1> DEFINE at == Placed(new, end)
<1>1. DOMAIN at = new
  BY DEF Placed
<1>2. ASSUME NEW h \in new
      PROVE  Write(s, w, last).vol[at[h]] = ObjectRecord(h)
  <2>1. at[h] \in DOMAIN w /\ at[h] \in Offsets /\ w[at[h]] = ObjectRecord(h)
    BY RecordsPlaced
  <2> HIDE DEF at
  <2> QED
    BY <2>1, WriteFields
<1> HIDE DEF at
<1>3. \A h \in new : ObjectRecord(h).kind = "object" /\ ObjectRecord(h).hash = h
  BY DEF ObjectRecord
<1>4. DeltaHolds(Write(s, w, last).vol, at)
  BY <1>1, <1>2, <1>3 DEF DeltaHolds
<1> QED
  BY <1>4 DEF at

-----------------------------------------------------------------------------
(***************************************************************************)
(* The readable store.                                                     *)
(***************************************************************************)

Readable(b, t, manifest) == DeltaHolds(b, t) /\ manifest \subseteq DOMAIN t

\* The open pack, the commit in flight and the successor in the making.
ReadInv ==
    /\ pc \in Session => Readable(Here.vol, pack.table, pack.manifest)
    /\ pc \in {"commit", "sealed"} => Readable(Here.vol, wip.table, wip.seal.manifest)
    /\ pc = "successor" => Readable(Next1.vol, wip.table, pack.manifest)

\* A view's table points below the sealed length it was taken at, and reads.
ViewReadInv ==
    \A r \in Readers : views[r].held =>
        /\ DeltaHolds(slots[views[r].gen].vol, views[r].table)
        /\ \A h \in DOMAIN views[r].table : views[r].table[h] \in 0 .. views[r].sealed

\* The slot an open is about to elect can be read in full.
ElectedGood ==
    pc = "down" => \A g \in Sound : (\A h \in Sound : Outranks(g, h)) =>
        GoodAt(slots[g].vol, Elected(slots[g].vol))

\* The table of the writer is readable wherever its slot is kept up to the last seal.
LEMMA KeptReadable ==
    ASSUME Inv, ShapeInv, NEW c, Stands(Here.vol, pack), Same(Here.vol, c, pack.sealed),
           Readable(Here.vol, pack.table, pack.manifest)
    PROVE  Readable(c, pack.table, pack.manifest)
<1>1. pack \in Packs /\ IsLog(Here.vol) /\ pack.sealed \in Offsets /\ \A i \in Offsets : i \in Nat
  BY WriterFacts
<1>2. \A h \in DOMAIN pack.table : pack.table[h] < pack.sealed /\ pack.table[h] \in 1 .. MaxLen
  BY <1>1, StandsTable
<1>3. \A h \in DOMAIN pack.table : Here.vol[pack.table[h]] = c[pack.table[h]]
  BY <1>1, <1>2 DEF Same, Offsets
<1>4. DeltaHolds(c, pack.table)
  BY <1>3, DeltaSame DEF Readable
<1> QED
  BY <1>4 DEF Readable

LEMMA SameRefl == ASSUME NEW b, NEW i PROVE Same(b, b, i)
BY DEF Same

LEMMA IdleRead ==
    ASSUME pc' \in {"down", "dark", "refused", "founding"}
    PROVE  ReadInv'
BY DEF ReadInv, Session, Open

\* Steps after which the writer's slot still reads as before, and nothing is in flight.
LEMMA StillRead ==
    ASSUME ReadInv, pc \in Session, pack' = pack, slots'[pack.gen].vol = slots[pack.gen].vol,
           pc' \in {"ready", "poisoned", "header"}
    PROVE  ReadInv'
<1>1. Here'.vol = Here.vol
  BY DEF Here
<1> QED
  BY <1>1 DEF ReadInv, Session, Open

-----------------------------------------------------------------------------
(* What keeps the store readable, step by step.                             *)

LEMMA OpenElectedRead ==
    ASSUME Inv, LogInv, ElectedGood, OpenElected
    PROVE  ReadInv'
<1>1. PICK g \in Sound : \E after : ElectedBy(g, after)
  BY OpenElectedFacts
<1>2. PICK after : ElectedBy(g, after)
  BY <1>1
<1> DEFINE i == Elected(slots[g].vol)
<1>3. /\ g \in Gens /\ i \in Offsets /\ slots[g].name /\ slots[g] \in Slot
      /\ pack'.gen = g /\ pack' = Recovered(g)
      /\ pc' \in {"trimming", "ready"} /\ slots'[g] = Truncate(slots[g], i)
  BY <1>2, ElectedByFacts
<1>4. GoodAt(slots[g].vol, i)
  BY <1>2, OpenElectedFacts DEF ElectedGood, ElectedBy
<1>5. i \in Seals(slots[g].vol) /\ IsLog(slots[g].vol)
  BY <1>3, RecoveredStands, SlotLog DEF LogInv
<1>6. IsLog(slots'[g].vol)
  <2>1. Inv' /\ LogInv'
    BY OpenElectedStep, OpenElectedLog
  <2>2. slots'[g] \in Slot /\ ShapeSlot(slots'[g])
    BY <1>3, <2>1 DEF Inv, TypeOK, LogInv, ShapeInv
  <2> QED
    BY <2>2, ShapeLog
<1>7. Same(slots[g].vol, slots'[g].vol, i)
  BY <1>3, TruncateFields DEF Same
<1>8. pack'.table = ChainTable(slots[g].vol, i) /\ pack'.manifest = slots[g].vol[i].manifest
  BY <1>3 DEF Recovered
<1> HIDE DEF i
<1>9. GoodAt(slots'[g].vol, i) /\ ChainTable(slots'[g].vol, i) = ChainTable(slots[g].vol, i)
  BY <1>4, <1>5, <1>6, <1>7, GoodAtSame, SameConclusion
<1>10. slots'[g].vol[i] = slots[g].vol[i]
  BY <1>3, <1>7 DEF Same, Offsets
<1>11. Readable(Here'.vol, pack'.table, pack'.manifest)
  BY <1>3, <1>8, <1>9, <1>10 DEF Readable, GoodAt, Here
<1> QED
  BY <1>3, <1>11 DEF ReadInv

LEMMA OpenFlushedRead ==
    ASSUME Inv, LogInv, ReadInv, OpenTrimmed \/ OpenFounded
    PROVE  ReadInv'
<1>1. /\ pc \in {"trimming", "founding"} /\ pc' = "ready" /\ pack' = pack
      /\ slots' = [slots EXCEPT ![pack.gen] = Flush(Here)]
  BY DEF Inv, PhaseInv, OpenTrimmed, OpenFounded, Here
<1>2. pack.gen \in Gens /\ Here \in Slot
  BY WriterFacts DEF LogInv
<1>3. Here' = Flush(Here) /\ Here'.vol = Here.vol
  BY <1>1, <1>2, FlushFields DEF Here, Inv, TypeOK
<1>4. CASE pc = "trimming"
  BY <1>1, <1>3, <1>4 DEF ReadInv, Session
<1>5. CASE pc = "founding"
  <2>1. Unsealed(pack)
    BY <1>5, SealedMeans DEF LogInv, StandsInv, EndInv
  <2>2. DOMAIN pack.table = {} /\ pack.manifest = {}
    BY <2>1 DEF Unsealed, NoTable
  <2>3. Readable(Here.vol, pack.table, pack.manifest)
    BY <2>2 DEF Readable, DeltaHolds
  <2> QED
    BY <1>1, <1>3, <2>3 DEF ReadInv
<1> QED
  BY <1>1, <1>4, <1>5

LEMMA AppendRead ==
    ASSUME Inv, LogInv, ReadInv, pc = "ready", NEW objects \in SUBSET Objects,
           NEW manifest \in SUBSET Objects,
           NEW migrating \in BOOLEAN, AppendObjects(objects, manifest, migrating)
    PROVE  ReadInv'
<1> DEFINE new  == NewOf(objects)
           end  == Here.len
           last == end + Cardinality(new)
           w    == ObjectRecords(new, end)
           at   == Placed(new, end)
<1>0. /\ pack \in Packs /\ pack.gen \in Gens /\ Here \in Slot
      /\ IsLog(Here.vol) /\ pack.sealed \in Offsets /\ \A i \in Offsets : i \in Nat
  BY WriterFacts DEF LogInv
<1>1. Appended(new, end, last, manifest, migrating) /\ w = ObjectRecords(new, end)
  BY AppendFacts
<1>2. end = pack.sealed /\ Stands(Here.vol, pack) /\ Readable(Here.vol, pack.table, pack.manifest)
  BY DEF LogInv, EndInv, StandsInv, ReadInv, Session, Open
<1>3. /\ pc' = "commit" /\ pack' = pack /\ new \in SUBSET Objects /\ end \in Offsets /\ Fits(new, end)
      /\ Here' = Write(Here, w, last) /\ wip'.table = Merge(at, pack.table)
      /\ wip'.seal.manifest \subseteq DOMAIN wip'.table
  BY <1>0, <1>1 DEF Appended, Here
<1>4. DOMAIN at = new /\ \A i \in DOMAIN w : i > end
  BY <1>3, ObjectRecordsFacts DEF Placed
<1>5. DeltaHolds(Here'.vol, at)
  BY <1>0, <1>3, WrittenHolds
<1> HIDE DEF new, end, last, w, at
<1>6. Same(Here.vol, Here'.vol, pack.sealed)
  <2>1. \A i \in Offsets : i \notin DOMAIN w => Here'.vol[i] = Here.vol[i]
    BY <1>0, <1>3, WriteFields
  <2> QED
    BY <1>0, <1>2, <1>4, <2>1 DEF Same
<1>7. Readable(Here'.vol, pack.table, pack.manifest)
  BY <1>2, <1>6, KeptReadable DEF LogInv
<1>8. DeltaHolds(Here'.vol, wip'.table)
  BY <1>3, <1>5, <1>7 DEF DeltaHolds, Readable, Merge
<1> QED
  BY <1>3, <1>7, <1>8 DEF ReadInv, Readable

LEMMA CommitSealRead ==
    ASSUME Inv, LogInv, ReadInv, CommitSeal
    PROVE  ReadInv'
<1> DEFINE end == Here.len + 1
           w   == [i \in {end} |-> wip.seal]
<1>0. /\ pack.gen \in Gens /\ Here \in Slot /\ pack.sealed \in Offsets /\ Here.len \in Offsets
      /\ \A i \in Offsets : i \in Nat
  BY WriterFacts DEF LogInv
<1>1. /\ pc = "commit" /\ pc' = "sealed" /\ UNCHANGED <<pack, wip>> /\ slots'[pack.gen] = Write(Here, w, end)
  BY CommitSealFacts
<1>2. /\ pack.sealed <= Here.len /\ Stands(Here.vol, pack)
      /\ Readable(Here.vol, pack.table, pack.manifest) /\ Readable(Here.vol, wip.table, wip.seal.manifest)
      /\ \A h \in DOMAIN wip.table : wip.table[h] <= Here.len
  BY <1>1 DEF Inv, PhaseInv, LogInv, StandsInv, FlightInv, ReadInv, Open, Session
<1>3. Here' = Write(Here, w, end) /\ DOMAIN w = {end} /\ end > Here.len /\ Here.len \in Nat /\ pack.sealed \in Nat
  BY <1>0, <1>1 DEF Here
<1>4. \A i \in Offsets : i <= Here.len => Here'.vol[i] = Here.vol[i]
  <2>1. \A i \in Offsets : i <= Here.len => i \notin DOMAIN w
    BY <1>0, <1>3
  <2> HIDE DEF w, end
  <2> QED
    BY <1>0, <1>3, <2>1, WriteFields
<1>5. Same(Here.vol, Here'.vol, pack.sealed)
  BY <1>0, <1>2, <1>3, <1>4 DEF Same
<1>6. Readable(Here'.vol, pack.table, pack.manifest)
  BY <1>2, <1>5, KeptReadable DEF LogInv
<1>7. Readable(Here'.vol, wip.table, wip.seal.manifest)
  <2>1. wip.table \in Tables
    BY DEF Inv, TypeOK, Wips
  <2>2. \A h \in DOMAIN wip.table : wip.table[h] \in Offsets
    BY <2>1, TableFacts, RecordsAssumption DEF Offsets
  <2>3. \A h \in DOMAIN wip.table : Here.vol[wip.table[h]] = Here'.vol[wip.table[h]]
    BY <1>2, <1>4, <2>2
  <2> QED
    BY <1>2, <2>3, DeltaSame DEF Readable
<1> QED
  BY <1>1, <1>6, <1>7 DEF ReadInv

LEMMA CommitFlushRead ==
    ASSUME Inv, LogInv, ReadInv, CommitFlush
    PROVE  ReadInv'
<1>1. /\ pc = "sealed" /\ pc' = "ready" /\ slots'[pack.gen] = Flush(Here)
      /\ pack'.gen = pack.gen /\ pack'.table = wip.table /\ pack'.manifest = wip.seal.manifest
  BY CommitFlushFacts
<1>2. Here \in Slot
  BY WriterFacts DEF LogInv
<1>3. Here'.vol = Here.vol
  BY <1>1, <1>2, FlushFields DEF Here
<1> QED
  BY <1>1, <1>3 DEF ReadInv

LEMMA CommitEndRead ==
    ASSUME Inv, LogInv, ReadInv, CommitFlushFails \/ CommitUndo
    PROVE  ReadInv'
<1>0. /\ pack.gen \in Gens /\ Here \in Slot /\ pack.sealed \in Offsets
  BY WriterFacts DEF LogInv
<1>1. CASE CommitFlushFails
  <2>1. /\ pc = "sealed" /\ pc' = "poisoned" /\ pack' = pack
        /\ slots' = [slots EXCEPT ![pack.gen] = FlushFailed(Here)]
    BY <1>1 DEF CommitFlushFails, Here
  <2>2. Here'.vol = Here.vol
    BY <1>0, <2>1, FlushFailedFields DEF Inv, TypeOK, Here
  <2> QED
    BY <2>1, <2>2 DEF ReadInv, Session, Open
<1>2. CASE CommitUndo
  <2>1. /\ pc = "commit" /\ pc' = "ready" /\ pack' = pack
        /\ slots' = [slots EXCEPT ![pack.gen] = Truncate(Here, wip.undo)]
    BY <1>2 DEF CommitUndo, Here
  <2>2. /\ wip.undo = pack.sealed /\ Stands(Here.vol, pack)
        /\ Readable(Here.vol, pack.table, pack.manifest)
    BY <2>1 DEF LogInv, EndInv, StandsInv, ReadInv, Open, Session
  <2>3. Here' = Truncate(Here, pack.sealed)
    BY <1>0, <2>1, <2>2 DEF Here, Inv, TypeOK
  <2>4. Same(Here.vol, Here'.vol, pack.sealed)
    BY <1>0, <2>3, TruncateFields DEF Same
  <2>5. Readable(Here'.vol, pack.table, pack.manifest)
    BY <2>2, <2>4, KeptReadable DEF LogInv
  <2> QED
    BY <2>1, <2>5 DEF ReadInv
<1> QED
  BY <1>1, <1>2

LEMMA QuietRead ==
    ASSUME Inv, ReadInv,
           CommitUndoFails \/ RetireSource \/ \E r \in Readers : TakeView(r) \/ DropView(r)
    PROVE  ReadInv'
<1>1. UNCHANGED <<slots, pack>>
      /\ \/ pc' = "poisoned" /\ pc = "commit"
         \/ UNCHANGED <<wip, pc>>
  BY DEF CommitUndoFails, RetireSource, TakeView, DropView
<1> QED
  BY <1>1 DEF ReadInv, Here, Next1, Session, Open

LEMMA CompactRead ==
    ASSUME Inv, LogInv, ReadInv, Compact
    PROVE  ReadInv'
<1>1. PICK after \in Swept(slots, {pack.gen + 1}), salt \in FreshSalts(slots[pack.gen + 1]) :
           /\ pc = "ready" /\ pc' = "header" /\ UNCHANGED <<pack, views, source, observed>>
           /\ pack.gen \in Gens /\ pack.gen + 1 \in Gens /\ pack.gen + 1 # pack.gen
           /\ \A h \in Gens : h # pack.gen + 1 => slots'[h] = slots[h] /\ after[h] = slots[h]
  BY CompactFacts
<1>2. slots'[pack.gen] = slots[pack.gen]
  BY <1>1
<1> QED
  BY <1>1, <1>2, StillRead DEF Session, Open

LEMMA CompactFailsRead ==
    ASSUME Inv, LogInv, ReadInv, CompactFails
    PROVE  ReadInv'
<1> DEFINE next == pack.gen + 1
<1>1. /\ pc \in {"header", "successor"} /\ pc' = "ready" /\ pack' = pack
      /\ pack.gen \in Gens /\ next # pack.gen
      /\ \A h \in Gens : h # next => slots'[h] = slots[h]
  BY CompactFailsFacts
<1>2. slots'[pack.gen] = slots[pack.gen]
  BY <1>1
<1> QED
  BY <1>1, <1>2, StillRead DEF Session, Open

\* What a compaction copies is what its manifest needs: `live` keeps the manifest.
LEMMA CompactCopyRead ==
    ASSUME Inv, LogInv, ReadInv, NEW dead \in SUBSET Objects, dead \cap pack.manifest = {},
           CompactCopy(Objects \ dead)
    PROVE  ReadInv'
<1> DEFINE keep == Keep(Objects \ dead)
           end  == Cardinality(keep) + 1
           t    == Placed(keep, 0)
           seal == BirthOf(wip.seal.salt, t)
           w    == Merge(ObjectRecords(keep, 0), [i \in {end} |-> seal])
<1>1. Copied(keep, end, seal, w)
  BY CompactCopyFacts
<1>2. DOMAIN t = keep
  BY DEF Placed
<1> HIDE DEF w, end, seal
<1>3. /\ pc = "header" /\ pc' = "successor" /\ pack' = pack /\ Fits(keep, 0) /\ keep \in SUBSET Objects
      /\ pack.gen \in Gens /\ pack.gen + 1 \in Gens /\ pack.gen + 1 # pack.gen
      /\ slots'[pack.gen] = slots[pack.gen] /\ Next1' = Write(Flush(Next1), w, end) /\ wip'.table = t
      /\ \A i \in DOMAIN ObjectRecords(keep, 0) : i \in DOMAIN w /\ w[i] = ObjectRecords(keep, 0)[i]
  BY <1>1 DEF Copied, Next1
<1>4. Flush(Next1) \in Slot /\ 0 \in Offsets
  <2>1. GoodSlot(Next1, pack.gen + 1)
    BY <1>3 DEF Inv, SlotsInv, Next1
  <2> QED
    BY <2>1, GoodFlush, RecordsAssumption DEF GoodSlot, Offsets
<1>5. Readable(Here.vol, pack.table, pack.manifest) /\ pack.manifest \in SUBSET Objects
  BY <1>3 DEF ReadInv, Session, Open, Inv, TypeOK, Packs, Manifests
<1>6. pack.manifest \subseteq keep
  BY <1>5 DEF Keep, Readable
<1> HIDE DEF keep, t
<1>7. DeltaHolds(Next1'.vol, t)
  BY <1>3, <1>4, WrittenHolds DEF t
<1>8. Readable(Here'.vol, pack'.table, pack'.manifest)
  BY <1>3, <1>5 DEF Here
<1> QED
  BY <1>2, <1>3, <1>6, <1>7, <1>8 DEF ReadInv, Readable

LEMMA CompactSwapRead ==
    ASSUME Inv, LogInv, ReadInv, CompactSwap
    PROVE  ReadInv'
<1> DEFINE next == pack.gen + 1
<1>1. /\ pc = "successor" /\ pc' = "ready"
      /\ next \in Gens /\ slots'[next] = Flush(slots[next])
      /\ pack'.gen = next /\ pack'.table = wip.table /\ pack'.manifest = pack.manifest
  <2>1. Swapped(next)
    BY CompactSwapFacts
  <2> QED
    BY <2>1 DEF Swapped
<1>2. slots[next] \in Slot
  BY <1>1 DEF Inv, TypeOK
<1>3. Here'.vol = Next1.vol
  BY <1>1, <1>2, FlushFields DEF Here, Next1
<1> QED
  BY <1>1, <1>3 DEF ReadInv

LEMMA NextRead ==
    ASSUME Inv, LogInv, ReadInv, ElectedGood, Next
    PROVE  ReadInv'
<1>1. CASE \/ Close \/ Restart \/ PowerLoss \/ PowerBack \/ OpenRefused \/ OpenFlushFails \/ Stillborn
           \/ OpenFresh \/ \E g \in Gens : Survive(g)
  <2>1. pc' \in {"down", "dark", "refused", "founding"}
    BY <1>1 DEF Close, Restart, PowerLoss, PowerBack, OpenRefused, OpenFlushFails, Stillborn,
       OpenFresh, Survive
  <2> QED
    BY <2>1, IdleRead
<1>2. CASE CommitUndoFails \/ RetireSource \/ \E r \in Readers : TakeView(r) \/ DropView(r)
  BY <1>2, QuietRead
<1>3. CASE OpenElected
  BY <1>3, OpenElectedRead
<1>4. CASE OpenTrimmed \/ OpenFounded
  BY <1>4, OpenFlushedRead
<1>6. CASE MigrateCommit \/ \E objects, manifest \in SUBSET Objects : Commit(objects, manifest)
  <2>1. committed.manifest \in SUBSET Objects
    BY DEF Inv, TypeOK, Values, Manifests
  <2> QED
    BY <1>6, <2>1, AppendRead DEF MigrateCommit, Commit
<1>7. CASE CommitSeal
  BY <1>7, CommitSealRead
<1>8. CASE CommitFlush
  BY <1>8, CommitFlushRead
<1>9. CASE CommitFlushFails \/ CommitUndo
  BY <1>9, CommitEndRead
<1>11. CASE Compact
  BY <1>11, CompactRead
<1>12. ASSUME NEW dead \in SUBSET Objects, dead \cap pack.manifest = {}, CompactCopy(Objects \ dead) PROVE ReadInv'
  BY <1>12, CompactCopyRead
<1>13. CASE CompactSwap
  BY <1>13, CompactSwapRead
<1>14. CASE CompactFails
  BY <1>14, CompactFailsRead
<1> QED
  BY <1>1, <1>2, <1>3, <1>4, <1>6, <1>7, <1>8, <1>9, <1>11, <1>12, <1>13, <1>14 DEF Next

LEMMA StutterRead ==
    ASSUME ReadInv, UNCHANGED vars
    PROVE  ReadInv'
<1>1. UNCHANGED <<slots, pc, pack, wip, views, source, committed, attempted, acked>>
  BY DEF vars, observed
<1> QED
  BY <1>1 DEF ReadInv, Here, Next1

-----------------------------------------------------------------------------
(* Views.                                                                   *)

\* A view that is held after a step was held before it, or has just been taken.
LEMMA ViewOrigin ==
    ASSUME Inv, Next, NEW r \in Readers, views'[r].held
    PROVE  views'[r] = views[r] \/ TakeView(r)
<1>1. CASE \/ Close \/ Restart \/ PowerLoss
  BY <1>1, NoPackFacts DEF Close, Restart, PowerLoss, Forget
<1>2. ASSUME NEW q \in Readers, TakeView(q) \/ DropView(q)
      PROVE  views'[r] = views[r] \/ TakeView(r)
  BY <1>2, NoPackFacts DEF TakeView, DropView, Inv, TypeOK
<1>3. CASE \/ OpenElected \/ OpenTrimmed \/ OpenFresh \/ OpenFounded \/ OpenRefused
           \/ OpenFlushFails \/ Stillborn \/ PowerBack \/ \E g \in Gens : Survive(g)
  BY <1>3 DEF OpenElected, OpenTrimmed, OpenFresh, OpenFounded, OpenRefused, OpenFlushFails,
              Stillborn, PowerBack, Survive
<1>4. CASE \/ \E objects, manifest \in SUBSET Objects : Commit(objects, manifest)
           \/ MigrateCommit \/ CommitSeal \/ CommitFlush \/ CommitFlushFails
           \/ CommitUndo \/ CommitUndoFails \/ RetireSource
  BY <1>4 DEF Commit, MigrateCommit, AppendObjects, CommitSeal, CommitFlush, Publish,
              CommitFlushFails, CommitUndo, CommitUndoFails, RetireSource
<1>5. CASE Compact \/ CompactSwap \/ CompactFails \/ \E dead \in SUBSET Objects : CompactCopy(Objects \ dead)
  BY <1>5 DEF Compact, CompactSwap, CompactFails, CompactCopy
<1> QED
  BY <1>1, <1>2, <1>3, <1>4, <1>5 DEF Next

LEMMA NextViewRead ==
    ASSUME Inv, LogInv, ReadInv, ViewReadInv, Next
    PROVE  ViewReadInv'
<1> SUFFICES ASSUME NEW r \in Readers, views'[r].held
             PROVE  /\ DeltaHolds(slots'[views'[r].gen].vol, views'[r].table)
                    /\ \A h \in DOMAIN views'[r].table : views'[r].table[h] \in 0 .. views'[r].sealed
  BY DEF ViewReadInv
<1>1. CASE TakeView(r)
  <2>1. /\ views'[r].gen = pack.gen /\ views'[r].table = pack.table /\ views'[r].sealed = pack.sealed
        /\ slots' = slots /\ pc \in Open
    BY <1>1 DEF TakeView, Inv, TypeOK
  <2>2. DeltaHolds(Here.vol, pack.table) /\ Stands(Here.vol, pack)
    BY <2>1 DEF ReadInv, Readable, Session, LogInv, StandsInv
  <2>3. pack \in Packs /\ IsLog(Here.vol) /\ pack.sealed \in Nat
    BY WriterFacts DEF LogInv
  <2>4. \A h \in DOMAIN pack.table : pack.table[h] < pack.sealed /\ pack.table[h] \in 1 .. MaxLen
    BY <2>2, <2>3, StandsTable
  <2> QED
    BY <2>1, <2>2, <2>3, <2>4 DEF Here
<1>2. CASE views'[r] = views[r]
  <2>1. /\ DeltaHolds(slots[views[r].gen].vol, views[r].table)
        /\ \A h \in DOMAIN views[r].table : views[r].table[h] \in 0 .. views[r].sealed
    BY <1>2 DEF ViewReadInv
  <2>2. \A i \in 0 .. views[r].sealed :
            slots'[views[r].gen].vol[i] = slots[views[r].gen].vol[i]
    BY <1>2, NextKeeps
  <2>3. \A h \in DOMAIN views[r].table :
            slots[views[r].gen].vol[views[r].table[h]] = slots'[views[r].gen].vol[views[r].table[h]]
    BY <2>1, <2>2
  <2>4. DeltaHolds(slots'[views[r].gen].vol, views[r].table)
    BY <2>1, <2>3, DeltaSame
  <2> QED
    BY <1>2, <2>1, <2>4
<1> QED
  BY <1>1, <1>2, ViewOrigin

LEMMA StutterViewRead ==
    ASSUME ViewReadInv, UNCHANGED vars
    PROVE  ViewReadInv'
<1>1. UNCHANGED <<slots, views>>
  BY DEF vars
<1> QED
  BY <1>1 DEF ViewReadInv

LEMMA InitRead == Init => ReadInv /\ ViewReadInv
BY NoPackFacts DEF Init, ReadInv, ViewReadInv, Session, Open

\* What the readable store means for the properties of the pack log.
LEMMA ReadMeans ==
    ASSUME Inv, ReadInv, ViewReadInv
    PROVE  TableReadable /\ ManifestComplete /\ ViewsReadable
<1>1. TableReadable /\ ManifestComplete
  BY DEF ReadInv, Readable, TableReadable, ManifestComplete, Session
<1>2. ViewsReadable
  BY DEF Inv, ViewInv, ViewReadInv, ViewsReadable
<1> QED
  BY <1>1, <1>2

-----------------------------------------------------------------------------
(***************************************************************************)
(* While the machine stays up.  Whatever fails, every seal the page cache  *)
(* shows describes a commit that can be read in full: the objects of a     *)
(* seal are appended before it and a truncation takes the seals above it   *)
(* first.                                                                  *)
(***************************************************************************)

SealsGood(s) == \A i \in Seals(s.vol) : GoodAt(s.vol, i)

CacheInv == pc # "dark" /\ \A g \in Gens : SealsGood(slots[g])

LEMMA CacheElects == CacheInv /\ Inv /\ ShapeInv => ElectedGood
<1> SUFFICES ASSUME CacheInv, Inv, ShapeInv, NEW g \in Sound
             PROVE  GoodAt(slots[g].vol, Elected(slots[g].vol))
  BY DEF ElectedGood
<1>1. g \in Gens /\ Elected(slots[g].vol) \in Seals(slots[g].vol)
  BY RecoveredStands DEF Sound, Found
<1> QED
  BY <1>1 DEF CacheInv, SealsGood

\* Seals that a slot keeps, with all below them, stay good.
LEMMA SealsKept ==
    ASSUME NEW s \in Slot, ShapeSlot(s), NEW u \in Slot, ShapeSlot(u), SealsGood(s),
           \A i \in Seals(u.vol) : Same(s.vol, u.vol, i)
    PROVE  SealsGood(u)
<1> SUFFICES ASSUME NEW i \in Seals(u.vol) PROVE GoodAt(u.vol, i)
  BY DEF SealsGood
<1>1. IsLog(s.vol) /\ IsLog(u.vol)
  BY ShapeLog
<1>2. Same(s.vol, u.vol, i) /\ Same(u.vol, s.vol, i) /\ i \in Offsets /\ i <= i
  BY <1>1, SameSym, SealFacts DEF IsLog
<1>3. i \in Seals(s.vol)
  BY <1>2, SameSeals
<1> QED
  BY <1>1, <1>2, <1>3, GoodAtSame DEF SealsGood

LEMMA SealsNone ==
    ASSUME NEW s, \A i \in Offsets : s.vol[i].kind # "seal"
    PROVE  SealsGood(s)
BY RecordsAssumption DEF SealsGood, Seals, IsSeal, Offsets

LEMMA SealsRemove ==
    ASSUME NEW s \in Slot, SealsGood(s)
    PROVE  SealsGood(Remove(s))
<1>1. CASE s.name
  <2>1. \A i \in Offsets : Remove(s).vol[i].kind # "seal"
    BY <1>1, RemoveFields, VoidBlock
  <2> QED
    BY <2>1, SealsNone
<1>2. CASE ~s.name
  BY <1>2, RemoveFields
<1> QED
  BY <1>1, <1>2

LEMMA SealsTruncate ==
    ASSUME NEW s \in Slot, ShapeSlot(s), s.name, SealsGood(s), NEW n \in Offsets, Truncate(s, n) \in Slot
    PROVE  SealsGood(Truncate(s, n))
<1> DEFINE u == Truncate(s, n)
<1>1. ShapeSlot(u) /\ u \in Slot
  BY ShapeTruncate
<1>2. \A i \in Offsets : i > n => u.vol[i] = Void
  BY TruncateFields
<1>3. \A i \in Offsets : i <= n => u.vol[i] = s.vol[i]
  BY TruncateFields
<1> HIDE DEF u
<1>4. ASSUME NEW i \in Seals(u.vol) PROVE Same(s.vol, u.vol, i)
  <2>1. i \in Offsets /\ u.vol[i].kind = "seal" /\ i \in Nat /\ n \in Nat
    BY <1>4, RecordsAssumption DEF Seals, IsSeal, Offsets
  <2>2. i <= n
    BY <1>2, <2>1, VoidBlock
  <2>3. \A j \in Offsets : j <= i => j <= n
    BY <2>1, <2>2 DEF Offsets
  <2> QED
    BY <1>3, <2>3 DEF Same
<1>5. SealsGood(u)
  BY <1>1, <1>4, SealsKept
<1> QED
  BY <1>5 DEF u

LEMMA SealsInit ==
    ASSUME NEW s \in Slot, NEW salt
    PROVE  SealsGood(InitSlot(s, salt))
<1>1. \A i \in Offsets : InitSlot(s, salt).vol[i] \in {Void, Header(salt)}
  BY InitSlotFields
<1>2. Header(salt).kind # "seal"
  BY DEF Header
<1>3. \A i \in Offsets : InitSlot(s, salt).vol[i].kind # "seal"
  BY <1>1, <1>2, VoidBlock
<1> QED
  BY <1>3, SealsNone

\* Objects appended above the end of a slot.
LEMMA SealsAppend ==
    ASSUME NEW s \in Slot, ShapeSlot(s), s.name, SealsGood(s), NEW w, NEW end \in Offsets,
           Write(s, w, end) \in Slot, ShapeSlot(Write(s, w, end)),
           DOMAIN w \subseteq Offsets, \A i \in DOMAIN w : s.len < i,
           NEW top, \A i \in DOMAIN w : w[i].kind = "seal" => i = top,
           top \in DOMAIN w => GoodAt(Write(s, w, end).vol, top)
    PROVE  SealsGood(Write(s, w, end))
<1> DEFINE u == Write(s, w, end)
<1>1. /\ \A i \in Offsets : i \in DOMAIN w => u.vol[i] = w[i]
      /\ \A i \in Offsets : i \notin DOMAIN w => u.vol[i] = s.vol[i]
  BY WriteFields
<1>2. u \in Slot /\ ShapeSlot(u) /\ (top \in DOMAIN w => GoodAt(u.vol, top))
  OBVIOUS
<1> HIDE DEF u
<1>3. ASSUME NEW i \in Seals(u.vol), i \notin DOMAIN w
      PROVE  i \in Seals(s.vol) /\ Same(s.vol, u.vol, i)
  <2>1. i \in Offsets /\ u.vol[i].kind = "seal" /\ i \in Nat /\ s.len \in Nat /\ 0 \in Offsets
    BY <1>3, RecordsAssumption DEF Seals, IsSeal, Offsets, Slot
  <2>2. s.vol[i] = u.vol[i]
    BY <1>1, <1>3, <2>1
  <2>3. i <= s.len
    BY <2>1, <2>2, VoidBlock DEF ShapeSlot
  <2>4. \A j \in Offsets : j <= i => j \notin DOMAIN w
    BY <2>1, <2>3 DEF Offsets
  <2>5. Same(s.vol, u.vol, i)
    BY <1>1, <2>4 DEF Same
  <2>6. Same(u.vol, s.vol, i) /\ i <= i
    BY <2>1, <2>5, SameSym
  <2> QED
    BY <2>1, <2>5, <2>6, SameSeals
<1>4. IsLog(s.vol) /\ IsLog(u.vol)
  BY <1>2, ShapeLog
<1>5. ASSUME NEW i \in Seals(u.vol) PROVE GoodAt(u.vol, i)
  <2>1. CASE i \notin DOMAIN w
    <3>1. i \in Seals(s.vol) /\ Same(s.vol, u.vol, i)
      BY <1>3, <2>1
    <3>2. GoodAt(s.vol, i)
      BY <3>1 DEF SealsGood
    <3> QED
      BY <1>4, <3>1, <3>2, GoodAtSame
  <2>2. CASE i \in DOMAIN w
    <3>1. w[i].kind = "seal"
      BY <1>1, <2>2, <1>5 DEF Seals, IsSeal
    <3> QED
      BY <1>2, <2>2, <3>1
  <2> QED
    BY <2>1, <2>2
<1>6. SealsGood(u)
  BY <1>5 DEF SealsGood
<1> QED
  BY <1>6 DEF u

LEMMA SweptCache ==
    ASSUME Inv, CacheInv, pc' # "dark", NEW g \in Gens,
           \A h \in Gens : h # g => slots'[h] \in {slots[h], Remove(slots[h])},
           SealsGood(slots'[g])
    PROVE  CacheInv'
<1>1. \A h \in Gens : slots[h] \in Slot /\ SealsGood(slots[h])
  BY DEF Inv, TypeOK, CacheInv
<1> QED
  BY <1>1, SealsRemove DEF CacheInv

\* A step that keeps what is read of every slot, or removes slots.
LEMMA CacheKept ==
    ASSUME Inv, CacheInv, pc' # "dark",
           \A h \in Gens : slots'[h].vol = slots[h].vol \/ slots'[h] = Remove(slots[h])
    PROVE  CacheInv'
<1>1. \A h \in Gens : slots[h] \in Slot /\ SealsGood(slots[h])
  BY DEF Inv, TypeOK, CacheInv
<1>2. \A h \in Gens : slots'[h].vol = slots[h].vol => SealsGood(slots'[h])
  BY <1>1 DEF SealsGood
<1> QED
  BY <1>1, <1>2, SealsRemove DEF CacheInv

LEMMA QuietCache ==
    ASSUME Inv, LogInv, CacheInv, ~PowerCuts,
           \/ Close \/ Restart \/ PowerLoss \/ PowerBack \/ OpenRefused \/ OpenFlushFails \/ Stillborn
           \/ \E g \in Gens : Survive(g)
           \/ CommitUndoFails \/ RetireSource \/ CommitFlush \/ CommitFlushFails
           \/ OpenTrimmed \/ OpenFounded \/ CompactFails
           \/ \E r \in Readers : TakeView(r) \/ DropView(r)
    PROVE  CacheInv'
<1>0. pack.gen \in Gens /\ Here \in Slot /\ slots \in [Gens -> Slot]
  BY WriterFacts DEF LogInv, Inv, TypeOK
<1>1. CASE PowerLoss \/ PowerBack \/ \E g \in Gens : Survive(g)
  BY <1>1 DEF PowerLoss, PowerBack, Survive, CacheInv
<1>2. CASE \/ Close \/ Restart \/ OpenRefused \/ CommitUndoFails \/ RetireSource
           \/ \E r \in Readers : TakeView(r) \/ DropView(r)
  <2>1. slots' = slots /\ pc' # "dark"
    BY <1>2
       DEF Close, Restart, OpenRefused, CommitUndoFails, RetireSource, TakeView, DropView,
       CacheInv
  <2> QED
    BY <2>1 DEF CacheInv
<1>3. CASE OpenFlushFails \/ CommitFlushFails
  <2>1. slots' = [slots EXCEPT ![pack.gen] = FlushFailed(Here)] /\ pc' # "dark"
    BY <1>3 DEF OpenFlushFails, CommitFlushFails, Here
  <2>2. \A h \in Gens : slots'[h].vol = slots[h].vol
    BY <1>0, <2>1, FlushFailedFields DEF Here
  <2> QED
    BY <2>1, <2>2, CacheKept
<1>4. CASE OpenTrimmed \/ OpenFounded \/ CommitFlush
  <2>1. slots' = [slots EXCEPT ![pack.gen] = Flush(Here)] /\ pc' # "dark"
    BY <1>4 DEF OpenTrimmed, OpenFounded, CommitFlush, Publish, Here, Inv, PhaseInv
  <2>2. \A h \in Gens : slots'[h].vol = slots[h].vol
    BY <1>0, <2>1, FlushFields DEF Here
  <2> QED
    BY <2>1, <2>2, CacheKept
<1>5. CASE Stillborn
  <2>1. pc' # "dark" /\ \A h \in Gens : slots'[h] \in {slots[h], Remove(slots[h])}
    BY <1>5, StillbornSlots DEF Stillborn
  <2> QED
    BY <2>1, CacheKept
<1>6. CASE CompactFails
  <2>0. PICK next : next = pack.gen + 1
    OBVIOUS
  <2>1. /\ pc' = "ready" /\ next \in Gens
        /\ slots'[next] \in {slots[next], FlushFailed(slots[next]), Remove(slots[next])}
        /\ \A h \in Gens : h # next => slots'[h] = slots[h]
    BY <1>6, <2>0, CompactFailsFacts
  <2>2. FlushFailed(slots[next]).vol = slots[next].vol
    BY <1>0, <2>1, FlushFailedFields
  <2> QED
    BY <2>1, <2>2, CacheKept
<1> QED
  BY <1>1, <1>2, <1>3, <1>4, <1>5, <1>6

LEMMA SwapCache ==
    ASSUME Inv, LogInv, CacheInv, CompactSwap
    PROVE  CacheInv'
<1> DEFINE next == pack.gen + 1
<1>1. /\ pc' = "ready" /\ next \in Gens /\ slots'[next] = Flush(slots[next])
      /\ \A h \in Gens : h # next => slots'[h] \in {slots[h], Remove(slots[h])}
  <2>1. Swapped(next)
    BY CompactSwapFacts
  <2> QED
    BY <2>1 DEF Swapped
<1>2. slots'[next].vol = slots[next].vol
  BY <1>1, FlushFields DEF Inv, TypeOK
<1> HIDE DEF next
<1>3. \A h \in Gens : slots'[h].vol = slots[h].vol \/ slots'[h] = Remove(slots[h])
  BY <1>1, <1>2
<1> QED
  BY <1>1, <1>3, CacheKept

LEMMA OpenCache ==
    ASSUME Inv, LogInv, CacheInv, OpenElected \/ OpenFresh, Inv'
    PROVE  CacheInv'
<1>1. CASE OpenElected
  <2>1. PICK g \in Sound : \E after : ElectedBy(g, after)
    BY <1>1, OpenElectedFacts
  <2>2. PICK after : ElectedBy(g, after)
    BY <2>1
  <2> DEFINE i == Elected(slots[g].vol)
  <2>3. /\ g \in Gens /\ i \in Offsets /\ slots[g].name /\ slots[g] \in Slot
        /\ pc' \in {"trimming", "ready"} /\ slots'[g] = Truncate(slots[g], i)
        /\ \A h \in Gens : h # g => slots'[h] \in {slots[h], Remove(slots[h])}
    BY <2>2, ElectedByFacts
  <2>4. ShapeSlot(slots[g]) /\ SealsGood(slots[g]) /\ slots'[g] \in Slot
    BY <2>3 DEF LogInv, ShapeInv, CacheInv, Inv, TypeOK
  <2> HIDE DEF i
  <2>5. SealsGood(slots'[g])
    BY <2>3, <2>4, SealsTruncate
  <2> QED
    BY <2>3, <2>5, SweptCache
<1>2. CASE OpenFresh
  <2>1. PICK salt \in FreshSalts(slots[0]) : \E s \in {slots[0], Remove(slots[0])} :
           /\ pc' = "founding" /\ 0 \in Gens /\ s \in Slot
           /\ slots'[0] = InitSlot(s, salt)
           /\ \A h \in Gens : h # 0 => slots'[h] \in {slots[h], Remove(slots[h])}
    BY <1>2, OpenFreshFacts
  <2>2. SealsGood(slots'[0])
    BY <2>1, SealsInit
  <2> QED
    BY <2>1, <2>2, SweptCache
<1> QED
  BY <1>1, <1>2

LEMMA AppendCache ==
    ASSUME Inv, LogInv, CacheInv, pc = "ready", NEW objects \in SUBSET Objects,
           NEW manifest \in SUBSET Objects, Inv', LogInv',
           NEW migrating \in BOOLEAN, AppendObjects(objects, manifest, migrating)
    PROVE  CacheInv'
<1> DEFINE new  == NewOf(objects)
           end  == Here.len
           last == end + Cardinality(new)
           w    == ObjectRecords(new, end)
<1>0. pack.gen \in Gens /\ Here \in Slot /\ ShapeSlot(Here) /\ Here.name /\ SealsGood(Here)
  BY WriterFacts DEF LogInv, CacheInv, Here, Inv, PhaseInv, Open
<1>1. Appended(new, end, last, manifest, migrating) /\ w = ObjectRecords(new, end)
  BY AppendFacts
<1>2. /\ pc' = "commit" /\ new \in SUBSET Objects /\ end \in Offsets /\ Fits(new, end) /\ last \in Offsets
      /\ slots'[pack.gen] = Write(Here, w, last)
      /\ \A h \in Gens : h # pack.gen => slots'[h] = slots[h]
  BY <1>1 DEF Appended
<1>3. /\ DOMAIN w \subseteq Offsets /\ \A i \in DOMAIN w : w[i] \in ObjectPayloads
      /\ \A i \in DOMAIN w : i > end
  BY <1>2, ObjectRecordsFacts
<1>4. Write(Here, w, last) \in Slot /\ ShapeSlot(Write(Here, w, last))
  <2>1. slots'[pack.gen] \in Slot /\ ShapeSlot(slots'[pack.gen])
    BY <1>0 DEF Inv, TypeOK, LogInv, ShapeInv
  <2> QED
    BY <1>2, <2>1
<1>5. \A i \in DOMAIN w : Here.len < i
  BY <1>2, <1>3 DEF Offsets
<1>6. \A i \in DOMAIN w : w[i].kind # "seal"
  BY <1>3 DEF ObjectPayloads
<1>7. 0 \notin DOMAIN w
  BY <1>2, <1>3 DEF Offsets
<1> HIDE DEF new, end, last, w
<1>8. SealsGood(Write(Here, w, last))
  BY <1>0, <1>2, <1>3, <1>4, <1>5, <1>6, <1>7, SealsAppend
<1> QED
  BY <1>0, <1>2, <1>8, SweptCache

LEMMA CommitSealCache ==
    ASSUME Inv, LogInv, ReadInv, CacheInv, CommitSeal, Inv', LogInv', ReadInv'
    PROVE  CacheInv'
<1> DEFINE end == Here.len + 1
           w   == [i \in {end} |-> wip.seal]
<1>0. pack.gen \in Gens /\ Here \in Slot /\ ShapeSlot(Here) /\ SealsGood(Here) /\ Here.len \in Nat
  BY WriterFacts DEF LogInv, CacheInv, Here
<1>1. /\ pc = "commit" /\ pc' = "sealed" /\ UNCHANGED <<pack, wip>>
      /\ end \in Offsets /\ slots'[pack.gen] = Write(Here, w, end)
      /\ \A h \in Gens : h # pack.gen => slots'[h] = slots[h]
  BY CommitSealFacts
<1>2. /\ DOMAIN w = {end} /\ DOMAIN w \subseteq Offsets /\ \A i \in DOMAIN w : Here.len < i
      /\ \A i \in DOMAIN w : w[i].kind = "seal" => i = end
  BY <1>0, <1>1
<1>3. Here' = Write(Here, w, end) /\ Here'.len = end /\ Here.name
  <2>1. Here' = Write(Here, w, end) /\ Here.name
    BY <1>0, <1>1 DEF Here, Inv, PhaseInv, Open
  <2> HIDE DEF w, end
  <2> QED
    BY <1>0, <2>1, WriteFields
<1>4. Here' \in Slot /\ ShapeSlot(Here') /\ IsLog(Here'.vol)
  <2>1. Here' \in Slot /\ ShapeSlot(Here')
    BY <1>0, <1>1 DEF Inv, TypeOK, LogInv, ShapeInv, Here
  <2> QED
    BY <2>1, ShapeLog
<1>5. /\ Stands(Here'.vol, pack) /\ pack.sealed < end /\ Here'.vol[end] = wip.seal
      /\ Follows(wip.seal, pack, wip.table) /\ wip.seal \in SealRecords
      /\ Readable(Here'.vol, wip.table, wip.seal.manifest)
  <2>1. /\ StandsInv' /\ EndInv' /\ FlightInv' /\ PhaseInv'
    BY DEF LogInv, Inv
  <2>2. Stands(Here'.vol, pack')
    BY <1>1, <2>1 DEF StandsInv, Session, Open
  <2>3. pack'.sealed < Here'.len
    BY <1>1, <2>1 DEF EndInv
  <2>4. Here'.vol[Here'.len] = wip'.seal /\ Follows(wip'.seal, pack', wip'.table)
    BY <1>1, <2>1 DEF FlightInv
  <2>5. wip'.seal \in SealRecords
    BY <1>1, <2>1 DEF PhaseInv
  <2>6. Readable(Here'.vol, wip'.table, wip'.seal.manifest)
    BY <1>1 DEF ReadInv
  <2> QED
    BY <1>1, <1>3, <2>2, <2>3, <2>4, <2>5, <2>6
<1> HIDE DEF w, end
<1>6. pack \in Packs /\ wip.table \in Tables
  BY DEF Inv, TypeOK, Wips
<1>7. GoodAt(Here'.vol, end)
  <2>1. ChainTable(Here'.vol, end) = wip.table
    BY <1>1, <1>4, <1>5, <1>6, AppendedSeal
  <2> QED
    BY <1>5, <2>1 DEF GoodAt, Readable
<1>8. SealsGood(Write(Here, w, end))
  BY <1>0, <1>1, <1>2, <1>3, <1>4, <1>7, SealsAppend
<1> QED
  BY <1>0, <1>1, <1>8, SweptCache

LEMMA CompactCache ==
    ASSUME Inv, LogInv, CacheInv, Compact
    PROVE  CacheInv'
<1>1. PICK after \in Swept(slots, {pack.gen + 1}), salt \in FreshSalts(slots[pack.gen + 1]) :
           /\ pc = "ready" /\ pc' = "header" /\ pack.gen + 1 \in Gens
           /\ slots'[pack.gen + 1] = InitSlot(after[pack.gen + 1], salt)
           /\ after \in [Gens -> Slot]
           /\ \A h \in Gens : h # pack.gen + 1 => slots'[h] = slots[h] /\ after[h] = slots[h]
  BY CompactFacts
<1>2. SealsGood(slots'[pack.gen + 1])
  BY <1>1, SealsInit
<1> QED
  BY <1>1, <1>2, SweptCache

LEMMA CompactCopyCache ==
    ASSUME Inv, LogInv, CacheInv, NEW live, CompactCopy(live), Inv', LogInv', ReadInv'
    PROVE  CacheInv'
<1> DEFINE keep == Keep(live)
           end  == Cardinality(keep) + 1
           t    == Placed(keep, 0)
           seal == BirthOf(wip.seal.salt, t)
           w    == Merge(ObjectRecords(keep, 0), [i \in {end} |-> seal])
           next == pack.gen + 1
           old  == Flush(Next1)
<1>1. Copied(keep, end, seal, w)
  BY CompactCopyFacts
<1> HIDE DEF keep, end, seal, w
<1>2. /\ pc = "header" /\ pc' = "successor" /\ pack' = pack /\ next \in Gens /\ end \in Offsets /\ end \in Nat /\ end # 0
      /\ slots'[next] = Write(old, w, end)
      /\ \A h \in Gens : h # next => slots'[h] = slots[h]
      /\ wip'.seal = seal /\ seal \in SealRecords
      /\ DOMAIN w = DOMAIN ObjectRecords(keep, 0) \cup {end}
      /\ \A i \in DOMAIN ObjectRecords(keep, 0) : i \in Offsets /\ 0 < i /\ w[i] \in ObjectPayloads
  BY <1>1 DEF Copied
<1>3. Next1 = slots[next] /\ Next1 \in Slot /\ ShapeSlot(Next1) /\ Next1.name /\ SealsGood(Next1) /\ Next1.len = 0
  BY <1>2, SlotLog DEF LogInv, Next1, Inv, PhaseInv, CacheInv, BirthInv
<1>4. old \in Slot /\ ShapeSlot(old) /\ old.name /\ old.len = 0 /\ SealsGood(old)
  <2>1. GoodSlot(Next1, next)
    BY <1>2, <1>3 DEF Inv, SlotsInv
  <2>2. old \in Slot
    BY <2>1, GoodFlush DEF GoodSlot
  <2>3. old.vol = Next1.vol
    BY <1>3, FlushFields
  <2>4. SealsGood(old)
    BY <1>3, <2>3 DEF SealsGood
  <2> QED
    BY <1>3, <2>2, <2>4, FlushFields, ShapeFlush
<1> HIDE DEF next, old, t
<1>5. /\ DOMAIN w \subseteq Offsets /\ \A i \in DOMAIN w : old.len < i
      /\ \A i \in DOMAIN w : w[i].kind = "seal" => i = end
  BY <1>2, <1>4 DEF ObjectPayloads
<1>6. slots'[next] \in Slot /\ ShapeSlot(slots'[next]) /\ IsLog(slots'[next].vol)
  <2>1. slots'[next] \in Slot /\ ShapeSlot(slots'[next])
    BY <1>2 DEF Inv, TypeOK, LogInv, ShapeInv
  <2> QED
    BY <2>1, ShapeLog
<1>7. /\ slots'[next].vol[0] = Header(seal.salt) /\ slots'[next].len = end /\ slots'[next].vol[end] = seal
      /\ seal.full /\ seal.added = NoTable /\ seal.base = wip'.table /\ seal.manifest = pack.manifest
      /\ Readable(slots'[next].vol, wip'.table, pack.manifest)
  <2>1. Next1' = slots'[next]
    BY <1>2 DEF Next1, next
  <2>2. Readable(Next1'.vol, wip'.table, pack'.manifest)
    BY <1>2 DEF ReadInv
  <2>3. BirthInv'
    BY DEF LogInv
  <2>4. slots'[next].len = end
    BY <1>2, <1>4, WriteFields
  <2> QED
    BY <1>2, <2>1, <2>2, <2>3, <2>4 DEF BirthInv
<1>8. end \in Seals(slots'[next].vol)
  BY <1>2, <1>7, RecordsAssumption DEF Seals, IsSeal, Header, SealRecords, Offsets
<1>9. GoodAt(slots'[next].vol, end)
  <2>1. ChainTable(slots'[next].vol, end) = wip'.table
    BY <1>6, <1>7, <1>8, BirthSeal
  <2> QED
    BY <1>7, <2>1 DEF GoodAt, Readable
<1>10. SealsGood(Write(old, w, end))
  BY <1>2, <1>4, <1>5, <1>6, <1>9, SealsAppend
<1> QED
  BY <1>2, <1>10, SweptCache

LEMMA UndoCache ==
    ASSUME Inv, LogInv, CacheInv, CommitUndo, Inv'
    PROVE  CacheInv'
<1>0. pack.gen \in Gens /\ Here \in Slot /\ ShapeSlot(Here) /\ SealsGood(Here) /\ pack.sealed \in Offsets
  BY WriterFacts DEF LogInv, CacheInv, Here
<1>1. /\ pc = "commit" /\ pc' = "ready" /\ pack' = pack
      /\ slots' = [slots EXCEPT ![pack.gen] = Truncate(Here, wip.undo)]
  BY DEF CommitUndo, Here
<1>2. wip.undo = pack.sealed /\ Here.name
  BY <1>1 DEF LogInv, EndInv, Inv, PhaseInv, Open
<1>3. /\ slots'[pack.gen] = Truncate(Here, pack.sealed)
      /\ \A h \in Gens : h # pack.gen => slots'[h] = slots[h]
  BY <1>0, <1>1, <1>2 DEF Inv, TypeOK
<1>4. Truncate(Here, pack.sealed) \in Slot
  <2>1. slots'[pack.gen] \in Slot
    BY <1>0 DEF Inv, TypeOK
  <2> QED
    BY <1>3, <2>1
<1>5. SealsGood(slots'[pack.gen])
  BY <1>0, <1>2, <1>3, <1>4, SealsTruncate
<1> QED
  BY <1>0, <1>1, <1>3, <1>5, SweptCache

LEMMA NextCache ==
    ASSUME Inv, LogInv, ReadInv, CacheInv, ~PowerCuts, Next, Inv', LogInv', ReadInv'
    PROVE  CacheInv'
<1>1. CASE \/ Close \/ Restart \/ PowerLoss \/ PowerBack \/ OpenRefused \/ OpenFlushFails \/ Stillborn
           \/ \E g \in Gens : Survive(g)
           \/ CommitUndoFails \/ RetireSource \/ CommitFlush \/ CommitFlushFails
           \/ OpenTrimmed \/ OpenFounded \/ CompactFails
           \/ \E r \in Readers : TakeView(r) \/ DropView(r)
  BY <1>1, QuietCache
<1>8. CASE CompactSwap
  BY <1>8, SwapCache
<1>2. CASE OpenElected \/ OpenFresh
  BY <1>2, OpenCache
<1>3. CASE MigrateCommit \/ \E objects, manifest \in SUBSET Objects : Commit(objects, manifest)
  <2>1. committed.manifest \in SUBSET Objects
    BY DEF Inv, TypeOK, Values, Manifests
  <2> QED
    BY <1>3, <2>1, AppendCache DEF MigrateCommit, Commit
<1>4. CASE CommitSeal
  BY <1>4, CommitSealCache
<1>5. CASE CommitUndo
  BY <1>5, UndoCache
<1>6. CASE Compact
  BY <1>6, CompactCache
<1>7. ASSUME NEW dead \in SUBSET Objects, CompactCopy(Objects \ dead) PROVE CacheInv'
  BY <1>7, CompactCopyCache
<1> QED
  BY <1>1, <1>2, <1>3, <1>4, <1>5, <1>6, <1>7, <1>8 DEF Next

LEMMA StutterCache ==
    ASSUME CacheInv, UNCHANGED vars
    PROVE  CacheInv'
<1>1. UNCHANGED <<slots, pc>>
  BY DEF vars
<1> QED
  BY <1>1 DEF CacheInv

LEMMA InitCache == Init => CacheInv
<1> SUFFICES ASSUME Init PROVE CacheInv
  OBVIOUS
<1>1. \A i \in Offsets : Absent.vol[i].kind # "seal"
  BY VoidBlock DEF Absent
<1> QED
  BY <1>1, SealsNone DEF Init, CacheInv

-----------------------------------------------------------------------------
(***************************************************************************)
(* The theorems.                                                           *)
(***************************************************************************)

UpInv == Inv /\ LogInv /\ ReadInv /\ ViewReadInv /\ CacheInv

\* While the machine stays up, every seal in the page cache is readable, and so is
\* whatever the writer and its views name.
THEOREM CacheReadable ==
    ASSUME ~PowerCuts
    PROVE  Spec => []UpInv
<1>1. Init => UpInv
  BY InitInv, InitLog, InitRead, InitCache DEF UpInv
<1>2. ASSUME UpInv, Next PROVE UpInv'
  <2>1. Inv' /\ LogInv'
    BY <1>2, NextStep, NextLog DEF UpInv
  <2>2. ElectedGood
    BY <1>2, CacheElects DEF UpInv, LogInv
  <2>3. ReadInv' /\ ViewReadInv'
    BY <1>2, <2>2, NextRead, NextViewRead DEF UpInv
  <2>4. CacheInv'
    BY <1>2, <2>1, <2>3, NextCache DEF UpInv
  <2> QED
    BY <2>1, <2>3, <2>4 DEF UpInv
<1>3. ASSUME UpInv, UNCHANGED vars PROVE UpInv'
  BY <1>3, StutterStep, StutterLog, StutterRead, StutterViewRead, StutterCache DEF UpInv
<1>4. UpInv /\ [Next]_vars => UpInv'
  BY <1>2, <1>3
<1> QED
  BY <1>1, <1>4, PTL DEF Spec

\* While the machine stays up, through every restart, failed flush and compaction:
\* every object the open pack's table names reads back under its own hash.
THEOREM TablesRead ==
    ASSUME ~PowerCuts
    PROVE  Spec => []TableReadable
<1>1. UpInv => TableReadable
  BY ReadMeans DEF UpInv
<1> QED
  BY <1>1, CacheReadable, PTL

\* The same for the manifest: the pack holds every object it needs.
THEOREM ManifestsComplete ==
    ASSUME ~PowerCuts
    PROVE  Spec => []ManifestComplete
<1>1. UpInv => ManifestComplete
  BY ReadMeans DEF UpInv
<1> QED
  BY <1>1, CacheReadable, PTL

\* The same for a held view: its slot keeps its name, and everything its table names
\* reads back, whatever the writer does meanwhile.
THEOREM ViewsRead ==
    ASSUME ~PowerCuts
    PROVE  Spec => []ViewsReadable
<1>1. UpInv => ViewsReadable
  BY ReadMeans DEF UpInv
<1> QED
  BY <1>1, CacheReadable, PTL
=============================================================================
