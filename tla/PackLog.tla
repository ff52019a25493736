------------------------------ MODULE PackLog -------------------------------
(***************************************************************************)
(* The pack log (crates/journal/src/pack.rs): the append-only, single-     *)
(* writer format every durable lait store is kept in.  A commit appends    *)
(* its objects and one seal and flushes once; opening elects the slot      *)
(* whose newest verified seal covers the highest sequence; a compaction    *)
(* copies the live objects into the next generation's slot and retires the *)
(* old one when the last reader of it has drained.                         *)
(*                                                                         *)
(* The store is interrupted in two ways.  A Restart ends the process and   *)
(* keeps the page cache.  A PowerLoss also loses, block by block and in    *)
(* any combination, whatever no flush had made durable.                    *)
(***************************************************************************)
EXTENDS Medium

CONSTANTS
    Readers,          \* holders of a PackView
    CheckpointEvery,  \* CHECKPOINT_EVERY (64 in the code)
    SourceSeq,        \* reserved-sequence high water of the prior layout
    Sources,          \* may there be a prior-layout store to migrate, or none?
    Restarts,         \* may a store be reopened over an unflushed page cache?
    PowerCuts,        \* may the machine lose power?
    RemovalFails      \* may removing a slot fail?

ASSUME PackLogAssumption ==
    /\ CheckpointEvery \in Nat /\ CheckpointEvery > 1
    /\ Sources \subseteq BOOLEAN
    /\ SourceSeq \in Nat /\ (TRUE \in Sources => SourceSeq < MaxSeq)
    /\ {Restarts, PowerCuts, RemovalFails} \subseteq BOOLEAN

Gens == 0 .. MaxGen

VARIABLES
    slots,      \* the medium: one slot per generation name
    pc,         \* what the process is doing
    pack,       \* the fields of PackStore, meaningful while it is open
    wip,        \* the operation in flight: the seal to append, its table, undo
    views,      \* the PackViews of this store that readers hold
    source,     \* a prior-layout store is still authoritative beside the pack
    committed,  \* observer: the state last acknowledged or exposed by an open
    attempted,  \* observer: commits sealed since, whose outcome is open
    acked       \* observer: the highest sequence a caller was told is committed

observed == <<committed, attempted, acked>>

vars == <<slots, pc, pack, wip, views, source, observed>>

Phases == {"down", "dark", "refused", "founding", "trimming", "ready",
           "commit", "sealed", "header", "successor", "poisoned"}

\* The phases in which a PackStore value exists and serves views.
Open == {"ready", "commit", "sealed", "header", "successor", "poisoned"}

Values == [seq : Nat, manifest : Manifests]

Packs == [gen : Gens, salt : Nat, table : Tables, sealed : Offsets, seq : Nat,
          last : Links, since : Nat, prov : BOOLEAN, manifest : Manifests,
          graveyard : SUBSET Gens]

Wips == [seal : Block, table : Tables, undo : Offsets]

Views == [held : BOOLEAN, gen : Gens, table : Tables, sealed : Offsets]

TypeOK ==
    /\ slots \in [Gens -> Slot]
    /\ pc \in Phases
    /\ pack \in Packs
    /\ wip \in Wips
    /\ views \in [Readers -> Views]
    /\ source \in BOOLEAN
    /\ committed \in Values
    /\ attempted \subseteq Values
    /\ acked \in Nat

Value(seq, manifest) == [seq |-> seq, manifest |-> manifest]

NoPack == [gen |-> 0, salt |-> 0, table |-> NoTable, sealed |-> 0, seq |-> 0,
           last |-> NoLink, since |-> 0, prov |-> FALSE, manifest |-> {},
           graveyard |-> {}]

NoWip == [seal |-> Void, table |-> NoTable, undo |-> 0]

NoView == [held |-> FALSE, gen |-> 0, table |-> NoTable, sealed |-> 0]

\* PackStore::last_seal is Some.
Sealed == pack.last # NoLink

Here == slots[pack.gen]

-----------------------------------------------------------------------------
(***************************************************************************)
(* Opening.                                                                *)
(***************************************************************************)

Found == {g \in Gens : slots[g].name}

Sound == {g \in Found : Elected(slots[g].vol) # 0}

\* Mutant: the newest generation wins whatever it covers.
OutranksByGeneration(g, h) == g >= h

\* The sort key of the election: sequence first, generation breaks the tie.
Outranks(g, h) ==
    LET a == slots[g].vol[Elected(slots[g].vol)]
        b == slots[h].vol[Elected(slots[h].vol)]
    IN  a.seq > b.seq \/ (a.seq = b.seq /\ a.gen >= b.gen)

\* Mutant: a slot whose removal fails is emptied in place.
SweptInPlace(files, gone) ==
    {[g \in Gens |-> IF g \in gone \ stuck THEN Remove(files[g])
                     ELSE IF g \in stuck THEN Truncate(files[g], 0) ELSE files[g]] :
        stuck \in IF RemovalFails THEN SUBSET gone ELSE {{}}}

\* Removing slots is best effort: a removal that fails leaves the slot behind.
Swept(files, gone) ==
    {[g \in Gens |-> IF g \in gone \ stuck THEN Remove(files[g]) ELSE files[g]] :
        stuck \in IF RemovalFails THEN SUBSET gone ELSE {{}}}

\* The PackStore recover_state's answer is turned into.
Recovered(g) ==
    LET b == slots[g].vol
        i == Elected(b)
    IN  [gen |-> b[i].gen, salt |-> b[0].salt, table |-> ChainTable(b, i), sealed |-> i,
         seq |-> b[i].seq, last |-> [at |-> i, check |-> SealCheck(b[i])],
         since |-> SinceCheckpoint(b, i), prov |-> b[i].prov, manifest |-> b[i].manifest,
         graveyard |-> {}]

\* The state a caller sees once the open returns.  An unsealed pack beside a
\* prior layout is not handed out: migration comes first.
Expose(p) ==
    /\ committed' = IF source /\ p.last = NoLink
                    THEN committed ELSE Value(p.seq, p.manifest)
    /\ attempted' = {}

\* open: a verified slot wins, the others go, the unverified tail is cut.
OpenElected ==
    /\ pc = "down"
    /\ \E g \in Sound :
        /\ \A h \in Sound : Outranks(g, h)
        /\ \E after \in Swept(slots, Found \ {g}) :
            LET i == Elected(slots[g].vol) IN
            /\ slots' = [after EXCEPT ![g] = Truncate(after[g], i)]
            /\ pack' = Recovered(g)
            /\ IF slots[g].len > i
               THEN pc' = "trimming" /\ UNCHANGED <<committed, attempted>>
               ELSE pc' = "ready" /\ Expose(Recovered(g))
    /\ UNCHANGED <<wip, views, source, acked>>

\* Mutant: the cut is not flushed.
OpenTrimmedUnflushed ==
    /\ pc = "trimming"
    /\ pc' = "ready"
    /\ Expose(pack)
    /\ UNCHANGED <<slots, pack, wip, views, source, acked>>

\* open: the flush that makes the cut durable before anything is appended.
OpenTrimmed ==
    /\ pc = "trimming"
    /\ slots' = [slots EXCEPT ![pack.gen] = Flush(@)]
    /\ pc' = "ready"
    /\ Expose(pack)
    /\ UNCHANGED <<pack, wip, views, source, acked>>

\* init_slot: create or empty the slot and write a header under a random salt,
\* one that no seal the slot may still hold was written under.
FreshSalts(s) ==
    {salt \in Salts : \A i \in Offsets : \A r \in s.disk[i] :
        r.kind = "seal" => r.salt # salt}

InitSlot(s, salt) == Write(Create(s), [i \in {0} |-> Header(salt)], 0)

\* open: no slot verifies and none is torn acknowledged history: found a pack.
OpenFresh ==
    /\ pc = "down"
    /\ Sound = {}
    /\ \A g \in Found : ~TornBirth(slots[g].vol)
    /\ \E after \in Swept(slots, Found), salt \in FreshSalts(slots[0]) :
        /\ slots' = [after EXCEPT ![0] = InitSlot(@, salt)]
        /\ pack' = [NoPack EXCEPT !.salt = salt]
    /\ pc' = "founding"
    /\ UNCHANGED <<wip, views, source, observed>>

OpenFounded ==
    /\ pc = "founding"
    /\ slots' = [slots EXCEPT ![0] = Flush(@)]
    /\ pc' = "ready"
    /\ Expose(pack)
    /\ UNCHANGED <<pack, wip, views, source, acked>>

\* open: the only history is a torn birth seal; refuse rather than erase.
OpenRefused ==
    /\ pc = "down"
    /\ Sound = {}
    /\ \E g \in Found : TornBirth(slots[g].vol)
    /\ pc' = "refused"
    /\ UNCHANGED <<slots, pack, wip, views, source, observed>>

\* open answers Err when the flush after the cut, or of the header, fails; the
\* next open runs over the same page cache.
OpenFlushFails ==
    /\ Restarts
    /\ pc \in {"trimming", "founding"}
    /\ slots' = [slots EXCEPT ![pack.gen] = FlushFailed(@)]
    /\ pc' = "down"
    /\ pack' = NoPack
    /\ UNCHANGED <<wip, views, source, observed>>

\* Store::open_native: a pack that cannot open beside an authoritative source is
\* a stillborn migration; its slots are removed and the open starts over.  A removal
\* that fails ends the open, and the next one finds what is left.
Stillborn ==
    /\ pc = "refused"
    /\ source
    /\ slots' \in Swept(slots, Found)
    /\ pc' = "down"
    /\ UNCHANGED <<pack, wip, views, source, observed>>

-----------------------------------------------------------------------------
(***************************************************************************)
(* Committing.                                                             *)
(***************************************************************************)

\* Objects are appended after offset `end`, in hash order.
Placed(new, end) ==
    [h \in new |-> end + Cardinality({x \in new : x <= h})]

ObjectRecords(new, end) ==
    LET at == Placed(new, end) IN
    [i \in {at[h] : h \in new} |-> ObjectRecord(CHOOSE h \in new : at[h] = i)]

\* Bound: what is appended, and its seal, must fit the modelled slot.
Fits(new, end) == end + Cardinality(new) < MaxLen

\* try_commit and try_migrate, up to the seal: append what the table lacks.
\* Store::commit writes what its manifest needs, and needs nothing else.
AppendObjects(objects, manifest, migrating) ==
    LET end   == Here.len
        new   == objects \ DOMAIN pack.table
        added == Placed(new, end)
        table == Merge(added, pack.table)
        due   == pack.since + 1 >= CheckpointEvery
    IN
    /\ objects \subseteq manifest /\ manifest \subseteq DOMAIN table
    /\ Fits(new, end)
    /\ slots' = [slots EXCEPT ![pack.gen] = Write(@, ObjectRecords(new, end), end + Cardinality(new))]
    /\ wip' = [undo  |-> end,
               table |-> table,
               seal  |-> [kind |-> "seal", salt |-> pack.salt, gen |-> pack.gen,
                          seq   |-> IF migrating THEN SourceSeq + 1 ELSE pack.seq + 1,
                          prev  |-> IF migrating THEN NoLink ELSE pack.last,
                          added |-> IF migrating THEN NoTable ELSE added,
                          full  |-> migrating \/ due,
                          base  |-> IF migrating \/ due THEN table ELSE NoTable,
                          prov  |-> migrating,
                          manifest |-> manifest]]
    /\ pc' = "commit"
    /\ UNCHANGED <<pack, views, source, observed>>

\* PackStore::commit.  Store::open hands no pack out while a source rules.
Commit(objects, manifest) ==
    /\ pc = "ready"
    /\ ~source
    /\ pack.seq < MaxSeq
    /\ AppendObjects(objects, manifest, FALSE)

\* PackStore::migrate_commit: only into a pack that has never sealed.
MigrateCommit ==
    /\ pc = "ready"
    /\ source
    /\ ~Sealed
    /\ AppendObjects(committed.manifest, committed.manifest, TRUE)

\* Mutant: the seal is appended one record too far.
CommitSealGap ==
    /\ pc = "commit"
    /\ slots' = [slots EXCEPT ![pack.gen] =
                    Write(@, [i \in {Here.len + 2} |-> wip.seal], Here.len + 2)]
    /\ pc' = "sealed"
    /\ attempted' = attempted \cup {Value(wip.seal.seq, wip.seal.manifest)}
    /\ UNCHANGED <<pack, wip, views, source, committed, acked>>

\* append_seal.
CommitSeal ==
    /\ pc = "commit"
    /\ slots' = [slots EXCEPT ![pack.gen] =
                    Write(@, [i \in {Here.len + 1} |-> wip.seal], Here.len + 1)]
    /\ pc' = "sealed"
    /\ attempted' = attempted \cup {Value(wip.seal.seq, wip.seal.manifest)}
    /\ UNCHANGED <<pack, wip, views, source, committed, acked>>

\* The bookkeeping of a commit that is acknowledged.
Publish(since) ==
    /\ pack' = [pack EXCEPT
                    !.table    = wip.table,
                    !.sealed   = Here.len,
                    !.seq      = wip.seal.seq,
                    !.last     = [at |-> Here.len, check |-> SealCheck(wip.seal)],
                    !.since    = since,
                    !.prov     = wip.seal.prov,
                    !.manifest = wip.seal.manifest]
    /\ wip' = NoWip
    /\ pc' = "ready"
    /\ committed' = Value(wip.seal.seq, wip.seal.manifest)
    /\ attempted' = {}
    /\ acked' = wip.seal.seq
    /\ UNCHANGED <<views, source>>

\* Mutants: the snapshot is published before the flush; only the range this commit
\* appended is synced; a checkpoint does not restart the count of seals since the
\* last one.
CommitFlushUnflushed ==
    /\ pc = "sealed"
    /\ Publish(IF wip.seal.full THEN 0 ELSE pack.since + 1)
    /\ UNCHANGED slots

CommitFlushOwn ==
    LET own == {i \in Here.dirty : i > wip.undo} IN
    /\ pc = "sealed"
    /\ slots' = [slots EXCEPT
                    ![pack.gen].disk  = [i \in Offsets |-> IF i \in own THEN {Here.vol[i]} ELSE @[i]],
                    ![pack.gen].dirty = @ \ own]
    /\ Publish(IF wip.seal.full THEN 0 ELSE pack.since + 1)

CommitFlushCounting ==
    /\ pc = "sealed"
    /\ slots' = [slots EXCEPT ![pack.gen] = Flush(@)]
    /\ Publish(pack.since + 1)

\* The one flush answers Ok: publish the snapshot and acknowledge.
CommitFlush ==
    /\ pc = "sealed"
    /\ slots' = [slots EXCEPT ![pack.gen] = Flush(@)]
    /\ Publish(IF wip.seal.full THEN 0 ELSE pack.since + 1)

\* The flush answers Err: OutcomeUnknown, and the writer is poisoned.
CommitFlushFails ==
    /\ pc = "sealed"
    /\ slots' = [slots EXCEPT ![pack.gen] = FlushFailed(@)]
    /\ pc' = "poisoned"
    /\ wip' = NoWip
    /\ UNCHANGED <<pack, views, source, observed>>

\* Mutant: the undo cuts the whole slot, not the partial tail.
CommitUndoAll ==
    /\ pc = "commit"
    /\ slots' = [slots EXCEPT ![pack.gen] = Truncate(@, 0)]
    /\ pc' = "ready"
    /\ wip' = NoWip
    /\ UNCHANGED <<pack, views, source, observed>>

\* An append fails before the seal is whole: the partial tail is cut (with no
\* flush of its own) and the caller may retry.
CommitUndo ==
    /\ pc = "commit"
    /\ slots' = [slots EXCEPT ![pack.gen] = Truncate(@, wip.undo)]
    /\ pc' = "ready"
    /\ wip' = NoWip
    /\ UNCHANGED <<pack, views, source, observed>>

\* The same failure when the truncate fails too.
CommitUndoFails ==
    /\ pc = "commit"
    /\ pc' = "poisoned"
    /\ wip' = NoWip
    /\ UNCHANGED <<slots, pack, views, source, observed>>

\* Mutant: the source is retired before the migration is sealed.
RetireSourceEarly ==
    /\ pc = "ready"
    /\ source
    /\ source' = FALSE
    /\ UNCHANGED <<slots, pc, pack, wip, views, observed>>

\* migrate_retired and resume_retirement: a sealed migration retires the source.
RetireSource ==
    /\ pc = "ready"
    /\ source /\ Sealed /\ pack.prov
    /\ source' = FALSE
    /\ UNCHANGED <<slots, pc, pack, wip, views, observed>>

-----------------------------------------------------------------------------
(***************************************************************************)
(* Compacting, and the readers it must not disturb.                        *)
(***************************************************************************)

\* compact: drop whatever wears the successor's name and init its slot.
Compact ==
    /\ pc = "ready"
    /\ ~source
    /\ Sealed
    /\ pack.gen < MaxGen
    /\ LET next == pack.gen + 1 IN
       \E after \in Swept(slots, {next}), salt \in FreshSalts(slots[next]) :
        /\ slots' = [after EXCEPT ![next] = InitSlot(@, salt)]
        /\ wip' = [NoWip EXCEPT !.seal = Header(salt)]
    /\ pc' = "header"
    /\ UNCHANGED <<pack, views, source, observed>>

\* build_successor after init_slot's flush: copy what `live` keeps, then append
\* a birth seal at the same sequence, one generation up.
CompactCopy(live) ==
    LET next  == pack.gen + 1
        salt  == wip.seal.salt
        keep  == DOMAIN pack.table \cap live
        table == Placed(keep, 0)
        seal  == [kind |-> "seal", salt |-> salt, gen |-> next, seq |-> pack.seq,
                  prev |-> NoLink, added |-> NoTable, full |-> TRUE, base |-> table,
                  prov |-> FALSE, manifest |-> pack.manifest]
        blocks == Merge(ObjectRecords(keep, 0),
                        [i \in {Cardinality(keep) + 1} |-> seal])
    IN
    /\ pc = "header"
    /\ Fits(keep, 0)
    /\ DeltaHolds(Here.vol, [h \in keep |-> pack.table[h]])
    /\ slots' = [slots EXCEPT ![next] = Write(Flush(@), blocks, Cardinality(keep) + 1)]
    /\ wip' = [NoWip EXCEPT !.seal = seal, !.table = table]
    /\ pc' = "successor"
    /\ UNCHANGED <<pack, views, source, observed>>

PinnedNone == {}   \* mutant: no view is asked

\* Generations some view keeps alive (Arc::strong_count).
Pinned == {views[r].gen : r \in {r \in Readers : views[r].held}}

\* compact after the flush: the successor is authoritative; sweep_graveyard
\* removes every retired generation no view pins.
CompactSwap ==
    LET next    == pack.gen + 1
        retired == pack.graveyard \cup {pack.gen}
    IN
    /\ pc = "successor"
    /\ \E after \in Swept(slots, retired \ Pinned) :
        slots' = [after EXCEPT ![next] = Flush(@)]
    /\ pack' = [pack EXCEPT
                    !.gen       = next,
                    !.salt      = wip.seal.salt,
                    !.table     = wip.table,
                    !.sealed    = slots[next].len,
                    !.last      = [at    |-> slots[next].len,
                                   check |-> SealCheck(wip.seal)],
                    !.since     = 0,
                    !.graveyard = retired \cap Pinned]
    /\ wip' = NoWip
    /\ pc' = "ready"
    /\ UNCHANGED <<views, source, observed>>

\* build_successor fails at any point: the old pack is untouched, the successor
\* is garbage and is removed.  What failed may be the flush of its header or of
\* its birth seal.
CompactFails ==
    LET next == pack.gen + 1 IN
    /\ pc \in {"header", "successor"}
    /\ \E left \in {slots[next], FlushFailed(slots[next])} :
          slots' \in Swept([slots EXCEPT ![next] = left], {next})
    /\ pc' = "ready"
    /\ wip' = NoWip
    /\ UNCHANGED <<pack, views, source, observed>>

\* PackStore::view.
TakeView(r) ==
    /\ pc \in Open
    /\ ~views[r].held
    /\ views' = [views EXCEPT ![r] = [held |-> TRUE, gen |-> pack.gen,
                                      table |-> pack.table, sealed |-> pack.sealed]]
    /\ UNCHANGED <<slots, pc, pack, wip, source, observed>>

DropView(r) ==
    /\ views[r].held
    /\ views' = [views EXCEPT ![r] = NoView]
    /\ UNCHANGED <<slots, pc, pack, wip, source, observed>>

-----------------------------------------------------------------------------
(***************************************************************************)
(* Interruptions.                                                          *)
(***************************************************************************)

Forget ==
    /\ pack' = NoPack
    /\ wip' = NoWip
    /\ views' = [r \in Readers |-> NoView]

\* The store is dropped between operations, or after a refused open.  Its views
\* are unknown to the stores after it and read on; SealedStays is what they rely on.
Close ==
    /\ pc \in {"ready", "refused"}
    /\ pc' = "down"
    /\ Forget
    /\ UNCHANGED <<slots, source, observed>>

\* The process dies, or a poisoned store is dropped to be reopened, while the
\* machine stays up: the page cache survives.
Restart ==
    /\ Restarts
    /\ pc \notin {"down", "dark"}
    /\ pc' = "down"
    /\ Forget
    /\ UNCHANGED <<slots, source, observed>>

PowerLoss ==
    /\ PowerCuts
    /\ pc # "dark"
    /\ pc # "down" \/ \E g \in Gens : ~Settled(slots[g])
    /\ pc' = "dark"
    /\ Forget
    /\ UNCHANGED <<slots, source, observed>>

\* Whatever each slot kept is decided slot by slot while the machine is off.
Survive(g) ==
    /\ pc = "dark"
    /\ ~Settled(slots[g])
    /\ \A h \in Gens : h < g => Settled(slots[h])
    /\ \/ /\ "unlisted" \in slots[g].names
          /\ slots' = [slots EXCEPT ![g] = Absent]
       \/ /\ "listed" \in slots[g].names
          /\ \E b \in Survivors(slots[g]), n \in Offsets :
                /\ EndsAt(Verifiable(b), n)
                /\ slots' = [slots EXCEPT ![g] = Image(Verifiable(b), n)]
    /\ UNCHANGED <<pc, pack, wip, views, source, observed>>

PowerBack ==
    /\ pc = "dark"
    /\ \A g \in Gens : Settled(slots[g])
    /\ pc' = "down"
    /\ UNCHANGED <<slots, pack, wip, views, source, observed>>

-----------------------------------------------------------------------------

Init ==
    /\ slots = [g \in Gens |-> Absent]
    /\ pc = "down"
    /\ pack = NoPack
    /\ wip = NoWip
    /\ views = [r \in Readers |-> NoView]
    /\ source \in Sources
    /\ committed = IF source THEN Value(SourceSeq, Objects) ELSE Value(0, {})
    /\ attempted = {}
    /\ acked = 0

Next ==
    \/ OpenElected \/ OpenTrimmed \/ OpenFresh \/ OpenFounded \/ OpenRefused
    \/ OpenFlushFails \/ Stillborn
    \/ \E objects, manifest \in SUBSET Objects : Commit(objects, manifest)
    \/ MigrateCommit \/ CommitSeal \/ CommitFlush \/ CommitFlushFails
    \/ CommitUndo \/ CommitUndoFails \/ RetireSource
    \/ Compact
    \/ \E dead \in SUBSET Objects :
          dead \cap pack.manifest = {} /\ CompactCopy(Objects \ dead)
    \/ CompactSwap \/ CompactFails
    \/ \E r \in Readers : TakeView(r) \/ DropView(r)
    \/ Close \/ Restart \/ PowerLoss \/ PowerBack
    \/ \E g \in Gens : Survive(g)

Spec == Init /\ [][Next]_vars

-----------------------------------------------------------------------------
(***************************************************************************)
(* Properties.                                                             *)
(***************************************************************************)

\* Every object the open pack's table names reads back, verified against its
\* content address.  Recovery re-hashes only the newest seal's delta, so for
\* everything older this rests on what was flushed before it.
TableReadable ==
    pc \in Open => DeltaHolds(Here.vol, pack.table)

\* The manifest an open pack exposes needs no object the pack does not hold,
\* through commits, compactions and every recovery.
ManifestComplete ==
    pc \in Open => pack.manifest \subseteq DOMAIN pack.table

\* A view reads everything its table names for as long as it is held, across
\* later commits, failed commits and compactions: its generation's slot is
\* neither removed nor rewritten under it.
ViewsReadable ==
    \A r \in Readers : views[r].held =>
        /\ slots[views[r].gen].name
        /\ DeltaHolds(slots[views[r].gen].vol, views[r].table)

\* What the writer keeps in memory (the table and the distance to the last
\* checkpoint) is what a recovery of the slot would compute from its records.
BookkeepingAgrees ==
    pc \in {"ready", "commit", "sealed", "header", "successor"} /\ Sealed =>
        /\ ChainHolds(Here.vol, pack.last.at)
        /\ ChainTable(Here.vol, pack.last.at) = pack.table
        /\ SinceCheckpoint(Here.vol, pack.last.at) = pack.since

\* A pack is refused as torn only while the store it was migrated from is still
\* authoritative: no acknowledged history ends in a refusal.
NeverBricked == pc = "refused" => source

\* No open shows a state older than the last commit a caller was told of.
AckedSurvives == pc \in Open /\ ~source => pack.seq >= acked

\* Invariant I2 of the pack log: the bytes a published snapshot names were
\* flushed before the snapshot was published.
PublishedIsDurable ==
    pc \in Open => \A i \in 0 .. pack.sealed : Here.disk[i] = {Here.vol[i]}

\* An acknowledgement means durable, also of what the commit stands on: a store may be
\* opened over seals nothing has made durable yet, so PublishedIsDurable fails there,
\* but once a commit's own flush answers Ok no block its snapshot covers can be lost.
AckMeansDurable ==
    [][pc = "sealed" /\ pc' = "ready" =>
        \A i \in 0 .. pack'.sealed : slots'[pack'.gen].disk[i] = {slots'[pack'.gen].vol[i]}]_vars

\* I1 and I2 as a reader depends on them: no step the store takes changes, cuts
\* or unlinks a byte below the sealed length of a view that stays held.
ViewsStable ==
    [][\A r \in Readers : views[r].held /\ views'[r] = views[r] =>
        /\ slots'[views[r].gen].name
        /\ \A i \in 0 .. views[r].sealed :
              slots'[views[r].gen].vol[i] = slots[views[r].gen].vol[i]]_vars

\* "sealed bytes are immutable in place (a successor appends past `sealed_len` and
\* never truncates below it)": a store hands its files on while its views are still
\* read, and the successor's graveyard knows none of them.  So whatever a store elects,
\* trims, commits, undoes, compacts and fails to remove, a slot that keeps its name keeps
\* every record up to its newest verified seal, which no view of any store is beyond.
\* A slot younger than the open pack is a compaction's, which nobody has a view of.
SealedStays ==
    [][\A g \in Sound :
          pc # "dark" /\ (pc \in Open => g <= pack.gen) /\ slots'[g].name =>
             \A i \in 0 .. Elected(slots[g].vol) : slots'[g].vol[i] = slots[g].vol[i]]_vars

=============================================================================
