--------------------------- MODULE MigrationProofs ---------------------------
(***************************************************************************)
(* The migration's safety, for any number of interruptions at any step.  A *)
(* store that ever committed in the prior layout passes through stages     *)
(* that differ in who is authoritative: the source, the seal being made    *)
(* durable, the pack beside a source on its way out, the pack beside a     *)
(* source an old binary went on with, and the pack alone; or the pack lost *)
(* an unflushed seal under a source already moved, and every open refuses. *)
(* That it is always in one of them is the inductive invariant.            *)
(***************************************************************************)
EXTENDS Migration, TLAPS

\* What a pack without a seal may be.
Bare == {None, Empty, Torn}

Movables == {"objects", "journal", "counter"}

\* A piece is moved at most once, and what is still here cannot be lost.
EntriesInv ==
    \A p \in Movables :
        /\ here[p] \in {"present", "half", "gone"} /\ kept[p] \subseteq {"present", "half", "gone"}
        /\ here[p] # "gone" => kept[p] = {here[p]}

\* The source is whole and carries the newest history.
SourceHolds ==
    /\ latest \in Manifests
    /\ here["manifest"] = latest /\ kept["manifest"] = {latest}
    /\ here["objects"] # "gone" /\ here["counter"] # "gone"

Synced == \A p \in Pieces : kept[p] = {here[p]}

\* What a power loss may leave of the slot holds no seal.
BareSlot == slot.disk \subseteq Bare /\ slot.lost \subseteq Bare

\* A power loss leaves the seal the slot holds, or no seal.
SoftSlot(c) == slot.vol = c /\ slot.disk \subseteq Bare \cup {c} /\ slot.lost \subseteq Bare

\* What the slot holds it cannot lose.
Lasting(c) == slot.vol = c /\ slot.disk = {c} /\ slot.lost = {}

\* No seal exists anywhere: the source is authoritative.
SourceStage ==
    /\ pc \in {"down", "found", "migrate"}
    /\ slot.vol \in Bare /\ BareSlot
    /\ SourceHolds

\* The migration seal is written: it may survive or not, and the source is still whole.
SealStage ==
    /\ pc \in {"sealed", "flushed"}
    /\ SoftSlot(Sealed(latest, TRUE))
    /\ pc = "flushed" => slot.disk = {slot.vol}
    /\ SourceHolds

\* The source is on its way out, or out.  The seal lasts, unless an open found it
\* unflushed; while its name may be lost, nothing has moved.
RetireStage ==
    /\ pc \in {"down", "resume", "retire", "settle", "serving"}
    /\ SoftSlot(Sealed(latest, TRUE)) /\ latest \in Manifests
    /\ exposed \/ slot.disk = {slot.vol}
    /\ slot.lost = {} \/ (pc \in {"down", "resume"} /\ SourceHolds)
    /\ here["manifest"] \in {latest, "tombstone"} /\ kept["manifest"] \subseteq {latest, "tombstone"}
    /\ pc \in {"settle", "serving"} => exposed \/ ~Present
    /\ pc \in {"down", "resume"} => durable \/ Synced \/ exposed \/ Present
    /\ pc = "serving" => durable \/ Synced \/ exposed

\* An old binary went on with a source the pack had sealed: both are kept.
ForkStage ==
    /\ pc \in {"down", "resume", "failed"}
    /\ SoftSlot(Sealed("v1", TRUE))
    /\ latest = "v2" /\ forked
    /\ SourceHolds

\* The pack has histories of its own.  Nothing of the source comes back, or the next
\* open refuses the two.
PackStage ==
    /\ pc \in {"down", "serving", "resume", "failed"}
    /\ Lasting(Sealed("pack", FALSE))
    /\ latest = "pack" \/ (pc # "serving" /\ here["manifest"] = "v2" /\ kept["manifest"] = {"v2"})
    /\ exposed \/ (pc \in {"down", "serving"} /\ ~Present /\ Synced)

\* A source on its way out lost its unflushed seal: every open refuses.
LostStage ==
    /\ pc \in {"down", "found", "failed"} /\ exposed
    /\ slot.vol \in Bare /\ BareSlot
    /\ Synced /\ ~(Present /\ SourceOpens) /\ here["manifest"] \in Manifests \cup {"tombstone"}

Stage ==
    \/ SourceStage \/ SealStage \/ RetireStage \/ ForkStage \/ PackStage \/ LostStage

\* The type invariant, with what it needs of the history about to be sealed.
TypeInv == TypeOK /\ (pc = "migrate" => here["manifest"] \in Manifests)

MigrationInv ==
    /\ TypeInv /\ EntriesInv
    /\ Stage

-----------------------------------------------------------------------------
(***************************************************************************)
(* The values.                                                             *)
(***************************************************************************)

LEMMA BareContents == Bare \subseteq Contents
  BY DEF Bare, Contents, None, Empty, Torn

LEMMA SealedContents ==
    ASSUME NEW h \in Manifests \cup {"pack"}, NEW b \in BOOLEAN
    PROVE  /\ Sealed(h, b) \in Contents /\ Sealed(h, b) \notin Bare
           /\ Sealed(h, b).kind = "sealed" /\ Sealed(h, b).carries = h /\ Sealed(h, b).prov = b
  BY DEF Sealed, Contents, Bare, None, Empty, Torn

LEMMA BareKinds == \A c \in Bare : c.kind \in {"none", "empty", "torn"}
  BY DEF Bare, None, Empty, Torn

LEMMA PieceFacts ==
    /\ Movables \subseteq Pieces /\ "manifest" \in Pieces /\ "manifest" \notin Movables
    /\ "objects" \in Movables /\ "journal" \in Movables /\ "counter" \in Movables
    /\ \A p \in Pieces : p = "manifest" \/ p \in Movables
    /\ "present" \in Entries /\ "gone" \in Entries /\ "half" \in Entries /\ "tombstone" \in Entries
    /\ Manifests \subseteq Entries /\ {"present", "half", "gone", "tombstone"} \cap Manifests = {}
  BY DEF Pieces, Movables, Entries, Manifests

\* What is left of the root by a power loss is what `kept` allows.
LEMMA PowerFacts ==
    ASSUME TypeOK, PowerLoss
    PROVE  /\ here' \in [Pieces -> Entries] /\ kept' = [p \in Pieces |-> {here'[p]}]
           /\ \A p \in Pieces : here'[p] \in kept[p]
           /\ slot'.vol \in slot.disk \cup slot.lost /\ slot'.disk = {slot'.vol} /\ slot'.lost = {}
           /\ slot' = [vol |-> slot'.vol, disk |-> {slot'.vol}, lost |-> {}]
           /\ pc' = "down" /\ UNCHANGED <<latest, forked, exposed, durable>>
           /\ crashes' \in 0 .. MaxCrashes
  <1>1. PICK h \in [Pieces -> Entries] :
           (\A p \in Pieces : h[p] \in kept[p]) /\ here' = h /\ kept' = [p \in Pieces |-> {h[p]}]
    BY DEF PowerLoss
  <1>2. PICK c \in slot.disk \cup slot.lost : slot' = [vol |-> c, disk |-> {c}, lost |-> {}]
    BY DEF PowerLoss
  <1>3. slot'.vol = c /\ slot'.disk = {c} /\ slot'.lost = {}
    BY <1>2
  <1>4. crashes' \in 0 .. MaxCrashes
    BY MigrationAssumption DEF PowerLoss, TypeOK
  <1> QED
    BY <1>1, <1>2, <1>3, <1>4 DEF PowerLoss

-----------------------------------------------------------------------------
(***************************************************************************)
(* Types.                                                                  *)
(***************************************************************************)

\* A flush keeps the slot and the names in their types.
LEMMA FlushedType ==
    ASSUME TypeOK, NEW c \in Contents, NEW lost \in SUBSET Contents,
           NEW names \in [Pieces -> SUBSET Entries], here' \in [Pieces -> Entries],
           Flushed(c, lost, names)
    PROVE  /\ slot' \in [vol : Contents, disk : SUBSET Contents, lost : SUBSET Contents]
           /\ kept' \in [Pieces -> SUBSET Entries]
  BY DEF Flushed, TypeOK

LEMMA SyncDirType ==
    ASSUME TypeOK, SyncDir
    PROVE  /\ slot' \in [vol : Contents, disk : SUBSET Contents, lost : SUBSET Contents]
           /\ kept' \in [Pieces -> SUBSET Entries]
  BY DEF SyncDir, TypeOK

LEMMA DrainedType ==
    ASSUME TypeOK
    PROVE  Drained \in [Pieces -> Entries] /\ DrainedNames \in [Pieces -> SUBSET Entries]
  BY DEF Drained, DrainedNames, TypeOK, Pieces, Entries

LEMMA TypeStep == TypeInv /\ [Next]_vars => TypeInv'
  <1> SUFFICES ASSUME TypeInv, [Next]_vars PROVE TypeInv'
    OBVIOUS
  <1>0. /\ TypeOK /\ (pc = "migrate" => here["manifest"] \in Manifests)
        /\ here \in [Pieces -> Entries] /\ kept \in [Pieces -> SUBSET Entries]
        /\ slot \in [vol : Contents, disk : SUBSET Contents, lost : SUBSET Contents]
        /\ slot.vol \in Contents /\ slot.disk \subseteq Contents /\ slot.lost \subseteq Contents
        /\ Empty \in Contents
    BY BareContents DEF TypeInv, TypeOK, Bare
  <1>1. CASE OpenSealed
    BY <1>0, <1>1 DEF OpenSealed, TypeInv, TypeOK, Phases, Opening
  <1>2. CASE OpenFresh
    <2>1. Flushed(Empty, slot.lost \cup slot.disk, kept) /\ here' = here /\ pc' = "found"
          /\ UNCHANGED <<crashes, latest, forked, exposed, durable>>
      BY <1>2 DEF OpenFresh, Founded
    <2>2. /\ slot' \in [vol : Contents, disk : SUBSET Contents, lost : SUBSET Contents]
          /\ kept' \in [Pieces -> SUBSET Entries]
      BY <1>0, <2>1, FlushedType
    <2> QED
      BY <1>0, <2>1, <2>2 DEF TypeInv, TypeOK, Phases, Opening
  <1>3. CASE OpenStillborn
    <2>1. CASE here' = Drained /\ Founded(DrainedNames) /\ pc' = "found"
      <3>1. Flushed(Empty, slot.lost \cup slot.disk, DrainedNames)
        BY <2>1 DEF Founded
      <3>2. /\ slot' \in [vol : Contents, disk : SUBSET Contents, lost : SUBSET Contents]
            /\ kept' \in [Pieces -> SUBSET Entries] /\ here' \in [Pieces -> Entries]
        BY <1>0, <2>1, <3>1, FlushedType, DrainedType
      <3>3. UNCHANGED <<crashes, latest, forked, exposed, durable>>
        BY <1>3 DEF OpenStillborn
      <3> QED
        BY <1>0, <2>1, <3>2, <3>3 DEF TypeInv, TypeOK, Phases, Opening
    <2>2. CASE pc' = "failed" /\ UNCHANGED <<here, kept, slot>>
      BY <1>0, <1>3, <2>2 DEF OpenStillborn, TypeInv, TypeOK, Phases
    <2> QED
      BY <1>3, <2>1, <2>2 DEF OpenStillborn
  <1>4. CASE Unsealed
    <2>1. UNCHANGED <<slot, crashes, latest, forked, exposed, durable>>
      BY <1>4 DEF Unsealed
    <2>2. CASE pc' \in {"failed", "serving"} /\ UNCHANGED <<here, kept>>
      BY <1>0, <2>1, <2>2 DEF TypeInv, TypeOK, Phases
    <2>3. CASE /\ here' = Drained /\ kept' = DrainedNames /\ SourceOpens
               /\ pc' = IF here["manifest"] = "gone" THEN "retire" ELSE "migrate"
      <3>1. here' \in [Pieces -> Entries] /\ kept' \in [Pieces -> SUBSET Entries]
        BY <1>0, <2>3, DrainedType
      <3>2. here'["manifest"] = here["manifest"]
        BY <1>0, <2>3 DEF Drained, Pieces
      <3>3. pc' = "migrate" => here'["manifest"] \in Manifests
        BY <2>3, <3>2 DEF SourceOpens
      <3> QED
        BY <1>0, <2>1, <2>3, <3>1, <3>3 DEF TypeInv, TypeOK, Phases, Opening
    <2> QED
      BY <1>4, <2>2, <2>3 DEF Unsealed
  <1>5. CASE MigrateSeal
    <2> DEFINE sealed == Sealed(here["manifest"], TRUE)
    <2>1. slot' = [slot EXCEPT !.vol = sealed, !.disk = @ \cup {Torn, sealed}]
      BY <1>5 DEF MigrateSeal
    <2>2. sealed \in Contents /\ Torn \in Contents
      BY <1>0, <1>5, SealedContents, BareContents DEF MigrateSeal, Bare
    <2> HIDE DEF sealed
    <2>3. slot' \in [vol : Contents, disk : SUBSET Contents, lost : SUBSET Contents]
      BY <1>0, <2>1, <2>2
    <2> QED
      BY <1>0, <1>5, <2>3 DEF MigrateSeal, TypeInv, TypeOK, Phases, Opening
  <1>6. CASE MigrateFlush
    <2>1. Flushed(slot.vol, slot.lost, kept) /\ here' = here /\ pc' = "flushed"
          /\ UNCHANGED <<crashes, latest, forked, exposed, durable>>
      BY <1>6 DEF MigrateFlush
    <2>2. /\ slot' \in [vol : Contents, disk : SUBSET Contents, lost : SUBSET Contents]
          /\ kept' \in [Pieces -> SUBSET Entries]
      BY <1>0, <2>1, FlushedType
    <2> QED
      BY <1>0, <2>1, <2>2 DEF TypeInv, TypeOK, Phases, Opening
  <1>7. CASE MigrateSync \/ RetireSync
    <2>1. SyncDir /\ UNCHANGED <<here, crashes, latest, forked, exposed, durable>> /\ pc' \in {"retire", "serving"}
      BY <1>7 DEF MigrateSync, RetireSync
    <2> QED
      BY <1>0, <2>1, SyncDirType DEF TypeInv, TypeOK, Phases, Opening
  <1>8. CASE Resume
    <2>1. UNCHANGED <<here, crashes, latest, forked, exposed, durable>> /\ pc' \in {"retire", "failed"}
      BY <1>8 DEF Resume
    <2>2. SyncDir \/ UNCHANGED <<kept, slot>>
      BY <1>8 DEF Resume
    <2> QED
      BY <1>0, <2>1, <2>2, SyncDirType DEF TypeInv, TypeOK, Phases, Opening
  <1>9. CASE \E i \in 1 .. 3 : RetirePiece(i)
    <2>1. PICK i \in 1 .. 3 : RetirePiece(i)
      BY <1>9
    <2>2. Order[i] \in Pieces
      BY DEF Order, Pieces
    <2>3. here' \in [Pieces -> Entries] /\ kept' \in [Pieces -> SUBSET Entries]
      BY <1>0, <2>1, <2>2, PieceFacts DEF RetirePiece
    <2> QED
      BY <1>0, <2>1, <2>3 DEF RetirePiece, TypeInv, TypeOK
  <1>10. CASE RetireManifest
    <2>1. here' \in [Pieces -> Entries] /\ kept' \in [Pieces -> SUBSET Entries]
      BY <1>0, <1>10, PieceFacts DEF RetireManifest
    <2> QED
      BY <1>0, <1>10, <2>1 DEF RetireManifest, TypeInv, TypeOK, Phases, Opening
  <1>11. CASE Commit
    <2>1. Flushed(Sealed("pack", FALSE), slot.lost, kept) /\ here' = here
      BY <1>11 DEF Commit
    <2>2. Sealed("pack", FALSE) \in Contents
      BY SealedContents
    <2>3. /\ slot' \in [vol : Contents, disk : SUBSET Contents, lost : SUBSET Contents]
          /\ kept' \in [Pieces -> SUBSET Entries]
      BY <1>0, <2>1, <2>2, FlushedType
    <2> QED
      BY <1>0, <1>11, <2>1, <2>3 DEF Commit, TypeInv, TypeOK
  <1>12. CASE Close \/ Restart
    <2>1. /\ UNCHANGED <<here, kept, slot, latest, forked, durable>> /\ pc' = "down"
          /\ crashes' = crashes + 1 /\ crashes < MaxCrashes
      BY <1>12 DEF Close, Restart
    <2>2. exposed' \in BOOLEAN
      BY <1>0, <1>12 DEF Close, Restart, TypeOK
    <2>3. crashes' \in 0 .. MaxCrashes
      BY <1>0, <2>1, MigrationAssumption DEF TypeOK
    <2> QED
      BY <1>0, <2>1, <2>2, <2>3 DEF TypeInv, TypeOK, Phases
  <1>13. CASE PowerLoss
    <2>1. /\ here' \in [Pieces -> Entries] /\ kept' \in [Pieces -> SUBSET Entries]
          /\ slot' \in [vol : Contents, disk : SUBSET Contents, lost : SUBSET Contents]
      BY <1>0, <1>13, PowerFacts
    <2> QED
      BY <1>0, <1>13, <2>1, PowerFacts DEF TypeInv, TypeOK, Phases
  <1>14. CASE OldBinary
    <2>1. here' \in [Pieces -> Entries] /\ kept' \in [Pieces -> SUBSET Entries]
      BY <1>0, <1>14, PieceFacts DEF OldBinary, Manifests
    <2> QED
      BY <1>0, <1>14, <2>1 DEF OldBinary, TypeInv, TypeOK, Manifests
  <1>15. CASE UNCHANGED vars
    BY <1>0, <1>15 DEF vars, TypeInv, TypeOK
  <1> QED
    BY <1>1, <1>2, <1>3, <1>4, <1>5, <1>6, <1>7, <1>8, <1>9, <1>10, <1>11, <1>12, <1>13, <1>14,
       <1>15
    DEF Next, Step

-----------------------------------------------------------------------------
(***************************************************************************)
(* The stages.                                                             *)
(***************************************************************************)

\* Which stage a store is in, read off the slot and the phase.
LEMMA StageOf ==
    ASSUME MigrationInv
    PROVE  /\ slot.vol.kind \in {"none", "empty", "torn"} => SourceStage \/ LostStage
           /\ slot.vol.kind = "sealed" => SealStage \/ RetireStage \/ ForkStage \/ PackStage
           /\ pc = "found" => SourceStage \/ LostStage
           /\ pc = "migrate" => SourceStage
           /\ pc \in {"sealed", "flushed"} => SealStage
           /\ pc \in {"retire", "settle"} => RetireStage
           /\ pc = "resume" => RetireStage \/ ForkStage \/ PackStage
           /\ pc = "serving" => RetireStage \/ PackStage
           /\ pc = "failed" => ForkStage \/ PackStage \/ LostStage
           /\ pc = "down" => ~SealStage
  <1>1. SourceStage \/ LostStage => slot.vol.kind \in {"none", "empty", "torn"}
    BY BareKinds DEF SourceStage, LostStage
  <1>2. SealStage \/ RetireStage \/ ForkStage \/ PackStage => slot.vol.kind = "sealed"
    BY DEF SealStage, RetireStage, ForkStage, PackStage, SoftSlot, Lasting, Sealed
  <1>3. Stage
    BY DEF MigrationInv
  <1>4. /\ SourceStage => pc \in {"down", "found", "migrate"}
        /\ SealStage => pc \in {"sealed", "flushed"}
        /\ RetireStage => pc \in {"down", "resume", "retire", "settle", "serving"}
        /\ ForkStage => pc \in {"down", "resume", "failed"}
        /\ PackStage => pc \in {"down", "serving", "resume", "failed"}
        /\ LostStage => pc \in {"down", "found", "failed"}
    BY DEF SourceStage, SealStage, RetireStage, ForkStage, PackStage, LostStage
  <1> QED
    BY <1>1, <1>2, <1>3, <1>4 DEF Stage

\* The slot is a record of its three fields.
LEMMA FlushedFacts ==
    ASSUME NEW c, NEW lost, NEW names, Flushed(c, lost, names)
    PROVE  /\ slot'.vol = c /\ slot'.disk = {c}
           /\ slot'.lost = IF durable THEN {} ELSE lost
           /\ kept' = IF durable THEN [p \in Pieces |-> {here'[p]}] ELSE names
  BY DEF Flushed

LEMMA SyncDirFacts ==
    ASSUME TypeOK, SyncDir
    PROVE  /\ slot'.vol = slot.vol /\ slot'.disk = slot.disk /\ slot'.lost = {}
           /\ \A p \in Pieces : kept'[p] = {here[p]}
  BY DEF SyncDir, TypeOK

\* Draining the journal moves that piece and no other.
LEMMA DrainedFacts ==
    ASSUME TypeOK, EntriesInv
    PROVE  /\ \A p \in Pieces : p # "journal" => Drained[p] = here[p] /\ DrainedNames[p] = kept[p]
           /\ Drained["journal"] = "gone" /\ DrainedNames["journal"] \subseteq {"present", "half", "gone"}
  BY DEF Drained, DrainedNames, TypeOK, EntriesInv, Movables, Pieces

\* Where every entry is synced, or none changes, the entries stay as they must be.
LEMMA EntriesSynced ==
    ASSUME \A p \in Movables : here'[p] \in {"present", "half", "gone"} /\ kept'[p] = {here'[p]}
    PROVE  EntriesInv'
  BY DEF EntriesInv

LEMMA EntriesKept ==
    ASSUME EntriesInv, UNCHANGED <<here, kept>>
    PROVE  EntriesInv'
  BY DEF EntriesInv

\* A whole source is in place, and it is no tombstone.
LEMMA SourceServes ==
    ASSUME SourceHolds
    PROVE  Present /\ ~Tombstoned /\ SourceOpens /\ here["manifest"] # "gone"
  BY DEF SourceHolds, Present, Tombstoned, SourceOpens, Manifests

\* The root's entries decide what is present and what opens.
LEMMA SameEntries ==
    ASSUME \A p \in Pieces : here'[p] = here[p]
    PROVE  (Present' <=> Present) /\ (SourceOpens' <=> SourceOpens)
  BY DEF Present, SourceOpens, Pieces

LEMMA OpenSealedStage ==
    ASSUME MigrationInv, OpenSealed
    PROVE  EntriesInv' /\ Stage'
  <1>1. /\ pc = "down" /\ slot.vol.kind = "sealed"
        /\ UNCHANGED <<here, kept, slot, latest, forked, exposed, durable>>
        /\ pc' = IF Present THEN "resume" ELSE "serving"
    BY DEF OpenSealed
  <1>2. EntriesInv'
    BY <1>1, EntriesKept DEF MigrationInv
  <1>3. RetireStage \/ ForkStage \/ PackStage
    BY <1>1, StageOf
  <1>4. /\ Present' <=> Present
        /\ SourceHolds' <=> SourceHolds
        /\ Synced' <=> Synced
    BY <1>1 DEF Present, SourceHolds, Synced
  <1>5. CASE RetireStage
    <2>1. slot.lost = {} \/ (SourceHolds /\ Present)
      BY <1>5, SourceServes DEF RetireStage
    <2> QED
      BY <1>1, <1>2, <1>4, <1>5, <2>1 DEF Stage, RetireStage, SoftSlot
  <1>6. CASE ForkStage
    BY <1>1, <1>2, <1>4, <1>6, SourceServes DEF Stage, ForkStage, SoftSlot
  <1>7. CASE PackStage
    <2>1. here["manifest"] = "v2" => Present
      BY DEF Present, Manifests
    <2> QED
      BY <1>1, <1>2, <1>4, <1>7, <2>1 DEF Stage, PackStage, Lasting
  <1> QED
    BY <1>3, <1>5, <1>6, <1>7

\* A pack that is founded over no seal changes nothing of the source but its journal.
LEMMA FoundedFacts ==
    ASSUME MigrationInv, BareSlot, NEW names, Founded(names), durable' = durable,
           \A p \in Pieces : p # "journal" => here'[p] = here[p] /\ names[p] = kept[p],
           here'["journal"] \in {"present", "half", "gone"},
           names["journal"] \subseteq {"present", "half", "gone"},
           here'["journal"] # "gone" => names["journal"] = {here'["journal"]}
    PROVE  /\ EntriesInv' /\ slot'.vol \in Bare /\ BareSlot'
           /\ \A p \in Pieces : p # "journal" => kept'[p] \in {kept[p], {here[p]}}
  <1>1. TypeOK /\ EntriesInv
    BY DEF MigrationInv, TypeInv
  <1>2. /\ slot'.vol = Empty /\ slot'.disk = {Empty}
        /\ slot'.lost = IF durable THEN {} ELSE slot.lost \cup slot.disk
        /\ kept' = IF durable THEN [p \in Pieces |-> {here'[p]}] ELSE names
    BY FlushedFacts DEF Founded
  <1>3. slot'.vol \in Bare /\ BareSlot'
    BY <1>2 DEF BareSlot, Bare
  <1>4. \A p \in Pieces : p # "journal" => kept'[p] \in {kept[p], {here[p]}}
    BY <1>2
  <1>5. here'["journal"] # "gone" => kept'["journal"] = {here'["journal"]}
    BY <1>2 DEF Pieces
  <1>6. kept'["journal"] \subseteq {"present", "half", "gone"}
    BY <1>2 DEF Pieces
  <1>7. EntriesInv'
    BY <1>1, <1>4, <1>5, <1>6 DEF EntriesInv, Movables, Pieces
  <1> QED
    BY <1>3, <1>4, <1>7

LEMMA OpenFreshStage ==
    ASSUME MigrationInv, OpenFresh
    PROVE  EntriesInv' /\ Stage'
  <1>1. (SourceStage \/ LostStage) /\ EntriesInv
    BY StageOf DEF OpenFresh, MigrationInv
  <1>2. /\ Founded(kept) /\ pc' = "found" /\ UNCHANGED <<here, latest, forked, exposed, durable>>
    BY DEF OpenFresh
  <1>3. BareSlot
    BY <1>1 DEF SourceStage, LostStage
  <1>4. /\ EntriesInv' /\ slot'.vol \in Bare /\ BareSlot'
        /\ \A p \in Pieces : p # "journal" => kept'[p] \in {kept[p], {here[p]}}
    BY <1>1, <1>2, <1>3, FoundedFacts DEF EntriesInv, Movables
  <1>5. CASE SourceStage
    <2>1. SourceHolds'
      BY <1>2, <1>4, <1>5 DEF SourceStage, SourceHolds, Pieces
    <2> QED
      BY <1>2, <1>4, <2>1 DEF Stage, SourceStage
  <1>6. CASE LostStage
    <2>1. kept' = IF durable THEN [p \in Pieces |-> {here'[p]}] ELSE kept
      BY <1>2, FlushedFacts DEF Founded
    <2>2. Synced'
      BY <1>2, <1>6, <2>1 DEF LostStage, Synced
    <2>3. ~(Present' /\ SourceOpens')
      BY <1>2, <1>6, SameEntries DEF LostStage
    <2> QED
      BY <1>2, <1>4, <1>6, <2>2, <2>3 DEF Stage, LostStage
  <1> QED
    BY <1>1, <1>5, <1>6

LEMMA OpenStillbornStage ==
    ASSUME MigrationInv, OpenStillborn
    PROVE  EntriesInv' /\ Stage'
  <1>1. (SourceStage \/ LostStage) /\ EntriesInv /\ TypeOK
    BY StageOf DEF OpenStillborn, MigrationInv, TypeInv
  <1>2. CASE SourceStage
    <2>1. /\ here' = Drained /\ Founded(DrainedNames) /\ pc' = "found"
          /\ UNCHANGED <<latest, forked, exposed, durable>>
      BY <1>2, SourceServes DEF OpenStillborn, SourceStage
    <2>2. /\ EntriesInv' /\ slot'.vol \in Bare /\ BareSlot'
          /\ \A p \in Pieces : p # "journal" => kept'[p] \in {kept[p], {here[p]}}
      BY <1>1, <1>2, <2>1, DrainedFacts, FoundedFacts DEF SourceStage
    <2>3. \A p \in Pieces : p # "journal" => here'[p] = here[p]
      BY <1>1, <2>1, DrainedFacts
    <2>4. SourceHolds'
      BY <1>2, <2>1, <2>2, <2>3 DEF SourceStage, SourceHolds, Pieces
    <2> QED
      BY <2>1, <2>2, <2>4 DEF Stage, SourceStage
  <1>3. CASE LostStage
    <2>1. /\ pc' = "failed" /\ UNCHANGED <<here, kept, slot, latest, forked, exposed, durable>>
      BY <1>3 DEF OpenStillborn, LostStage
    <2>2. ~(Present' /\ SourceOpens')
      BY <1>3, <2>1, SameEntries DEF LostStage
    <2>3. LostStage'
      BY <1>3, <2>1, <2>2 DEF LostStage, BareSlot, Synced
    <2> QED
      BY <1>1, <2>1, <2>3, EntriesKept DEF Stage
  <1> QED
    BY <1>1, <1>2, <1>3

LEMMA UnsealedStage ==
    ASSUME MigrationInv, Unsealed
    PROVE  EntriesInv' /\ Stage'
  <1>1. (SourceStage \/ LostStage) /\ EntriesInv /\ TypeOK
    BY StageOf DEF Unsealed, MigrationInv, TypeInv
  <1>2. CASE SourceStage
    <2>1. /\ here' = Drained /\ kept' = DrainedNames /\ pc' = "migrate"
          /\ UNCHANGED <<slot, latest, forked, exposed, durable>>
      BY <1>2, SourceServes DEF Unsealed, SourceStage
    <2>2. /\ \A p \in Pieces : p # "journal" => here'[p] = here[p] /\ kept'[p] = kept[p]
          /\ here'["journal"] = "gone" /\ kept'["journal"] \subseteq {"present", "half", "gone"}
      BY <1>1, <2>1, DrainedFacts
    <2>3. EntriesInv'
      BY <1>1, <2>2 DEF EntriesInv, Movables, Pieces
    <2>4. SourceHolds'
      BY <1>2, <2>1, <2>2 DEF SourceStage, SourceHolds, Pieces
    <2> QED
      BY <1>2, <2>1, <2>3, <2>4 DEF Stage, SourceStage, BareSlot
  <1>3. CASE LostStage
    <2>1. Tombstoned \/ (Present /\ ~SourceOpens)
      BY <1>3 DEF LostStage, Tombstoned, Present
    <2>2. /\ pc' = "failed" /\ UNCHANGED <<here, kept, slot, latest, forked, exposed, durable>>
      BY <2>1 DEF Unsealed
    <2>3. ~(Present' /\ SourceOpens')
      BY <1>3, <2>2, SameEntries DEF LostStage
    <2>4. LostStage'
      BY <1>3, <2>2, <2>3 DEF LostStage, BareSlot, Synced
    <2> QED
      BY <1>1, <2>2, <2>4, EntriesKept DEF Stage
  <1> QED
    BY <1>1, <1>2, <1>3

LEMMA MigrateSealStage ==
    ASSUME MigrationInv, MigrateSeal
    PROVE  EntriesInv' /\ Stage'
  <1> DEFINE sealed == Sealed(here["manifest"], TRUE)
  <1>1. SourceStage /\ EntriesInv /\ TypeOK
    BY StageOf DEF MigrateSeal, MigrationInv, TypeInv
  <1>2. sealed = Sealed(latest, TRUE)
    BY <1>1 DEF SourceStage, SourceHolds
  <1> HIDE DEF sealed
  <1>3. slot'.vol = sealed /\ slot'.disk = slot.disk \cup {Torn, sealed} /\ slot'.lost = slot.lost
    BY <1>1 DEF MigrateSeal, TypeOK, sealed
  <1>4. UNCHANGED <<here, kept, latest, forked, exposed, durable>> /\ pc' = "sealed"
    BY DEF MigrateSeal
  <1>5. slot'.disk \subseteq Bare \cup {sealed} /\ slot'.lost \subseteq Bare
    BY <1>1, <1>3 DEF SourceStage, BareSlot, Bare
  <1> QED
    BY <1>1, <1>2, <1>3, <1>4, <1>5, EntriesKept
       DEF Stage, SourceStage, SealStage, SourceHolds, SoftSlot

LEMMA MigrateFlushStage ==
    ASSUME MigrationInv, MigrateFlush
    PROVE  EntriesInv' /\ Stage'
  <1>1. SealStage /\ EntriesInv /\ TypeOK
    BY StageOf DEF MigrateFlush, MigrationInv, TypeInv
  <1>2. UNCHANGED <<here, latest, forked, exposed, durable>> /\ pc' = "flushed"
    BY DEF MigrateFlush
  <1>3. /\ slot'.vol = slot.vol /\ slot'.disk = {slot.vol}
        /\ slot'.lost = IF durable THEN {} ELSE slot.lost
        /\ kept' = IF durable THEN [p \in Pieces |-> {here'[p]}] ELSE kept
    BY FlushedFacts DEF MigrateFlush
  <1>4. \A p \in Pieces : kept'[p] \in {kept[p], {here[p]}}
    BY <1>2, <1>3
  <1>5. EntriesInv'
    BY <1>1, <1>2, <1>4, PieceFacts DEF EntriesInv
  <1>6. SourceHolds'
    BY <1>1, <1>2, <1>4 DEF SealStage, SourceHolds, Pieces
  <1> QED
    BY <1>1, <1>2, <1>3, <1>5, <1>6 DEF Stage, SealStage, SoftSlot

LEMMA MigrateSyncStage ==
    ASSUME MigrationInv, MigrateSync
    PROVE  EntriesInv' /\ Stage'
  <1>1. SealStage /\ EntriesInv /\ TypeOK
    BY StageOf DEF MigrateSync, MigrationInv, TypeInv
  <1>2. UNCHANGED <<here, latest, forked, exposed, durable>> /\ pc = "flushed" /\ pc' = "retire"
    BY DEF MigrateSync
  <1>3. /\ slot'.vol = slot.vol /\ slot'.disk = slot.disk /\ slot'.lost = {}
        /\ \A p \in Pieces : kept'[p] = {here[p]}
    BY <1>1, SyncDirFacts DEF MigrateSync
  <1>4. EntriesInv'
    BY <1>1, <1>2, <1>3, PieceFacts, EntriesSynced DEF EntriesInv
  <1>5. here'["manifest"] = latest' /\ kept'["manifest"] = {latest'}
    BY <1>1, <1>2, <1>3, PieceFacts DEF SealStage, SourceHolds
  <1> QED
    BY <1>1, <1>2, <1>3, <1>4, <1>5 DEF Stage, SealStage, RetireStage, SoftSlot, SourceHolds

LEMMA ResumeStage ==
    ASSUME MigrationInv, Resume
    PROVE  EntriesInv' /\ Stage'
  <1>1. (RetireStage \/ ForkStage \/ PackStage) /\ EntriesInv /\ TypeOK
    BY StageOf DEF Resume, MigrationInv, TypeInv
  <1>2. CASE PackStage
    <2>1. slot.vol.prov = FALSE
      BY <1>2 DEF PackStage, Lasting, Sealed
    <2>2. /\ pc = "resume" /\ pc' = "failed"
          /\ UNCHANGED <<here, kept, slot, latest, forked, exposed, durable>>
      BY <2>1 DEF Resume
    <2> QED
      BY <1>1, <1>2, <2>2, EntriesKept DEF Stage, PackStage, Lasting
  <1>3. ASSUME RetireStage \/ ForkStage
        PROVE  /\ SyncDir /\ UNCHANGED <<here, latest, forked, exposed, durable>>
               /\ pc' = IF here["manifest"] \in Manifests \ {slot.vol.carries} THEN "failed" ELSE "retire"
    <2>1. slot.vol = Sealed(latest, TRUE) \/ slot.vol = Sealed("v1", TRUE)
      BY <1>3 DEF RetireStage, ForkStage, SoftSlot
    <2>2. slot.vol.prov = TRUE
      BY <2>1 DEF Sealed
    <2> QED
      BY <2>2 DEF Resume
  <1>4. ASSUME RetireStage \/ ForkStage
        PROVE  /\ slot'.vol = slot.vol /\ slot'.disk = slot.disk /\ slot'.lost = {}
               /\ (\A p \in Pieces : kept'[p] = {here[p]}) /\ EntriesInv'
    <2>1. /\ slot'.vol = slot.vol /\ slot'.disk = slot.disk /\ slot'.lost = {}
          /\ \A p \in Pieces : kept'[p] = {here[p]}
      BY <1>1, <1>3, <1>4, SyncDirFacts
    <2> QED
      BY <1>1, <1>3, <1>4, <2>1, PieceFacts, EntriesSynced DEF EntriesInv
  <1>5. CASE RetireStage
    <2>1. slot.vol.carries = latest
      BY <1>5 DEF RetireStage, SoftSlot, Sealed
    <2>2. pc' = "retire"
      BY <1>3, <1>5, <2>1 DEF RetireStage, Manifests
    <2>3. kept'["manifest"] = {here["manifest"]}
      BY <1>4, <1>5, PieceFacts
    <2> QED
      BY <1>3, <1>4, <1>5, <2>2, <2>3 DEF Stage, RetireStage, SoftSlot
  <1>6. CASE ForkStage
    <2>1. slot.vol.carries = "v1"
      BY <1>6 DEF ForkStage, SoftSlot, Sealed
    <2>2. pc' = "failed"
      BY <1>3, <1>6, <2>1 DEF ForkStage, SourceHolds, Manifests
    <2>3. kept'["manifest"] = {here["manifest"]}
      BY <1>4, <1>6, PieceFacts
    <2> QED
      BY <1>3, <1>4, <1>6, <2>2, <2>3 DEF Stage, ForkStage, SoftSlot, SourceHolds
  <1> QED
    BY <1>1, <1>2, <1>5, <1>6

LEMMA RetirePieceStage ==
    ASSUME MigrationInv, NEW i \in 1 .. 3, RetirePiece(i)
    PROVE  EntriesInv' /\ Stage'
  <1>1. RetireStage /\ EntriesInv /\ TypeOK
    BY StageOf DEF RetirePiece, MigrationInv, TypeInv
  <1>2. /\ pc = "retire" /\ UNCHANGED <<slot, pc, latest, forked, exposed, durable>>
        /\ here' = [here EXCEPT ![Order[i]] = "gone"]
        /\ kept' = [kept EXCEPT ![Order[i]] =
                       @ \cup {"gone"} \cup (IF durable THEN {} ELSE {"half"})]
    BY DEF RetirePiece
  <1>3. Order[i] \in Movables
    BY DEF Order, Movables
  <1>4. /\ \A p \in Pieces : p # Order[i] => here'[p] = here[p] /\ kept'[p] = kept[p]
        /\ here'[Order[i]] = "gone" /\ kept'[Order[i]] \subseteq kept[Order[i]] \cup {"gone", "half"}
    BY <1>1, <1>2, <1>3, PieceFacts DEF TypeOK
  <1>5. EntriesInv'
    BY <1>1, <1>3, <1>4, PieceFacts DEF EntriesInv
  <1>6. here'["manifest"] = here["manifest"] /\ kept'["manifest"] = kept["manifest"]
    BY <1>3, <1>4, PieceFacts
  <1> QED
    BY <1>1, <1>2, <1>5, <1>6 DEF Stage, RetireStage, SoftSlot

LEMMA RetireManifestStage ==
    ASSUME MigrationInv, RetireManifest
    PROVE  EntriesInv' /\ Stage'
  <1>1. RetireStage /\ EntriesInv /\ TypeOK
    BY StageOf DEF RetireManifest, MigrationInv, TypeInv
  <1>2. /\ pc = "retire" /\ pc' = "settle" /\ UNCHANGED <<slot, latest, forked, durable>>
        /\ here' = [here EXCEPT !["manifest"] = "tombstone"]
        /\ kept' = [kept EXCEPT !["manifest"] = @ \cup {"tombstone"}]
        /\ \A i \in 1 .. 3 : here[Order[i]] # "present"
        /\ exposed' = (exposed \/ \E i \in 1 .. 3 : here[Order[i]] = "half")
    BY DEF RetireManifest
  <1>3. /\ \A p \in Movables : here'[p] = here[p] /\ kept'[p] = kept[p]
        /\ here'["manifest"] = "tombstone" /\ kept'["manifest"] = kept["manifest"] \cup {"tombstone"}
    BY <1>1, <1>2, PieceFacts DEF TypeOK
  <1>4. EntriesInv'
    BY <1>1, <1>3 DEF EntriesInv
  <1>5. exposed => exposed'
    BY <1>2
  <1>6. ~exposed' => ~Present'
    <2> SUFFICES ASSUME ~exposed' PROVE ~Present'
      OBVIOUS
    <2>1. \A i \in 1 .. 3 : here[Order[i]] \notin {"present", "half"}
      BY <1>2
    <2>2. /\ here["objects"] \notin {"present", "half"} /\ here["journal"] \notin {"present", "half"}
          /\ here["counter"] \notin {"present", "half"}
      <3>1. Order[1] = "objects" /\ Order[2] = "journal" /\ Order[3] = "counter"
        BY DEF Order
      <3> QED
        BY <2>1, <3>1
    <2>3. \A p \in Movables : here'[p] = "gone"
      BY <1>1, <1>3, <2>2 DEF EntriesInv, Movables
    <2> QED
      BY <1>3, <2>3 DEF Present, Movables, Manifests
  <1> QED
    BY <1>1, <1>2, <1>3, <1>4, <1>5, <1>6 DEF Stage, RetireStage, SoftSlot

LEMMA RetireSyncStage ==
    ASSUME MigrationInv, RetireSync
    PROVE  EntriesInv' /\ Stage'
  <1>1. RetireStage /\ EntriesInv /\ TypeOK
    BY StageOf DEF RetireSync, MigrationInv, TypeInv
  <1>2. UNCHANGED <<here, latest, forked, exposed, durable>> /\ pc = "settle" /\ pc' = "serving"
    BY DEF RetireSync
  <1>3. /\ slot'.vol = slot.vol /\ slot'.disk = slot.disk /\ slot'.lost = {}
        /\ \A p \in Pieces : kept'[p] = {here[p]}
    BY <1>1, SyncDirFacts DEF RetireSync
  <1>4. EntriesInv'
    BY <1>1, <1>2, <1>3, PieceFacts, EntriesSynced DEF EntriesInv
  <1>5. Synced' /\ (Present' <=> Present) /\ kept'["manifest"] = {here["manifest"]}
    BY <1>2, <1>3, PieceFacts DEF Synced, Present
  <1> QED
    BY <1>1, <1>2, <1>3, <1>4, <1>5 DEF Stage, RetireStage, SoftSlot

LEMMA CommitStage ==
    ASSUME MigrationInv, Commit
    PROVE  EntriesInv' /\ Stage'
  <1>1. EntriesInv /\ TypeOK /\ RetireStage
    BY StageOf DEF Commit, MigrationInv, TypeInv, PackStage
  <1>2. UNCHANGED <<here, pc, forked, exposed, durable>> /\ pc = "serving" /\ latest' = "pack"
    BY DEF Commit
  <1>3. /\ slot'.vol = Sealed("pack", FALSE) /\ slot'.disk = {Sealed("pack", FALSE)}
        /\ slot'.lost = IF durable THEN {} ELSE slot.lost
        /\ kept' = IF durable THEN [p \in Pieces |-> {here'[p]}] ELSE kept
    BY FlushedFacts DEF Commit
  <1>4. exposed \/ (~Present' /\ Synced')
    BY <1>1, <1>2, <1>3 DEF RetireStage, Synced, Present
  <1>5. EntriesInv'
    <2>1. \A p \in Pieces : here'[p] = here[p] /\ kept'[p] \in {kept[p], {here[p]}}
      BY <1>2, <1>3
    <2> QED
      BY <1>1, <2>1, PieceFacts DEF EntriesInv
  <1>6. Lasting(Sealed("pack", FALSE))'
    BY <1>1, <1>2, <1>3 DEF RetireStage, Lasting
  <1> QED
    BY <1>2, <1>4, <1>5, <1>6 DEF Stage, PackStage

\* Where only the phase, and perhaps the observer, changes.
LEMMA SamePlace ==
    ASSUME UNCHANGED <<here, kept, slot, latest, forked, durable>>
    PROVE  /\ (Present' <=> Present) /\ (SourceHolds' <=> SourceHolds) /\ (Synced' <=> Synced)
           /\ (SourceOpens' <=> SourceOpens) /\ (BareSlot' <=> BareSlot)
           /\ SoftSlot(Sealed(latest, TRUE))' <=> SoftSlot(Sealed(latest, TRUE))
           /\ SoftSlot(Sealed("v1", TRUE))' <=> SoftSlot(Sealed("v1", TRUE))
           /\ Lasting(Sealed("pack", FALSE))' <=> Lasting(Sealed("pack", FALSE))
  BY DEF Present, SourceHolds, Synced, SourceOpens, BareSlot, SoftSlot, Lasting

LEMMA CloseStage ==
    ASSUME MigrationInv, Close
    PROVE  EntriesInv' /\ Stage'
  <1>1. EntriesInv /\ (RetireStage \/ ForkStage \/ PackStage \/ LostStage)
    BY StageOf DEF Close, MigrationInv
  <1>2. /\ UNCHANGED <<here, kept, slot, latest, forked, exposed, durable>>
        /\ pc \in {"serving", "failed"} /\ pc' = "down"
    BY DEF Close
  <1>3. EntriesInv'
    BY <1>1, <1>2, EntriesKept
  <1>4. RetireStage => RetireStage'
    BY <1>2, SamePlace DEF RetireStage
  <1>5. ForkStage => ForkStage'
    BY <1>2, SamePlace DEF ForkStage
  <1>6. PackStage => PackStage'
    BY <1>2, SamePlace DEF PackStage
  <1>7. LostStage => LostStage'
    BY <1>2, SamePlace DEF LostStage
  <1> QED
    BY <1>1, <1>3, <1>4, <1>5, <1>6, <1>7 DEF Stage

LEMMA RestartStage ==
    ASSUME MigrationInv, Restart
    PROVE  EntriesInv' /\ Stage'
  <1>1. EntriesInv /\ Stage
    BY DEF MigrationInv
  <1>2. /\ UNCHANGED <<here, kept, slot, latest, forked, durable>> /\ pc' = "down"
        /\ pc \in Opening
        /\ exposed' = (exposed \/ pc = "sealed"
                         \/ (pc \in {"retire", "settle"} /\ ~Present /\ ~durable))
    BY MigrationAssumption DEF Restart
  <1>3. EntriesInv' /\ (exposed => exposed')
    BY <1>1, <1>2, EntriesKept
  <1>4. SourceStage => SourceStage'
    BY <1>2, SamePlace DEF SourceStage
  <1>5. SealStage => RetireStage'
    <2> SUFFICES ASSUME SealStage PROVE RetireStage'
      OBVIOUS
    <2>1. SourceHolds /\ Present
      BY SourceServes DEF SealStage
    <2>2. SourceHolds' /\ Present' /\ SoftSlot(Sealed(latest, TRUE))'
      BY <1>2, <2>1, SamePlace DEF SealStage
    <2>3. exposed' \/ slot'.disk = {slot'.vol}
      BY <1>2 DEF SealStage
    <2>4. /\ latest' \in Manifests /\ here'["manifest"] \in {latest', "tombstone"}
          /\ kept'["manifest"] \subseteq {latest', "tombstone"}
      BY <2>2 DEF SourceHolds
    <2> QED
      BY <1>2, <2>2, <2>3, <2>4 DEF RetireStage
  <1>6. RetireStage => RetireStage'
    <2> SUFFICES ASSUME RetireStage PROVE RetireStage'
      OBVIOUS
    <2>1. durable' \/ Synced' \/ exposed' \/ Present'
      BY <1>2, <1>3, SamePlace DEF RetireStage, Opening
    <2>2. slot'.lost = {} \/ SourceHolds'
      BY <1>2, SamePlace DEF RetireStage
    <2> QED
      BY <1>2, <1>3, <2>1, <2>2, SamePlace DEF RetireStage
  <1>7. ForkStage => ForkStage'
    BY <1>2, SamePlace DEF ForkStage
  <1>8. PackStage => PackStage'
    BY <1>2, <1>3, SamePlace DEF PackStage
  <1>9. LostStage => LostStage'
    BY <1>2, <1>3, SamePlace DEF LostStage
  <1> QED
    BY <1>1, <1>3, <1>4, <1>5, <1>6, <1>7, <1>8, <1>9 DEF Stage

LEMMA PowerLossStage ==
    ASSUME MigrationInv, PowerLoss
    PROVE  EntriesInv' /\ Stage'
  <1>1. EntriesInv /\ TypeOK /\ Stage
    BY DEF MigrationInv, TypeInv
  <1>2. /\ \A p \in Pieces : here'[p] \in kept[p] /\ kept'[p] = {here'[p]}
        /\ slot'.vol \in slot.disk \cup slot.lost /\ slot'.disk = {slot'.vol} /\ slot'.lost = {}
        /\ pc' = "down" /\ UNCHANGED <<latest, forked, exposed, durable>>
    BY <1>1, PowerFacts
  <1>3. EntriesInv'
    BY <1>1, <1>2, PieceFacts, EntriesSynced DEF EntriesInv
  <1>4. Synced'
    BY <1>2 DEF Synced
  <1>5. SourceHolds => SourceHolds'
    <2> SUFFICES ASSUME SourceHolds PROVE SourceHolds'
      OBVIOUS
    <2>1. /\ kept["objects"] = {here["objects"]} /\ kept["counter"] = {here["counter"]}
          /\ kept["manifest"] = {latest}
      BY <1>1, PieceFacts DEF SourceHolds, EntriesInv
    <2>2. /\ here'["objects"] = here["objects"] /\ here'["counter"] = here["counter"]
          /\ here'["manifest"] = latest
      BY <1>2, <2>1, PieceFacts
    <2>3. kept'["manifest"] = {latest}
      BY <1>2, <2>2, PieceFacts
    <2> QED
      BY <1>2, <2>2, <2>3 DEF SourceHolds
  <1>6. slot'.vol \in Bare => BareSlot'
    BY <1>2 DEF BareSlot
  <1>7. \A c : slot'.vol = c => SoftSlot(c)' /\ Lasting(c)'
    BY <1>2 DEF SoftSlot, Lasting
  <1>8. ASSUME slot'.vol \in Bare, SourceHolds' PROVE SourceStage'
    BY <1>2, <1>6, <1>8 DEF SourceStage
  <1>9. CASE SourceStage
    <2>1. slot'.vol \in Bare
      BY <1>2, <1>9 DEF SourceStage, BareSlot
    <2> QED
      BY <1>3, <1>5, <1>8, <1>9, <2>1 DEF SourceStage, Stage
  <1>10. CASE SealStage
    <2>1. slot'.vol \in Bare \/ slot'.vol = Sealed(latest, TRUE)
      BY <1>2, <1>10 DEF SealStage, SoftSlot
    <2>2. SourceHolds'
      BY <1>5, <1>10 DEF SealStage
    <2>3. CASE slot'.vol = Sealed(latest, TRUE)
      <3>1. SoftSlot(Sealed(latest, TRUE))'
        BY <1>2, <1>7, <2>3
      <3> QED
        BY <1>2, <1>3, <1>4, <2>2, <3>1 DEF Stage, RetireStage, SourceHolds
    <2> QED
      BY <1>3, <1>8, <2>1, <2>2, <2>3 DEF Stage
  <1>11. CASE RetireStage
    <2>1. /\ here'["manifest"] \in {latest, "tombstone"} /\ kept'["manifest"] = {here'["manifest"]}
          /\ latest \in Manifests
      BY <1>2, <1>11, PieceFacts DEF RetireStage
    <2>2. slot'.vol \in Bare \/ slot'.vol = Sealed(latest, TRUE)
      BY <1>2, <1>11 DEF RetireStage, SoftSlot
    <2>3. CASE slot'.vol = Sealed(latest, TRUE)
      <3>1. SoftSlot(Sealed(latest, TRUE))'
        BY <1>2, <1>7, <2>3
      <3> QED
        BY <1>2, <1>3, <1>4, <2>1, <3>1 DEF Stage, RetireStage
    <2>4. ASSUME slot'.vol \in Bare PROVE exposed \/ SourceHolds'
      <3>1. slot.vol \notin Bare
        BY <1>11, BareKinds DEF RetireStage, SoftSlot, Sealed
      <3> QED
        BY <1>2, <1>5, <1>11, <2>4, <3>1 DEF RetireStage
    <2>5. CASE slot'.vol \in Bare /\ ~SourceHolds'
      <3>1. exposed'
        BY <1>2, <2>4, <2>5
      <3>2. ~SourceOpens'
        BY <1>2, <2>1, <2>5 DEF SourceOpens, SourceHolds, Manifests
      <3> QED
        BY <1>2, <1>3, <1>4, <1>6, <2>1, <2>5, <3>1, <3>2 DEF Stage, LostStage
    <2> QED
      BY <1>3, <1>8, <2>2, <2>3, <2>5 DEF Stage
  <1>12. CASE ForkStage
    <2>1. slot'.vol \in Bare \/ slot'.vol = Sealed("v1", TRUE)
      BY <1>2, <1>12 DEF ForkStage, SoftSlot
    <2>2. SourceHolds'
      BY <1>5, <1>12 DEF ForkStage
    <2>3. CASE slot'.vol = Sealed("v1", TRUE)
      <3>1. SoftSlot(Sealed("v1", TRUE))'
        BY <1>7, <2>3
      <3> QED
        BY <1>2, <1>3, <1>12, <2>2, <3>1 DEF Stage, ForkStage
    <2> QED
      BY <1>3, <1>8, <2>1, <2>2, <2>3 DEF Stage
  <1>13. CASE PackStage
    <2>1. slot'.vol = Sealed("pack", FALSE)
      BY <1>2, <1>13 DEF PackStage, Lasting
    <2>2. Lasting(Sealed("pack", FALSE))'
      BY <1>7, <2>1
    <2>3. kept["manifest"] = {"v2"} => here'["manifest"] = "v2" /\ kept'["manifest"] = {"v2"}
      BY <1>2, PieceFacts
    <2>4. Synced => (\A p \in Pieces : here'[p] = here[p])
      BY <1>2 DEF Synced
    <2>5. exposed' \/ ~Present'
      BY <1>2, <1>13, <2>4, SameEntries DEF PackStage
    <2> QED
      BY <1>2, <1>3, <1>4, <1>13, <2>2, <2>3, <2>5 DEF Stage, PackStage
  <1>14. CASE LostStage
    <2>1. \A p \in Pieces : here'[p] = here[p]
      BY <1>2, <1>14 DEF LostStage, Synced
    <2>2. ~(Present' /\ SourceOpens') /\ here'["manifest"] = here["manifest"]
      BY <1>14, <2>1, SameEntries, PieceFacts DEF LostStage
    <2>3. slot'.vol \in Bare
      BY <1>2, <1>14 DEF LostStage, BareSlot
    <2> QED
      BY <1>2, <1>3, <1>4, <1>6, <1>14, <2>2, <2>3 DEF Stage, LostStage
  <1> QED
    BY <1>1, <1>9, <1>10, <1>11, <1>12, <1>13, <1>14 DEF Stage

LEMMA OldBinaryStage ==
    ASSUME MigrationInv, OldBinary
    PROVE  EntriesInv' /\ Stage'
  <1>1. EntriesInv /\ TypeOK /\ Stage /\ ~SealStage
    BY StageOf DEF MigrationInv, TypeInv, OldBinary
  <1>2. /\ here["manifest"] = "v1" /\ SourceOpens
        /\ latest' = "v2" /\ pc = "down" /\ UNCHANGED <<slot, pc, exposed, durable>>
        /\ forked' = (forked \/ \E c \in {slot.vol} \cup slot.disk \cup slot.lost : c.kind = "sealed")
    BY DEF OldBinary
  <1>3. /\ \A p \in Movables : here'[p] = here[p] /\ kept'[p] = kept[p]
        /\ here'["manifest"] = "v2" /\ kept'["manifest"] = {"v2"}
    BY <1>1, PieceFacts DEF OldBinary, TypeOK
  <1>4. EntriesInv'
    BY <1>1, <1>3 DEF EntriesInv
  <1>5. here["objects"] # "gone" /\ here["counter"] # "gone" /\ Present
    BY <1>2 DEF SourceOpens, Present, Manifests
  <1>6. SourceHolds'
    BY <1>2, <1>3, <1>5, PieceFacts DEF SourceHolds, Manifests
  <1>7. CASE SourceStage
    BY <1>2, <1>4, <1>6, <1>7 DEF Stage, SourceStage, BareSlot
  <1>8. CASE RetireStage
    <2>1. latest = "v1"
      BY <1>2, <1>8 DEF RetireStage
    <2>2. slot.vol.kind = "sealed" /\ SoftSlot(Sealed("v1", TRUE))
      BY <1>8, <2>1 DEF RetireStage, SoftSlot, Sealed
    <2>3. forked' = TRUE
      BY <1>2, <2>2
    <2> QED
      BY <1>2, <1>4, <1>6, <2>2, <2>3 DEF Stage, ForkStage, SoftSlot
  <1>9. CASE PackStage
    <2>1. exposed
      BY <1>5, <1>9 DEF PackStage
    <2> QED
      BY <1>2, <1>3, <1>4, <1>9, <2>1 DEF Stage, PackStage, Lasting
  <1>10. ~ForkStage /\ ~LostStage
    BY <1>2, <1>5 DEF ForkStage, LostStage, SourceHolds
  <1> QED
    BY <1>1, <1>7, <1>8, <1>9, <1>10 DEF Stage

-----------------------------------------------------------------------------
(***************************************************************************)
(* The theorems.                                                           *)
(***************************************************************************)

LEMMA MigrationStep ==
    ASSUME MigrationInv, [Next]_vars
    PROVE  MigrationInv'
  <1>1. TypeInv'
    BY TypeStep DEF MigrationInv
  <1>2. CASE Step
    BY <1>1, <1>2, OpenSealedStage, OpenFreshStage, OpenStillbornStage, UnsealedStage,
       MigrateSealStage, MigrateFlushStage, MigrateSyncStage, ResumeStage, RetirePieceStage,
       RetireManifestStage, RetireSyncStage DEF Step, MigrationInv
  <1>3. CASE Commit \/ Close \/ Restart \/ PowerLoss \/ OldBinary
    BY <1>1, <1>3, CommitStage, CloseStage, RestartStage, PowerLossStage, OldBinaryStage
       DEF MigrationInv
  <1>4. CASE UNCHANGED vars
    <2>1. UNCHANGED <<here, kept, slot, latest, forked, durable>> /\ pc' = pc /\ exposed' = exposed
      BY <1>4 DEF vars
    <2>2. EntriesInv' /\ Stage
      BY <2>1, EntriesKept DEF MigrationInv
    <2>3. Stage'
      BY <2>1, <2>2, SamePlace
         DEF Stage, SourceStage, SealStage, RetireStage, ForkStage, PackStage, LostStage
    <2> QED
      BY <1>1, <2>2, <2>3 DEF MigrationInv
  <1> QED
    BY <1>2, <1>3, <1>4 DEF Next

LEMMA InitTypes == Init => TypeInv
  <1> SUFFICES ASSUME Init PROVE TypeInv
    OBVIOUS
  <1>1. here \in [Pieces -> Entries] /\ kept \in [Pieces -> SUBSET Entries]
    BY DEF Init, Pieces, Entries, Manifests
  <1>2. None \in Contents
    BY BareContents DEF Bare
  <1>3. slot \in [vol : Contents, disk : SUBSET Contents, lost : SUBSET Contents]
    BY <1>2 DEF Init
  <1>4. pc = "down" /\ pc \in Phases /\ crashes \in 0 .. MaxCrashes
    BY MigrationAssumption DEF Init, Phases
  <1>5. /\ latest \in {"none", "pack"} \cup Manifests /\ forked \in BOOLEAN /\ exposed \in BOOLEAN
        /\ durable \in Durability
    BY DEF Init, Manifests
  <1> QED
    BY <1>1, <1>3, <1>4, <1>5 DEF TypeInv, TypeOK

LEMMA InitStage ==
    ASSUME Init, Committed
    PROVE  MigrationInv
  <1>1. /\ \A p \in Movables : here[p] = "present" /\ kept[p] = {"present"}
        /\ here["manifest"] = "v1" /\ kept["manifest"] = {"v1"}
    BY DEF Init, Pieces, Movables
  <1>2. EntriesInv
    BY <1>1 DEF EntriesInv
  <1>3. slot.vol \in Bare /\ BareSlot
    BY DEF Init, Bare, BareSlot
  <1>4. SourceStage
    BY <1>1, <1>3, PieceFacts DEF Init, SourceStage, SourceHolds, Manifests
  <1> QED
    BY <1>2, <1>4, InitTypes DEF MigrationInv, Stage

\* The root's entries, the pack's slot and the phases stay in their types: in particular a
\* history is sealed only if the source's manifest is one.
THEOREM MigrationTyped == Spec => []TypeOK
<1>1. TypeInv => TypeOK
  BY DEF TypeInv
<1> QED
  BY <1>1, InitTypes, TypeStep, PTL DEF Spec

\* A store that ever committed is always in one of the six stages, whatever interrupts
\* it and however often.
THEOREM AlwaysInAStage ==
    ASSUME Committed
    PROVE  Spec => []MigrationInv
<1>1. Init => MigrationInv
  BY InitStage
<1>2. MigrationInv /\ [Next]_vars => MigrationInv'
  BY MigrationStep
<1> QED
  BY <1>1, <1>2, PTL DEF Spec

\* open_native hands out the newest history there is, after any number of interruptions
\* at any step of the migration.
THEOREM LatestIsServed ==
    ASSUME Committed
    PROVE  Spec => []ServesLatest
<1>1. ASSUME MigrationInv PROVE ServesLatest
  <2> SUFFICES ASSUME pc = "serving"
               PROVE  latest # "none" /\ slot.vol.kind = "sealed" /\ slot.vol.carries = latest
    BY DEF ServesLatest
  <2>1. CASE RetireStage
    BY <2>1 DEF RetireStage, SoftSlot, Sealed, Manifests
  <2>2. CASE PackStage
    BY <2>2 DEF PackStage, Lasting, Sealed
  <2> QED
    BY <1>1, <2>1, <2>2, StageOf
<1> QED
  BY <1>1, AlwaysInAStage, PTL

\* An open refuses the store only over a source an old binary went on with, or after an
\* open that left the seal unflushed, the last names unsynced or a half-moved piece in
\* place: whatever else interrupts the migration, and however often, does not.
THEOREM NothingElseRefused ==
    ASSUME Committed
    PROVE  Spec => []OnlyForksFail
<1>1. ASSUME MigrationInv PROVE OnlyForksFail
  BY <1>1, StageOf DEF OnlyForksFail, ForkStage, PackStage, LostStage
<1> QED
  BY <1>1, AlwaysInAStage, PTL

\* resume_retirement and retire never move a source aside that went on behind the seal.
THEOREM ForksAreKept ==
    ASSUME Committed
    PROVE  Spec => ForkKept
<1> DEFINE Kept == here["manifest"] = "v2" /\ slot.vol = Sealed("v1", TRUE) =>
                     \A p \in {"objects", "counter", "manifest"} : here'[p] = here[p]
<1>1. ASSUME MigrationInv, [Next]_vars PROVE Kept
  <2> SUFFICES ASSUME here["manifest"] = "v2", slot.vol = Sealed("v1", TRUE)
               PROVE  \A p \in {"objects", "counter", "manifest"} : here'[p] = here[p]
    OBVIOUS
  <2>1. slot.vol.kind = "sealed" /\ slot.vol.carries = "v1"
    BY DEF Sealed
  <2>2. ForkStage
    <3>1. \A h \in Manifests \cup {"pack"}, b \in BOOLEAN : slot.vol = Sealed(h, b) => h = "v1"
      BY <2>1 DEF Sealed
    <3>2. SealStage \/ RetireStage \/ ForkStage \/ PackStage
      BY <1>1, <2>1, StageOf
    <3>3. ~SealStage /\ ~RetireStage
      BY <3>1 DEF SealStage, RetireStage, SoftSlot, SourceHolds
    <3>4. ~PackStage
      BY <3>1 DEF PackStage, Lasting
    <3> QED
      BY <3>2, <3>3, <3>4
  <2>3. CASE PowerLoss
    <3>1. TypeOK /\ EntriesInv
      BY <1>1 DEF MigrationInv, TypeInv
    <3>2. /\ kept["objects"] = {here["objects"]} /\ kept["counter"] = {here["counter"]}
          /\ kept["manifest"] = {"v2"}
      BY <2>2, <3>1, PieceFacts DEF ForkStage, SourceHolds, EntriesInv
    <3>3. \A p \in Pieces : here'[p] \in kept[p]
      BY <2>3, <3>1, PowerFacts
    <3> QED
      BY <3>2, <3>3, PieceFacts
  <2>4. pc \in {"down", "resume", "failed"} /\ slot.vol.kind # "torn" /\ here["manifest"] # "v1"
    BY <2>1, <2>2 DEF ForkStage
  <2>5. CASE UNCHANGED here
    BY <2>5
  <2>6. \/ PowerLoss \/ UNCHANGED here
    BY <1>1, <2>4 DEF Next, Step, OpenSealed, OpenFresh, OpenStillborn, Unsealed, MigrateSeal,
       MigrateFlush, MigrateSync, Resume, RetirePiece, RetireManifest, RetireSync, Commit, Close,
       Restart, OldBinary, vars
  <2> QED
    BY <2>3, <2>5, <2>6
<1>2. MigrationInv /\ [Next]_vars => [Kept]_vars
  BY <1>1
<1> QED
  BY <1>2, AlwaysInAStage, PTL DEF Spec, ForkKept

=============================================================================
