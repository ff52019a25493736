----------------------------- MODULE Migration ------------------------------
(***************************************************************************)
(* Carrying a store of the retired file-per-object layout into the pack    *)
(* (crates/journal/src/lib.rs: open_native, migrate_retired,               *)
(* resume_retirement; crates/journal/src/retired.rs).  The source stays    *)
(* authoritative until a sealed pack exists; after that it is moved aside  *)
(* piece by piece and a tombstone takes its manifest's place.  Every step  *)
(* can be interrupted, and every open resumes.                             *)
(*                                                                         *)
(* The pack is seen from here as one slot: `vol` is what an open would     *)
(* find, `disk` what a power loss may leave of the file, `lost` what it    *)
(* may leave in its place while the directory entry is not synced.  The    *)
(* entries of the store root are read the same way: `here` now, `kept`     *)
(* after a power loss.                                                     *)
(***************************************************************************)
EXTENDS Naturals

CONSTANTS
    Committed,       \* did the prior layout ever commit?
    DiesIn,          \* the phases in which the process may die and the machine stay up
    Durability,      \* does syncing a file also persist earlier changes of names?
    MaxCrashes       \* bound: interruptions in one behaviour

\* What an open is about to do.
Opening == {"found", "migrate", "sealed", "flushed", "resume", "retire", "settle"}

Phases == {"down", "serving", "failed"} \cup Opening

ASSUME MigrationAssumption ==
    /\ Committed \in BOOLEAN
    /\ DiesIn \subseteq Opening
    /\ Durability \subseteq BOOLEAN
    /\ MaxCrashes \in Nat

\* What the pieces of the old layout are moved as, in retire's order.
Order == <<"objects", "journal", "counter">>

Pieces == {"objects", "journal", "counter", "manifest"}

\* A piece is present, gone, or half moved: in place and under retired/ too.  The
\* manifest's place holds the history v1, the history v2 an old binary wrote on
\* top of it, the tombstone, or nothing.
Manifests == {"v1", "v2"}

Entries == {"present", "gone", "half", "tombstone"} \cup Manifests

\* What the newest state of the pack carries, and whether that seal records its
\* provenance.
Contents ==
    [kind : {"none", "empty", "torn"}]
        \cup [kind : {"sealed"}, carries : Manifests \cup {"pack"}, prov : BOOLEAN]

None     == [kind |-> "none"]
Empty    == [kind |-> "empty"]
Torn     == [kind |-> "torn"]
Sealed(history, prov) == [kind |-> "sealed", carries |-> history, prov |-> prov]

VARIABLES
    here,     \* the root's entries as the running machine sees them
    kept,     \* what each may be after a power loss
    slot,     \* [vol, disk, lost]
    pc,
    crashes,
    latest,   \* observer: the newest history any caller was shown or promised
    forked,   \* observer: an old binary wrote to a source already sealed
    exposed,  \* observer: an open ended leaving undone what the next takes for done
    durable   \* the file system's answer to Durability

vars == <<here, kept, slot, pc, crashes, latest, forked, exposed, durable>>

TypeOK ==
    /\ here \in [Pieces -> Entries]
    /\ kept \in [Pieces -> SUBSET Entries]
    /\ slot \in [vol : Contents, disk : SUBSET Contents, lost : SUBSET Contents]
    /\ pc \in Phases
    /\ crashes \in 0 .. MaxCrashes
    /\ latest \in {"none", "pack"} \cup Manifests
    /\ forked \in BOOLEAN
    /\ exposed \in BOOLEAN
    /\ durable \in Durability

-----------------------------------------------------------------------------

\* present.  An empty journal directory is no presence: `journal` stands for
\* the intent file in it, which Source::open drains.
Present ==
    \/ \E p \in {"objects", "journal", "counter"} : here[p] # "gone"
    \/ here["manifest"] \in Manifests

\* tombstoned.
Tombstoned == here["manifest"] = "tombstone"

\* Source::open validates: a manifest needs its objects and its counter.
SourceOpens ==
    \/ here["manifest"] = "gone"
    \/ /\ here["manifest"] \in Manifests
       /\ here["objects"] # "gone" /\ here["counter"] # "gone"

\* drain_journal removes the intent file and syncs its directory; that sync may
\* fail unnoticed.
Drained == [here EXCEPT !["journal"] = "gone"]

DrainedNames == [kept EXCEPT !["journal"] = @ \cup {"gone"}]

\* sync_dir(root).
SyncDir ==
    /\ kept' = [p \in Pieces |-> {here[p]}]
    /\ slot' = [slot EXCEPT !.lost = {}]

\* SlotWriter::flush of the slot, which then holds c; `names` is what a power
\* loss could leave of the entries before it.
Flushed(c, lost, names) ==
    /\ slot' = [vol |-> c, disk |-> {c}, lost |-> IF durable THEN {} ELSE lost]
    /\ kept' = IF durable THEN [p \in Pieces |-> {here'[p]}] ELSE names

\* PackStore::open over no verifiable state: a new slot under the same name.
Founded(names) == Flushed(Empty, slot.lost \cup slot.disk, names)

\* Mutant: a sealed pack is served without finishing the retirement.
OpenSealedAtOnce ==
    /\ pc = "down"
    /\ slot.vol.kind = "sealed"
    /\ pc' = "serving"
    /\ UNCHANGED <<here, kept, slot, crashes, latest, forked, exposed, durable>>

\* open_native, PackStore::open: three outcomes.
OpenSealed ==
    /\ pc = "down"
    /\ slot.vol.kind = "sealed"
    /\ pc' = IF Present THEN "resume" ELSE "serving"
    /\ UNCHANGED <<here, kept, slot, crashes, latest, forked, exposed, durable>>

OpenFresh ==
    /\ pc = "down"
    /\ slot.vol.kind \in {"none", "empty"}
    /\ UNCHANGED here
    /\ Founded(kept)
    /\ pc' = "found"
    /\ UNCHANGED <<crashes, latest, forked, exposed, durable>>

\* A torn pack beside an authoritative source is a stillborn migration.
OpenStillborn ==
    /\ pc = "down"
    /\ slot.vol.kind = "torn"
    /\ IF Present /\ ~Tombstoned /\ SourceOpens
       THEN here' = Drained /\ Founded(DrainedNames) /\ pc' = "found"
       ELSE pc' = "failed" /\ UNCHANGED <<here, kept, slot>>
    /\ UNCHANGED <<crashes, latest, forked, exposed, durable>>

\* open_native with no manifest in the pack; migrate_retired up to the commit.
Unsealed ==
    /\ pc = "found"
    /\ IF Tombstoned \/ (Present /\ ~SourceOpens)
       THEN pc' = "failed" /\ UNCHANGED <<here, kept>>
       ELSE IF Present
       THEN /\ here' = Drained /\ kept' = DrainedNames
            /\ pc' = IF here["manifest"] = "gone" THEN "retire" ELSE "migrate"
       ELSE pc' = "serving" /\ UNCHANGED <<here, kept>>
    /\ UNCHANGED <<slot, crashes, latest, forked, exposed, durable>>

\* Mutants: migration is not guarded; its seal records no provenance.
MigrateSealAlways ==
    /\ LET sealed == Sealed(here["manifest"], TRUE) IN
       slot' = [slot EXCEPT !.vol = sealed, !.disk = @ \cup {Torn, sealed}]
    /\ pc' = "sealed"
    /\ UNCHANGED <<here, kept, crashes, latest, forked, exposed, durable>>

MigrateSealAnonymous ==
    /\ pc = "migrate"
    /\ LET sealed == Sealed(here["manifest"], FALSE) IN
       slot' = [slot EXCEPT !.vol = sealed, !.disk = @ \cup {Torn, sealed}]
    /\ pc' = "sealed"
    /\ UNCHANGED <<here, kept, crashes, latest, forked, exposed, durable>>

\* migrate_commit: stream the objects and append the one migration seal.
MigrateSeal ==
    /\ pc = "migrate"
    /\ LET sealed == Sealed(here["manifest"], TRUE) IN
       slot' = [slot EXCEPT !.vol = sealed, !.disk = @ \cup {Torn, sealed}]
    /\ pc' = "sealed"
    /\ UNCHANGED <<here, kept, crashes, latest, forked, exposed, durable>>

MigrateFlush ==
    /\ pc = "sealed"
    /\ UNCHANGED here
    /\ Flushed(slot.vol, slot.lost, kept)
    /\ pc' = "flushed"
    /\ UNCHANGED <<crashes, latest, forked, exposed, durable>>

\* Mutant: the directory is not synced before the source moves.
MigrateSyncOmitted ==
    /\ pc = "flushed"
    /\ pc' = "retire"
    /\ UNCHANGED <<here, kept, slot, crashes, latest, forked, exposed, durable>>

\* migrate_retired: the slot's existence is made durable before the source moves.
MigrateSync ==
    /\ pc = "flushed"
    /\ SyncDir
    /\ pc' = "retire"
    /\ UNCHANGED <<here, crashes, latest, forked, exposed, durable>>

\* Mutant: the source is not compared with the seal's provenance.
ResumeUnchecked ==
    /\ pc = "resume"
    /\ SyncDir
    /\ pc' = "retire"
    /\ UNCHANGED <<here, crashes, latest, forked, exposed, durable>>

\* resume_retirement.
Resume ==
    /\ pc = "resume"
    /\ IF slot.vol.prov
       THEN /\ SyncDir
            /\ pc' = IF here["manifest"] \in Manifests \ {slot.vol.carries}
                     THEN "failed" ELSE "retire"
       ELSE pc' = "failed" /\ UNCHANGED <<kept, slot>>
    /\ UNCHANGED <<here, crashes, latest, forked, exposed, durable>>

\* retire: move each piece that is still here, in order; one already under retired/
\* is removed, and removing it may fail unnoticed.  A rename changes two
\* directories, which without a sync may reach the disk apart.
RetirePiece(i) ==
    /\ pc = "retire"
    /\ here[Order[i]] # "gone"
    /\ \A j \in 1 .. i - 1 : here[Order[j]] # "present"
    /\ here' = [here EXCEPT ![Order[i]] = "gone"]
    /\ kept' = [kept EXCEPT ![Order[i]] = @ \cup {"gone"} \cup (IF durable THEN {} ELSE {"half"})]
    /\ UNCHANGED <<slot, pc, crashes, latest, forked, exposed, durable>>

\* retire: the tombstone takes the manifest's place by an atomic rename.
RetireManifest ==
    /\ pc = "retire"
    /\ \A i \in 1 .. 3 : here[Order[i]] # "present"
    /\ here' = [here EXCEPT !["manifest"] = "tombstone"]
    /\ kept' = [kept EXCEPT !["manifest"] = @ \cup {"tombstone"}]
    /\ exposed' = (exposed \/ \E i \in 1 .. 3 : here[Order[i]] = "half")
    /\ pc' = "settle"
    /\ UNCHANGED <<slot, crashes, latest, forked, durable>>

\* retire's last sync; the store is handed out.
RetireSync ==
    /\ pc = "settle"
    /\ SyncDir
    /\ pc' = "serving"
    /\ UNCHANGED <<here, crashes, latest, forked, exposed, durable>>

\* Mutant: the commit is acknowledged before its flush.
CommitUnflushed ==
    /\ pc = "serving"
    /\ latest # "pack"
    /\ slot' = [slot EXCEPT !.vol = Sealed("pack", FALSE), !.disk = @ \cup {Sealed("pack", FALSE)}]
    /\ latest' = "pack"
    /\ UNCHANGED <<here, kept, pc, crashes, forked, exposed, durable>>

\* Store::commit, whose own durability is PackLog's subject.  An ordinary seal
\* records no provenance.
Commit ==
    /\ pc = "serving"
    /\ latest # "pack"
    /\ UNCHANGED here
    /\ Flushed(Sealed("pack", FALSE), slot.lost, kept)
    /\ latest' = "pack"
    /\ UNCHANGED <<pc, crashes, forked, exposed, durable>>

-----------------------------------------------------------------------------
(***************************************************************************)
(* The environment.                                                        *)
(***************************************************************************)

Close ==
    /\ pc \in {"serving", "failed"}
    /\ crashes < MaxCrashes
    /\ pc' = "down"
    /\ crashes' = crashes + 1
    /\ UNCHANGED <<here, kept, slot, latest, forked, exposed, durable>>

\* The process dies, or one of the calls fails and open answers Err.  An unflushed
\* seal, or names no directory sync has reached, are then found by the next open,
\* which asks only what is there.
Restart ==
    /\ pc \in DiesIn
    /\ crashes < MaxCrashes
    /\ exposed' = (exposed \/ pc = "sealed"
                      \/ (pc \in {"retire", "settle"} /\ ~Present /\ ~durable))
    /\ pc' = "down"
    /\ crashes' = crashes + 1
    /\ UNCHANGED <<here, kept, slot, latest, forked, durable>>

PowerLoss ==
    /\ crashes < MaxCrashes
    /\ \E h \in [Pieces -> Entries] :
        /\ \A p \in Pieces : h[p] \in kept[p]
        /\ here' = h
        /\ kept' = [p \in Pieces |-> {h[p]}]
    /\ \E c \in slot.disk \cup slot.lost :
        slot' = [vol |-> c, disk |-> {c}, lost |-> {}]
    /\ pc' = "down"
    /\ crashes' = crashes + 1
    /\ UNCHANGED <<latest, forked, exposed, durable>>

\* A binary that knows only the prior layout opens the root and commits to it,
\* which it can while the source is whole; a tombstone refuses it.
OldBinary ==
    /\ pc = "down"
    /\ here["manifest"] = "v1" /\ SourceOpens
    /\ here' = [here EXCEPT !["manifest"] = "v2"]
    /\ kept' = [kept EXCEPT !["manifest"] = {"v2"}]
    /\ forked' = (forked \/ \E c \in {slot.vol} \cup slot.disk \cup slot.lost : c.kind = "sealed")
    /\ latest' = "v2"
    /\ UNCHANGED <<slot, pc, crashes, exposed, durable>>

-----------------------------------------------------------------------------

Init ==
    /\ here = [p \in Pieces |->
                  IF p # "manifest" THEN "present" ELSE IF Committed THEN "v1" ELSE "gone"]
    /\ kept = [p \in Pieces |-> {here[p]}]
    /\ slot = [vol |-> None, disk |-> {None}, lost |-> {}]
    /\ pc = "down"
    /\ crashes = 0
    /\ latest = IF Committed THEN "v1" ELSE "none"
    /\ forked = FALSE /\ exposed = FALSE
    /\ durable \in Durability

Step ==
    \/ OpenSealed \/ OpenFresh \/ OpenStillborn \/ Unsealed
    \/ MigrateSeal \/ MigrateFlush \/ MigrateSync \/ Resume
    \/ (\E i \in 1 .. 3 : RetirePiece(i)) \/ RetireManifest \/ RetireSync

Next == Step \/ Commit \/ Close \/ Restart \/ PowerLoss \/ OldBinary

\* An open, once called, runs to its end unless it is interrupted, and whoever
\* needs the store calls it again.
Spec == Init /\ [][Next]_vars /\ WF_vars(Step)

-----------------------------------------------------------------------------
(***************************************************************************)
(* Properties.                                                             *)
(***************************************************************************)

\* A store that is handed out carries the newest history there is, whatever was
\* interrupted on the way: nothing is served from a stale or a half-made pack.
ServesLatest ==
    pc = "serving" /\ ~forked =>
        IF latest = "none" THEN slot.vol = Empty
        ELSE slot.vol.kind = "sealed" /\ slot.vol.carries = latest

\* An open fail-stops only over a real divergence, an old binary having written
\* to a source the pack had already sealed, or after an open that ended where the
\* next takes for done what is not: the seal unflushed, the last piece or the
\* tombstone moved and no directory synced, a half-moved piece still in place.
\* No other interruption, in any number, makes a store refuse to open.
OnlyForksFail == pc = "failed" => forked \/ exposed

\* migrate_retired says of its steps after the seal that each is resumable cleanup,
\* and resume_retirement that a resumed retirement is as durable as a first one:
\* then nothing but a divergence makes an open refuse.
OnlyForksRefused == pc = "failed" => forked

\* resume_retirement: a source whose manifest no longer matches the seal's
\* provenance is never silently moved aside.
ForkKept ==
    [][here["manifest"] = "v2" /\ slot.vol = Sealed("v1", TRUE) =>
          \A p \in {"objects", "counter", "manifest"} : here'[p] = here[p]]_vars

\* Retirement is resumed at every open until, unless an open refuses, the tombstone
\* stands and nothing of the source is left in place that is not under retired/.
Retired ==
    <>[](pc = "failed" \/ (Tombstoned /\ \A p \in Pieces : here[p] # "present"))

=============================================================================
