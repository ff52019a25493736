------------------------------ MODULE PackRecords ----------------------------
(***************************************************************************)
(* The pack log's records and what opening a slot concludes from them      *)
(* (crates/journal/src/pack.rs): the newest seal whose chain, delta and,   *)
(* for a birth seal, whole checkpoint verify.                              *)
(*                                                                         *)
(* A hash is a number: the pack orders its table by hash.  A record check  *)
(* is keyed by the salt in the slot's header, so a record of another life  *)
(* of the file is one whose `salt` is not the header's.                    *)
(***************************************************************************)
EXTENDS Naturals, FiniteSetsExt

CONSTANTS
    Objects,      \* content hashes
    Salts,        \* the salts a slot header can carry
    MaxSeq,       \* bound: commit sequences
    MaxGen,       \* bound: pack generations
    MaxLen        \* bound: records in one slot

ASSUME RecordsAssumption ==
    /\ Objects \subseteq Nat
    /\ IsFiniteSet(Objects)
    /\ Salts \subseteq Nat
    /\ MaxSeq \in Nat /\ MaxGen \in Nat /\ MaxLen \in Nat

\* Where the table says an object's bytes are.
Tables == UNION {[hashes -> 1 .. MaxLen] : hashes \in SUBSET Objects}

NoTable == [h \in {} |-> 0]

\* What a seal commits: its manifest stands for the objects the manifest needs.
Manifests == SUBSET Objects

\* The keyed hash of a seal: what a successor's link must find at its offset.
Checks == [seq : Nat, manifest : Manifests, added : Tables, full : BOOLEAN]

NoLink == [at    |-> 0,
           check |-> [seq |-> 0, manifest |-> {}, added |-> NoTable, full |-> FALSE]]

Links == [at : 0 .. MaxLen, check : Checks]

Void == [kind |-> "void"]

HeaderRecords == [kind : {"header"}, salt : Nat]

ObjectPayloads == [kind : {"object"}, hash : Objects]

SealRecords ==
    [kind : {"seal"}, salt : Nat, seq : Nat, gen : 0 .. MaxGen, prev : Links,
     added : Tables, full : BOOLEAN, base : Tables, prov : BOOLEAN,
     manifest : Manifests]

Block == {Void} \cup HeaderRecords \cup ObjectPayloads \cup SealRecords

Header(salt) == [kind |-> "header", salt |-> salt]

\* No reader ever verifies an object record's check: reads and recovery re-hash
\* the payload, which no salt touches.
ObjectRecord(h) == [kind |-> "object", hash |-> h]

SealCheck(r) ==
    [seq |-> r.seq, manifest |-> r.manifest, added |-> r.added, full |-> r.full]

\* Table::insert of every entry of `newer` over `older`.
Merge(newer, older) ==
    [h \in DOMAIN newer \cup DOMAIN older |->
        IF h \in DOMAIN newer THEN newer[h] ELSE older[h]]

-----------------------------------------------------------------------------
(***************************************************************************)
(* Reading a slot whose blocks are b.                                      *)
(***************************************************************************)

\* recover_slot's header test followed by read_record and read_seal.
IsSeal(b, i) ==
    /\ b[0].kind = "header"
    /\ i \in 1 .. MaxLen
    /\ b[i].kind = "seal"
    /\ b[i].salt = b[0].salt

\* delta_holds: every named range re-hashes to its address.
DeltaHolds(b, t) ==
    \A h \in DOMAIN t : b[t[h]].kind = "object" /\ b[t[h]].hash = h

Seals(b) == {i \in 1 .. MaxLen : IsSeal(b, i)}

\* The offsets reached from `start` by following `prev` links to readable seals,
\* not leaving the seals of `ends`.
Reach(b, start, ends) ==
    {i \in Seals(b) : \A walk \in SUBSET Seals(b) :
        /\ start \in walk
        /\ \A j \in walk \ ends : b[j].prev.at \in Seals(b) => b[j].prev.at \in walk
        => i \in walk}

\* verify_chain walks from a seal back to its checkpoint, or to genesis.
Chain(b, i) == Reach(b, i, {j \in Seals(b) : b[j].full})

\* Its test of one link: the predecessor reads, has the named check, is older.
LinkHolds(b, i) ==
    LET p == b[i].prev.at IN
    IsSeal(b, p) /\ SealCheck(b[p]) = b[i].prev.check /\ b[p].seq < b[i].seq

ChainHolds(b, i) ==
    \A j \in Chain(b, i) : b[j].full \/ b[j].prev.at = 0 \/ LinkHolds(b, j)

\* The table the chain describes: later seals over earlier ones.
EntriesDelta(r) == r.added   \* mutant: a checkpoint's base is forgotten

Entries(r) == IF r.full THEN Merge(r.added, r.base) ELSE r.added

ChainTable(b, i) ==
    LET Names(h) == {j \in Chain(b, i) : h \in DOMAIN Entries(b[j])} IN
    [h \in {h \in Objects : Names(h) # {}} |-> Entries(b[Max(Names(h))])[h]]

\* Mutant: the checkpoint counts too.
SinceCheckpointInclusive(b, i) == Cardinality(Chain(b, i))

\* Seals since the last checkpoint: the checkpoint itself counts as none.
SinceCheckpoint(b, i) == Cardinality({j \in Chain(b, i) : ~b[j].full})

\* birth_holds: a seal with no predecessor has its whole checkpoint re-hashed.
BirthHolds(b, i) ==
    b[i].prev.at # 0 \/ ~b[i].full \/ DeltaHolds(b, b[i].base)

\* Mutant: a structurally valid seal is taken for a valid commit.
VerifiesStructure(b, i) == ChainHolds(b, i)

\* The acceptance test of recover_state.
Verifies(b, i) ==
    ChainHolds(b, i) /\ DeltaHolds(b, b[i].added) /\ BirthHolds(b, i)

\* recover_state: newest_seal finds the last readable seal; from there the search
\* steps to the predecessor for as long as that one reads.
Candidates(b) ==
    IF Seals(b) = {} THEN {} ELSE Reach(b, Max(Seals(b)), {})

Verified(b) == {i \in Candidates(b) : Verifies(b, i)}

\* The first candidate to verify; 0 means no commit survives.
Elected(b) == IF Verified(b) = {} THEN 0 ELSE Max(Verified(b))

\* recover_state's second answer, where no seal verifies: some candidate was a
\* checkpoint-bearing chain root that failed its re-hash.
TornBirth(b) ==
    \E i \in Candidates(b) : ChainHolds(b, i) /\ b[i].prev.at = 0 /\ b[i].full

=============================================================================
