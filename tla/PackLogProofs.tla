---------------------------- MODULE PackLogProofs ----------------------------
(***************************************************************************)
(* Proofs about PackLog, for every number of blocks, generations, objects, *)
(* salts and readers.  The inductive invariant Inv adds to TypeOK that     *)
(* every slot is good (its clean blocks are on the disk, its seals name    *)
(* its generation), that the writer stands where its phase says, and that  *)
(* a held view is of a generation that is still there.  Each action of     *)
(* Next has a lemma; the theorems follow at the end.                       *)
(***************************************************************************)
EXTENDS PackLog, FiniteSetTheorems, WellFoundedInduction, TLAPS

\* Recovery's choice of the last candidate is well defined: a nonempty set of offsets
\* has a maximum, and it is one of them.
LEMMA MaxOffset ==
    ASSUME NEW S \in SUBSET (0 .. MaxLen), S # {}
    PROVE  Max(S) \in S /\ \A y \in S : Max(S) >= y
<1> DEFINE T == {n \in 0 .. MaxLen : MaxLen - n \in S}
<1>0. MaxLen \in Nat
  BY RecordsAssumption
<1>1. T \subseteq Nat
  BY <1>0
<1>2. T # {}
  <2>1. PICK x \in S : TRUE
    OBVIOUS
  <2>2. x \in 0 .. MaxLen /\ MaxLen - x \in 0 .. MaxLen /\ MaxLen - (MaxLen - x) = x
    BY <1>0
  <2> QED
    BY <2>2
<1>3. PICK t \in T : \A u \in T : ~(<<u, t>> \in OpToRel(<, Nat))
  BY <1>1, <1>2, NatLessThanWellFounded, WFMin
<1>4. \A u \in T : ~(u < t)
  BY <1>1, <1>3 DEF OpToRel
<1> DEFINE x == MaxLen - t
<1>5. x \in S
  OBVIOUS
<1>6. ASSUME NEW y \in S PROVE x >= y
  <2>1. MaxLen - y \in T /\ t \in 0 .. MaxLen /\ y \in 0 .. MaxLen
    BY <1>0
  <2>2. ~(MaxLen - y < t)
    BY <1>4, <2>1
  <2> QED
    BY <2>1, <2>2, <1>0
<1> HIDE DEF x
<1> QED
  BY <1>5, <1>6 DEF Max

-----------------------------------------------------------------------------
(* Records and recovery.                                                    *)

\* A block that read_record takes for a seal is a seal record.
LEMMA SealIsSealRecord ==
    ASSUME NEW r \in Block, r.kind = "seal"
    PROVE  r \in SealRecords
BY DEF Block, Void, HeaderRecords, ObjectPayloads, SealRecords

\* A block that read_record takes for a slot header is a header record.
LEMMA HeaderIsHeaderRecord ==
    ASSUME NEW r \in Block, r.kind = "header"
    PROVE  r \in HeaderRecords
BY DEF Block, Void, HeaderRecords, ObjectPayloads, SealRecords

\* The table of a fresh pack is a table.
LEMMA NoTableType == NoTable \in Tables
<1>1. {} \in SUBSET Objects /\ NoTable \in [{} -> 1 .. MaxLen]
  BY DEF NoTable
<1> QED
  BY <1>1 DEF Tables

\* A table maps the objects it holds to offsets above the header.
LEMMA TableFacts ==
    ASSUME NEW t \in Tables
    PROVE  DOMAIN t \subseteq Objects /\ t \in [DOMAIN t -> 1 .. MaxLen]
BY DEF Tables

\* A function from objects to offsets above the header is a table.
LEMMA TableIntro ==
    ASSUME NEW D \in SUBSET Objects, NEW t \in [D -> 1 .. MaxLen]
    PROVE  t \in Tables
BY DEF Tables

\* Adding a commit's entries to a table leaves a table.
LEMMA MergeType ==
    ASSUME NEW t \in Tables, NEW u \in Tables
    PROVE  Merge(t, u) \in Tables
<1>1. DOMAIN t \cup DOMAIN u \in SUBSET Objects
  BY TableFacts
<1>2. Merge(t, u) \in [DOMAIN t \cup DOMAIN u -> 1 .. MaxLen]
  BY TableFacts DEF Merge
<1> QED
  BY <1>1, <1>2, TableIntro

\* A birth seal's missing predecessor and the check of any seal fit a seal's link.
LEMMA LinkTypes ==
    /\ NoLink \in Links
    /\ \A r \in SealRecords : SealCheck(r) \in Checks
BY NoTableType, RecordsAssumption
   DEF NoLink, Links, Checks, Manifests, SealCheck, SealRecords

\* recover_state elects an offset of the slot, and what it elects is a seal there.
LEMMA ElectedFacts ==
    ASSUME NEW b \in [Offsets -> Block]
    PROVE  /\ Elected(b) \in Offsets
           /\ Elected(b) # 0 => IsSeal(b, Elected(b))
<1>1. Verified(b) \subseteq Seals(b)
  BY DEF Verified, Candidates, Reach
<1>2. Verified(b) \in SUBSET (0 .. MaxLen)
  BY <1>1, RecordsAssumption DEF Seals
<1>3. Verified(b) # {} => Max(Verified(b)) \in Verified(b)
  BY <1>2, MaxOffset
<1> QED
  BY <1>1, <1>2, <1>3, RecordsAssumption DEF Elected, Seals, Offsets

\* The table verify_chain rebuilds along a chain of seals is a table.
LEMMA ChainTableType ==
    ASSUME NEW b \in [Offsets -> Block], NEW i
    PROVE  ChainTable(b, i) \in Tables
<1> DEFINE Names(h) == {j \in Chain(b, i) : h \in DOMAIN Entries(b[j])}
           D == {h \in Objects : Names(h) # {}}
<1>1. Chain(b, i) \subseteq Seals(b)
  BY DEF Chain, Reach
<1>2. \A j \in Seals(b) : Entries(b[j]) \in Tables
  <2> TAKE j \in Seals(b)
  <2>1. j \in Offsets /\ b[j].kind = "seal"
    BY RecordsAssumption DEF Seals, IsSeal, Offsets
  <2>2. b[j] \in SealRecords
    BY <2>1, SealIsSealRecord
  <2> QED
    BY <2>2, MergeType DEF Entries, SealRecords
<1>3. ASSUME NEW h \in D PROVE Entries(b[Max(Names(h))])[h] \in 1 .. MaxLen
  <2>1. Names(h) \in SUBSET (0 .. MaxLen) /\ Names(h) # {}
    BY <1>1, RecordsAssumption DEF Seals
  <2>2. Max(Names(h)) \in Names(h)
    BY <2>1, MaxOffset
  <2>3. Entries(b[Max(Names(h))]) \in Tables /\ h \in DOMAIN Entries(b[Max(Names(h))])
    BY <1>1, <1>2, <2>2
  <2> QED
    BY <2>3, TableFacts
<1>4. ChainTable(b, i) = [h \in D |-> Entries(b[Max(Names(h))])[h]]
  BY DEF ChainTable
<1>5. ChainTable(b, i) \in [D -> 1 .. MaxLen]
  BY <1>3, <1>4
<1> QED
  BY <1>5, TableIntro

\* The number of seals since the last checkpoint is a natural number.
LEMMA SinceType ==
    ASSUME NEW b, NEW i
    PROVE  SinceCheckpoint(b, i) \in Nat
<1>1. {j \in Chain(b, i) : ~b[j].full} \in SUBSET (1 .. MaxLen)
  BY DEF Chain, Reach, Seals
<1>2. IsFiniteSet(1 .. MaxLen)
  BY FS_Interval, RecordsAssumption
<1> QED
  BY <1>1, <1>2, FS_Subset, FS_CardinalityType DEF SinceCheckpoint

\* Where a commit places its new objects: above the end of the slot, inside it, with
\* room left for the seal.
LEMMA PlacedFacts ==
    ASSUME NEW new \in SUBSET Objects, NEW end \in Offsets, Fits(new, end)
    PROVE  /\ Cardinality(new) \in Nat
           /\ end + Cardinality(new) \in Offsets
           /\ end + Cardinality(new) < MaxLen
           /\ \A h \in new : Placed(new, end)[h] \in end + 1 .. end + Cardinality(new)
           /\ Placed(new, end) \in Tables
<1>1. IsFiniteSet(new) /\ Cardinality(new) \in Nat
  BY FS_Subset, FS_CardinalityType, RecordsAssumption
<1>2. ASSUME NEW h \in new
      PROVE  Cardinality({x \in new : x <= h}) \in 1 .. Cardinality(new)
  <2> DEFINE low == {x \in new : x <= h}
  <2>1. low \in SUBSET new /\ h \in low
    BY RecordsAssumption
  <2>2. IsFiniteSet(low) /\ Cardinality(low) \in Nat /\ Cardinality(low) <= Cardinality(new)
    BY <1>1, <2>1, FS_Subset, FS_CardinalityType
  <2>3. Cardinality(low) # 0
    BY <2>1, <2>2, FS_EmptySet
  <2> QED
    BY <1>1, <2>2, <2>3
<1>3. end \in Nat /\ MaxLen \in Nat /\ end + Cardinality(new) < MaxLen
  BY RecordsAssumption DEF Offsets, Fits
<1>4. \A h \in new : Placed(new, end)[h] \in end + 1 .. end + Cardinality(new)
  BY <1>1, <1>2, <1>3 DEF Placed
<1>5. Placed(new, end) \in [new -> 1 .. MaxLen]
  BY <1>1, <1>2, <1>3 DEF Placed
<1> QED
  BY <1>1, <1>3, <1>4, <1>5, TableIntro DEF Offsets

\* The records a commit appends lie above the end of the slot and are object records.
LEMMA ObjectRecordsFacts ==
    ASSUME NEW new \in SUBSET Objects, NEW end \in Offsets, Fits(new, end)
    PROVE  /\ DOMAIN ObjectRecords(new, end) \subseteq Offsets
           /\ \A i \in DOMAIN ObjectRecords(new, end) : i > end
           /\ \A i \in DOMAIN ObjectRecords(new, end) :
                 ObjectRecords(new, end)[i] \in ObjectPayloads
<1> DEFINE at == Placed(new, end)
<1>1. DOMAIN ObjectRecords(new, end) = {at[h] : h \in new}
  BY DEF ObjectRecords
<1>2. \A h \in new : at[h] \in Offsets /\ at[h] > end
  BY PlacedFacts, RecordsAssumption DEF Offsets
<1>3. ASSUME NEW i \in {at[h] : h \in new}
      PROVE  ObjectRecords(new, end)[i] \in ObjectPayloads
  <2>1. (CHOOSE h \in new : at[h] = i) \in new
    OBVIOUS
  <2>2. ObjectRecords(new, end)[i] = ObjectRecord(CHOOSE h \in new : at[h] = i)
    BY DEF ObjectRecords
  <2> QED
    BY <2>1, <2>2 DEF ObjectRecord, ObjectPayloads
<1> QED
  BY <1>1, <1>2, <1>3

-----------------------------------------------------------------------------
(***************************************************************************)
(* What every operation of the medium keeps true of a slot g.              *)
(***************************************************************************)

\* Blocks that need no writing out are on the disk already.
CleanSlot(s) ==
    s.name => \A i \in Offsets : i \notin s.dirty => s.disk[i] = {s.vol[i]}

\* A seal names the generation of the slot it is written in.
HomeSlot(s, g) ==
    \A i \in Offsets : \A r \in s.disk[i] \cup {s.vol[i]} : r.kind = "seal" => r.gen = g

GoodSlot(s, g) ==
    /\ s \in Slot
    /\ HomeSlot(s, g)
    /\ ~FlushDropsPages => CleanSlot(s)

\* A hole is a block, and recovery does not take it for a seal.
LEMMA VoidBlock == Void \in Block /\ Void.kind # "seal"
BY DEF Void, Block

\* A slot that does not exist satisfies the slot invariant.
LEMMA GoodAbsent == ASSUME NEW g PROVE GoodSlot(Absent, g)
<1>1. Absent \in Slot
  BY VoidBlock, RecordsAssumption DEF Absent, Slot, Offsets
<1>2. HomeSlot(Absent, g)
  BY VoidBlock DEF HomeSlot, Absent
<1>3. CleanSlot(Absent)
  BY DEF CleanSlot, Absent
<1> QED
  BY <1>1, <1>2, <1>3 DEF GoodSlot

\* Records that may be written to slot g.
Home(w, g) == \A i \in DOMAIN w : w[i] \in Block /\ (w[i].kind = "seal" => w[i].gen = g)

\* FileWriter::append keeps the slot invariant and changes no block but the ones written.
LEMMA GoodWrite ==
    ASSUME NEW s, NEW g, GoodSlot(s, g), NEW end \in Offsets,
           NEW w, Home(w, g)
    PROVE  /\ GoodSlot(Write(s, w, end), g)
           /\ Write(s, w, end).len = end
           /\ Write(s, w, end).name = s.name
           /\ \A i \in Offsets : i \notin DOMAIN w => Write(s, w, end).vol[i] = s.vol[i]
<1> DEFINE n == Write(s, w, end)
<1>1. s \in Slot
  BY DEF GoodSlot
<1>2. n \in Slot
  BY <1>1 DEF Home, Slot, Write
<1>3. HomeSlot(n, g)
  BY <1>1 DEF Home, Slot, Write, HomeSlot, GoodSlot
<1>4. ~FlushDropsPages => CleanSlot(n)
  BY <1>1 DEF Home, Slot, Write, CleanSlot, GoodSlot
<1>5. n.len = end /\ n.name = s.name
      /\ \A i \in Offsets : i \notin DOMAIN w => n.vol[i] = s.vol[i]
  BY <1>1 DEF Home, Slot, Write
<1> QED
  BY <1>2, <1>3, <1>4, <1>5 DEF GoodSlot

\* FileWriter::truncate keeps the slot invariant and every block below the cut.
LEMMA GoodTruncate ==
    ASSUME NEW s, NEW g, GoodSlot(s, g), NEW n \in Offsets
    PROVE  /\ GoodSlot(Truncate(s, n), g)
           /\ Truncate(s, n).len = n
           /\ Truncate(s, n).name = s.name
           /\ \A i \in 0 .. n : Truncate(s, n).vol[i] = s.vol[i]
<1> DEFINE t == Truncate(s, n)
<1>1. s \in Slot
  BY DEF GoodSlot
<1>2. t \in Slot
  BY <1>1, VoidBlock DEF Slot, Truncate
<1>3. HomeSlot(t, g)
  BY <1>1, VoidBlock DEF Slot, Truncate, HomeSlot, GoodSlot
<1>4. ~FlushDropsPages => CleanSlot(t)
  BY <1>1 DEF Slot, Truncate, CleanSlot, GoodSlot
<1>5. t.len = n /\ t.name = s.name
  BY <1>1 DEF Slot, Truncate
<1>6. \A i \in 0 .. n : t.vol[i] = s.vol[i]
  BY <1>1, RecordsAssumption DEF Slot, Truncate, Offsets
<1> QED
  BY <1>2, <1>3, <1>4, <1>5, <1>6 DEF GoodSlot

\* FileWriter::flush keeps the slot invariant; where a failed sync leaves its pages dirty,
\* it leaves on the disk exactly what is read.
LEMMA GoodFlush ==
    ASSUME NEW s, NEW g, GoodSlot(s, g)
    PROVE  /\ GoodSlot(Flush(s), g)
           /\ Flush(s).len = s.len /\ Flush(s).name = s.name /\ Flush(s).vol = s.vol
           /\ ~FlushDropsPages /\ s.name =>
                 \A i \in Offsets : Flush(s).disk[i] = {Flush(s).vol[i]}
<1> DEFINE f == Flush(s)
<1>1. s \in Slot
  BY DEF GoodSlot
<1>2. f \in Slot
  BY <1>1 DEF Slot, Flush
<1>3. HomeSlot(f, g)
  BY <1>1 DEF Slot, Flush, HomeSlot, GoodSlot
<1>4. f.len = s.len /\ f.name = s.name /\ f.vol = s.vol
  BY <1>1 DEF Slot, Flush
<1>5. ~FlushDropsPages /\ s.name => \A i \in Offsets : f.disk[i] = {f.vol[i]}
  BY <1>1 DEF Slot, Flush, CleanSlot, GoodSlot
<1>6. ~FlushDropsPages => CleanSlot(f)
  BY <1>4, <1>5 DEF CleanSlot
<1> QED
  BY <1>2, <1>3, <1>4, <1>5, <1>6 DEF GoodSlot

\* A failed flush keeps the slot invariant and what is read.
LEMMA GoodFlushFailed ==
    ASSUME NEW s, NEW g, GoodSlot(s, g)
    PROVE  /\ GoodSlot(FlushFailed(s), g)
           /\ FlushFailed(s).len = s.len /\ FlushFailed(s).name = s.name
           /\ FlushFailed(s).vol = s.vol
BY DEF GoodSlot, Slot, FlushFailed, HomeSlot, CleanSlot

\* DirMedium::open_slot keeps the slot invariant and names the slot.
LEMMA GoodCreate ==
    ASSUME NEW s, NEW g, GoodSlot(s, g)
    PROVE  GoodSlot(Create(s), g) /\ Create(s).name
<1>1. s \in Slot
  BY DEF GoodSlot
<1>2. Create(s) \in Slot
  BY <1>1, VoidBlock, RecordsAssumption DEF Slot, Create, Offsets
<1>3. HomeSlot(Create(s), g)
  BY <1>1, VoidBlock DEF Slot, Create, HomeSlot, GoodSlot
<1>4. CleanSlot(Create(s)) /\ Create(s).name
  BY DEF Create, CleanSlot
<1> QED
  BY <1>2, <1>3, <1>4 DEF GoodSlot

\* DirMedium::remove_slot keeps the slot invariant.
LEMMA GoodRemove ==
    ASSUME NEW s, NEW g, GoodSlot(s, g)
    PROVE  GoodSlot(Remove(s), g)
<1>1. s \in Slot
  BY DEF GoodSlot
<1>2. Remove(s) \in Slot
  <2>1. CASE s.name
    BY <1>1, <2>1, VoidBlock, RecordsAssumption DEF Slot, Remove, Offsets
  <2>2. CASE ~s.name
    BY <1>1, <2>2 DEF Remove
  <2> QED
    BY <2>1, <2>2
<1>3. HomeSlot(Remove(s), g)
  BY <1>1, VoidBlock DEF Slot, Remove, HomeSlot, GoodSlot
<1>4. ~FlushDropsPages => CleanSlot(Remove(s))
  BY <1>1 DEF Slot, Remove, CleanSlot, GoodSlot
<1> QED
  BY <1>2, <1>3, <1>4 DEF GoodSlot

\* What a power loss leaves of a slot satisfies the slot invariant, and is clean.
LEMMA GoodImage ==
    ASSUME NEW s, NEW g, GoodSlot(s, g), NEW c \in Survivors(s), NEW n \in Offsets
    PROVE  GoodSlot(Image(Verifiable(c), n), g)
<1> DEFINE b == Verifiable(c)
<1>0. s \in Slot
  BY DEF GoodSlot
<1>1. \A i \in Offsets : c[i] \in s.disk[i] \cup {s.vol[i]}
  BY DEF Survivors
<1>2. \A i \in Offsets : c[i] \in Block /\ (c[i].kind = "seal" => c[i].gen = g)
  BY <1>0, <1>1 DEF Slot, GoodSlot, HomeSlot
<1>3. b \in [Offsets -> Block] /\ \A i \in Offsets : b[i].kind = "seal" => b[i].gen = g
  BY <1>2, VoidBlock DEF Verifiable
<1> HIDE DEF b
<1>4. Image(b, n) \in Slot
  BY <1>3 DEF Slot, Image
<1>5. HomeSlot(Image(b, n), g)
  BY <1>3 DEF HomeSlot, Image
<1>6. CleanSlot(Image(b, n))
  BY DEF CleanSlot, Image
<1> QED
  BY <1>4, <1>5, <1>6 DEF GoodSlot, b

-----------------------------------------------------------------------------
(***************************************************************************)
(* The inductive invariant.                                                *)
(***************************************************************************)

SlotsInv == \A g \in Gens : GoodSlot(slots[g], g)

\* Where the writer stands: its slot is listed and reaches to the published
\* seal, and what it is about to append is what the phase says.
PhaseInv ==
    /\ pc \in Open \cup {"founding", "trimming"} => Here.name /\ pack.sealed <= Here.len
    /\ pc = "commit" => /\ wip.seal \in SealRecords /\ wip.seal.gen = pack.gen
                        /\ pack.sealed <= wip.undo
                        /\ Here.len < MaxLen
    /\ pc = "sealed" => wip.seal \in SealRecords
    /\ pc \in {"header", "successor"} => pack.gen < MaxGen /\ slots[pack.gen + 1].name
    /\ pc = "header" => wip.seal \in HeaderRecords
    /\ pc = "successor" => wip.seal \in SealRecords
    /\ pc = "founding" => pack.gen = 0
    /\ \A g \in pack.graveyard : g < pack.gen

\* Where a held view's generation can be: current, or waiting in the graveyard.
ViewInv ==
    \A r \in Readers : views[r].held =>
        /\ pc \in Open
        /\ views[r].gen \in pack.graveyard \cup {pack.gen}
        /\ slots[views[r].gen].name
        /\ views[r].gen = pack.gen => views[r].sealed <= pack.sealed

Inv == TypeOK /\ SlotsInv /\ PhaseInv /\ ViewInv

\* Removing slots, each removal free to fail, keeps the invariant of all of them and
\* touches no other.
LEMMA SweptFacts ==
    ASSUME NEW files \in [Gens -> Slot], \A g \in Gens : GoodSlot(files[g], g),
           NEW gone, NEW after \in Swept(files, gone)
    PROVE  /\ after \in [Gens -> Slot]
           /\ \A g \in Gens : GoodSlot(after[g], g)
           /\ \A g \in Gens : g \notin gone => after[g] = files[g]
<1>1. \A g \in Gens : after[g] \in {files[g], Remove(files[g])}
  BY DEF Swept
<1>2. \A g \in Gens : GoodSlot(after[g], g)
  BY <1>1, GoodRemove
<1>3. DOMAIN after = Gens /\ \A g \in Gens : after[g] \in Slot
  BY <1>2 DEF Swept, GoodSlot
<1>4. \A g \in Gens : g \notin gone => after[g] = files[g]
  BY DEF Swept
<1>5. after = [g \in Gens |-> after[g]]
  BY DEF Swept
<1> QED
  BY <1>2, <1>3, <1>4, <1>5

\* The values of a store that is not open are well typed.
LEMMA NoPackFacts ==
    /\ NoPack \in Packs /\ NoWip \in Wips /\ NoView \in Views /\ ~NoView.held
    /\ 0 \in Gens
BY NoTableType, LinkTypes, VoidBlock, RecordsAssumption
   DEF NoPack, NoWip, NoView, Packs, Wips, Views, Gens, Offsets, Manifests

\* The invariant holds of a store that was never opened.
LEMMA InitInv == Init => Inv
<1> SUFFICES ASSUME Init PROVE Inv
  OBVIOUS
<1>1. SlotsInv
  BY GoodAbsent DEF Init, SlotsInv
<1>2. TypeOK
  <2>1. slots \in [Gens -> Slot]
    BY GoodAbsent DEF Init, GoodSlot
  <2>2. committed \in Values
    BY PackLogAssumption, RecordsAssumption DEF Init, Values, Value, Manifests
  <2> QED
    BY <2>1, <2>2, NoPackFacts, PackLogAssumption DEF Init, TypeOK, Phases
<1>3. PhaseInv
  BY DEF Init, PhaseInv, Open, NoPack
<1>4. ViewInv
  BY DEF Init, ViewInv, NoView
<1> QED
  BY <1>1, <1>2, <1>3, <1>4 DEF Inv

\* A step that only touches what the invariant does not mention, or that forgets
\* everything held in memory.
LEMMA ForgetStep ==
    ASSUME Inv, Forget, UNCHANGED <<slots, source, observed>>, pc' \in {"down", "dark"}
    PROVE  Inv'
<1>1. TypeOK'
  BY NoPackFacts DEF Inv, TypeOK, Forget, observed, Phases
<1>2. SlotsInv'
  BY DEF Inv, SlotsInv
<1>3. PhaseInv'
  BY DEF Forget, PhaseInv, Open, NoPack
<1>4. ViewInv'
  BY NoPackFacts DEF Forget, ViewInv
<1> QED
  BY <1>1, <1>2, <1>3, <1>4 DEF Inv

\* A close, the death of the process and a power loss keep the invariant.
LEMMA InterruptStep ==
    ASSUME Inv, Close \/ Restart \/ PowerLoss
    PROVE  Inv'
BY ForgetStep DEF Close, Restart, PowerLoss

\* The return of the power keeps the invariant.
LEMMA PowerBackStep ==
    ASSUME Inv, PowerBack
    PROVE  Inv'
<1>1. TypeOK'
  BY DEF Inv, TypeOK, PowerBack, observed, Phases
<1>2. SlotsInv'
  BY DEF Inv, SlotsInv, PowerBack
<1>3. PhaseInv'
  BY DEF Inv, PowerBack, PhaseInv, Open
<1>4. ViewInv'
  BY DEF Inv, PowerBack, ViewInv, Open
<1> QED
  BY <1>1, <1>2, <1>3, <1>4 DEF Inv

\* Settling what a power loss left of one slot keeps the invariant.
LEMMA SurviveStep ==
    ASSUME Inv, NEW g \in Gens, Survive(g)
    PROVE  Inv'
<1>1. PICK s : GoodSlot(s, g) /\ slots' = [slots EXCEPT ![g] = s]
  <2>1. CASE slots' = [slots EXCEPT ![g] = Absent]
    BY <2>1, GoodAbsent
  <2>2. CASE \E b \in Survivors(slots[g]), n \in Offsets :
                slots' = [slots EXCEPT ![g] = Image(Verifiable(b), n)]
    BY <2>2, GoodImage DEF Inv, SlotsInv
  <2> QED
    BY <2>1, <2>2 DEF Survive
<1>2. SlotsInv'
  BY <1>1 DEF Inv, SlotsInv, TypeOK
<1>3. TypeOK'
  BY <1>1 DEF Inv, TypeOK, Survive, observed, GoodSlot
<1>4. PhaseInv'
  BY DEF Inv, Survive, PhaseInv, Open
<1>5. ViewInv'
  BY DEF Inv, Survive, ViewInv, Open
<1> QED
  BY <1>2, <1>3, <1>4, <1>5 DEF Inv

\* Taking and dropping a view keep the invariant.
LEMMA ReaderStep ==
    ASSUME Inv, NEW r \in Readers, TakeView(r) \/ DropView(r)
    PROVE  Inv'
<1>1. TypeOK'
  <2>1. views' \in [Readers -> Views]
    <3>1. [held |-> TRUE, gen |-> pack.gen, table |-> pack.table, sealed |-> pack.sealed] \in Views
      BY DEF Inv, TypeOK, Views, Packs
    <3> QED
      BY <3>1, NoPackFacts DEF Inv, TypeOK, TakeView, DropView
  <2> QED
    BY <2>1 DEF Inv, TypeOK, TakeView, DropView, observed
<1>2. SlotsInv'
  BY DEF Inv, SlotsInv, TakeView, DropView
<1>3. PhaseInv'
  BY DEF Inv, TakeView, DropView, PhaseInv, Here
<1>4. ViewInv'
  <2>1. CASE TakeView(r)
    BY <2>1, RecordsAssumption DEF Inv, TypeOK, TakeView, ViewInv, PhaseInv, Here, Packs, Offsets
  <2>2. CASE DropView(r)
    BY <2>2, NoPackFacts DEF Inv, TypeOK, DropView, ViewInv
  <2> QED
    BY <2>1, <2>2
<1> QED
  BY <1>1, <1>2, <1>3, <1>4 DEF Inv

-----------------------------------------------------------------------------
(* The steps that write one slot.                                           *)

\* A step that replaces one slot by a good one keeps the slots good.
LEMMA OneSlot ==
    ASSUME Inv, NEW g \in Gens, NEW s, GoodSlot(s, g), slots' = [slots EXCEPT ![g] = s]
    PROVE  /\ SlotsInv'
           /\ slots' \in [Gens -> Slot]
           /\ slots'[g] = s
           /\ \A h \in Gens : h # g => slots'[h] = slots[h]
BY DEF Inv, TypeOK, SlotsInv, GoodSlot

\* The slot being written exists as a generation and is good.
LEMMA HereFacts ==
    ASSUME Inv
    PROVE  pack.gen \in Gens /\ GoodSlot(Here, pack.gen) /\ Here.len \in Offsets
<1>1. pack.gen \in Gens
  BY DEF Inv, TypeOK, Packs
<1>2. GoodSlot(Here, pack.gen)
  BY <1>1 DEF Inv, SlotsInv, Here
<1> QED
  BY <1>1, <1>2 DEF GoodSlot, Slot

\* What open rebuilds from a sound slot is a pack state at that slot's elected seal.
LEMMA RecoveredFacts ==
    ASSUME Inv, NEW g \in Sound
    PROVE  /\ Recovered(g) \in Packs
           /\ Recovered(g).gen = g
           /\ Recovered(g).sealed = Elected(slots[g].vol)
           /\ Recovered(g).graveyard = {}
           /\ Elected(slots[g].vol) \in Offsets
           /\ g \in Gens /\ slots[g].name
<1> DEFINE b == slots[g].vol
           i == Elected(b)
<1>1. g \in Gens /\ slots[g].name /\ i # 0
  BY DEF Sound, Found
<1>2. GoodSlot(slots[g], g) /\ slots[g] \in Slot /\ b \in [Offsets -> Block]
  BY <1>1 DEF Inv, SlotsInv, GoodSlot, Slot
<1>3. i \in Offsets /\ IsSeal(b, i)
  BY <1>1, <1>2, ElectedFacts
<1>4. b[i] \in SealRecords /\ b[i].gen = g
  BY <1>2, <1>3, SealIsSealRecord DEF IsSeal, GoodSlot, HomeSlot
<1>5. 0 \in Offsets /\ b[0] \in HeaderRecords
  BY <1>2, <1>3, HeaderIsHeaderRecord, RecordsAssumption DEF IsSeal, Offsets
<1>6. ChainTable(b, i) \in Tables /\ SinceCheckpoint(b, i) \in Nat
  BY <1>2, ChainTableType, SinceType
<1>7. SealCheck(b[i]) \in Checks
  BY <1>4, LinkTypes
<1>8. Recovered(g) =
        [gen |-> b[i].gen, salt |-> b[0].salt, table |-> ChainTable(b, i), sealed |-> i,
         seq |-> b[i].seq, last |-> [at |-> i, check |-> SealCheck(b[i])],
         since |-> SinceCheckpoint(b, i), prov |-> b[i].prov, manifest |-> b[i].manifest,
         graveyard |-> {}]
  BY DEF Recovered
<1>9. b[i].seq \in Nat /\ b[i].prov \in BOOLEAN /\ b[i].manifest \in Manifests /\ b[0].salt \in Nat
  BY <1>4, <1>5 DEF SealRecords, HeaderRecords
<1>10. [at |-> i, check |-> SealCheck(b[i])] \in Links
  BY <1>3, <1>7 DEF Links, Offsets
<1> HIDE DEF b, i
<1>11. Recovered(g) \in Packs
  BY <1>1, <1>3, <1>4, <1>6, <1>8, <1>9, <1>10 DEF Packs
<1> QED
  BY <1>1, <1>3, <1>4, <1>8, <1>11 DEF b, i

\* What an open exposes is one of the values a store can hold.
LEMMA ExposeType ==
    ASSUME Inv, NEW p \in Packs, Expose(p)
    PROVE  committed' \in Values /\ attempted' \subseteq Values
BY DEF Inv, TypeOK, Expose, Packs, Values, Value

\* PackStore::open of an elected slot keeps the invariant.
LEMMA OpenElectedStep ==
    ASSUME Inv, OpenElected
    PROVE  Inv'
<1>0. PICK g \in Sound : \E after \in Swept(slots, Found \ {g}) :
        LET i == Elected(slots[g].vol) IN
        /\ slots' = [after EXCEPT ![g] = Truncate(after[g], i)]
        /\ pack' = Recovered(g)
        /\ IF slots[g].len > i
           THEN pc' = "trimming" /\ UNCHANGED <<committed, attempted>>
           ELSE pc' = "ready" /\ Expose(Recovered(g))
  BY DEF OpenElected
<1>1. PICK after \in Swept(slots, Found \ {g}) :
        LET i == Elected(slots[g].vol) IN
        /\ slots' = [after EXCEPT ![g] = Truncate(after[g], i)]
        /\ pack' = Recovered(g)
        /\ IF slots[g].len > i
           THEN pc' = "trimming" /\ UNCHANGED <<committed, attempted>>
           ELSE pc' = "ready" /\ Expose(Recovered(g))
  BY <1>0
<1> DEFINE i == Elected(slots[g].vol)
<1>2. /\ after \in [Gens -> Slot]
      /\ \A h \in Gens : GoodSlot(after[h], h)
      /\ \A h \in Gens : h \notin Found \ {g} => after[h] = slots[h]
  BY SweptFacts DEF Inv, TypeOK, SlotsInv
<1>3. g \in Gens /\ slots[g].name /\ i \in Offsets /\ after[g] = slots[g]
  BY <1>2, RecoveredFacts
<1>4. /\ GoodSlot(Truncate(after[g], i), g)
      /\ Truncate(after[g], i).len = i
      /\ Truncate(after[g], i).name
  BY <1>2, <1>3, GoodTruncate
<1>5. slots' = [after EXCEPT ![g] = Truncate(after[g], i)]
  BY <1>1
<1>6. slots'[g] = Truncate(after[g], i) /\ slots' \in [Gens -> Slot] /\ SlotsInv'
  BY <1>2, <1>3, <1>4, <1>5 DEF SlotsInv, GoodSlot
<1>7. pack' \in Packs /\ pack'.gen = g /\ pack'.sealed = i /\ pack'.graveyard = {}
  BY <1>1, RecoveredFacts
<1>8. pc' \in {"trimming", "ready"} /\ committed' \in Values /\ attempted' \subseteq Values
  <2>1. CASE slots[g].len > i
    BY <1>1, <2>1 DEF Inv, TypeOK
  <2>2. CASE ~(slots[g].len > i)
    BY <1>1, <2>2, ExposeType, RecoveredFacts
  <2> QED
    BY <2>1, <2>2
<1>9. UNCHANGED <<wip, views, source, acked>> /\ pc = "down"
  BY DEF OpenElected
<1> HIDE DEF i
<1>10. TypeOK'
  BY <1>6, <1>7, <1>8, <1>9 DEF Inv, TypeOK, Phases
<1>11. PhaseInv'
  <2>1. slots'[pack'.gen].name /\ slots'[pack'.gen].len = pack'.sealed /\ pack'.sealed \in Nat
    BY <1>3, <1>4, <1>6, <1>7 DEF Offsets
  <2> QED
    BY <2>1, <1>7, <1>8 DEF PhaseInv, Here, Open
<1>12. ViewInv'
  BY <1>9 DEF Inv, ViewInv, Open
<1> QED
  BY <1>6, <1>10, <1>11, <1>12 DEF Inv

\* A flush changes neither what is read nor where the writer stands.
LEMMA OpenFlushedStep ==
    ASSUME Inv, OpenTrimmed \/ OpenFounded
    PROVE  Inv'
<1>1. /\ pc \in {"trimming", "founding"} /\ pc' = "ready" /\ Expose(pack)
      /\ slots' = [slots EXCEPT ![pack.gen] = Flush(slots[pack.gen])]
      /\ UNCHANGED <<pack, wip, views, source, acked>>
  BY DEF Inv, PhaseInv, OpenTrimmed, OpenFounded
<1>2. pack.gen \in Gens /\ GoodSlot(Here, pack.gen)
  BY HereFacts
<1>3. GoodSlot(Flush(Here), pack.gen) /\ Flush(Here).len = Here.len /\ Flush(Here).name = Here.name
  BY <1>2, GoodFlush
<1>4. SlotsInv' /\ slots' \in [Gens -> Slot] /\ slots'[pack.gen] = Flush(Here)
  BY <1>1, <1>2, <1>3, OneSlot DEF Here
<1>5. TypeOK'
  BY <1>1, <1>4, ExposeType DEF Inv, TypeOK, Phases
<1>6. PhaseInv'
  <2>1. Here' = Flush(Here)
    BY <1>1, <1>4 DEF Here
  <2> QED
    BY <1>1, <1>3, <2>1 DEF Inv, PhaseInv, Open
<1>7. ViewInv'
  BY <1>1 DEF Inv, ViewInv, Open
<1> QED
  BY <1>4, <1>5, <1>6, <1>7 DEF Inv

\* init_slot leaves a named slot that holds a header alone.
LEMMA InitSlotFacts ==
    ASSUME NEW s, NEW g, GoodSlot(s, g), NEW salt \in FreshSalts(s)
    PROVE  /\ GoodSlot(InitSlot(s, salt), g)
           /\ InitSlot(s, salt).len = 0 /\ InitSlot(s, salt).name
           /\ Header(salt) \in HeaderRecords
<1>1. Header(salt) \in HeaderRecords /\ Header(salt) \in Block /\ Header(salt).kind # "seal"
  BY RecordsAssumption DEF FreshSalts, Header, HeaderRecords, Block
<1>2. Home([i \in {0} |-> Header(salt)], g)
  BY <1>1 DEF Home
<1>3. 0 \in Offsets /\ GoodSlot(Create(s), g) /\ Create(s).name
  BY GoodCreate, RecordsAssumption DEF Offsets
<1> QED
  BY <1>1, <1>2, <1>3, GoodWrite DEF InitSlot

\* A salt no record of a slot carries is still fresh once the slot is removed.
LEMMA FreshSaltsShrink ==
    ASSUME NEW s, NEW salt, salt \in FreshSalts(s)
    PROVE  salt \in FreshSalts(Remove(s))
BY DEF FreshSalts, Remove

\* A salt no record of a slot carries is still fresh after a sweep.
LEMMA SweptFresh ==
    ASSUME NEW files \in [Gens -> Slot], NEW gone, NEW after \in Swept(files, gone),
           NEW g \in Gens, NEW salt \in FreshSalts(files[g])
    PROVE  salt \in FreshSalts(after[g])
<1>1. after[g] \in {files[g], Remove(files[g])}
  BY DEF Swept
<1> QED
  BY <1>1, FreshSaltsShrink

\* PackStore::open without any verified seal keeps the invariant.
LEMMA OpenFreshStep ==
    ASSUME Inv, OpenFresh
    PROVE  Inv'
<1>1. PICK after \in Swept(slots, Found), salt \in FreshSalts(slots[0]) :
        /\ slots' = [after EXCEPT ![0] = InitSlot(after[0], salt)]
        /\ pack' = [NoPack EXCEPT !.salt = salt]
  BY DEF OpenFresh
<1>2. /\ pc = "down" /\ pc' = "founding" /\ UNCHANGED <<wip, views, source, observed>>
  BY DEF OpenFresh
<1>3. 0 \in Gens
  BY NoPackFacts
<1>4. after \in [Gens -> Slot] /\ \A h \in Gens : GoodSlot(after[h], h)
  BY SweptFacts DEF Inv, TypeOK, SlotsInv
<1>5. salt \in FreshSalts(after[0])
  BY <1>3, SweptFresh DEF Inv, TypeOK
<1>6. /\ GoodSlot(InitSlot(after[0], salt), 0)
      /\ InitSlot(after[0], salt).len = 0 /\ InitSlot(after[0], salt).name
  BY <1>3, <1>4, <1>5, InitSlotFacts
<1>7. slots'[0] = InitSlot(after[0], salt) /\ slots' \in [Gens -> Slot] /\ SlotsInv'
  BY <1>1, <1>3, <1>4, <1>6 DEF SlotsInv, GoodSlot
<1>8. pack' \in Packs /\ pack'.gen = 0 /\ pack'.sealed = 0 /\ pack'.graveyard = {}
  <2>1. salt \in Nat
    BY RecordsAssumption DEF FreshSalts
  <2> QED
    BY <1>1, <2>1, NoPackFacts DEF NoPack, Packs
<1>9. TypeOK'
  BY <1>2, <1>7, <1>8 DEF Inv, TypeOK, Phases, observed
<1>10. PhaseInv'
  BY <1>2, <1>6, <1>7, <1>8 DEF PhaseInv, Here, Open
<1>11. ViewInv'
  BY <1>2 DEF Inv, ViewInv, Open
<1> QED
  BY <1>7, <1>9, <1>10, <1>11 DEF Inv

\* A refused open keeps the invariant.
LEMMA OpenRefusedStep ==
    ASSUME Inv, OpenRefused
    PROVE  Inv'
<1>1. TypeOK'
  BY DEF Inv, TypeOK, OpenRefused, observed, Phases
<1>2. SlotsInv'
  BY DEF Inv, SlotsInv, OpenRefused
<1>3. PhaseInv'
  BY DEF Inv, OpenRefused, PhaseInv, Open
<1>4. ViewInv'
  BY DEF Inv, OpenRefused, ViewInv, Open
<1> QED
  BY <1>1, <1>2, <1>3, <1>4 DEF Inv

\* An open whose flush fails keeps the invariant.
LEMMA OpenFlushFailsStep ==
    ASSUME Inv, OpenFlushFails
    PROVE  Inv'
<1>1. /\ pc \in {"trimming", "founding"} /\ pc' = "down" /\ pack' = NoPack
      /\ slots' = [slots EXCEPT ![pack.gen] = FlushFailed(Here)]
      /\ UNCHANGED <<wip, views, source, observed>>
  BY DEF OpenFlushFails, Here
<1>2. GoodSlot(FlushFailed(Here), pack.gen) /\ pack.gen \in Gens
  BY HereFacts, GoodFlushFailed
<1>3. SlotsInv' /\ slots' \in [Gens -> Slot]
  BY <1>1, <1>2, OneSlot
<1>4. TypeOK'
  BY <1>1, <1>3, NoPackFacts DEF Inv, TypeOK, Phases, observed
<1>5. PhaseInv'
  BY <1>1 DEF PhaseInv, Open, NoPack
<1>6. ViewInv'
  BY <1>1 DEF Inv, ViewInv, Open
<1> QED
  BY <1>3, <1>4, <1>5, <1>6 DEF Inv

\* What removing a stillborn migration leaves.
LEMMA StillbornSlots ==
    ASSUME Inv, Stillborn
    PROVE  /\ slots' \in [Gens -> Slot] /\ \A g \in Gens : GoodSlot(slots'[g], g)
           /\ \A g \in Gens : slots'[g] \in {slots[g], Remove(slots[g])}
           /\ ~RemovalFails => slots' = [g \in Gens |-> Remove(slots[g])]
<1>1. PICK after \in Swept(slots, Found) : slots' = after
  BY DEF Stillborn
<1>2. after \in [Gens -> Slot] /\ \A g \in Gens : GoodSlot(after[g], g)
  BY SweptFacts DEF Inv, TypeOK, SlotsInv
<1>3. \A g \in Gens : after[g] \in {slots[g], Remove(slots[g])}
  BY DEF Swept
<1>4. ASSUME ~RemovalFails PROVE \A g \in Gens : after[g] = Remove(slots[g])
  <2>1. \A g \in Found : after[g] = Remove(slots[g])
    BY <1>4 DEF Swept, Found
  <2>2. \A g \in Gens \ Found : after[g] = slots[g] /\ Remove(slots[g]) = slots[g]
    BY DEF Swept, Found, Remove
  <2> QED
    BY <2>1, <2>2
<1> QED
  BY <1>1, <1>2, <1>3, <1>4

\* Removing a stillborn migration keeps the invariant.
LEMMA StillbornStep ==
    ASSUME Inv, Stillborn
    PROVE  Inv'
<1>1. SlotsInv' /\ slots' \in [Gens -> Slot]
  BY StillbornSlots DEF SlotsInv
<1>2. TypeOK'
  BY <1>1 DEF Inv, TypeOK, Stillborn, observed, Phases
<1>3. PhaseInv'
  BY DEF Inv, Stillborn, PhaseInv, Open
<1>4. ViewInv'
  BY DEF Inv, Stillborn, ViewInv, Open
<1> QED
  BY <1>1, <1>2, <1>3, <1>4 DEF Inv

-----------------------------------------------------------------------------
(* Committing.                                                              *)

\* try_commit's appends keep the invariant: the objects land above everything published.
LEMMA AppendStep ==
    ASSUME Inv, pc = "ready", NEW objects \in SUBSET Objects, NEW manifest \in SUBSET Objects,
           NEW migrating \in BOOLEAN, AppendObjects(objects, manifest, migrating)
    PROVE  Inv'
<1> DEFINE end   == Here.len
           new   == objects \ DOMAIN pack.table
           added == Placed(new, end)
           table == Merge(added, pack.table)
           w     == ObjectRecords(new, end)
           last  == end + Cardinality(new)
<1>1. /\ Fits(new, end)
      /\ slots' = [slots EXCEPT ![pack.gen] = Write(Here, w, last)]
      /\ wip'.undo = end /\ wip'.table = table
      /\ UNCHANGED <<pack, views, source, observed>> /\ pc' = "commit"
  BY DEF AppendObjects, Here
<1>2. pack.gen \in Gens /\ GoodSlot(Here, pack.gen) /\ end \in Offsets
  BY HereFacts
<1>3. new \in SUBSET Objects
  OBVIOUS
<1>4. last \in Offsets /\ last < MaxLen /\ last >= end /\ added \in Tables
  BY <1>1, <1>2, <1>3, PlacedFacts DEF Offsets
<1>5. Home(w, pack.gen)
  BY <1>1, <1>2, <1>3, ObjectRecordsFacts DEF Home, Block, ObjectPayloads
<1>6. /\ GoodSlot(Write(Here, w, last), pack.gen)
      /\ Write(Here, w, last).len = last
      /\ Write(Here, w, last).name = Here.name
  BY <1>2, <1>4, <1>5, GoodWrite
<1>7. table \in Tables
  BY <1>4, MergeType DEF Inv, TypeOK, Packs
<1>8. wip'.seal \in SealRecords /\ wip'.seal.gen = pack.gen /\ wip' \in Wips
  <2> DEFINE due == pack.since + 1 >= CheckpointEvery
             seal == [kind |-> "seal", salt |-> pack.salt, gen |-> pack.gen,
                      seq   |-> IF migrating THEN SourceSeq + 1 ELSE pack.seq + 1,
                      prev  |-> IF migrating THEN NoLink ELSE pack.last,
                      added |-> IF migrating THEN NoTable ELSE added,
                      full  |-> migrating \/ due,
                      base  |-> IF migrating \/ due THEN table ELSE NoTable,
                      prov  |-> migrating,
                      manifest |-> manifest]
  <2>1. wip' = [undo |-> end, table |-> table, seal |-> seal]
    BY DEF AppendObjects
  <2>2. pack \in Packs
    BY DEF Inv, TypeOK
  <2>3. seal.seq \in Nat /\ seal.salt \in Nat
    BY <2>2, PackLogAssumption DEF Packs
  <2>4. seal.prev \in Links /\ seal.added \in Tables /\ seal.base \in Tables
    <3> HIDE DEF table, added, due
    <3> QED
      BY <2>2, <1>4, <1>7, NoTableType, LinkTypes DEF Packs
  <2>5. seal.full \in BOOLEAN /\ seal.prov \in BOOLEAN
    OBVIOUS
  <2>6. seal = [kind |-> "seal", salt |-> seal.salt, gen |-> pack.gen, seq |-> seal.seq,
                prev |-> seal.prev, added |-> seal.added, full |-> seal.full,
                base |-> seal.base, prov |-> seal.prov, manifest |-> manifest]
    OBVIOUS
  <2> HIDE DEF seal, table
  <2>7. seal \in SealRecords
    BY <1>2, <2>3, <2>4, <2>5, <2>6 DEF SealRecords, Gens, Manifests
  <2>8. seal.gen = pack.gen
    BY <2>6
  <2> QED
    BY <1>2, <1>7, <2>1, <2>7, <2>8 DEF Wips, Block
<1>9. SlotsInv' /\ slots' \in [Gens -> Slot] /\ slots'[pack.gen] = Write(Here, w, last)
  <2> HIDE DEF w, last
  <2> QED
    BY <1>1, <1>2, <1>6, OneSlot
<1>10. Here' = Write(Here, w, last)
  BY <1>1, <1>9 DEF Here
<1> HIDE DEF w, last, new, added, table
<1>11. TypeOK'
  BY <1>1, <1>8, <1>9 DEF Inv, TypeOK, observed, Phases
<1>12. PhaseInv'
  <2>1. pack.sealed <= end /\ Here.name /\ pack.sealed \in Nat /\ last \in Nat /\ end \in Nat
    BY <1>2, <1>4 DEF Inv, PhaseInv, Open, TypeOK, Packs, Offsets
  <2>2. pack.sealed <= last
    <3> HIDE DEF end
    <3> QED
      BY <1>4, <2>1
  <2>4. Here'.name /\ Here'.len = last
    BY <1>6, <1>10, <2>1
  <2>3. \A g \in pack.graveyard : g < pack.gen
    BY DEF Inv, PhaseInv
  <2> QED
    BY <1>1, <1>4, <1>8, <2>1, <2>2, <2>3, <2>4 DEF PhaseInv, Open
<1>13. ViewInv'
  BY <1>1, <1>6, <1>9 DEF Inv, ViewInv, Open, TypeOK, Views, Here
<1> QED
  BY <1>9, <1>11, <1>12, <1>13 DEF Inv

\* The first step of a commit, ordinary or migrating, keeps the invariant.
LEMMA CommitStep ==
    ASSUME Inv,
           MigrateCommit \/ \E objects, manifest \in SUBSET Objects : Commit(objects, manifest)
    PROVE  Inv'
BY AppendStep DEF MigrateCommit, Commit, Inv, TypeOK, Values, Manifests

\* Appending the seal keeps the invariant.
LEMMA CommitSealStep ==
    ASSUME Inv, CommitSeal
    PROVE  Inv'
<1> DEFINE end == Here.len + 1
           w   == [i \in {end} |-> wip.seal]
<1>1. /\ pc = "commit" /\ pc' = "sealed"
      /\ slots' = [slots EXCEPT ![pack.gen] = Write(Here, w, end)]
      /\ attempted' = attempted \cup {Value(wip.seal.seq, wip.seal.manifest)}
      /\ UNCHANGED <<pack, wip, views, source, committed, acked>>
  BY DEF CommitSeal, Here
<1>2. pack.gen \in Gens /\ GoodSlot(Here, pack.gen) /\ Here.len \in Offsets
  BY HereFacts
<1>3. /\ wip.seal \in SealRecords /\ wip.seal.gen = pack.gen
      /\ pack.sealed <= Here.len /\ Here.name /\ Here.len < MaxLen
  BY <1>1 DEF Inv, PhaseInv, Open
<1>4. end \in Offsets /\ Home(w, pack.gen)
  BY <1>2, <1>3, RecordsAssumption DEF Offsets, Home, Block
<1>5. /\ GoodSlot(Write(Here, w, end), pack.gen)
      /\ Write(Here, w, end).len = end
      /\ Write(Here, w, end).name = Here.name
  <2> HIDE DEF w, end
  <2> QED
    BY <1>2, <1>4, GoodWrite
<1>6. SlotsInv' /\ slots' \in [Gens -> Slot] /\ slots'[pack.gen] = Write(Here, w, end)
  <2> HIDE DEF w, end
  <2> QED
    BY <1>1, <1>2, <1>5, OneSlot
<1>7. attempted' \subseteq Values
  BY <1>1, <1>3 DEF Inv, TypeOK, Values, Value, SealRecords
<1>8. Here' = Write(Here, w, end)
  BY <1>1, <1>6 DEF Here
<1>9. pack.sealed <= end
  BY <1>2, <1>3 DEF Inv, TypeOK, Packs, Offsets
<1> HIDE DEF w, end
<1>10. TypeOK'
  BY <1>1, <1>6, <1>7 DEF Inv, TypeOK, Phases
<1>11. PhaseInv'
  BY <1>1, <1>3, <1>5, <1>8, <1>9 DEF Inv, PhaseInv, Open
<1>12. ViewInv'
  BY <1>1, <1>5, <1>6 DEF Inv, ViewInv, Open, TypeOK, Views, Here
<1> QED
  BY <1>6, <1>10, <1>11, <1>12 DEF Inv

\* A commit whose flush answers Ok keeps the invariant of the snapshot it publishes.
LEMMA CommitFlushStep ==
    ASSUME Inv, CommitFlush
    PROVE  Inv'
<1>1. /\ pc = "sealed" /\ pc' = "ready"
      /\ slots' = [slots EXCEPT ![pack.gen] = Flush(Here)]
      /\ wip' = NoWip /\ attempted' = {} /\ acked' = wip.seal.seq
      /\ committed' = Value(wip.seal.seq, wip.seal.manifest)
      /\ UNCHANGED <<views, source>>
  BY DEF CommitFlush, Publish, Here
<1>2. pack.gen \in Gens /\ GoodSlot(Here, pack.gen) /\ Here.len \in Offsets
  BY HereFacts
<1>3. wip.seal \in SealRecords /\ Here.name /\ pack.sealed <= Here.len
  BY <1>1 DEF Inv, PhaseInv, Open
<1>4. /\ GoodSlot(Flush(Here), pack.gen)
      /\ Flush(Here).len = Here.len /\ Flush(Here).name = Here.name
  BY <1>2, GoodFlush
<1>5. SlotsInv' /\ slots' \in [Gens -> Slot] /\ slots'[pack.gen] = Flush(Here)
  BY <1>1, <1>2, <1>4, OneSlot
<1>6. /\ pack' \in Packs /\ pack'.gen = pack.gen /\ pack'.sealed = Here.len
      /\ pack'.graveyard = pack.graveyard
  <2> DEFINE link  == [at |-> Here.len, check |-> SealCheck(wip.seal)]
             since == IF wip.seal.full THEN 0 ELSE pack.since + 1
  <2>1. pack \in Packs /\ wip \in Wips
    BY DEF Inv, TypeOK
  <2>2. pack' = [gen |-> pack.gen, salt |-> pack.salt, table |-> wip.table,
                 sealed |-> Here.len, seq |-> wip.seal.seq, last |-> link,
                 since |-> since, prov |-> wip.seal.prov, manifest |-> wip.seal.manifest,
                 graveyard |-> pack.graveyard]
    BY <2>1 DEF CommitFlush, Publish, Packs
  <2>3. link \in Links
    BY <1>2, <1>3, LinkTypes DEF Links, Offsets
  <2>4. since \in Nat
    BY <2>1 DEF Packs
  <2>5. wip.table \in Tables
    BY <2>1 DEF Wips
  <2>6. wip.seal.seq \in Nat /\ wip.seal.prov \in BOOLEAN /\ wip.seal.manifest \in Manifests
    BY <1>3 DEF SealRecords
  <2>7. pack.salt \in Nat /\ pack.graveyard \in SUBSET Gens
    BY <2>1 DEF Packs
  <2> HIDE DEF link, since
  <2>8. pack' \in Packs
    BY <1>2, <2>2, <2>3, <2>4, <2>5, <2>6, <2>7 DEF Packs
  <2>9. pack'.gen = pack.gen /\ pack'.sealed = Here.len /\ pack'.graveyard = pack.graveyard
    BY <2>2
  <2> QED
    BY <2>8, <2>9
<1>7. committed' \in Values /\ acked' \in Nat
  BY <1>1, <1>3 DEF Values, Value, SealRecords
<1>8. Here' = Flush(Here)
  BY <1>5, <1>6 DEF Here
<1>9. TypeOK'
  BY <1>1, <1>5, <1>6, <1>7, NoPackFacts DEF Inv, TypeOK, Phases
<1>10. PhaseInv'
  <2>1. Here.len \in Nat /\ \A g \in pack.graveyard : g < pack.gen
    BY <1>2 DEF Inv, PhaseInv, Offsets
  <2> QED
    <3>1. Here'.name /\ pack'.sealed <= Here'.len
      <4>1. Here'.name /\ Here'.len = Here.len
        BY <1>3, <1>4, <1>8
      <4>2. pack'.sealed = Here.len
        BY <1>6
      <4> QED
        BY <2>1, <4>1, <4>2
    <3>2. \A g \in pack'.graveyard : g < pack'.gen
      BY <1>6, <2>1
    <3> QED
      BY <1>1, <3>1, <3>2 DEF PhaseInv, Open
<1>11. ViewInv'
  <2> SUFFICES ASSUME NEW r \in Readers, views[r].held
               PROVE  /\ views[r].gen \in pack.graveyard \cup {pack.gen}
                      /\ slots'[views[r].gen].name
                      /\ views[r].gen = pack.gen => views[r].sealed <= Here.len
    BY <1>1, <1>6 DEF ViewInv, Open
  <2>1. /\ views[r].gen \in pack.graveyard \cup {pack.gen} /\ slots[views[r].gen].name
        /\ views[r].gen = pack.gen => views[r].sealed <= pack.sealed
    BY DEF Inv, ViewInv
  <2>2. views[r].gen \in Gens /\ views[r].sealed \in Nat /\ pack.sealed \in Nat /\ Here.len \in Nat
    BY <1>2 DEF Inv, TypeOK, Views, Packs, Offsets
  <2>3. slots'[views[r].gen].name
    BY <1>1, <1>4, <1>5, <2>1, <2>2 DEF Here, Inv, TypeOK
  <2> QED
    BY <1>3, <2>1, <2>2, <2>3
<1> QED
  BY <1>5, <1>9, <1>10, <1>11 DEF Inv

\* A failed flush poisons the writer and keeps the invariant.
LEMMA CommitFlushFailsStep ==
    ASSUME Inv, CommitFlushFails
    PROVE  Inv'
<1>1. /\ pc = "sealed" /\ pc' = "poisoned" /\ wip' = NoWip
      /\ slots' = [slots EXCEPT ![pack.gen] = FlushFailed(Here)]
      /\ UNCHANGED <<pack, views, source, observed>>
  BY DEF CommitFlushFails, Here
<1>2. /\ pack.gen \in Gens /\ GoodSlot(FlushFailed(Here), pack.gen)
      /\ FlushFailed(Here).len = Here.len /\ FlushFailed(Here).name = Here.name
  BY HereFacts, GoodFlushFailed
<1>3. SlotsInv' /\ slots' \in [Gens -> Slot] /\ slots'[pack.gen] = FlushFailed(Here)
  BY <1>1, <1>2, OneSlot
<1>4. Here' = FlushFailed(Here)
  BY <1>1, <1>3 DEF Here
<1>5. TypeOK'
  BY <1>1, <1>3, NoPackFacts DEF Inv, TypeOK, Phases, observed
<1>6. PhaseInv'
  BY <1>1, <1>2, <1>4 DEF Inv, PhaseInv, Open
<1>7. ViewInv'
  BY <1>1, <1>2, <1>3 DEF Inv, ViewInv, Open, TypeOK, Views, Here
<1> QED
  BY <1>3, <1>5, <1>6, <1>7 DEF Inv

\* Undoing a failed commit keeps the invariant: it cuts nothing that was published.
LEMMA CommitUndoStep ==
    ASSUME Inv, CommitUndo
    PROVE  Inv'
<1>1. /\ pc = "commit" /\ pc' = "ready" /\ wip' = NoWip
      /\ slots' = [slots EXCEPT ![pack.gen] = Truncate(Here, wip.undo)]
      /\ UNCHANGED <<pack, views, source, observed>>
  BY DEF CommitUndo, Here
<1>2. wip.undo \in Offsets /\ pack.sealed <= wip.undo /\ Here.name
  BY <1>1 DEF Inv, TypeOK, Wips, PhaseInv, Open
<1>3. /\ pack.gen \in Gens /\ GoodSlot(Truncate(Here, wip.undo), pack.gen)
      /\ Truncate(Here, wip.undo).len = wip.undo
      /\ Truncate(Here, wip.undo).name = Here.name
  BY <1>2, HereFacts, GoodTruncate
<1>4. SlotsInv' /\ slots' \in [Gens -> Slot] /\ slots'[pack.gen] = Truncate(Here, wip.undo)
  BY <1>1, <1>3, OneSlot
<1>5. Here' = Truncate(Here, wip.undo)
  BY <1>1, <1>4 DEF Here
<1>6. TypeOK'
  BY <1>1, <1>4, NoPackFacts DEF Inv, TypeOK, Phases, observed
<1>7. PhaseInv'
  BY <1>1, <1>2, <1>3, <1>5 DEF Inv, PhaseInv, Open
<1>8. ViewInv'
  BY <1>1, <1>2, <1>3, <1>4 DEF Inv, ViewInv, Open, TypeOK, Views, Here
<1> QED
  BY <1>4, <1>6, <1>7, <1>8 DEF Inv

\* A failed undo and the retirement of the source keep the invariant.
LEMMA QuietStep ==
    ASSUME Inv, CommitUndoFails \/ RetireSource
    PROVE  Inv'
<1>1. TypeOK'
  BY NoPackFacts DEF Inv, TypeOK, CommitUndoFails, RetireSource, observed, Phases
<1>2. SlotsInv'
  BY DEF Inv, SlotsInv, CommitUndoFails, RetireSource
<1>3. PhaseInv'
  BY DEF Inv, CommitUndoFails, RetireSource, PhaseInv, Open, Here
<1>4. ViewInv'
  BY DEF Inv, CommitUndoFails, RetireSource, ViewInv, Open
<1> QED
  BY <1>1, <1>2, <1>3, <1>4 DEF Inv

-----------------------------------------------------------------------------
(* Compacting.                                                              *)

\* A held view's generation is at most the writer's.
LEMMA ViewsBehind ==
    ASSUME Inv, NEW r \in Readers, views[r].held
    PROVE  views[r].gen \in Gens /\ views[r].gen <= pack.gen /\ pack.gen \in Gens
BY DEF Inv, ViewInv, PhaseInv, TypeOK, Views, Packs, Gens

\* Starting a successor generation keeps the invariant.
LEMMA CompactStep ==
    ASSUME Inv, Compact
    PROVE  Inv'
<1> DEFINE next == pack.gen + 1
<1>1. PICK after \in Swept(slots, {next}), salt \in FreshSalts(slots[next]) :
        /\ slots' = [after EXCEPT ![next] = InitSlot(after[next], salt)]
        /\ wip' = [NoWip EXCEPT !.seal = Header(salt)]
  BY DEF Compact
<1>2. /\ pc = "ready" /\ pc' = "header" /\ pack.gen < MaxGen
      /\ UNCHANGED <<pack, views, source, observed>>
  BY DEF Compact
<1>3. pack.gen \in Gens /\ next \in Gens /\ next # pack.gen
  BY <1>2, RecordsAssumption DEF Inv, TypeOK, Packs, Gens
<1>4. /\ after \in [Gens -> Slot] /\ \A h \in Gens : GoodSlot(after[h], h)
      /\ \A h \in Gens : h # next => after[h] = slots[h]
  BY SweptFacts DEF Inv, TypeOK, SlotsInv
<1>5. salt \in FreshSalts(after[next])
  BY <1>3, SweptFresh DEF Inv, TypeOK
<1>6. /\ GoodSlot(InitSlot(after[next], salt), next) /\ InitSlot(after[next], salt).name
      /\ Header(salt) \in HeaderRecords
  BY <1>3, <1>4, <1>5, InitSlotFacts
<1> HIDE DEF next
<1>7. /\ SlotsInv' /\ slots' \in [Gens -> Slot] /\ slots'[next].name
      /\ \A h \in Gens : h # next => slots'[h] = slots[h]
  BY <1>1, <1>3, <1>4, <1>6 DEF SlotsInv, GoodSlot
<1>8. wip' \in Wips /\ wip'.seal \in HeaderRecords
  BY <1>1, <1>6, NoPackFacts DEF NoWip, Wips, Block
<1>9. TypeOK'
  BY <1>2, <1>7, <1>8 DEF Inv, TypeOK, Phases, observed
<1>10. PhaseInv'
  <2>1. Here' = Here
    BY <1>2, <1>3, <1>7 DEF Here
  <2> QED
    BY <1>2, <1>7, <1>8, <2>1 DEF Inv, PhaseInv, Open, next
<1>11. ViewInv'
  <2>1. \A r \in Readers : views[r].held => views[r].gen \in Gens /\ views[r].gen # next
    BY <1>3, ViewsBehind DEF next, Gens
  <2> QED
    BY <1>2, <1>7, <2>1 DEF Inv, ViewInv, Open
<1> QED
  BY <1>7, <1>9, <1>10, <1>11 DEF Inv

\* What an abandoned compaction leaves of its successor.
LEMMA CompactFailsSlots ==
    ASSUME Inv, CompactFails, NEW next, next = pack.gen + 1
    PROVE  /\ next \in Gens /\ next # pack.gen
           /\ slots' \in [Gens -> Slot] /\ \A g \in Gens : GoodSlot(slots'[g], g)
           /\ \A g \in Gens : g # next => slots'[g] = slots[g]
           /\ slots'[next] \in {slots[next], FlushFailed(slots[next]), Remove(slots[next])}
           /\ ~RemovalFails => slots'[next] = Remove(slots[next])
<1>1. PICK left \in {slots[next], FlushFailed(slots[next])} :
        slots' \in Swept([slots EXCEPT ![next] = left], {next})
  BY DEF CompactFails
<1>2. pc \in {"header", "successor"}
  BY DEF CompactFails
<1>3. next \in Gens /\ next # pack.gen /\ slots[next].name
  BY <1>2, RecordsAssumption DEF Inv, TypeOK, Packs, Gens, PhaseInv
<1>4. slots \in [Gens -> Slot] /\ \A g \in Gens : GoodSlot(slots[g], g)
  BY DEF Inv, TypeOK, SlotsInv
<1>5. GoodSlot(left, next) /\ left \in Slot
  BY <1>1, <1>3, <1>4, GoodFlushFailed DEF GoodSlot
<1>6. Remove(left) = Remove(slots[next])
  BY <1>1, <1>3, <1>4 DEF Slot, FlushFailed, Remove
<1> DEFINE files == [slots EXCEPT ![next] = left]
<1>7. /\ files \in [Gens -> Slot] /\ \A g \in Gens : GoodSlot(files[g], g)
      /\ files[next] = left /\ \A g \in Gens : g # next => files[g] = slots[g]
  BY <1>3, <1>4, <1>5
<1> HIDE DEF files
<1>8. PICK after \in Swept(files, {next}) : slots' = after
  BY <1>1 DEF files
<1>9. /\ after \in [Gens -> Slot] /\ \A g \in Gens : GoodSlot(after[g], g)
      /\ \A g \in Gens : g # next => after[g] = files[g]
  BY <1>7, SweptFacts
<1>10. after[next] \in {left, Remove(left)} /\ (~RemovalFails => after[next] = Remove(left))
  BY <1>3, <1>7 DEF Swept
<1> QED
  BY <1>1, <1>3, <1>6, <1>7, <1>8, <1>9, <1>10

\* An abandoned compaction keeps the invariant.
LEMMA CompactFailsStep ==
    ASSUME Inv, CompactFails
    PROVE  Inv'
<1> DEFINE next == pack.gen + 1
<1>1. /\ pc \in {"header", "successor"} /\ pc' = "ready" /\ wip' = NoWip
      /\ UNCHANGED <<pack, views, source, observed>>
  BY DEF CompactFails
<1>2. pack.gen \in Gens /\ next # pack.gen
  BY DEF Inv, TypeOK, Packs, Gens
<1>3. SlotsInv' /\ slots' \in [Gens -> Slot] /\ \A h \in Gens : h # next => slots'[h] = slots[h]
  BY CompactFailsSlots DEF SlotsInv
<1> HIDE DEF next
<1>4. TypeOK'
  BY <1>1, <1>3, NoPackFacts DEF Inv, TypeOK, Phases, observed
<1>5. PhaseInv'
  <2>1. Here' = Here
    BY <1>1, <1>2, <1>3 DEF Here
  <2> QED
    BY <1>1, <2>1 DEF Inv, PhaseInv, Open
<1>6. ViewInv'
  <2>1. \A r \in Readers : views[r].held => views[r].gen \in Gens /\ views[r].gen # next
    BY <1>2, ViewsBehind DEF next, Gens
  <2> QED
    BY <1>1, <1>3, <2>1 DEF Inv, ViewInv, Open
<1> QED
  BY <1>3, <1>4, <1>5, <1>6 DEF Inv

\* Copying the live objects and the birth seal into the successor keeps the invariant.
LEMMA CompactCopyStep ==
    ASSUME Inv, NEW live, CompactCopy(live)
    PROVE  Inv'
<1> DEFINE next  == pack.gen + 1
           keep  == DOMAIN pack.table \cap live
           count == Cardinality(keep)
           table == Placed(keep, 0)
           seal  == [kind |-> "seal", salt |-> wip.seal.salt, gen |-> next, seq |-> pack.seq,
                     prev |-> NoLink, added |-> NoTable, full |-> TRUE, base |-> table,
                     prov |-> FALSE, manifest |-> pack.manifest]
           objs  == ObjectRecords(keep, 0)
           w     == Merge(objs, [i \in {count + 1} |-> seal])
           old   == slots[next]
<1>1. /\ pc = "header" /\ pc' = "successor" /\ Fits(keep, 0)
      /\ slots' = [slots EXCEPT ![next] = Write(Flush(old), w, count + 1)]
      /\ wip' = [NoWip EXCEPT !.seal = seal, !.table = table]
      /\ UNCHANGED <<pack, views, source, observed>>
  BY DEF CompactCopy
<1>2. /\ pack \in Packs /\ pack.gen \in Gens /\ pack.gen < MaxGen /\ old.name
      /\ wip.seal \in HeaderRecords
  BY <1>1 DEF Inv, TypeOK, PhaseInv, Packs
<1>3. next \in Gens /\ next # pack.gen
  BY <1>2, RecordsAssumption DEF Gens
<1>4. keep \in SUBSET Objects /\ 0 \in Offsets
  BY <1>2, TableFacts, RecordsAssumption DEF Packs, Offsets
<1>5. count \in Nat /\ count + 1 \in Offsets /\ table \in Tables
  <2>1. count \in Nat /\ 0 + count < MaxLen /\ table \in Tables
    BY <1>1, <1>4, PlacedFacts
  <2> QED
    BY <2>1, RecordsAssumption DEF Offsets
<1>6. seal \in SealRecords /\ seal.gen = next
  <2>1. wip.seal.salt \in Nat /\ pack.seq \in Nat /\ pack.manifest \in Manifests
    BY <1>2 DEF HeaderRecords, Packs
  <2>2. next \in 0 .. MaxGen /\ NoLink \in Links /\ NoTable \in Tables
    BY <1>3, NoTableType, LinkTypes DEF Gens
  <2> HIDE DEF next, table
  <2> QED
    BY <1>5, <2>1, <2>2 DEF SealRecords
<1>7. Home(w, next)
  <2>1. \A i \in DOMAIN objs : objs[i] \in Block /\ objs[i].kind # "seal"
    BY <1>1, <1>4, ObjectRecordsFacts DEF Block, ObjectPayloads
  <2> HIDE DEF objs, seal, count
  <2> QED
    BY <1>6, <2>1 DEF Home, Merge, Block
<1>8. GoodSlot(old, next)
  BY <1>3 DEF Inv, SlotsInv
<1>9. GoodSlot(Flush(old), next) /\ Flush(old).name
  BY <1>2, <1>8, GoodFlush
<1>10. /\ GoodSlot(Write(Flush(old), w, count + 1), next)
       /\ Write(Flush(old), w, count + 1).name
  <2> HIDE DEF w, count, old, next
  <2> QED
    BY <1>5, <1>7, <1>9, GoodWrite
<1>11. wip' \in Wips /\ wip'.seal \in SealRecords
  <2> HIDE DEF seal, table
  <2>1. wip' = [seal |-> seal, table |-> table, undo |-> 0]
    BY <1>1 DEF NoWip
  <2> QED
    BY <1>4, <1>5, <1>6, <2>1 DEF Wips, Block
<1> HIDE DEF w, count, seal, table, keep, objs, old, next
<1>12. /\ SlotsInv' /\ slots' \in [Gens -> Slot] /\ slots'[next].name
       /\ \A h \in Gens : h # next => slots'[h] = slots[h]
  BY <1>1, <1>3, <1>10, OneSlot
<1>13. TypeOK'
  BY <1>1, <1>11, <1>12 DEF Inv, TypeOK, Phases, observed
<1>14. PhaseInv'
  <2>1. Here' = Here
    BY <1>1, <1>2, <1>3, <1>12 DEF Here
  <2> QED
    BY <1>1, <1>2, <1>11, <1>12, <2>1 DEF Inv, PhaseInv, Open, next
<1>15. ViewInv'
  <2>1. \A r \in Readers : views[r].held => views[r].gen \in Gens /\ views[r].gen # next
    BY <1>2, ViewsBehind DEF next, Gens
  <2> QED
    BY <1>1, <1>12, <2>1 DEF Inv, ViewInv, Open
<1> QED
  BY <1>12, <1>13, <1>14, <1>15 DEF Inv

\* The swap: the successor's slot survives the sweep, and so does every retired
\* generation that a held view still names.
LEMMA CompactSwapStep ==
    ASSUME Inv, CompactSwap
    PROVE  Inv'
<1> DEFINE next    == pack.gen + 1
           retired == pack.graveyard \cup {pack.gen}
           gone    == retired \ Pinned
<1>1. PICK after \in Swept(slots, gone) : slots' = [after EXCEPT ![next] = Flush(after[next])]
  BY DEF CompactSwap
<1>2. /\ pc = "successor" /\ pc' = "ready" /\ wip' = NoWip
      /\ UNCHANGED <<views, source, observed>>
  BY DEF CompactSwap
<1>3. /\ pack \in Packs /\ pack.gen \in Gens /\ pack.gen < MaxGen /\ slots[next].name
      /\ wip.seal \in SealRecords /\ wip \in Wips
      /\ \A g \in pack.graveyard : g < pack.gen
  BY <1>2 DEF Inv, TypeOK, PhaseInv, Packs
<1>4. next \in Gens /\ next # pack.gen /\ next \notin gone /\ \A g \in retired : g \in Gens /\ g < next
  BY <1>3, RecordsAssumption DEF Gens, Packs
<1>5. /\ after \in [Gens -> Slot] /\ \A h \in Gens : GoodSlot(after[h], h)
      /\ \A h \in Gens : h \notin gone => after[h] = slots[h]
  BY SweptFacts DEF Inv, TypeOK, SlotsInv
<1>6. /\ GoodSlot(Flush(slots[next]), next) /\ Flush(slots[next]).name
      /\ Flush(slots[next]).len = slots[next].len /\ slots[next].len \in Offsets
  BY <1>3, <1>4, GoodFlush DEF Inv, SlotsInv, GoodSlot, Slot
<1> HIDE DEF next, retired, gone
<1>7. slots' = [after EXCEPT ![next] = Flush(slots[next])]
  BY <1>1, <1>4, <1>5
<1>8. /\ SlotsInv' /\ slots' \in [Gens -> Slot] /\ slots'[next] = Flush(slots[next])
      /\ \A h \in Gens : h \notin gone /\ h # next => slots'[h] = slots[h]
  BY <1>4, <1>5, <1>6, <1>7 DEF SlotsInv, GoodSlot
<1>9. /\ pack' \in Packs /\ pack'.gen = next /\ pack'.sealed = slots[next].len
      /\ pack'.graveyard = retired \cap Pinned
  <2> DEFINE len  == slots[next].len
             link == [at |-> len, check |-> SealCheck(wip.seal)]
             kept == retired \cap Pinned
  <2>1. pack' = [gen |-> next, salt |-> wip.seal.salt, table |-> wip.table, sealed |-> len,
                 seq |-> pack.seq, last |-> link, since |-> 0, prov |-> pack.prov,
                 manifest |-> pack.manifest, graveyard |-> kept]
    BY <1>3 DEF CompactSwap, Packs, next, retired
  <2>2. link \in Links
    BY <1>3, <1>6, LinkTypes DEF Links, Offsets
  <2>3. kept \in SUBSET Gens
    BY <1>4
  <2>4. wip.seal.salt \in Nat /\ wip.table \in Tables
    BY <1>3 DEF SealRecords, Wips
  <2>5. pack.seq \in Nat /\ pack.prov \in BOOLEAN /\ pack.manifest \in Manifests
    BY <1>3 DEF Packs
  <2> HIDE DEF link, kept
  <2>6. pack' \in Packs
    BY <1>4, <1>6, <2>1, <2>2, <2>3, <2>4, <2>5 DEF Packs
  <2>7. pack'.gen = next /\ pack'.sealed = len /\ pack'.graveyard = kept
    BY <2>1
  <2> QED
    BY <2>6, <2>7 DEF kept
<1>10. TypeOK'
  BY <1>2, <1>8, <1>9, NoPackFacts DEF Inv, TypeOK, Phases, observed
<1>11. PhaseInv'
  <2>1. Here'.name /\ Here'.len = slots[next].len /\ slots[next].len \in Nat
    BY <1>6, <1>8, <1>9 DEF Here, Offsets
  <2>2. \A g \in pack'.graveyard : g < pack'.gen
    BY <1>4, <1>9
  <2> QED
    BY <1>2, <1>9, <2>1, <2>2 DEF PhaseInv, Open
<1>12. ViewInv'
  <2> SUFFICES ASSUME NEW r \in Readers, views[r].held
               PROVE  /\ views[r].gen \in pack'.graveyard
                      /\ slots'[views[r].gen].name
                      /\ views[r].gen # pack'.gen
    BY <1>2 DEF ViewInv, Open
  <2>1. views[r].gen \in retired /\ slots[views[r].gen].name
    BY DEF Inv, ViewInv, retired
  <2>2. views[r].gen \in Pinned
    BY DEF Pinned
  <2>3. views[r].gen \in Gens /\ views[r].gen # next /\ views[r].gen \notin gone
    BY <1>4, <2>1, <2>2 DEF gone, Gens
  <2> QED
    BY <1>8, <1>9, <2>1, <2>2, <2>3
<1> QED
  BY <1>8, <1>10, <1>11, <1>12 DEF Inv

-----------------------------------------------------------------------------
(***************************************************************************)
(* The theorems.                                                           *)
(***************************************************************************)

\* Every step of the pack log keeps the invariant.
LEMMA NextStep ==
    ASSUME Inv, Next
    PROVE  Inv'
<1>1. CASE OpenElected
  BY <1>1, OpenElectedStep
<1>2. CASE OpenTrimmed \/ OpenFounded
  BY <1>2, OpenFlushedStep
<1>3. CASE OpenFresh
  BY <1>3, OpenFreshStep
<1>4. CASE OpenRefused
  BY <1>4, OpenRefusedStep
<1>5. CASE OpenFlushFails
  BY <1>5, OpenFlushFailsStep
<1>6. CASE Stillborn
  BY <1>6, StillbornStep
<1>7. CASE MigrateCommit \/ \E objects, manifest \in SUBSET Objects : Commit(objects, manifest)
  BY <1>7, CommitStep
<1>8. CASE CommitSeal
  BY <1>8, CommitSealStep
<1>9. CASE CommitFlush
  BY <1>9, CommitFlushStep
<1>10. CASE CommitFlushFails
  BY <1>10, CommitFlushFailsStep
<1>11. CASE CommitUndo
  BY <1>11, CommitUndoStep
<1>12. CASE CommitUndoFails \/ RetireSource
  BY <1>12, QuietStep
<1>13. CASE Compact
  BY <1>13, CompactStep
<1>14. ASSUME NEW dead \in SUBSET Objects, CompactCopy(Objects \ dead) PROVE Inv'
  BY <1>14, CompactCopyStep
<1>15. CASE CompactSwap
  BY <1>15, CompactSwapStep
<1>16. CASE CompactFails
  BY <1>16, CompactFailsStep
<1>17. ASSUME NEW r \in Readers, TakeView(r) \/ DropView(r) PROVE Inv'
  BY <1>17, ReaderStep
<1>18. CASE Close \/ Restart \/ PowerLoss
  BY <1>18, InterruptStep
<1>19. CASE PowerBack
  BY <1>19, PowerBackStep
<1>20. ASSUME NEW g \in Gens, Survive(g) PROVE Inv'
  BY <1>20, SurviveStep
<1> QED
  BY <1>1, <1>2, <1>3, <1>4, <1>5, <1>6, <1>7, <1>8, <1>9, <1>10, <1>11, <1>12,
     <1>13, <1>14, <1>15, <1>16, <1>17, <1>18, <1>19, <1>20 DEF Next

\* A stuttering step keeps the invariant.
LEMMA StutterStep ==
    ASSUME Inv, UNCHANGED vars
    PROVE  Inv'
<1>1. UNCHANGED <<slots, pc, pack, wip, views, source, committed, attempted, acked>>
  BY DEF vars, observed
<1>2. TypeOK' /\ SlotsInv'
  BY <1>1 DEF Inv, TypeOK, SlotsInv
<1>3. PhaseInv'
  BY <1>1 DEF Inv, PhaseInv, Here
<1>4. ViewInv'
  BY <1>1 DEF Inv, ViewInv
<1> QED
  BY <1>2, <1>3, <1>4 DEF Inv

\* The inductive invariant holds in every reachable state.
THEOREM InvHolds == Spec => []Inv
<1>1. Init => Inv
  BY InitInv
<1>2. Inv /\ [Next]_vars => Inv'
  BY NextStep, StutterStep
<1> QED
  BY <1>1, <1>2, PTL DEF Spec

\* The fields of PackStore, the slots of the medium and the views stay in their
\* types, whatever the interleaving of commits, compactions and interruptions:
\* in particular no open recovers a table, link or sequence that is not one.
THEOREM TypeCorrect == Spec => []TypeOK
<1>1. Inv => TypeOK
  BY DEF Inv
<1> QED
  BY <1>1, InvHolds, PTL

\* Only the commit's flush turns a sealed commit into an idle, open store.
LEMMA AckIsFlush ==
    ASSUME Inv, Next, pc = "sealed", pc' = "ready"
    PROVE  CommitFlush
BY DEF Next, OpenElected, OpenTrimmed, OpenFresh, OpenFounded, OpenRefused, OpenFlushFails,
       Stillborn, Commit, MigrateCommit, CommitSeal, CommitFlushFails, CommitUndo,
       CommitUndoFails, RetireSource, Compact, CompactCopy, CompactSwap, CompactFails,
       TakeView, DropView, Close, Restart, PowerLoss, PowerBack, Survive

-----------------------------------------------------------------------------
(***************************************************************************)
(* Slots stay clean.  Where a kernel may mark the pages of a failed sync   *)
(* clean, it is the poison that keeps the writer from building on them: a  *)
(* writer whose flush failed never writes or flushes again.  The successor *)
(* of an abandoned compaction is kept from it by being removed.            *)
(***************************************************************************)

CleanInv == pc \notin {"poisoned", "dark"} => \A g \in Gens : CleanSlot(slots[g])

\* What every operation of a medium but a failed flush leaves of a clean slot.
LEMMA CleanOps ==
    ASSUME NEW s \in Slot, CleanSlot(s)
    PROVE  /\ \A w, end : CleanSlot(Write(s, w, end))
           /\ \A n : CleanSlot(Truncate(s, n))
           /\ CleanSlot(Flush(s)) /\ CleanSlot(Remove(s))
           /\ s.name => \A i \in Offsets : Flush(s).disk[i] = {Flush(s).vol[i]}
<1>1. ASSUME NEW w, NEW end PROVE CleanSlot(Write(s, w, end))
  BY DEF Slot, Write, CleanSlot
<1>2. ASSUME NEW n PROVE CleanSlot(Truncate(s, n))
  BY DEF Slot, Truncate, CleanSlot
<1>3. s.name => \A i \in Offsets : Flush(s).disk[i] = {Flush(s).vol[i]}
  BY DEF Slot, Flush, CleanSlot
<1>4. Flush(s).name = s.name
  BY DEF Slot, Flush
<1>5. CleanSlot(Flush(s))
  BY <1>3, <1>4 DEF CleanSlot
<1>6. CleanSlot(Remove(s))
  BY DEF Slot, Remove, CleanSlot
<1> QED
  BY <1>1, <1>2, <1>3, <1>5, <1>6

LEMMA CleanBirth ==
    ASSUME NEW s, NEW g, GoodSlot(s, g), NEW salt
    PROVE  CleanSlot(InitSlot(s, salt))
<1>1. Create(s) \in Slot
  BY GoodCreate DEF GoodSlot
<1>2. CleanSlot(Create(s))
  BY DEF Create, CleanSlot
<1> QED
  BY <1>1, <1>2, CleanOps DEF InitSlot

LEMMA CleanSwept ==
    ASSUME SlotsInv, \A g \in Gens : CleanSlot(slots[g]), NEW gone, NEW after \in Swept(slots, gone)
    PROVE  \A g \in Gens : CleanSlot(after[g]) /\ GoodSlot(after[g], g)
<1>1. \A g \in Gens : after[g] \in {slots[g], Remove(slots[g])}
  BY DEF Swept
<1>2. \A g \in Gens : GoodSlot(after[g], g)
  BY <1>1, GoodRemove DEF SlotsInv
<1>3. \A g \in Gens : CleanSlot(Remove(slots[g]))
  BY CleanOps DEF SlotsInv, GoodSlot
<1> QED
  BY <1>1, <1>2, <1>3

\* A step that rewrites one slot, and may have removed others.
LEMMA CleanExcept ==
    ASSUME NEW files, \A g \in Gens : CleanSlot(files[g]), DOMAIN files = Gens,
           NEW k, NEW s, CleanSlot(s), slots' = [files EXCEPT ![k] = s]
    PROVE  CleanInv'
BY DEF CleanInv

LEMMA NextClean ==
    ASSUME Inv, CleanInv, ~Restarts, ~RemovalFails, Next
    PROVE  CleanInv'
<1>0. /\ slots \in [Gens -> Slot] /\ SlotsInv /\ DOMAIN slots = Gens
      /\ \A g \in Gens : slots[g] \in Slot /\ GoodSlot(slots[g], g)
  BY DEF Inv, TypeOK, SlotsInv
<1> DEFINE AllClean == \A g \in Gens : CleanSlot(slots[g])
<1>1. pc \notin {"poisoned", "dark"} => AllClean
  BY DEF CleanInv
<1>2. AllClean => \A g \in Gens : /\ \A w, end : CleanSlot(Write(slots[g], w, end))
                                  /\ \A n : CleanSlot(Truncate(slots[g], n))
                                  /\ CleanSlot(Flush(slots[g])) /\ CleanSlot(Remove(slots[g]))
  BY <1>0, CleanOps
<1>3. ASSUME AllClean, NEW gone, NEW after \in Swept(slots, gone)
      PROVE  /\ DOMAIN after = Gens
             /\ \A g \in Gens : CleanSlot(after[g]) /\ GoodSlot(after[g], g) /\ after[g] \in Slot
  BY <1>0, <1>3, CleanSwept DEF Swept, GoodSlot
<1>4. pack.gen \in Gens
  BY DEF Inv, TypeOK, Packs
<1>5. CASE OpenElected
  <2>1. pc = "down"
    BY <1>5 DEF OpenElected
  <2>2. PICK g, after : /\ g \in Gens /\ after \in Swept(slots, Found \ {g})
                        /\ slots' = [after EXCEPT ![g] = Truncate(after[g], Elected(slots[g].vol))]
    BY <1>5 DEF OpenElected, Sound, Found
  <2>3. /\ DOMAIN after = Gens /\ after[g] \in Slot
        /\ \A h \in Gens : CleanSlot(after[h])
    BY <1>1, <1>3, <2>1, <2>2
  <2>4. CleanSlot(Truncate(after[g], Elected(slots[g].vol)))
    BY <2>2, <2>3, CleanOps
  <2> QED
    BY <2>2, <2>3, <2>4, CleanExcept
<1>6. CASE OpenFresh \/ Compact
  <2>1. PICK k, gone, after, salt :
             /\ k \in Gens /\ after \in Swept(slots, gone) /\ AllClean
             /\ slots' = [after EXCEPT ![k] = InitSlot(after[k], salt)]
    <3>1. CASE OpenFresh
      <4>1. PICK after \in Swept(slots, Found), salt \in FreshSalts(slots[0]) :
                 slots' = [after EXCEPT ![0] = InitSlot(after[0], salt)]
        BY <3>1 DEF OpenFresh
      <4>2. 0 \in Gens /\ pc = "down"
        BY <3>1, RecordsAssumption DEF Gens, OpenFresh
      <4> QED
        BY <1>1, <4>1, <4>2
    <3>2. CASE Compact
      <4>1. PICK after \in Swept(slots, {pack.gen + 1}), salt \in FreshSalts(slots[pack.gen + 1]) :
                 slots' = [after EXCEPT ![pack.gen + 1] = InitSlot(after[pack.gen + 1], salt)]
        BY <3>2 DEF Compact
      <4>2. pack.gen + 1 \in Gens /\ pc = "ready"
        BY <1>4, <3>2, RecordsAssumption DEF Gens, Compact
      <4> QED
        BY <1>1, <4>1, <4>2
    <3> QED
      BY <1>6, <3>1, <3>2
  <2>2. CleanSlot(InitSlot(after[k], salt))
    BY <1>3, <2>1, CleanBirth
  <2> QED
    BY <1>3, <2>1, <2>2, CleanExcept
<1>7. CASE OpenTrimmed \/ OpenFounded \/ CommitFlush
  <2>0. 0 \in Gens
    BY RecordsAssumption DEF Gens
  <2>1. \E k \in Gens : slots' = [slots EXCEPT ![k] = Flush(slots[k])]
    BY <1>4, <1>7, <2>0 DEF OpenTrimmed, OpenFounded, CommitFlush
  <2>2. pc \in {"trimming", "founding", "sealed"}
    BY <1>7 DEF OpenTrimmed, OpenFounded, CommitFlush
  <2>3. AllClean
    BY <1>1, <2>2
  <2> QED
    BY <1>0, <1>2, <1>4, <2>1, <2>3, CleanExcept
<1>8. CASE MigrateCommit \/ CommitSeal \/ \E objects, manifest \in SUBSET Objects : Commit(objects, manifest)
  <2>1. AllClean /\ \E w, end : slots' = [slots EXCEPT ![pack.gen] = Write(slots[pack.gen], w, end)]
    BY <1>1, <1>8 DEF MigrateCommit, Commit, AppendObjects, CommitSeal
  <2> QED
    BY <1>0, <1>2, <1>4, <2>1, CleanExcept
<1>9. CASE CommitUndo
  <2>1. slots' = [slots EXCEPT ![pack.gen] = Truncate(slots[pack.gen], wip.undo)] /\ AllClean
    BY <1>1, <1>9 DEF CommitUndo
  <2> QED
    BY <1>0, <1>2, <1>4, <2>1, CleanExcept
<1>10. CASE \E dead \in SUBSET Objects : CompactCopy(Objects \ dead)
  <2>1. /\ pc = "header"
        /\ \E w, end : slots' = [slots EXCEPT ![pack.gen + 1] = Write(Flush(slots[pack.gen + 1]), w, end)]
    BY <1>10 DEF CompactCopy
  <2>2. AllClean /\ pack.gen + 1 \in Gens
    BY <1>1, <1>4, <2>1, RecordsAssumption DEF Inv, PhaseInv, Gens
  <2>3. Flush(slots[pack.gen + 1]) \in Slot /\ CleanSlot(Flush(slots[pack.gen + 1]))
    BY <1>0, <1>2, <2>2, GoodFlush DEF GoodSlot
  <2>4. \A w, end : CleanSlot(Write(Flush(slots[pack.gen + 1]), w, end))
    BY <2>3, CleanOps
  <2> QED
    BY <1>0, <2>1, <2>2, <2>4, CleanExcept
<1>11. CASE CompactSwap
  <2>1. pc = "successor"
    BY <1>11 DEF CompactSwap
  <2>2. PICK gone, after : /\ after \in Swept(slots, gone)
                           /\ slots' = [after EXCEPT ![pack.gen + 1] = Flush(after[pack.gen + 1])]
    BY <1>11 DEF CompactSwap
  <2>3. pack.gen + 1 \in Gens
    BY <1>4, <2>1, RecordsAssumption DEF Inv, PhaseInv, Gens
  <2>4. /\ DOMAIN after = Gens /\ after[pack.gen + 1] \in Slot
        /\ \A h \in Gens : CleanSlot(after[h])
    BY <1>1, <1>3, <2>1, <2>2, <2>3
  <2>5. CleanSlot(Flush(after[pack.gen + 1]))
    BY <2>3, <2>4, CleanOps
  <2> QED
    BY <2>2, <2>4, <2>5, CleanExcept
<1>12. CASE CompactFails
  <2>1. AllClean
    BY <1>1, <1>12 DEF CompactFails
  <2>2. \A g \in Gens : slots'[g] \in {slots[g], Remove(slots[g])}
    BY <1>12, CompactFailsSlots
  <2> QED
    BY <1>2, <2>1, <2>2 DEF CleanInv
<1>13. CASE Stillborn
  <2>1. AllClean
    BY <1>1, <1>13 DEF Stillborn
  <2>2. \A g \in Gens : slots'[g] \in {slots[g], Remove(slots[g])}
    BY <1>13, StillbornSlots
  <2> QED
    BY <1>2, <2>1, <2>2 DEF CleanInv
<1>14. CASE CommitFlushFails \/ CommitUndoFails \/ PowerLoss \/ \E g \in Gens : Survive(g)
  BY <1>14 DEF CommitFlushFails, CommitUndoFails, PowerLoss, Survive, CleanInv
<1>15. CASE OpenRefused \/ RetireSource \/ Close \/ \E r \in Readers : TakeView(r) \/ DropView(r)
  BY <1>1, <1>15 DEF OpenRefused, RetireSource, Close, TakeView, DropView, CleanInv
<1>16. CASE PowerBack
  BY <1>16 DEF PowerBack, Settled, CleanSlot, CleanInv
<1>17. ~OpenFlushFails /\ ~Restart
  BY DEF OpenFlushFails, Restart
<1> QED
  BY <1>5, <1>6, <1>7, <1>8, <1>9, <1>10, <1>11, <1>12, <1>13, <1>14, <1>15, <1>16, <1>17 DEF Next

LEMMA InitClean == Init => CleanInv
BY DEF Init, CleanInv, CleanSlot, Absent

LEMMA StutterClean ==
    ASSUME CleanInv, UNCHANGED vars
    PROVE  CleanInv'
BY DEF CleanInv, vars

\* Either is enough for a flush to find every block it must write dirty: a failed sync
\* keeps its pages dirty, or nothing a failed sync left is opened again: no store is
\* reopened over it, and the successor of an abandoned compaction does go.
LEMMA StaysClean ==
    ASSUME ~FlushDropsPages \/ (~Restarts /\ ~RemovalFails)
    PROVE  Spec => []CleanInv
<1>1. CASE ~FlushDropsPages
  <2>1. Inv => CleanInv
    BY <1>1 DEF Inv, SlotsInv, GoodSlot, CleanInv
  <2> QED
    BY <2>1, InvHolds, PTL
<1>2. CASE ~Restarts /\ ~RemovalFails
  <2>1. Inv /\ CleanInv /\ [Next]_vars => CleanInv'
    BY <1>2, NextClean, StutterClean
  <2> QED
    BY <2>1, InitClean, InvHolds, PTL DEF Spec
<1> QED
  BY <1>1, <1>2

\* PackStore::commit: when the flush answers Ok, every block the published
\* snapshot covers is on the disk and can no longer be lost.  Where a kernel marks the
\* pages of a failed sync clean it needs that no store is opened over them, neither over
\* a slot whose commit failed nor over the successor of an abandoned compaction that could
\* not be removed: else the next successful flush acknowledges bytes never written.
THEOREM AckDurable ==
    ASSUME ~FlushDropsPages \/ (~Restarts /\ ~RemovalFails)
    PROVE  Spec => AckMeansDurable
<1> DEFINE Durable == pc = "sealed" /\ pc' = "ready" =>
             \A i \in 0 .. pack'.sealed :
                slots'[pack'.gen].disk[i] = {slots'[pack'.gen].vol[i]}
<1>1. ASSUME Inv, CleanInv, Next PROVE Durable
  <2> SUFFICES ASSUME pc = "sealed", pc' = "ready"
               PROVE  \A i \in 0 .. pack'.sealed :
                        slots'[pack'.gen].disk[i] = {slots'[pack'.gen].vol[i]}
    OBVIOUS
  <2>1. CommitFlush
    BY <1>1, AckIsFlush
  <2>2. pack.gen \in Gens /\ GoodSlot(Here, pack.gen) /\ Here.name /\ Here.len \in Offsets
    BY <1>1, HereFacts DEF Inv, PhaseInv, Open
  <2>3. \A i \in Offsets : Flush(Here).disk[i] = {Flush(Here).vol[i]}
    BY <1>1, <2>2, CleanOps DEF CleanInv, GoodSlot, Here
  <2>4. slots'[pack.gen] = Flush(Here)
    BY <1>1, <2>1, <2>2 DEF CommitFlush, Publish, Here, Inv, TypeOK
  <2>5. pack'.gen = pack.gen /\ pack'.sealed = Here.len
    BY <1>1, <2>1 DEF CommitFlush, Publish, Inv, TypeOK, Packs
  <2>6. 0 .. pack'.sealed \subseteq Offsets
    BY <2>2, <2>5, RecordsAssumption DEF Offsets
  <2> QED
    BY <2>3, <2>4, <2>5, <2>6
<1>2. ASSUME UNCHANGED vars PROVE Durable
  BY <1>2 DEF vars
<1>3. Inv /\ CleanInv /\ [Next]_vars => [Durable]_vars
  BY <1>1, <1>2
<1> QED
  BY <1>3, InvHolds, StaysClean, PTL DEF Spec, AckMeansDurable

-----------------------------------------------------------------------------
(* Views are stable.                                                        *)

\* Where the bytes of a held view are.
LEMMA HeldFacts ==
    ASSUME Inv, NEW r \in Readers, views[r].held
    PROVE  /\ pc \in Open
           /\ views[r].gen \in Gens /\ views[r].gen # pack.gen + 1
           /\ 0 .. views[r].sealed \subseteq Offsets
           /\ views[r].gen = pack.gen => \A i \in 0 .. views[r].sealed : i <= pack.sealed
<1>1. views[r].gen <= pack.gen /\ views[r].gen \in Gens /\ pack.gen \in Gens
  BY ViewsBehind
<1>2. pc \in Open /\ (views[r].gen = pack.gen => views[r].sealed <= pack.sealed)
  BY DEF Inv, ViewInv
<1>3. views[r].sealed \in Offsets /\ pack.sealed \in Nat
  BY DEF Inv, TypeOK, Views, Packs, Offsets
<1> QED
  BY <1>1, <1>2, <1>3, RecordsAssumption DEF Gens, Offsets

\* The slot s reads as the writer's own slot does up to the published seal.
SealedKept(s) == \A i \in Offsets : i <= pack.sealed => s.vol[i] = Here.vol[i]

\* A step that rewrites the writer's own slot leaves the blocks up to the
\* published seal alone.
LEMMA OwnSlotKeeps ==
    ASSUME Inv, NEW r \in Readers, views[r].held, NEW s,
           slots' = [slots EXCEPT ![pack.gen] = s],
           SealedKept(s)
    PROVE  \A i \in 0 .. views[r].sealed :
              slots'[views[r].gen].vol[i] = slots[views[r].gen].vol[i]
<1>1. CASE views[r].gen = pack.gen
  BY <1>1, HeldFacts DEF SealedKept, Here, Inv, TypeOK
<1>2. CASE views[r].gen # pack.gen
  BY <1>2, HeldFacts DEF Inv, TypeOK
<1> QED
  BY <1>1, <1>2

\* A commit's appends change no block a held view can read.
LEMMA AppendKeeps ==
    ASSUME Inv, pc = "ready", NEW objects \in SUBSET Objects, NEW manifest, NEW migrating,
           AppendObjects(objects, manifest, migrating),
           NEW r \in Readers, views[r].held
    PROVE  \A i \in 0 .. views[r].sealed :
              slots'[views[r].gen].vol[i] = slots[views[r].gen].vol[i]
<1> DEFINE end  == Here.len
           new  == objects \ DOMAIN pack.table
           w    == ObjectRecords(new, end)
           last == end + Cardinality(new)
<1>1. Fits(new, end) /\ slots' = [slots EXCEPT ![pack.gen] = Write(Here, w, last)]
  BY DEF AppendObjects, Here
<1>2. pack.gen \in Gens /\ GoodSlot(Here, pack.gen) /\ end \in Offsets /\ new \in SUBSET Objects
  BY HereFacts
<1>3. pack.sealed <= end /\ pack.sealed \in Nat /\ end \in Nat
  BY <1>2 DEF Inv, PhaseInv, Open, TypeOK, Packs, Offsets
<1>4. \A i \in DOMAIN w : i > end
  BY <1>1, <1>2, ObjectRecordsFacts
<1>5. last \in Offsets /\ Home(w, pack.gen)
  BY <1>1, <1>2, PlacedFacts, ObjectRecordsFacts DEF Home, Block, ObjectPayloads
<1> HIDE DEF w, last
<1>6. \A i \in Offsets : i \notin DOMAIN w => Write(Here, w, last).vol[i] = Here.vol[i]
  BY <1>2, <1>5, GoodWrite
<1>7. \A i \in Offsets : i <= pack.sealed => i \notin DOMAIN w
  <2> HIDE DEF end
  <2> QED
    BY <1>3, <1>4 DEF Offsets
<1>8. SealedKept(Write(Here, w, last))
  BY <1>6, <1>7 DEF SealedKept
<1> QED
  BY <1>1, <1>8, OwnSlotKeeps

\* A commit's seal changes no block a held view can read.
LEMMA SealKeeps ==
    ASSUME Inv, CommitSeal, NEW r \in Readers, views[r].held
    PROVE  \A i \in 0 .. views[r].sealed :
              slots'[views[r].gen].vol[i] = slots[views[r].gen].vol[i]
<1> DEFINE end == Here.len + 1
           w   == [i \in {end} |-> wip.seal]
<1>1. pc = "commit" /\ slots' = [slots EXCEPT ![pack.gen] = Write(Here, w, end)]
  BY DEF CommitSeal, Here
<1>2. pack.gen \in Gens /\ GoodSlot(Here, pack.gen) /\ Here.len \in Offsets
  BY HereFacts
<1>3. /\ wip.seal \in SealRecords /\ wip.seal.gen = pack.gen
      /\ pack.sealed <= Here.len /\ Here.len < MaxLen /\ pack.sealed \in Nat
  BY <1>1 DEF Inv, PhaseInv, Open, TypeOK, Packs, Offsets
<1>4. end \in Offsets /\ Home(w, pack.gen)
  BY <1>2, <1>3, RecordsAssumption DEF Offsets, Home, Block
<1>5. \A i \in Offsets : i <= pack.sealed => i \notin DOMAIN w
  BY <1>2, <1>3 DEF Offsets
<1> HIDE DEF w, end
<1>6. SealedKept(Write(Here, w, end))
  BY <1>2, <1>4, <1>5, GoodWrite DEF SealedKept
<1> QED
  BY <1>1, <1>6, OwnSlotKeeps

\* The end of a commit (flushed, failed or undone) changes no block a held view can read.
LEMMA FlushKeeps ==
    ASSUME Inv, CommitFlush \/ CommitFlushFails \/ CommitUndo, NEW r \in Readers, views[r].held
    PROVE  \A i \in 0 .. views[r].sealed :
              slots'[views[r].gen].vol[i] = slots[views[r].gen].vol[i]
<1>1. pack.gen \in Gens /\ GoodSlot(Here, pack.gen)
  BY HereFacts
<1>2. CASE CommitFlush
  <2>1. slots' = [slots EXCEPT ![pack.gen] = Flush(Here)]
    BY <1>2 DEF CommitFlush, Publish, Here
  <2>2. SealedKept(Flush(Here))
    BY <1>1, GoodFlush DEF SealedKept
  <2> QED
    BY <2>1, <2>2, OwnSlotKeeps
<1>3. CASE CommitFlushFails
  <2>1. slots' = [slots EXCEPT ![pack.gen] = FlushFailed(Here)]
    BY <1>3 DEF CommitFlushFails, Here
  <2>2. SealedKept(FlushFailed(Here))
    BY <1>1, GoodFlushFailed DEF SealedKept
  <2> QED
    BY <2>1, <2>2, OwnSlotKeeps
<1>4. CASE CommitUndo
  <2>1. pc = "commit" /\ slots' = [slots EXCEPT ![pack.gen] = Truncate(Here, wip.undo)]
    BY <1>4 DEF CommitUndo, Here
  <2>2. wip.undo \in Offsets /\ pack.sealed <= wip.undo /\ pack.sealed \in Nat
    BY <2>1 DEF Inv, TypeOK, Wips, Packs, Offsets, PhaseInv
  <2>3. \A i \in 0 .. wip.undo : Truncate(Here, wip.undo).vol[i] = Here.vol[i]
    BY <1>1, <2>2, GoodTruncate
  <2>4. SealedKept(Truncate(Here, wip.undo))
    BY <2>2, <2>3 DEF Offsets, SealedKept
  <2> QED
    BY <2>1, <2>4, OwnSlotKeeps
<1> QED
  BY <1>2, <1>3, <1>4

\* No step of a compaction touches the slot of a held view.
LEMMA CompactKeeps ==
    ASSUME Inv, NEW r \in Readers, views[r].held, NEW live,
           Compact \/ CompactCopy(live) \/ CompactSwap \/ CompactFails
    PROVE  slots'[views[r].gen] = slots[views[r].gen]
<1> DEFINE next == pack.gen + 1
           g    == views[r].gen
<1>0. g \in Gens /\ g # next /\ slots \in [Gens -> Slot] /\ \A h \in Gens : GoodSlot(slots[h], h)
  BY HeldFacts DEF Inv, TypeOK, SlotsInv
<1>1. CASE Compact
  <2>1. PICK after \in Swept(slots, {next}), salt \in FreshSalts(slots[next]) :
          slots' = [after EXCEPT ![next] = InitSlot(after[next], salt)]
    BY <1>1 DEF Compact
  <2>2. after \in [Gens -> Slot] /\ after[g] = slots[g]
    BY <1>0, SweptFacts
  <2> QED
    BY <1>0, <2>1, <2>2
<1>2. CASE CompactCopy(live)
  <2> DEFINE keep == DOMAIN pack.table \cap live
  <2>1. \E s : slots' = [slots EXCEPT ![next] = s]
    BY <1>2 DEF CompactCopy
  <2> QED
    BY <1>0, <2>1
<1>3. CASE CompactSwap
  <2> DEFINE gone == (pack.graveyard \cup {pack.gen}) \ Pinned
  <2>1. PICK after \in Swept(slots, gone) : slots' = [after EXCEPT ![next] = Flush(after[next])]
    BY <1>3 DEF CompactSwap
  <2>2. g \in Pinned
    BY DEF Pinned
  <2>3. after \in [Gens -> Slot] /\ after[g] = slots[g]
    BY <1>0, <2>2, SweptFacts
  <2> QED
    BY <1>0, <2>1, <2>3
<1>4. CASE CompactFails
  BY <1>0, <1>4, CompactFailsSlots
<1> QED
  BY <1>1, <1>2, <1>3, <1>4

\* No step changes a block below the sealed length of a view that stays held.
LEMMA NextKeeps ==
    ASSUME Inv, Next, NEW r \in Readers, views[r].held, views'[r] = views[r]
    PROVE  \A i \in 0 .. views[r].sealed :
              slots'[views[r].gen].vol[i] = slots[views[r].gen].vol[i]
<1>0. pc \in Open
  BY HeldFacts
<1>1. CASE \/ OpenElected \/ OpenTrimmed \/ OpenFresh \/ OpenFounded \/ OpenRefused
           \/ OpenFlushFails \/ Stillborn \/ PowerBack \/ \E g \in Gens : Survive(g)
  BY <1>0, <1>1 DEF Open, OpenElected, OpenTrimmed, OpenFresh, OpenFounded, OpenRefused,
                    OpenFlushFails, Stillborn, PowerBack, Survive
<1>2. CASE MigrateCommit \/ \E objects, manifest \in SUBSET Objects : Commit(objects, manifest)
  BY <1>2, AppendKeeps DEF MigrateCommit, Commit, Inv, TypeOK, Values, Manifests
<1>3. CASE CommitSeal
  BY <1>3, SealKeeps
<1>4. CASE CommitFlush \/ CommitFlushFails \/ CommitUndo
  BY <1>4, FlushKeeps
<1>5. CASE \/ Compact \/ CompactSwap \/ CompactFails
           \/ \E dead \in SUBSET Objects : CompactCopy(Objects \ dead)
  BY <1>5, CompactKeeps
<1>6. CASE CommitUndoFails \/ RetireSource \/ \E q \in Readers : TakeView(q) \/ DropView(q)
  BY <1>6 DEF CommitUndoFails, RetireSource, TakeView, DropView
<1>7. CASE Close \/ Restart \/ PowerLoss
  BY <1>7, NoPackFacts DEF Close, Restart, PowerLoss, Forget
<1> QED
  BY <1>1, <1>2, <1>3, <1>4, <1>5, <1>6, <1>7 DEF Next

\* I1 and I2 for a reader: for any number of readers, objects and generations,
\* no step changes, cuts or unlinks a byte below the sealed length of a view that
\* stays held.  The graveyard carries the proof: a compaction removes only the
\* retired generations that no held view names.
THEOREM ViewsAreStable == Spec => ViewsStable
<1> DEFINE Stable == \A r \in Readers : views[r].held /\ views'[r] = views[r] =>
             /\ slots'[views[r].gen].name
             /\ \A i \in 0 .. views[r].sealed :
                   slots'[views[r].gen].vol[i] = slots[views[r].gen].vol[i]
<1>1. ASSUME Inv, Next PROVE Stable
  <2> SUFFICES ASSUME NEW r \in Readers, views[r].held, views'[r] = views[r]
               PROVE  /\ slots'[views[r].gen].name
                      /\ \A i \in 0 .. views[r].sealed :
                            slots'[views[r].gen].vol[i] = slots[views[r].gen].vol[i]
    OBVIOUS
  <2>1. Inv'
    BY <1>1, NextStep
  <2>2. slots'[views[r].gen].name
    BY <2>1 DEF Inv, ViewInv
  <2> QED
    BY <1>1, <2>2, NextKeeps
<1>2. ASSUME Inv, UNCHANGED vars PROVE Stable
  BY <1>2 DEF vars, Inv, ViewInv
<1>3. Inv /\ [Next]_vars => [Stable]_vars
  BY <1>1, <1>2
<1> QED
  BY <1>3, InvHolds, PTL DEF Spec, ViewsStable

=============================================================================
