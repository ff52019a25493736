--------------------------- MODULE PackPowerProofs ---------------------------
(***************************************************************************)
(* What a power loss can do to the pack log.  Between two flushes a slot   *)
(* may be left with any combination of its old and new blocks, so nothing  *)
(* can be said of one block at a time.  The argument is about one seal,    *)
(* the anchor: a durable commit that reads in full, to which every newer   *)
(* seal of its slot is a single step from it, which no seal of a younger   *)
(* slot is newer than, and which no older slot can outrank whatever of it  *)
(* comes back.  The open elects the anchor, or the one commit in flight    *)
(* beside it, or the anchor's own copy in a younger slot.  From this also  *)
(* follows that the pack log implements the durable store.                 *)
(*                                                                         *)
(* It holds under three hypotheses, without any of which TLC finds a       *)
(* commit that is lost: a store is not reopened over an unflushed cache    *)
(* (~Restarts), slots that are to go can be removed (~RemovalFails) and    *)
(* syncing a new file persists its name (EntriesDurable).  A failed sync   *)
(* may mark its pages clean: the poison stops the writer (CleanInv).       *)
(***************************************************************************)
EXTENDS PackReadProofs, MCPackLog

\* A commit recovery accepts and that can be read in full.
Good(b, i) == i \in Seals(b) /\ Verifies(b, i) /\ GoodAt(b, i)

\* What a power loss may leave of a slot.
Leaves(s) ==
    {Verifiable(c) : c \in {f \in [Offsets -> Block] : \A j \in Offsets : f[j] \in s.disk[j]}}

\* A slot whose file and whose blocks up to offset i cannot be lost.
Durable(s, i) ==
    /\ s.name /\ s.names = {"listed"}
    /\ \A j \in Offsets : j <= i => s.disk[j] = {s.vol[j]}

Solid(s, i) == Durable(s, i) /\ Good(s.vol, i)

\* A seal that commits one step after the seal at i.
Successor(r, b, i) ==
    /\ r.prev = [at |-> i, check |-> SealCheck(b[i])]
    /\ r.seq > b[i].seq
    /\ r.full => Entries(r) = Merge(r.added, ChainTable(b, i))
    /\ r.manifest \subseteq DOMAIN r.added \cup DOMAIN ChainTable(b, i)

\* A seal that rests on no other.
Root(r) == r.prev = NoLink /\ r.manifest \subseteq DOMAIN Entries(r)

\* Above i the slot may hold only seals one step after it, of commits in `pledged`.
Tail(s, i, pledged) ==
    \A j \in Offsets : j > i => \A r \in s.disk[j] : r.kind = "seal" =>
        Successor(r, s.vol, i) /\ Value(r.seq, r.manifest) \in pledged

\* A slot that holds copies of what `top` commits, or older, and nothing else.
Younger(s, top) ==
    \A j \in Offsets : \A r \in s.disk[j] : r.kind = "seal" =>
        /\ Root(r) /\ r.full /\ r.seq <= top.seq
        /\ r.seq = top.seq => r.manifest = top.manifest

\* A slot that elects nothing newer than seq, whatever a power loss leaves of it.
Beaten(s, seq) ==
    \A b \in Leaves(s) : Elected(b) # 0 => b[Elected(b)].seq <= seq

-----------------------------------------------------------------------------
(* What an election concludes.                                              *)

LEMMA VerifiedFacts ==
    ASSUME NEW b \in [Offsets -> Block]
    PROVE  /\ Verified(b) \subseteq Candidates(b) /\ Candidates(b) \subseteq Seals(b)
           /\ Verified(b) \in SUBSET (0 .. MaxLen) /\ Seals(b) \in SUBSET (0 .. MaxLen)
           /\ Elected(b) # 0 => Elected(b) \in Verified(b)
           /\ \A j \in Verified(b) : j <= Elected(b) /\ Elected(b) # 0
<1>1. /\ Verified(b) \subseteq Candidates(b) /\ Candidates(b) \subseteq Seals(b)
      /\ Seals(b) \in SUBSET (1 .. MaxLen)
  BY DEF Verified, Candidates, Reach, Seals
<1>2. Verified(b) \in SUBSET (0 .. MaxLen) /\ Seals(b) \in SUBSET (0 .. MaxLen) /\ 0 \notin Verified(b)
  BY <1>1, RecordsAssumption
<1>3. Elected(b) # 0 => Verified(b) # {} /\ Elected(b) = Max(Verified(b))
  BY DEF Elected
<1>4. Verified(b) # {} => /\ Elected(b) = Max(Verified(b)) /\ Max(Verified(b)) \in Verified(b)
                          /\ \A j \in Verified(b) : j <= Max(Verified(b))
  BY <1>2, MaxOffset DEF Elected
<1> QED
  BY <1>1, <1>2, <1>3, <1>4

\* The newest seal is where the search starts.
LEMMA NewestSeal ==
    ASSUME NEW b \in [Offsets -> Block], Seals(b) # {}
    PROVE  /\ Max(Seals(b)) \in Seals(b) /\ \A j \in Seals(b) : j <= Max(Seals(b))
           /\ Candidates(b) = Reach(b, Max(Seals(b)), {})
<1>1. Seals(b) \in SUBSET (0 .. MaxLen)
  BY VerifiedFacts
<1> QED
  BY <1>1, MaxOffset DEF Candidates

\* Where one verified seal is the predecessor of all above it, the open elects it or
\* the newest.
LEMMA ElectedFrom ==
    ASSUME NEW b, IsLog(b), NEW i \in Seals(b), Verifies(b, i),
           \A j \in Seals(b) : j > i => b[j].prev.at = i
    PROVE  /\ Elected(b) # 0 /\ Elected(b) \in Seals(b) /\ Verifies(b, Elected(b))
           /\ \/ Elected(b) = i
              \/ Elected(b) > i /\ \A j \in Seals(b) : j <= Elected(b)
<1>0. b \in [Offsets -> Block] /\ \A j \in Seals(b) : j \in Nat
  BY SealFacts DEF IsLog
<1> DEFINE m == Max(Seals(b))
           W == {m} \cup {j \in Seals(b) : j <= i}
<1>1. m \in Seals(b) /\ (\A j \in Seals(b) : j <= m) /\ Candidates(b) = Reach(b, m, {})
  BY <1>0, NewestSeal
<1> HIDE DEF m
<1>2. i \in Candidates(b)
  <2>1. m \in Reach(b, m, {})
    BY <1>1, ReachStart
  <2>2. CASE m = i
    BY <1>1, <2>1, <2>2
  <2>3. CASE m # i
    <3>1. m > i /\ i \in Nat /\ m \in Nat
      BY <1>0, <1>1, <2>3
    <3>2. b[m].prev.at = i
      BY <1>1, <3>1
    <3> QED
      BY <1>1, <2>1, <3>2, ReachStep
  <2> QED
    BY <2>2, <2>3
<1>3. Candidates(b) \subseteq W
  <2>1. W \in SUBSET Seals(b) /\ m \in W
    BY <1>1
  <2>2. ASSUME NEW j \in W \ {}, b[j].prev.at \in Seals(b) PROVE b[j].prev.at \in W
    <3>1. j \in Seals(b) /\ j \in Nat /\ b[j].prev.at \in Nat /\ i \in Nat /\ m \in Nat
      BY <1>0, <1>1, <2>1, <2>2
    <3>2. j \in Offsets /\ b[j].kind = "seal"
      BY <1>0, <3>1, SealFacts DEF IsSeal
    <3>3. b[j].prev.at < j
      BY <3>2 DEF IsLog, Backward
    <3>4. j <= i => b[j].prev.at <= i
      BY <3>1, <3>3
    <3>5. j > i => b[j].prev.at = i
      BY <3>1
    <3>6. j <= i \/ j > i
      BY <3>1
    <3>7. b[j].prev.at <= i
      BY <3>1, <3>4, <3>5, <3>6
    <3> QED
      BY <2>2, <3>7
  <2> HIDE DEF W
  <2>3. Reach(b, m, {}) \subseteq W
    BY <2>1, <2>2, ReachBounded
  <2> QED
    BY <1>1, <2>3
<1>4. i \in Verified(b)
  BY <1>2 DEF Verified
<1> DEFINE k == Elected(b)
<1>5. k # 0 /\ k \in Verified(b) /\ i <= k /\ Verified(b) \subseteq Candidates(b) /\ Candidates(b) \subseteq Seals(b)
  BY <1>0, <1>4, VerifiedFacts
<1> HIDE DEF k
<1>6. k \in Seals(b) /\ Verifies(b, k) /\ k \in Nat /\ i \in Nat
  BY <1>0, <1>5 DEF Verified
<1>7. k = m \/ k <= i
  BY <1>3, <1>5
<1>8. k = i \/ (k > i /\ k = m)
  BY <1>5, <1>6, <1>7
<1>9. k = i \/ (k > i /\ \A j \in Seals(b) : j <= k)
  BY <1>1, <1>8
<1> QED
  BY <1>5, <1>6, <1>9 DEF k

\* Where no seal has a predecessor, the open elects the newest or none.
LEMMA ElectedRoot ==
    ASSUME NEW b, IsLog(b), \A j \in Seals(b) : b[j].prev.at = 0, Elected(b) # 0
    PROVE  /\ Elected(b) \in Seals(b) /\ Verifies(b, Elected(b))
           /\ \A j \in Seals(b) : j <= Elected(b)
<1>0. b \in [Offsets -> Block]
  BY DEF IsLog
<1>1. Elected(b) \in Verified(b) /\ Verified(b) \subseteq Candidates(b) /\ Candidates(b) \subseteq Seals(b)
  BY <1>0, VerifiedFacts
<1> DEFINE m == Max(Seals(b))
           W == {m}
<1>2. m \in Seals(b) /\ (\A j \in Seals(b) : j <= m) /\ Candidates(b) = Reach(b, m, {})
  BY <1>0, <1>1, NewestSeal
<1> HIDE DEF m
<1>3. Candidates(b) \subseteq W
  <2>1. W \in SUBSET Seals(b) /\ m \in W
    BY <1>2
  <2>2. 0 \notin Seals(b)
    BY DEF Seals
  <2>3. \A j \in W \ {} : b[j].prev.at \in Seals(b) => b[j].prev.at \in W
    BY <2>1, <2>2
  <2> HIDE DEF W
  <2>4. Reach(b, m, {}) \subseteq W
    BY <2>1, <2>3, ReachBounded
  <2> QED
    BY <1>2, <2>4
<1>4. Elected(b) = m /\ Verifies(b, Elected(b))
  BY <1>1, <1>3 DEF Verified
<1> QED
  BY <1>1, <1>2, <1>4

\* A verified seal that rests on no other reads in full.
LEMMA RootGood ==
    ASSUME NEW b, IsLog(b), NEW i \in Seals(b), Verifies(b, i), Root(b[i])
    PROVE  Good(b, i) /\ ChainTable(b, i) = Entries(b[i])
<1>1. b[i].prev.at = 0
  BY DEF Root, NoLink
<1>2. ChainTable(b, i) = Entries(b[i])
  BY <1>1, LoneTable
<1>3. DeltaHolds(b, b[i].added) /\ (b[i].full => DeltaHolds(b, b[i].base))
  BY <1>1 DEF Verifies, BirthHolds
<1>4. DeltaHolds(b, Entries(b[i]))
  BY <1>3 DEF DeltaHolds, Entries, Merge
<1> QED
  BY <1>2, <1>4 DEF Good, GoodAt, Root

\* A verified seal one step after a good one reads in full.
LEMMA SuccessorGood ==
    ASSUME NEW b, IsLog(b), NEW i \in Seals(b), GoodAt(b, i), NEW k \in Seals(b), Verifies(b, k),
           Successor(b[k], b, i)
    PROVE  Good(b, k) /\ ChainTable(b, k) = Merge(b[k].added, ChainTable(b, i))
<1>1. b[k].prev.at = i
  BY DEF Successor
<1>2. b[k].full \in BOOLEAN
  BY SealFacts DEF IsLog
<1>3. ChainTable(b, k) = Merge(b[k].added, ChainTable(b, i))
  <2>1. CASE b[k].full
    BY <2>1, LoneTable DEF Successor
  <2>2. CASE ~b[k].full
    BY <1>1, <2>2, DeltaTable
  <2> QED
    BY <1>2, <2>1, <2>2
<1>4. DeltaHolds(b, b[k].added) /\ DeltaHolds(b, ChainTable(b, i))
  BY DEF Verifies, GoodAt
<1>5. DeltaHolds(b, ChainTable(b, k))
  BY <1>3, <1>4 DEF DeltaHolds, Merge
<1>6. DOMAIN ChainTable(b, k) = DOMAIN b[k].added \cup DOMAIN ChainTable(b, i)
  BY <1>3 DEF Merge
<1> QED
  BY <1>3, <1>5, <1>6 DEF Good, GoodAt, Successor

-----------------------------------------------------------------------------
(***************************************************************************)
(* What may be left of a slot.                                             *)
(***************************************************************************)

\* Of a slot whose seals look backwards a power loss leaves a log, with no seal that
\* was not there.
LEMMA LeafFacts ==
    ASSUME NEW s \in Slot, ShapeSlot(s), NEW b \in Leaves(s)
    PROVE  /\ IsLog(b) /\ b \in [Offsets -> Block]
           /\ \A j \in Offsets : b[j].kind = "seal" => b[j] \in s.disk[j]
           /\ \A j \in Seals(b) : j \in Offsets /\ b[j].kind = "seal" /\ b[j] \in s.disk[j]
<1>1. PICK c \in [Offsets -> Block] : b = Verifiable(c) /\ \A j \in Offsets : c[j] \in s.disk[j]
  BY DEF Leaves
<1>2. b \in [Offsets -> Block] /\ \A j \in Offsets : b[j] \in {c[j], Void}
  BY <1>1, VerifiableFields
<1>3. \A j \in Offsets : b[j].kind = "seal" => b[j] \in s.disk[j]
  BY <1>1, <1>2, VoidBlock
<1>4. \A j \in Offsets : Backward(b[j], j)
  BY <1>1, <1>2, VoidBackward DEF ShapeSlot
<1>5. \A j \in Seals(b) : j \in Offsets /\ b[j].kind = "seal"
  BY <1>2, SealFacts DEF IsSeal
<1> QED
  BY <1>2, <1>3, <1>4, <1>5 DEF IsLog

\* Cutting seals of another life out twice is cutting them out once.
LEMMA VerifiableTwice ==
    ASSUME NEW b \in [Offsets -> Block], \A j \in Offsets : b[j].kind = "seal" => IsSeal(b, j)
    PROVE  Verifiable(b) = b
<1>1. \A j \in Offsets : Verifiable(b)[j] = b[j]
  BY DEF Verifiable
<1>2. Verifiable(b) = [j \in Offsets |-> Verifiable(b)[j]]
  BY DEF Verifiable
<1> QED
  BY <1>1, <1>2

\* What the running machine reads from a slot is one of the things that may be left.
LEMMA ReadIsLeaf ==
    ASSUME NEW s \in Slot, ShapeSlot(s), s.name
    PROVE  s.vol \in Leaves(s)
<1>1. s.vol \in [Offsets -> Block] /\ \A j \in Offsets : s.vol[j] \in s.disk[j]
  BY DEF Slot, ShapeSlot
<1>2. Verifiable(s.vol) = s.vol
  BY <1>1, VerifiableTwice DEF ShapeSlot
<1> QED
  BY <1>1, <1>2 DEF Leaves

\* What is left of a settled slot is what is read from it.
LEMMA SettledLeaf ==
    ASSUME NEW s \in Slot, ShapeSlot(s), \A j \in Offsets : s.disk[j] = {s.vol[j]}, NEW b \in Leaves(s)
    PROVE  b = s.vol
<1>1. PICK c \in [Offsets -> Block] : b = Verifiable(c) /\ \A j \in Offsets : c[j] \in s.disk[j]
  BY DEF Leaves
<1>2. s.vol \in [Offsets -> Block] /\ \A j \in Offsets : c[j] = s.vol[j]
  BY <1>1 DEF Slot
<1>3. c = s.vol
  BY <1>1, <1>2
<1>4. Verifiable(s.vol) = s.vol
  BY <1>2, VerifiableTwice DEF ShapeSlot
<1> QED
  BY <1>1, <1>3, <1>4

\* A slot that may hold no seal elects nothing.
LEMMA NoSealsNoElection ==
    ASSUME NEW b \in [Offsets -> Block], \A j \in Offsets : b[j].kind # "seal"
    PROVE  Elected(b) = 0
<1>1. Seals(b) = {}
  BY SealFacts DEF IsSeal
<1>2. Verified(b) = {}
  BY <1>1 DEF Verified, Candidates
<1> QED
  BY <1>2 DEF Elected

\* u may hold no seal that s may not hold.
Sheds(u, s) == \A j \in Offsets : \A r \in u.disk[j] : r.kind = "seal" => r \in s.disk[j]

\* What may be left of u may be left of s, or elects nothing.
Dims(u, s) == \A b \in Leaves(u) : b \in Leaves(s) \/ Elected(b) = 0

LEMMA ShedsSame ==
    ASSUME NEW s, NEW u, u.disk = s.disk
    PROVE  Sheds(u, s) /\ Dims(u, s)
BY DEF Sheds, Dims, Leaves

LEMMA ShedsRemove ==
    ASSUME NEW s \in Slot
    PROVE  Sheds(Remove(s), s) /\ Dims(Remove(s), s) /\ ~Remove(s).name
BY ShedsSame, RemoveFields

LEMMA ShedsTruncate ==
    ASSUME NEW s \in Slot, NEW n \in Offsets
    PROVE  Sheds(Truncate(s, n), s)
BY TruncateFields, VoidBlock DEF Sheds

LEMMA ShedsInit ==
    ASSUME NEW s \in Slot, NEW salt
    PROVE  Sheds(InitSlot(s, salt), s)
<1>1. Header(salt).kind # "seal" /\ Void.kind # "seal" /\ 0 \in Offsets
  BY VoidBlock, RecordsAssumption DEF Header, Offsets
<1>2. InitSlot(s, salt).disk[0] = s.disk[0] \cup {Void, Header(salt)}
      /\ \A i \in Offsets : i # 0 => InitSlot(s, salt).disk[i] = s.disk[i] \cup {Void}
  BY InitSlotFields
<1> QED
  BY <1>1, <1>2 DEF Sheds

LEMMA ShedsFlush ==
    ASSUME NEW s \in Slot, ShapeSlot(s), s.name
    PROVE  Sheds(Flush(s), s)
<1>1. \A i \in Offsets : Flush(s).disk[i] \in {s.disk[i], {s.vol[i]}} /\ s.vol[i] \in s.disk[i]
  BY FlushFields DEF ShapeSlot
<1> QED
  BY <1>1 DEF Sheds

\* Objects appended add no seal.
LEMMA ShedsObjects ==
    ASSUME NEW s \in Slot, NEW w, NEW end, \A i \in DOMAIN w : w[i].kind # "seal"
    PROVE  Sheds(Write(s, w, end), s)
<1>1. \A i \in Offsets : Write(s, w, end).disk[i] = s.disk[i]
                         \/ (i \in DOMAIN w /\ Write(s, w, end).disk[i] = s.disk[i] \cup {w[i]})
  BY WriteFields
<1> QED
  BY <1>1 DEF Sheds

\* What a power loss leaves of a slot was among what it could leave.
LEMMA ShedsImage ==
    ASSUME NEW s \in Slot, ShapeSlot(s), NEW c \in Survivors(s), NEW n
    PROVE  /\ Sheds(Image(Verifiable(c), n), s) /\ Dims(Image(Verifiable(c), n), s)
           /\ Verifiable(c) \in Leaves(s)
<1> DEFINE b == Verifiable(c)
<1>1. \A i \in Offsets : c[i] \in s.disk[i]
  BY SurvivorFields
<1>2. c \in [Offsets -> Block]
  <2>1. DOMAIN c = Offsets /\ c = [i \in Offsets |-> c[i]]
    BY DEF Survivors
  <2>2. \A i \in Offsets : c[i] \in Block
    BY <1>1 DEF Slot
  <2> QED
    BY <2>1, <2>2
<1>3. b \in Leaves(s)
  BY <1>1, <1>2 DEF Leaves
<1>4. b \in [Offsets -> Block] /\ (\A i \in Offsets : b[i].kind = "seal" => IsSeal(b, i))
      /\ \A j \in Offsets : b[j].kind = "seal" => b[j] \in s.disk[j]
  BY <1>2, <1>3, VerifiableFields, LeafFacts
<1> HIDE DEF b
<1>5. \A i \in Offsets : Image(b, n).disk[i] = {b[i]}
  BY DEF Image
<1>6. Sheds(Image(b, n), s)
  BY <1>4, <1>5 DEF Sheds
<1>7. ASSUME NEW a \in Leaves(Image(b, n)) PROVE a = b
  <2>1. PICK d \in [Offsets -> Block] : a = Verifiable(d) /\ \A j \in Offsets : d[j] \in Image(b, n).disk[j]
    BY DEF Leaves
  <2>2. d = b
    BY <1>4, <1>5, <2>1
  <2> QED
    BY <1>4, <2>1, <2>2, VerifiableTwice
<1>8. Dims(Image(b, n), s)
  BY <1>3, <1>7 DEF Dims
<1> QED
  BY <1>3, <1>6, <1>8 DEF b

LEMMA ShedsAbsent ==
    ASSUME NEW s
    PROVE  Sheds(Absent, s) /\ Dims(Absent, s)
<1>1. Absent \in Slot /\ ShapeSlot(Absent)
  BY GoodAbsent, ShapeAbsent DEF GoodSlot
<1>2. \A i \in Offsets : \A r \in Absent.disk[i] : r.kind # "seal"
  BY VoidBlock DEF Absent
<1>3. ASSUME NEW b \in Leaves(Absent) PROVE Elected(b) = 0
  <2>1. b \in [Offsets -> Block] /\ \A j \in Offsets : b[j].kind = "seal" => b[j] \in Absent.disk[j]
    BY <1>1, LeafFacts
  <2> QED
    BY <1>2, <2>1, NoSealsNoElection
<1> QED
  BY <1>2, <1>3 DEF Sheds, Dims

LEMMA YoungerShed ==
    ASSUME NEW s, NEW u, NEW top, Sheds(u, s), Younger(s, top)
    PROVE  Younger(u, top)
BY DEF Sheds, Younger

LEMMA BeatenDim ==
    ASSUME NEW s, NEW u, NEW seq, Dims(u, s), Beaten(s, seq)
    PROVE  Beaten(u, seq)
BY DEF Dims, Beaten

\* What recovery concludes at a seal is decided by the blocks up to it.
LEMMA GoodSame ==
    ASSUME NEW b, NEW c, IsLog(b), IsLog(c), NEW i, Good(b, i), Same(b, c, i)
    PROVE  Good(c, i) /\ c[i] = b[i] /\ ChainTable(c, i) = ChainTable(b, i)
<1>1. i \in Seals(b) /\ Verifies(b, i) /\ GoodAt(b, i)
  BY DEF Good
<1>2. b \in [Offsets -> Block] /\ i \in Nat /\ i \in Offsets /\ b[i].kind = "seal"
      /\ b[i].added \in Tables /\ b[i].base \in Tables
  BY <1>1, SealFacts DEF IsLog, IsSeal
<1>3. i \in Seals(c) /\ c[i] = b[i]
  BY <1>1, <1>2, SameChain DEF Same
<1>4. ChainTable(c, i) = ChainTable(b, i) /\ ChainHolds(c, i) /\ GoodAt(c, i)
  BY <1>1, SameConclusion, GoodAtSame DEF Verifies
<1>5. /\ \A h \in DOMAIN b[i].added : b[i].added[h] < i /\ b[i].added[h] \in 1 .. MaxLen
      /\ \A h \in DOMAIN b[i].base : b[i].base[h] < i /\ b[i].base[h] \in 1 .. MaxLen
  BY <1>2, TableFacts DEF IsLog, Backward
<1>6. /\ \A h \in DOMAIN b[i].added : b[b[i].added[h]] = c[b[i].added[h]]
      /\ \A h \in DOMAIN b[i].base : b[b[i].base[h]] = c[b[i].base[h]]
  BY <1>2, <1>5, RecordsAssumption DEF Same, Offsets
<1>7. DeltaHolds(c, b[i].added) /\ (DeltaHolds(b, b[i].base) => DeltaHolds(c, b[i].base))
  BY <1>1, <1>6, DeltaSame DEF Verifies
<1>8. Verifies(c, i)
  BY <1>1, <1>3, <1>4, <1>7 DEF Verifies, BirthHolds
<1> QED
  BY <1>3, <1>4, <1>8 DEF Good

LEMMA SolidSame ==
    ASSUME NEW s \in Slot, NEW u \in Slot, ShapeSlot(s), ShapeSlot(u), NEW i, Solid(s, i),
           u.name, u.names = {"listed"},
           \A j \in Offsets : j <= i => u.vol[j] = s.vol[j] /\ u.disk[j] = {u.vol[j]}
    PROVE  Solid(u, i) /\ u.vol[i] = s.vol[i] /\ ChainTable(u.vol, i) = ChainTable(s.vol, i)
<1>1. IsLog(s.vol) /\ IsLog(u.vol)
  BY ShapeLog
<1>2. Same(s.vol, u.vol, i) /\ Good(s.vol, i)
  BY DEF Same, Solid
<1> QED
  BY <1>1, <1>2, GoodSame DEF Solid, Durable

\* What may be left above a seal, told from what could be left before.
LEMMA TailSame ==
    ASSUME NEW s, NEW u, NEW i, NEW P, NEW Q, Tail(s, i, P),
           u.vol[i] = s.vol[i], ChainTable(u.vol, i) = ChainTable(s.vol, i),
           \A j \in Offsets : j > i => \A r \in u.disk[j] : r.kind = "seal" =>
                r \in s.disk[j] /\ Value(r.seq, r.manifest) \in Q
    PROVE  Tail(u, i, Q)
BY DEF Tail, Successor

-----------------------------------------------------------------------------
(***************************************************************************)
(* What an open may find.                                                  *)
(***************************************************************************)

\* A log that holds the seal at i of slot s, and above it only commits of `pledged`.
GrownFrom(b, s, i, pledged) ==
    LET k == Elected(b) IN
    /\ b[i] = s.vol[i] /\ Good(b, i) /\ ChainTable(b, i) = ChainTable(s.vol, i)
    /\ \A j \in Seals(b) : j > i => b[j] \in s.disk[j] /\ Successor(b[j], s.vol, i)
    /\ k # 0 /\ k \in Seals(b) /\ Good(b, k)
    /\ k = i \/ (k > i /\ b[k].seq > b[i].seq /\ Value(b[k].seq, b[k].manifest) \in pledged)
    /\ k # i => \A j \in Seals(b) : j <= k

\* Whatever a power loss leaves of a slot holds the blocks that cannot be lost.
LEMMA LeafBelow ==
    ASSUME NEW s \in Slot, ShapeSlot(s), NEW i, Solid(s, i), NEW b \in Leaves(s)
    PROVE  /\ i \in Offsets /\ i \in Nat /\ i \in Seals(s.vol)
           /\ \A j \in Offsets : j <= i => b[j] = s.vol[j]
<1>0. i \in Seals(s.vol) /\ i \in Offsets /\ i \in Nat
  BY SealFacts DEF Solid, Good, Slot
<1>1. PICK c \in [Offsets -> Block] : b = Verifiable(c) /\ \A j \in Offsets : c[j] \in s.disk[j]
  BY DEF Leaves
<1>2. \A j \in Offsets : j <= i => c[j] = s.vol[j]
  BY <1>1 DEF Solid, Durable
<1>3. 0 \in Offsets /\ 0 <= i
  BY <1>0, RecordsAssumption DEF Offsets
<1>4. c[0] = s.vol[0]
  BY <1>2, <1>3
<1>5. ASSUME NEW j \in Offsets, j <= i PROVE b[j] = s.vol[j]
  <2>1. s.vol[j].kind = "seal" => IsSeal(c, j)
    BY <1>2, <1>4, <1>5 DEF ShapeSlot, IsSeal
  <2> QED
    BY <1>1, <1>2, <1>5, <2>1, VerifiableFields
<1> QED
  BY <1>0, <1>5

\* Whatever a power loss leaves of a solid slot elects the solid seal or one commit
\* after it, and what it elects can be read in full.
LEMMA LeafGrown ==
    ASSUME NEW s \in Slot, ShapeSlot(s), NEW i, Solid(s, i), NEW P, Tail(s, i, P),
           NEW b \in Leaves(s)
    PROVE  GrownFrom(b, s, i, P)
<1>1. IsLog(s.vol) /\ IsLog(b) /\ b \in [Offsets -> Block] /\ s.vol \in [Offsets -> Block]
  BY ShapeLog, LeafFacts DEF IsLog
<1>2. i \in Seals(s.vol) /\ i \in Offsets /\ i \in Nat /\ Good(s.vol, i)
  BY <1>1, SealFacts DEF Solid, Good
<1>3. Same(s.vol, b, i)
  BY LeafBelow DEF Same
<1>4. Good(b, i) /\ b[i] = s.vol[i] /\ ChainTable(b, i) = ChainTable(s.vol, i)
  BY <1>1, <1>2, <1>3, GoodSame
<1>5. i \in Seals(b) /\ Verifies(b, i) /\ GoodAt(b, i)
  BY <1>4 DEF Good
<1>6. ASSUME NEW j \in Seals(b), j > i
      PROVE  /\ b[j] \in s.disk[j] /\ Successor(b[j], s.vol, i)
             /\ Value(b[j].seq, b[j].manifest) \in P /\ b[j].prev.at = i
  <2>1. j \in Offsets /\ b[j].kind = "seal" /\ b[j] \in s.disk[j]
    BY LeafFacts
  <2>2. Successor(b[j], s.vol, i) /\ Value(b[j].seq, b[j].manifest) \in P
    BY <1>6, <2>1 DEF Tail
  <2> QED
    BY <2>1, <2>2 DEF Successor
<1> DEFINE k == Elected(b)
<1>7. /\ k # 0 /\ k \in Seals(b) /\ Verifies(b, k)
      /\ k = i \/ (k > i /\ \A j \in Seals(b) : j <= k)
  BY <1>1, <1>5, <1>6, ElectedFrom
<1> HIDE DEF k
<1>8. CASE k = i
  BY <1>4, <1>5, <1>6, <1>7, <1>8 DEF GrownFrom, k
<1>9. CASE k # i
  <2>1. k > i /\ \A j \in Seals(b) : j <= k
    BY <1>7, <1>9
  <2>2. Successor(b[k], s.vol, i) /\ Value(b[k].seq, b[k].manifest) \in P
    BY <1>6, <1>7, <2>1
  <2>3. Successor(b[k], b, i) /\ b[k].seq > b[i].seq
    BY <1>4, <2>2 DEF Successor
  <2>4. Good(b, k)
    BY <1>1, <1>5, <1>7, <2>3, SuccessorGood
  <2> QED
    BY <1>4, <1>6, <1>7, <2>1, <2>2, <2>3, <2>4 DEF GrownFrom, k
<1> QED
  BY <1>8, <1>9

\* With no commit in flight it elects the solid seal.
LEMMA LeafStays ==
    ASSUME NEW s \in Slot, ShapeSlot(s), NEW i, Solid(s, i), Tail(s, i, {}), NEW b \in Leaves(s)
    PROVE  Elected(b) = i /\ b[i] = s.vol[i] /\ Good(b, i)
<1>1. GrownFrom(b, s, i, {})
  BY LeafGrown
<1> QED
  BY <1>1 DEF GrownFrom

\* Whatever a power loss leaves of a slot of roots elects its newest, or nothing.
LEMMA LeafRooted ==
    ASSUME NEW s \in Slot, ShapeSlot(s), NEW b \in Leaves(s), Elected(b) # 0,
           \A j \in Offsets : \A r \in s.disk[j] : r.kind = "seal" => Root(r)
    PROVE  /\ Elected(b) \in Seals(b) /\ Good(b, Elected(b))
           /\ b[Elected(b)] \in s.disk[Elected(b)] /\ Elected(b) \in Offsets
           /\ \A j \in Seals(b) : j <= Elected(b)
<1>1. IsLog(b) /\ \A j \in Seals(b) : j \in Offsets /\ b[j].kind = "seal" /\ b[j] \in s.disk[j]
  BY LeafFacts
<1>2. \A j \in Seals(b) : Root(b[j]) /\ b[j].prev.at = 0
  <2>1. \A j \in Seals(b) : Root(b[j])
    BY <1>1
  <2>2. \A j \in Seals(b) : b[j].prev = NoLink
    BY <2>1 DEF Root
  <2>3. NoLink.at = 0
    BY DEF NoLink
  <2> QED
    BY <2>1, <2>2, <2>3
<1>3. Elected(b) \in Seals(b) /\ Verifies(b, Elected(b)) /\ \A j \in Seals(b) : j <= Elected(b)
  BY <1>1, <1>2, ElectedRoot
<1>4. Good(b, Elected(b))
  BY <1>1, <1>2, <1>3, RootGood
<1> QED
  BY <1>1, <1>3, <1>4

\* Every seal that may be found is a seal record.
LEMMA DiskSeals ==
    ASSUME NEW s \in Slot, NEW j \in Offsets, NEW r \in s.disk[j], r.kind = "seal"
    PROVE  r \in SealRecords /\ r.seq \in Nat
<1>1. r \in Block
  BY DEF Slot
<1> QED
  BY <1>1, SealIsSealRecord DEF SealRecords

\* A slot that elects nothing newer than one sequence elects nothing newer than a later.
LEMMA BeatenMore ==
    ASSUME NEW s \in Slot, ShapeSlot(s), NEW p \in Nat, NEW q \in Nat, p <= q, Beaten(s, p)
    PROVE  Beaten(s, q)
<1> SUFFICES ASSUME NEW b \in Leaves(s), Elected(b) # 0 PROVE b[Elected(b)].seq <= q
  BY DEF Beaten
<1>1. b[Elected(b)].seq <= p
  BY DEF Beaten
<1>2. b \in [Offsets -> Block]
  BY LeafFacts
<1>3. Elected(b) \in Seals(b)
  BY <1>2, VerifiedFacts
<1>4. b[Elected(b)].seq \in Nat
  BY <1>2, <1>3, SealFacts DEF SealRecords
<1> QED
  BY <1>1, <1>4

\* A slot of copies elects nothing newer than what they are copies of.
LEMMA YoungerBeaten ==
    ASSUME NEW s \in Slot, ShapeSlot(s), NEW top, Younger(s, top)
    PROVE  Beaten(s, top.seq)
<1> SUFFICES ASSUME NEW b \in Leaves(s), Elected(b) # 0 PROVE b[Elected(b)].seq <= top.seq
  BY DEF Beaten
<1>1. b \in [Offsets -> Block] /\ \A j \in Seals(b) : j \in Offsets /\ b[j].kind = "seal" /\ b[j] \in s.disk[j]
  BY LeafFacts
<1>2. Elected(b) \in Seals(b)
  BY <1>1, VerifiedFacts
<1> QED
  BY <1>1, <1>2 DEF Younger

-----------------------------------------------------------------------------
(***************************************************************************)
(* The invariant.                                                          *)
(***************************************************************************)

\* Nothing was ever acknowledged here: whatever seal may be found is of slot 0, rests
\* on no other and is of a commit whose outcome is open, and a checkpoint among them
\* is of a migration whose source still rules.
NoAnchor ==
    /\ \A g \in Gens : \A j \in Offsets : \A r \in slots[g].disk[j] : r.kind = "seal" =>
          g = 0 /\ Root(r) /\ Value(r.seq, r.manifest) \in attempted /\ (r.full => source)
    /\ ~source => committed = Value(0, {})
    /\ source => committed.seq = SourceSeq

\* The seal at i of slot g is the anchor.
Anchor(g, i) ==
    LET s == slots[g] IN
    /\ i \in Offsets /\ Solid(s, i) /\ Tail(s, i, attempted)
    /\ Value(s.vol[i].seq, s.vol[i].manifest) \in {committed} \cup attempted
    /\ \A h \in Gens : h > g => Younger(slots[h], s.vol[i])
    /\ \A h \in Gens : h < g => Beaten(slots[h], s.vol[i].seq)

AllSettled == \A h \in Gens : Settled(slots[h])

Unnamed == \A h \in Gens : ~slots[h].name

\* The store was closed between operations.
Calm(g) == attempted = {} /\ \A h \in Gens : h > g => ~slots[h].name

Blank == NoAnchor /\ (AllSettled \/ attempted = {} \/ Unnamed)

Anchored == \E g \in Gens : \E i \in Offsets : Anchor(g, i) /\ (AllSettled \/ Calm(g))

\* What a power loss leaves, and what it can leave while a store is open.
WorldInv ==
    /\ pc \in Session /\ pack.sealed # 0 => Anchor(pack.gen, pack.sealed)
    /\ pc \in Session \cup {"founding"} /\ pack.sealed = 0 => NoAnchor
    /\ pc = "down" => Blank \/ Anchored
    /\ pc = "refused" => Blank /\ source
    /\ pc = "dark" => NoAnchor \/ \E g \in Gens : \E i \in Offsets : Anchor(g, i)

\* What the open store and its observers agree on.
DeskInv ==
    /\ pc \in Open /\ pack.sealed = 0 => Here.disk[0] = {Here.vol[0]}
    /\ pc \in Open => (source /\ pack.last = NoLink) \/ committed = Value(pack.seq, pack.manifest)
    /\ pc \in {"ready", "commit", "header", "successor"} => attempted = {}
    /\ pc = "sealed" => attempted = {Value(wip.seal.seq, wip.seal.manifest)}
    /\ pc \in {"ready", "commit", "sealed", "poisoned", "trimming", "founding"} =>
          \A h \in Gens : h > pack.gen => ~slots[h].name
    /\ pc \in {"header", "successor"} => \A h \in Gens : h > pack.gen + 1 => ~slots[h].name

\* The setting in which what was acknowledged survives a power loss.
Setting == ~Restarts /\ ~RemovalFails /\ EntriesDurable

\* An anchor stays one while its slot keeps it and no slot gains a seal.
LEMMA AnchorKept ==
    ASSUME Inv, ShapeInv, Inv', ShapeInv', NEW g \in Gens, NEW i, Anchor(g, i),
           slots'[g].name, slots'[g].names = {"listed"},
           \A j \in Offsets : j <= i =>
              slots'[g].vol[j] = slots[g].vol[j] /\ slots'[g].disk[j] = {slots'[g].vol[j]},
           \A j \in Offsets : j > i => \A r \in slots'[g].disk[j] : r.kind = "seal" =>
              r \in slots[g].disk[j] /\ Value(r.seq, r.manifest) \in attempted',
           {committed} \cup attempted \subseteq {committed'} \cup attempted'
           \/ Value(slots[g].vol[i].seq, slots[g].vol[i].manifest) = committed',
           \A h \in Gens : h > g => Sheds(slots'[h], slots[h]),
           \A h \in Gens : h < g => Dims(slots'[h], slots[h])
    PROVE  Anchor(g, i)'
<1> DEFINE s == slots[g]
           u == slots'[g]
<1>1. s \in Slot /\ u \in Slot /\ ShapeSlot(s) /\ ShapeSlot(u)
  BY DEF Inv, TypeOK, ShapeInv
<1>2. /\ i \in Offsets /\ Solid(s, i) /\ Tail(s, i, attempted)
      /\ Value(s.vol[i].seq, s.vol[i].manifest) \in {committed} \cup attempted
      /\ \A h \in Gens : h > g => Younger(slots[h], s.vol[i])
      /\ \A h \in Gens : h < g => Beaten(slots[h], s.vol[i].seq)
  BY DEF Anchor
<1>3. /\ u.name /\ u.names = {"listed"}
      /\ \A j \in Offsets : j <= i => u.vol[j] = s.vol[j] /\ u.disk[j] = {u.vol[j]}
      /\ \A j \in Offsets : j > i => \A r \in u.disk[j] : r.kind = "seal" =>
              r \in s.disk[j] /\ Value(r.seq, r.manifest) \in attempted'
      /\ Value(s.vol[i].seq, s.vol[i].manifest) \in {committed'} \cup attempted'
  BY <1>2
<1> HIDE DEF s, u
<1>4. Solid(u, i) /\ u.vol[i] = s.vol[i] /\ ChainTable(u.vol, i) = ChainTable(s.vol, i)
  BY <1>1, <1>2, <1>3, SolidSame
<1>5. Tail(u, i, attempted')
  BY <1>2, <1>3, <1>4, TailSame
<1>6. \A h \in Gens : h > g => Younger(slots'[h], u.vol[i])
  BY <1>2, <1>4, YoungerShed
<1>7. \A h \in Gens : h < g => Beaten(slots'[h], u.vol[i].seq)
  BY <1>2, <1>4, BeatenDim
<1>8. Value(u.vol[i].seq, u.vol[i].manifest) \in {committed'} \cup attempted'
  BY <1>3, <1>4
<1> QED
  BY <1>2, <1>4, <1>5, <1>6, <1>7, <1>8 DEF Anchor, u

\* So it does while no slot changes.
LEMMA AnchorStill ==
    ASSUME NEW g, NEW i, Anchor(g, i), slots' = slots, committed' = committed, attempted' = attempted
    PROVE  Anchor(g, i)'
BY DEF Anchor

LEMMA NoAnchorKept ==
    ASSUME NoAnchor, \A h \in Gens : Sheds(slots'[h], slots[h]), committed' = committed,
           attempted \subseteq attempted', source' = source
    PROVE  NoAnchor'
BY DEF NoAnchor, Sheds

\* Where no commit is in flight, an anchorless store may hold no seal at all.
LEMMA NoAnchorBare ==
    ASSUME NoAnchor, attempted = {}
    PROVE  \A g \in Gens : \A j \in Offsets : \A r \in slots[g].disk[j] : r.kind # "seal"
BY DEF NoAnchor

-----------------------------------------------------------------------------
(***************************************************************************)
(* The invariant is inductive.  First the steps that change no slot.       *)
(***************************************************************************)

PowerInv == WorldInv /\ DeskInv

LEMMA PowerSame ==
    ASSUME PowerInv, UNCHANGED <<slots, pc, pack, wip, source, committed, attempted>>
    PROVE  PowerInv'
<1>1. WorldInv'
  BY DEF PowerInv, WorldInv, Blank, Anchored, Anchor, NoAnchor, AllSettled, Unnamed, Calm
<1>2. DeskInv'
  BY DEF PowerInv, DeskInv, Here
<1> QED
  BY <1>1, <1>2 DEF PowerInv

LEMMA StutterPower ==
    ASSUME PowerInv, UNCHANGED vars
    PROVE  PowerInv'
BY PowerSame DEF vars, observed

LEMMA ReaderPower ==
    ASSUME PowerInv, NEW r \in Readers, TakeView(r) \/ DropView(r)
    PROVE  PowerInv'
BY PowerSame DEF TakeView, DropView, observed

\* The writer gives up.
LEMMA UndoFailsPower ==
    ASSUME PowerInv, CommitUndoFails
    PROVE  PowerInv'
<1>1. pc = "commit" /\ pc' = "poisoned" /\ UNCHANGED <<slots, pack, source, committed, attempted>>
  BY DEF CommitUndoFails, observed
<1>2. WorldInv'
  BY <1>1 DEF PowerInv, WorldInv, Session, Open, Anchor, NoAnchor
<1>3. DeskInv'
  BY <1>1 DEF PowerInv, DeskInv, Open, Here
<1> QED
  BY <1>2, <1>3 DEF PowerInv

LEMMA RetirePower ==
    ASSUME Inv, LogInv, PowerInv, RetireSource
    PROVE  PowerInv'
<1>1. pc = "ready" /\ pack.last # NoLink /\ UNCHANGED <<slots, pc, pack, wip, committed, attempted>>
  BY DEF RetireSource, observed, Sealed
<1>2. pack.sealed # 0
  BY <1>1, SealedMeans DEF LogInv, StandsInv, Session, Open
<1>3. Anchor(pack.gen, pack.sealed)
  BY <1>1, <1>2 DEF PowerInv, WorldInv, Session, Open
<1>4. Anchor(pack.gen, pack.sealed)'
  BY <1>1, <1>3 DEF Anchor
<1>5. WorldInv'
  BY <1>1, <1>2, <1>4 DEF WorldInv
<1>6. DeskInv'
  BY <1>1 DEF PowerInv, DeskInv, Open, Here
<1> QED
  BY <1>5, <1>6 DEF PowerInv

\* After a step that leaves no store open, only the world counts.
LEMMA DeskIdle ==
    ASSUME pc' \in {"down", "dark", "refused"}
    PROVE  DeskInv'
BY DEF DeskInv, Open

LEMMA ClosePower ==
    ASSUME Inv, PowerInv, Close
    PROVE  PowerInv'
<1>1. pc \in {"ready", "refused"} /\ pc' = "down" /\ UNCHANGED <<slots, source, committed, attempted>>
  BY DEF Close, observed
<1>2. Blank \/ Anchored
  <2>1. CASE pc = "refused"
    BY <2>1 DEF PowerInv, WorldInv
  <2>2. CASE pc = "ready" /\ pack.sealed = 0
    BY <2>2 DEF PowerInv, WorldInv, DeskInv, Blank, Session, Open
  <2>3. CASE pc = "ready" /\ pack.sealed # 0
    <3>1. Anchor(pack.gen, pack.sealed) /\ Calm(pack.gen)
      BY <2>3 DEF PowerInv, WorldInv, DeskInv, Calm, Session, Open
    <3>2. pack.gen \in Gens /\ pack.sealed \in Offsets
      BY DEF Inv, TypeOK, Packs
    <3> QED
      BY <3>1, <3>2 DEF Anchored
  <2> QED
    BY <1>1, <2>1, <2>2, <2>3
<1>3. Blank' \/ Anchored'
  BY <1>1, <1>2 DEF Blank, Anchored, Anchor, NoAnchor, AllSettled, Unnamed, Calm
<1>4. WorldInv'
  BY <1>1, <1>3 DEF WorldInv, Session, Open
<1> QED
  BY <1>1, <1>4, DeskIdle DEF PowerInv

LEMMA PowerLossPower ==
    ASSUME Inv, LogInv, PowerInv, PowerLoss
    PROVE  PowerInv'
<1>1. pc # "dark" /\ pc' = "dark" /\ UNCHANGED <<slots, source, committed, attempted>>
  BY DEF PowerLoss, observed
<1>2. pc \in Phases /\ pack.gen \in Gens /\ pack.sealed \in Offsets
  BY DEF Inv, TypeOK, Packs
<1>3. NoAnchor \/ \E g \in Gens : \E i \in Offsets : Anchor(g, i)
  <2>1. CASE pc \in Session \cup {"founding"} /\ pack.sealed = 0
    BY <2>1 DEF PowerInv, WorldInv
  <2>2. CASE pc \in Session /\ pack.sealed # 0
    <3>1. Anchor(pack.gen, pack.sealed)
      BY <2>2 DEF PowerInv, WorldInv
    <3> QED
      BY <1>2, <3>1
  <2>3. CASE pc = "founding" /\ pack.sealed # 0
    BY <2>3 DEF LogInv, EndInv
  <2>4. CASE pc = "down" \/ pc = "refused"
    BY <2>4 DEF PowerInv, WorldInv, Blank, Anchored
  <2>5. pc \in Session \cup {"founding"} \/ pc = "down" \/ pc = "refused"
    BY <1>1, <1>2 DEF Phases, Session, Open
  <2> QED
    BY <2>1, <2>2, <2>3, <2>4, <2>5
<1>4. NoAnchor' \/ \E g \in Gens : \E i \in Offsets : Anchor(g, i)'
  BY <1>1, <1>3 DEF NoAnchor, Anchor
<1>5. WorldInv'
  BY <1>1, <1>4 DEF WorldInv, Session, Open
<1> QED
  BY <1>1, <1>5, DeskIdle DEF PowerInv

LEMMA PowerBackPower ==
    ASSUME PowerInv, PowerBack
    PROVE  PowerInv'
<1>1. pc = "dark" /\ pc' = "down" /\ UNCHANGED <<slots, source, committed, attempted>> /\ AllSettled
  BY DEF PowerBack, observed, AllSettled
<1>2. Blank \/ Anchored
  BY <1>1 DEF PowerInv, WorldInv, Blank, Anchored
<1>3. Blank' \/ Anchored'
  BY <1>1, <1>2 DEF Blank, Anchored, Anchor, NoAnchor, AllSettled, Unnamed, Calm
<1>4. WorldInv'
  BY <1>1, <1>3 DEF WorldInv, Session, Open
<1> QED
  BY <1>1, <1>4, DeskIdle DEF PowerInv

-----------------------------------------------------------------------------
(* A power loss, slot by slot.                                              *)

LEMMA SurvivePower ==
    ASSUME Inv, LogInv, Inv', LogInv', PowerInv, NEW g \in Gens, Survive(g)
    PROVE  PowerInv'
<1>1. pc = "dark" /\ pc' = "dark" /\ UNCHANGED <<source, committed, attempted>>
  BY DEF Survive, observed
<1>2. slots[g] \in Slot /\ ShapeSlot(slots[g]) /\ ShapeInv /\ ShapeInv'
  BY DEF Inv, TypeOK, LogInv, ShapeInv
<1>3. \A h \in Gens : h # g => slots'[h] = slots[h]
  BY DEF Survive, Inv, TypeOK
<1>4. \/ /\ "unlisted" \in slots[g].names /\ slots'[g] = Absent
      \/ \E b \in Survivors(slots[g]), n \in Offsets : slots'[g] = Image(Verifiable(b), n)
  BY DEF Survive, Inv, TypeOK
<1>5. Sheds(slots'[g], slots[g]) /\ Dims(slots'[g], slots[g])
  BY <1>2, <1>4, ShedsAbsent, ShedsImage
<1>6. \A h \in Gens : Sheds(slots'[h], slots[h]) /\ Dims(slots'[h], slots[h])
  BY <1>3, <1>5, ShedsSame
<1>7. CASE NoAnchor
  <2>1. NoAnchor'
    BY <1>1, <1>6, <1>7, NoAnchorKept
  <2> QED
    BY <1>1, <2>1, DeskIdle DEF PowerInv, WorldInv, Session, Open
<1>8. ASSUME NEW a \in Gens, NEW i \in Offsets, Anchor(a, i) PROVE Anchor(a, i)'
  <2>1. Solid(slots[a], i) /\ Tail(slots[a], i, attempted)
    BY <1>8 DEF Anchor
  <2>2. slots[a].name /\ slots[a].names = {"listed"}
        /\ \A j \in Offsets : j <= i => slots[a].disk[j] = {slots[a].vol[j]}
    BY <2>1 DEF Solid, Durable
  <2>3. CASE a # g
    <3>1. slots'[a] = slots[a]
      BY <1>3, <2>3
    <3>2. \A j \in Offsets : j > i => \A r \in slots[a].disk[j] : r.kind = "seal" =>
             Value(r.seq, r.manifest) \in attempted'
      BY <1>1, <2>1 DEF Tail
    <3> QED
      BY <1>1, <1>2, <1>6, <1>8, <2>2, <3>1, <3>2, AnchorKept
  <2>4. CASE a = g
    <3>1. PICK c \in Survivors(slots[g]), n \in Offsets : slots'[g] = Image(Verifiable(c), n)
      BY <1>4, <2>2, <2>4
    <3> DEFINE b == Verifiable(c)
    <3>2. b \in Leaves(slots[g])
      BY <1>2, ShedsImage
    <3>3. GrownFrom(b, slots[g], i, attempted)
      BY <1>2, <2>1, <2>4, <3>2, LeafGrown
    <3>4. \A j \in Offsets : j <= i => b[j] = slots[g].vol[j]
      BY <1>2, <2>1, <2>4, <3>2, LeafBelow
    <3> HIDE DEF b
    <3>5. slots'[g].name /\ slots'[g].names = {"listed"} /\ slots'[g].vol = b
          /\ \A j \in Offsets : slots'[g].disk[j] = {b[j]}
      BY <3>1 DEF Image, b
    <3>6. \A j \in Offsets : j > i => \A r \in slots'[g].disk[j] : r.kind = "seal" =>
             r \in slots[g].disk[j] /\ Value(r.seq, r.manifest) \in attempted'
      BY <1>1, <1>5, <2>1, <2>4 DEF Sheds, Tail
    <3> QED
      BY <1>1, <1>2, <1>6, <1>8, <2>4, <3>4, <3>5, <3>6, AnchorKept
  <2> QED
    BY <2>3, <2>4
<1>9. CASE \E a \in Gens : \E i \in Offsets : Anchor(a, i)
  <2>1. \E a \in Gens : \E i \in Offsets : Anchor(a, i)'
    BY <1>8, <1>9
  <2> QED
    BY <1>1, <2>1, DeskIdle DEF PowerInv, WorldInv, Session, Open
<1> QED
  BY <1>1, <1>7, <1>9 DEF PowerInv, WorldInv

-----------------------------------------------------------------------------
(***************************************************************************)
(* The election: whatever an open elects is an anchor.                     *)
(***************************************************************************)

\* The slots of the store, as what may be left of them.
LEMMA SlotLeaf ==
    ASSUME Inv, ShapeInv, NEW g \in Gens
    PROVE  /\ slots[g] \in Slot /\ ShapeSlot(slots[g]) /\ g \in Nat
           /\ slots[g].vol \in [Offsets -> Block]
           /\ slots[g].name => slots[g].vol \in Leaves(slots[g])
           /\ \A j \in Seals(slots[g].vol) : slots[g].vol[j].gen = g
           /\ slots[g].name => \A j \in Seals(slots[g].vol) :
                 j \in Offsets /\ slots[g].vol[j].kind = "seal"
                 /\ slots[g].vol[j] \in slots[g].disk[j] /\ slots[g].vol[j].seq \in Nat
<1>1. slots[g] \in Slot /\ ShapeSlot(slots[g]) /\ GoodSlot(slots[g], g)
  BY DEF Inv, TypeOK, ShapeInv, SlotsInv
<1>2. slots[g].vol \in [Offsets -> Block]
  BY <1>1 DEF Slot
<1>3. \A j \in Seals(slots[g].vol) : /\ j \in Offsets /\ slots[g].vol[j].kind = "seal"
                                     /\ slots[g].vol[j] \in SealRecords
  BY <1>2, SealFacts DEF IsSeal
<1>4. \A j \in Seals(slots[g].vol) : slots[g].vol[j].gen = g /\ slots[g].vol[j].seq \in Nat
  BY <1>1, <1>3 DEF GoodSlot, HomeSlot, SealRecords
<1>5. slots[g].name => \A j \in Offsets : slots[g].vol[j] \in slots[g].disk[j]
  BY <1>1 DEF ShapeSlot
<1>6. slots[g].name => slots[g].vol \in Leaves(slots[g])
  BY <1>1, ReadIsLeaf
<1>7. g \in Nat
  BY DEF Gens
<1> QED
  BY <1>1, <1>2, <1>3, <1>4, <1>5, <1>6, <1>7

\* Nothing lies above the newest seal of a slot that is wholly on the disk.
LEMMA NewestTail ==
    ASSUME NEW s \in Slot, ShapeSlot(s), \A j \in Offsets : s.disk[j] = {s.vol[j]},
           NEW k \in Nat, \A j \in Seals(s.vol) : j <= k, NEW Q
    PROVE  Tail(s, k, Q)
<1>1. ASSUME NEW j \in Offsets, j > k, NEW r \in s.disk[j], r.kind = "seal" PROVE FALSE
  <2>1. r = s.vol[j] /\ IsSeal(s.vol, j) /\ j \in Nat
    BY <1>1 DEF ShapeSlot, Offsets
  <2>2. j \in Seals(s.vol)
    BY <2>1 DEF Seals, IsSeal
  <2> QED
    BY <1>1, <2>1, <2>2
<1> QED
  BY <1>1 DEF Tail

\* The election compares what the slots elect.
LEMMA OutrankFacts ==
    ASSUME Inv, ShapeInv, NEW g \in Sound, NEW h \in Sound, Outranks(g, h),
           NEW k, k = Elected(slots[g].vol), NEW m, m = Elected(slots[h].vol)
    PROVE  /\ g \in Gens /\ h \in Gens /\ slots[g].name /\ slots[h].name
           /\ k # 0 /\ m # 0 /\ k \in Seals(slots[g].vol) /\ m \in Seals(slots[h].vol)
           /\ slots[g].vol[k].seq \in Nat /\ slots[h].vol[m].seq \in Nat
           /\ \/ slots[g].vol[k].seq > slots[h].vol[m].seq
              \/ slots[g].vol[k].seq = slots[h].vol[m].seq /\ g >= h
<1>1. g \in Gens /\ h \in Gens /\ slots[g].name /\ slots[h].name /\ k # 0 /\ m # 0
  BY DEF Sound, Found
<1>2. k \in Seals(slots[g].vol) /\ m \in Seals(slots[h].vol)
  BY <1>1, SlotLeaf, ElectedFacts DEF Seals, IsSeal
<1>3. slots[g].vol[k].gen = g /\ slots[h].vol[m].gen = h
      /\ slots[g].vol[k].seq \in Nat /\ slots[h].vol[m].seq \in Nat
  BY <1>1, <1>2, SlotLeaf
<1>4. \/ slots[g].vol[k].seq > slots[h].vol[m].seq
      \/ slots[g].vol[k].seq = slots[h].vol[m].seq /\ slots[g].vol[k].gen >= slots[h].vol[m].gen
  BY DEF Outranks
<1> QED
  BY <1>1, <1>2, <1>3, <1>4

\* An anchor's slot is always sound, so a store without a sound slot has none.
LEMMA AnchorSound ==
    ASSUME Inv, ShapeInv, NEW a \in Gens, NEW i, Anchor(a, i), NEW m, m = Elected(slots[a].vol)
    PROVE  /\ a \in Sound /\ GrownFrom(slots[a].vol, slots[a], i, attempted)
           /\ m \in Seals(slots[a].vol) /\ i \in Seals(slots[a].vol)
           /\ m = i \/ slots[a].vol[m].seq > slots[a].vol[i].seq
<1>1. Solid(slots[a], i) /\ Tail(slots[a], i, attempted)
  BY DEF Anchor
<1>2. slots[a].name
  BY <1>1 DEF Solid, Durable
<1>3. slots[a].vol \in Leaves(slots[a]) /\ slots[a] \in Slot /\ ShapeSlot(slots[a])
  BY <1>2, SlotLeaf
<1>4. GrownFrom(slots[a].vol, slots[a], i, attempted)
  BY <1>1, <1>3, LeafGrown
<1>5. m # 0 /\ m \in Seals(slots[a].vol) /\ i \in Seals(slots[a].vol)
      /\ (m = i \/ slots[a].vol[m].seq > slots[a].vol[i].seq)
  BY <1>4 DEF GrownFrom, Good
<1>6. a \in Sound
  BY <1>2, <1>5 DEF Sound, Found
<1> QED
  BY <1>4, <1>5, <1>6

\* No slot below the anchor's is elected.
LEMMA LowerLoses ==
    ASSUME Inv, ShapeInv, NEW a \in Gens, NEW i, Anchor(a, i),
           NEW g \in Sound, \A h \in Sound : Outranks(g, h)
    PROVE  ~(g < a)
<1> DEFINE m == Elected(slots[a].vol)
           k == Elected(slots[g].vol)
<1>1. a \in Sound /\ i \in Seals(slots[a].vol)
      /\ (m = i \/ slots[a].vol[m].seq > slots[a].vol[i].seq)
  BY AnchorSound
<1>2. /\ g \in Gens /\ slots[g].name /\ slots[a].name /\ k # 0
      /\ slots[g].vol[k].seq \in Nat /\ slots[a].vol[m].seq \in Nat
      /\ \/ slots[g].vol[k].seq > slots[a].vol[m].seq
         \/ slots[g].vol[k].seq = slots[a].vol[m].seq /\ g >= a
  BY <1>1, OutrankFacts
<1>3. slots[a].vol[i].seq \in Nat /\ g \in Nat /\ a \in Nat
  BY <1>1, <1>2, SlotLeaf
<1>4. SUFFICES ASSUME g < a PROVE FALSE
  OBVIOUS
<1>5. slots[g].vol[k].seq <= slots[a].vol[i].seq
  <2>1. Beaten(slots[g], slots[a].vol[i].seq) /\ slots[g].vol \in Leaves(slots[g])
    BY <1>2, <1>4, SlotLeaf DEF Anchor
  <2> QED
    BY <1>2, <2>1 DEF Beaten
<1> HIDE DEF m, k
<1> QED
  BY <1>1, <1>2, <1>3, <1>4, <1>5

\* The open elects the slot of the anchor: the anchor itself, or the commit in flight.
LEMMA ElectSame ==
    ASSUME Inv, ShapeInv, NEW a \in Gens, NEW i, Anchor(a, i), AllSettled \/ attempted = {},
           NEW k, k = Elected(slots[a].vol)
    PROVE  Anchor(a, k)
<1> DEFINE s == slots[a]
           b == slots[a].vol
<1>1. /\ i \in Offsets /\ Solid(s, i) /\ Tail(s, i, attempted)
      /\ Value(b[i].seq, b[i].manifest) \in {committed} \cup attempted
      /\ \A h \in Gens : h > a => Younger(slots[h], b[i])
      /\ \A h \in Gens : h < a => Beaten(slots[h], b[i].seq)
  BY DEF Anchor
<1>2. GrownFrom(b, s, i, attempted) /\ k \in Seals(b) /\ i \in Seals(b) /\ a \in Sound
  BY AnchorSound
<1>3. s \in Slot /\ ShapeSlot(s) /\ s.name
  BY <1>2, SlotLeaf DEF Sound, Found
<1>4. b[k].seq \in Nat /\ b[i].seq \in Nat /\ k \in Offsets /\ k \in Nat
  BY <1>2, <1>3, SlotLeaf DEF Offsets
<1>5. CASE k = i
  BY <1>5
<1>6. CASE k # i
  <2>1. /\ Good(b, k) /\ b[k].seq > b[i].seq /\ Value(b[k].seq, b[k].manifest) \in attempted
        /\ \A j \in Seals(b) : j <= k
    BY <1>2, <1>6 DEF GrownFrom
  <2>2. AllSettled
    BY <2>1
  <2>3. s.names = {"listed"} /\ \A j \in Offsets : s.disk[j] = {b[j]}
    BY <1>3, <2>2 DEF AllSettled, Settled
  <2>4. Solid(s, k)
    BY <1>3, <2>1, <2>3 DEF Solid, Durable
  <2>5. Tail(s, k, attempted)
    BY <1>3, <1>4, <2>1, <2>3, NewestTail
  <2>6. \A h \in Gens : h > a => Younger(slots[h], b[k])
    <3> SUFFICES ASSUME NEW h \in Gens, h > a PROVE Younger(slots[h], b[k])
      OBVIOUS
    <3>1. Younger(slots[h], b[i])
      BY <1>1
    <3>2. \A j \in Offsets : \A r \in slots[h].disk[j] : r.kind = "seal" => r.seq \in Nat
      <4>1. slots[h] \in Slot
        BY DEF Inv, TypeOK
      <4> QED
        BY <4>1, DiskSeals
    <3>3. \A j \in Offsets : \A r \in slots[h].disk[j] : r.kind = "seal" =>
             r.seq <= b[k].seq /\ r.seq # b[k].seq
      BY <1>4, <2>1, <3>1, <3>2 DEF Younger
    <3> QED
      BY <3>1, <3>3 DEF Younger
  <2>7. \A h \in Gens : h < a => Beaten(slots[h], b[k].seq)
    <3> SUFFICES ASSUME NEW h \in Gens, h < a PROVE Beaten(slots[h], b[k].seq)
      OBVIOUS
    <3>1. Beaten(slots[h], b[i].seq) /\ slots[h] \in Slot /\ ShapeSlot(slots[h])
      BY <1>1, SlotLeaf
    <3>2. b[i].seq <= b[k].seq
      BY <1>4, <2>1
    <3> HIDE DEF b, s
    <3> QED
      BY <1>4, <3>1, <3>2, BeatenMore
  <2> QED
    BY <1>4, <2>1, <2>4, <2>5, <2>6, <2>7 DEF Anchor
<1> QED
  BY <1>5, <1>6

\* The open elects a younger slot: it holds a copy of the anchor.
LEMMA ElectAbove ==
    ASSUME Inv, ShapeInv, NEW a \in Gens, NEW i, Anchor(a, i), AllSettled,
           NEW g \in Sound, \A h \in Sound : Outranks(g, h), g > a,
           NEW k, k = Elected(slots[g].vol)
    PROVE  Anchor(g, k)
<1> DEFINE m   == Elected(slots[a].vol)
           top == slots[a].vol[i]
           new == slots[g].vol[k]
<1>1. /\ a \in Sound /\ i \in Seals(slots[a].vol)
      /\ m = i \/ slots[a].vol[m].seq > top.seq
  BY AnchorSound
<1>2. /\ g \in Gens /\ slots[g].name /\ slots[a].name /\ k # 0 /\ k \in Seals(slots[g].vol)
      /\ new.seq \in Nat /\ slots[a].vol[m].seq \in Nat /\ new.seq >= slots[a].vol[m].seq
  BY <1>1, OutrankFacts
<1>3. /\ slots[g] \in Slot /\ ShapeSlot(slots[g]) /\ slots[g].vol \in Leaves(slots[g])
      /\ k \in Offsets /\ k \in Nat /\ new.kind = "seal" /\ new \in slots[g].disk[k]
  BY <1>2, SlotLeaf DEF Offsets
<1>4. Younger(slots[g], top) /\ top.seq \in Nat
  BY <1>1, <1>2, SlotLeaf DEF Anchor
<1>5. \A j \in Offsets : \A r \in slots[g].disk[j] : r.kind = "seal" => Root(r)
  BY <1>4 DEF Younger
<1>6. Good(slots[g].vol, k) /\ \A j \in Seals(slots[g].vol) : j <= k
  BY <1>2, <1>3, <1>5, LeafRooted
<1>7. new.seq <= top.seq /\ (new.seq = top.seq => new.manifest = top.manifest)
  BY <1>3, <1>4 DEF Younger
<1>8. new.seq = top.seq /\ m = i /\ new.manifest = top.manifest
  <2> HIDE DEF m, top, new
  <2>1. m # i => slots[a].vol[m].seq > top.seq
    BY <1>1
  <2>2. m = i => slots[a].vol[m].seq = top.seq
    BY DEF top
  <2>3. m = i
    BY <1>2, <1>4, <1>7, <2>1
  <2>4. new.seq = top.seq
    BY <1>2, <1>4, <1>7, <2>2, <2>3
  <2> QED
    BY <1>7, <2>3, <2>4
<1>9. slots[g].names = {"listed"} /\ \A j \in Offsets : slots[g].disk[j] = {slots[g].vol[j]}
  BY <1>2 DEF AllSettled, Settled
<1>10. Solid(slots[g], k)
  BY <1>2, <1>6, <1>9 DEF Solid, Durable
<1>11. Tail(slots[g], k, attempted)
  BY <1>3, <1>6, <1>9, NewestTail
<1>12. Value(new.seq, new.manifest) \in {committed} \cup attempted
  BY <1>8 DEF Anchor
<1>13. ASSUME NEW h \in Gens, h > g PROVE Younger(slots[h], new)
  <2>1. h > a
    BY <1>13, <1>2 DEF Gens
  <2>2. Younger(slots[h], top)
    BY <2>1 DEF Anchor
  <2> HIDE DEF top, new
  <2> QED
    BY <1>8, <2>2 DEF Younger
<1>14. ASSUME NEW h \in Gens, h < g PROVE Beaten(slots[h], new.seq)
  <2>1. CASE h < a
    <3>1. Beaten(slots[h], top.seq)
      BY <2>1 DEF Anchor
    <3> QED
      BY <1>8, <3>1
  <2>2. CASE h > a
    <3>1. Younger(slots[h], top)
      BY <2>2 DEF Anchor
    <3>2. slots[h] \in Slot /\ ShapeSlot(slots[h])
      BY SlotLeaf
    <3> HIDE DEF top, new
    <3>3. Beaten(slots[h], top.seq)
      BY <3>1, <3>2, YoungerBeaten
    <3> QED
      BY <1>8, <3>3
  <2>3. CASE h = a
    <3>1. slots[a] \in Slot /\ ShapeSlot(slots[a]) /\ \A j \in Offsets : slots[a].disk[j] = {slots[a].vol[j]}
      BY SlotLeaf DEF AllSettled, Settled
    <3>2. \A b \in Leaves(slots[a]) : b[Elected(b)].seq <= new.seq
      <4> SUFFICES ASSUME NEW b \in Leaves(slots[a]) PROVE b[Elected(b)].seq <= new.seq
        OBVIOUS
      <4>1. b = slots[a].vol
        BY <3>1, SettledLeaf
      <4>2. b[Elected(b)] = top
        BY <1>8, <4>1
      <4> QED
        BY <1>4, <1>8, <4>2
    <3> QED
      BY <2>3, <3>2 DEF Beaten
  <2>4. h < a \/ h > a \/ h = a
    BY DEF Gens
  <2> QED
    BY <2>1, <2>2, <2>3, <2>4
<1> QED
  BY <1>3, <1>10, <1>11, <1>12, <1>13, <1>14 DEF Anchor

\* The open elects a commit of a store that acknowledged nothing before.
LEMMA ElectFirst ==
    ASSUME Inv, ShapeInv, Blank, NEW g \in Sound, NEW k, k = Elected(slots[g].vol)
    PROVE  AllSettled /\ Anchor(g, k)
<1> DEFINE new == slots[g].vol[k]
<1>1. g \in Gens /\ slots[g].name /\ k # 0
  BY DEF Sound, Found
<1>2. k \in Seals(slots[g].vol)
  BY <1>1, SlotLeaf, ElectedFacts DEF Seals, IsSeal
<1>3. /\ slots[g] \in Slot /\ ShapeSlot(slots[g]) /\ slots[g].vol \in Leaves(slots[g])
      /\ k \in Offsets /\ k \in Nat /\ new.kind = "seal" /\ new \in slots[g].disk[k]
  BY <1>1, <1>2, SlotLeaf DEF Offsets
<1>4. NoAnchor
  BY DEF Blank
<1>5. /\ g = 0 /\ Value(new.seq, new.manifest) \in attempted
      /\ \A j \in Offsets : \A r \in slots[g].disk[j] : r.kind = "seal" => Root(r)
  BY <1>1, <1>3, <1>4 DEF NoAnchor
<1>6. AllSettled
  BY <1>1, <1>5 DEF Blank, Unnamed
<1>7. slots[g].names = {"listed"} /\ \A j \in Offsets : slots[g].disk[j] = {slots[g].vol[j]}
  BY <1>1, <1>6 DEF AllSettled, Settled
<1>8. Good(slots[g].vol, k) /\ \A j \in Seals(slots[g].vol) : j <= k
  BY <1>1, <1>3, <1>5, LeafRooted
<1>9. Solid(slots[g], k)
  BY <1>1, <1>7, <1>8 DEF Solid, Durable
<1>10. Tail(slots[g], k, attempted)
  BY <1>3, <1>7, <1>8, NewestTail
<1>11. \A h \in Gens : h > g => Younger(slots[h], new)
  BY <1>4, <1>5 DEF NoAnchor, Younger
<1>12. \A h \in Gens : ~(h < g)
  BY <1>5 DEF Gens
<1> QED
  BY <1>3, <1>5, <1>6, <1>9, <1>10, <1>11, <1>12 DEF Anchor

\* So the open elects an anchor, and a settled one unless no commit is in flight.
LEMMA ElectAnchor ==
    ASSUME Inv, ShapeInv, WorldInv, pc = "down", NEW g \in Sound, \A h \in Sound : Outranks(g, h),
           NEW k, k = Elected(slots[g].vol)
    PROVE  Anchor(g, k) /\ (AllSettled \/ attempted = {})
<1>1. Blank \/ Anchored
  BY DEF WorldInv
<1>2. CASE Blank
  BY <1>2, ElectFirst
<1>3. CASE Anchored
  <2>1. PICK a \in Gens, i \in Offsets : Anchor(a, i) /\ (AllSettled \/ Calm(a))
    BY <1>3 DEF Anchored
  <2>2. g \in Gens /\ slots[g].name
    BY DEF Sound, Found
  <2>3. ~(g < a)
    BY <2>1, LowerLoses
  <2>4. CASE g = a
    <3>1. AllSettled \/ attempted = {}
      BY <2>1 DEF Calm
    <3> QED
      BY <2>1, <2>4, <3>1, ElectSame
  <2>5. CASE g > a
    <3>1. AllSettled
      BY <2>1, <2>2, <2>5 DEF Calm
    <3> QED
      BY <2>1, <2>5, <3>1, ElectAbove
  <2>6. g = a \/ g > a
    BY <2>2, <2>3 DEF Gens
  <2> QED
    BY <2>4, <2>5, <2>6
<1> QED
  BY <1>1, <1>2, <1>3

-----------------------------------------------------------------------------
(* Opening.                                                                 *)

LEMMA OpenElectedPower ==
    ASSUME Inv, LogInv, Inv', LogInv', PowerInv, Setting, OpenElected
    PROVE  PowerInv'
<1>1. pc = "down" /\ UNCHANGED <<source>> /\ ShapeInv /\ ShapeInv' /\ WorldInv
  BY OpenElectedFacts DEF LogInv, PowerInv
<1>2. PICK g \in Sound : \E after : ElectedBy(g, after)
  BY OpenElectedFacts
<1>3. PICK after : ElectedBy(g, after)
  BY <1>2
<1>0. PICK k : k = Elected(slots[g].vol)
  OBVIOUS
<1> DEFINE top == slots[g].vol[k]
<1>4. /\ g \in Gens /\ k \in Offsets /\ k # 0 /\ slots[g].name /\ slots[g] \in Slot
      /\ pack'.gen = g /\ pack'.sealed = k /\ pack' = Recovered(g)
      /\ pc' \in {"trimming", "ready"} /\ slots'[g] = Truncate(slots[g], k)
      /\ ~RemovalFails => \A h \in Gens : h # g => slots'[h] = Remove(slots[h])
  BY <1>0, <1>3, ElectedByFacts
<1>5. \A h \in Sound : Outranks(g, h)
  BY <1>3 DEF ElectedBy
<1>6. /\ slots[g].len > k => pc' = "trimming" /\ UNCHANGED <<committed, attempted>>
      /\ ~(slots[g].len > k) => pc' = "ready" /\ Expose(Recovered(g))
  BY <1>0, <1>3 DEF ElectedBy
<1>7. Anchor(g, k) /\ (AllSettled \/ attempted = {})
  BY <1>0, <1>1, <1>5, ElectAnchor
<1>8. Recovered(g).last # NoLink /\ Recovered(g).seq = top.seq /\ Recovered(g).manifest = top.manifest
  BY <1>0, <1>4 DEF Recovered, NoLink
<1> HIDE DEF top
<1>9. Solid(slots[g], k) /\ Tail(slots[g], k, attempted)
  BY <1>7 DEF Anchor
<1>10. slots[g].names = {"listed"} /\ \A j \in Offsets : j <= k => slots[g].disk[j] = {slots[g].vol[j]}
  BY <1>9 DEF Solid, Durable
<1>11. /\ slots'[g].name /\ slots'[g].names = {"listed"}
       /\ \A j \in Offsets : j <= k =>
             slots'[g].vol[j] = slots[g].vol[j] /\ slots'[g].disk[j] = {slots'[g].vol[j]}
       /\ Sheds(slots'[g], slots[g])
  BY <1>4, <1>10, TruncateFields, ShedsTruncate
<1>12. \A h \in Gens : h # g => Sheds(slots'[h], slots[h]) /\ Dims(slots'[h], slots[h]) /\ ~slots'[h].name
  <2> SUFFICES ASSUME NEW h \in Gens, h # g
               PROVE  Sheds(slots'[h], slots[h]) /\ Dims(slots'[h], slots[h]) /\ ~slots'[h].name
    OBVIOUS
  <2>1. slots'[h] = Remove(slots[h]) /\ slots[h] \in Slot
    BY <1>4 DEF Setting, Inv, TypeOK
  <2> QED
    BY <2>1, ShedsRemove
<1>13. pc' = "ready" => attempted' = {} /\ committed' = Value(top.seq, top.manifest)
  BY <1>6, <1>8 DEF Expose
<1>14. pc' = "trimming" => UNCHANGED <<committed, attempted>>
  BY <1>6
<1>15. pc' = "ready" => \A j \in Offsets : j > k => \A r \in slots[g].disk[j] : r.kind # "seal"
  <2> SUFFICES ASSUME pc' = "ready", NEW j \in Offsets, j > k, NEW r \in slots[g].disk[j], r.kind = "seal"
               PROVE  FALSE
    OBVIOUS
  <2>1. CASE attempted = {}
    BY <1>9, <2>1 DEF Tail
  <2>2. CASE AllSettled
    <3>1. ~(slots[g].len > k) /\ slots[g].len \in Nat /\ k \in Nat /\ j \in Nat
      BY <1>4, <1>6 DEF Slot, Offsets
    <3>2. j > slots[g].len
      BY <3>1
    <3>3. r = slots[g].vol[j] /\ ShapeSlot(slots[g])
      BY <1>1, <1>4, <2>2 DEF AllSettled, Settled, ShapeInv
    <3> QED
      BY <1>4, <3>2, <3>3, VoidBlock DEF ShapeSlot
  <2> QED
    BY <1>7, <2>1, <2>2
<1>16. \A j \in Offsets : j > k => \A r \in slots'[g].disk[j] : r.kind = "seal" =>
          r \in slots[g].disk[j] /\ Value(r.seq, r.manifest) \in attempted'
  <2> SUFFICES ASSUME NEW j \in Offsets, j > k, NEW r \in slots'[g].disk[j], r.kind = "seal"
               PROVE  r \in slots[g].disk[j] /\ Value(r.seq, r.manifest) \in attempted'
    OBVIOUS
  <2>1. r \in slots[g].disk[j]
    BY <1>11 DEF Sheds
  <2>2. Value(r.seq, r.manifest) \in attempted
    BY <1>9, <2>1 DEF Tail
  <2> QED
    BY <1>4, <1>14, <1>15, <2>1, <2>2
<1>17. \/ {committed} \cup attempted \subseteq {committed'} \cup attempted'
       \/ Value(slots[g].vol[k].seq, slots[g].vol[k].manifest) = committed'
  BY <1>4, <1>13, <1>14 DEF top
<1>18. Anchor(g, k)'
  <2>1. /\ \A h \in Gens : h > g => Sheds(slots'[h], slots[h])
        /\ \A h \in Gens : h < g => Dims(slots'[h], slots[h])
    BY <1>4, <1>12 DEF Gens
  <2> QED
    BY <1>1, <1>4, <1>7, <1>11, <1>16, <1>17, <2>1, AnchorKept
<1>19. WorldInv'
  BY <1>4, <1>18 DEF WorldInv
<1>20. DeskInv'
  <2>1. \A h \in Gens : h > pack'.gen => ~slots'[h].name
    BY <1>4, <1>12 DEF Gens
  <2>2. pc' = "ready" => committed' = Value(pack'.seq, pack'.manifest)
    BY <1>4, <1>8, <1>13
  <2> QED
    BY <1>4, <1>13, <2>1, <2>2 DEF DeskInv, Open
<1> QED
  BY <1>19, <1>20 DEF PowerInv

\* A store without a sound slot has acknowledged nothing.
LEMMA NoSoundBlank ==
    ASSUME Inv, ShapeInv, WorldInv, pc = "down", Sound = {}
    PROVE  Blank
<1>1. ~Anchored
  BY AnchorSound DEF Anchored
<1> QED
  BY <1>1 DEF WorldInv

LEMMA OpenRefusedPower ==
    ASSUME Inv, LogInv, PowerInv, OpenRefused
    PROVE  PowerInv'
<1>1. /\ pc = "down" /\ pc' = "refused" /\ Sound = {}
      /\ UNCHANGED <<slots, source, committed, attempted>>
  BY DEF OpenRefused, observed
<1>2. PICK g \in Found : TornBirth(slots[g].vol)
  BY DEF OpenRefused
<1>3. Blank /\ NoAnchor /\ ShapeInv
  BY <1>1, NoSoundBlank DEF PowerInv, Blank, LogInv
<1>4. g \in Gens /\ slots[g].name
  BY DEF Found
<1>5. PICK i \in Candidates(slots[g].vol) : slots[g].vol[i].full
  BY <1>2 DEF TornBirth
<1>6. i \in Seals(slots[g].vol)
  BY <1>3, <1>4, SlotLeaf, VerifiedFacts
<1>7. i \in Offsets /\ slots[g].vol[i].kind = "seal" /\ slots[g].vol[i] \in slots[g].disk[i]
  BY <1>3, <1>4, <1>6, SlotLeaf
<1>8. source
  BY <1>3, <1>4, <1>5, <1>7 DEF NoAnchor
<1>9. Blank' /\ source'
  BY <1>1, <1>3, <1>8 DEF Blank, NoAnchor, AllSettled, Unnamed
<1>10. WorldInv'
  BY <1>1, <1>9 DEF WorldInv, Session, Open
<1> QED
  BY <1>1, <1>10, DeskIdle DEF PowerInv

LEMMA StillbornPower ==
    ASSUME Inv, PowerInv, Setting, Stillborn
    PROVE  PowerInv'
<1>1. pc = "refused" /\ pc' = "down" /\ UNCHANGED <<source, committed, attempted>>
      /\ \A h \in Gens : slots'[h] = Remove(slots[h]) /\ slots[h] \in Slot
  BY StillbornSlots DEF Stillborn, Setting, observed, Inv, TypeOK
<1>2. NoAnchor
  BY <1>1 DEF PowerInv, WorldInv, Blank
<1>3. NoAnchor' /\ Unnamed'
  BY <1>1, <1>2, ShedsRemove, NoAnchorKept DEF Unnamed
<1>4. WorldInv'
  BY <1>1, <1>3 DEF WorldInv, Blank, Session, Open
<1> QED
  BY <1>1, <1>4, DeskIdle DEF PowerInv

LEMMA OpenFreshPower ==
    ASSUME Inv, LogInv, PowerInv, Setting, OpenFresh
    PROVE  PowerInv'
<1>1. PICK salt \in FreshSalts(slots[0]), s \in {slots[0], Remove(slots[0])} :
           /\ pc = "down" /\ pc' = "founding" /\ UNCHANGED <<wip, views, source, observed>>
           /\ Sound = {} /\ 0 \in Gens /\ s \in Slot
           /\ slots'[0] = InitSlot(s, salt)
           /\ \A h \in Gens : h # 0 => slots'[h] \in {slots[h], Remove(slots[h])}
           /\ ~RemovalFails => \A h \in Gens : h # 0 => slots'[h] = Remove(slots[h])
           /\ pack' = [NoPack EXCEPT !.salt = salt]
           /\ Unsealed(pack') /\ pack'.salt = salt
  BY OpenFreshFacts
<1>2. NoAnchor
  BY <1>1, NoSoundBlank DEF PowerInv, LogInv, Blank
<1>3. \A h \in Gens : slots[h] \in Slot
  BY DEF Inv, TypeOK
<1>4. Sheds(slots'[0], slots[0])
  <2>1. s.disk = slots[0].disk
    BY <1>1, <1>3, RemoveFields
  <2>2. Sheds(InitSlot(s, salt), s)
    BY <1>1, ShedsInit
  <2> QED
    BY <1>1, <2>1, <2>2 DEF Sheds
<1>5. \A h \in Gens : h # 0 => Sheds(slots'[h], slots[h]) /\ ~slots'[h].name
  <2> SUFFICES ASSUME NEW h \in Gens, h # 0 PROVE Sheds(slots'[h], slots[h]) /\ ~slots'[h].name
    OBVIOUS
  <2>1. slots'[h] = Remove(slots[h])
    BY <1>1 DEF Setting
  <2> QED
    BY <1>3, <2>1, ShedsRemove
<1>6. NoAnchor'
  <2>1. \A h \in Gens : Sheds(slots'[h], slots[h])
    BY <1>4, <1>5
  <2> QED
    BY <1>1, <1>2, <2>1, NoAnchorKept DEF observed
<1>7. pack'.sealed = 0 /\ pack'.gen = 0
  BY <1>1 DEF Unsealed
<1>8. WorldInv'
  BY <1>1, <1>6, <1>7 DEF WorldInv, Session, Open
<1>9. DeskInv'
  BY <1>1, <1>5, <1>7 DEF DeskInv, Open, Gens
<1> QED
  BY <1>8, <1>9 DEF PowerInv

\* The flush that ends an open leaves on the disk exactly what is read.
LEMMA FlushHere ==
    ASSUME Inv, CleanInv, LogInv, Setting, pc \in {"trimming", "founding"},
           slots' = [slots EXCEPT ![pack.gen] = Flush(Here)]
    PROVE  /\ pack.gen \in Gens /\ pack.sealed \in Offsets /\ Here.name
           /\ slots'[pack.gen].name /\ slots'[pack.gen].names = {"listed"}
           /\ slots'[pack.gen].vol = Here.vol
           /\ \A j \in Offsets : slots'[pack.gen].disk[j] = {Here.vol[j]}
           /\ \A j \in Offsets : j > pack.sealed => Here.vol[j] = Void
           /\ \A h \in Gens : h # pack.gen => slots'[h] = slots[h]
<1>1. pack.gen \in Gens /\ GoodSlot(Here, pack.gen) /\ Here \in Slot /\ ShapeSlot(Here)
      /\ pack.sealed \in Offsets
  BY HereFacts, WriterFacts DEF LogInv
<1>2. Here.name /\ Here.len = pack.sealed
  BY DEF Inv, PhaseInv, LogInv, EndInv
<1>3. slots'[pack.gen] = Flush(Here) /\ \A h \in Gens : h # pack.gen => slots'[h] = slots[h]
  BY <1>1 DEF Inv, TypeOK
<1>0. CleanSlot(Here)
  BY <1>1 DEF CleanInv, Here
<1>4. /\ Flush(Here).name = Here.name /\ Flush(Here).vol = Here.vol
      /\ \A j \in Offsets : Flush(Here).disk[j] = {Flush(Here).vol[j]}
  BY <1>0, <1>1, <1>2, GoodFlush, CleanOps
<1>5. Flush(Here).names = {"listed"}
  BY <1>1, FlushFields DEF Setting
<1>6. \A j \in Offsets : j > pack.sealed => Here.vol[j] = Void
  BY <1>1, <1>2 DEF ShapeSlot
<1> QED
  BY <1>1, <1>2, <1>3, <1>4, <1>5, <1>6

LEMMA OpenTrimmedPower ==
    ASSUME Inv, CleanInv, LogInv, Inv', LogInv', PowerInv, Setting, OpenTrimmed
    PROVE  PowerInv'
<1>1. /\ pc = "trimming" /\ pc' = "ready" /\ Expose(pack) /\ UNCHANGED <<pack, source>>
      /\ slots' = [slots EXCEPT ![pack.gen] = Flush(Here)]
  BY DEF OpenTrimmed, Here
<1>2. /\ pack.gen \in Gens /\ pack.sealed \in Offsets
      /\ slots'[pack.gen].name /\ slots'[pack.gen].names = {"listed"}
      /\ slots'[pack.gen].vol = Here.vol
      /\ \A j \in Offsets : slots'[pack.gen].disk[j] = {Here.vol[j]}
      /\ \A j \in Offsets : j > pack.sealed => Here.vol[j] = Void
      /\ \A h \in Gens : h # pack.gen => slots'[h] = slots[h]
  BY <1>1, FlushHere
<1>3. pack.sealed # 0 /\ pack.last # NoLink /\ Agrees(Here.vol, pack)
  BY <1>1, SealedMeans DEF LogInv, EndInv, StandsInv, Session
<1>4. Here.vol[pack.sealed].seq = pack.seq /\ Here.vol[pack.sealed].manifest = pack.manifest
  BY <1>3 DEF Agrees
<1>5. attempted' = {} /\ committed' = Value(pack.seq, pack.manifest)
  BY <1>1, <1>3 DEF Expose
<1>6. Anchor(pack.gen, pack.sealed) /\ ShapeInv /\ ShapeInv'
  BY <1>1, <1>3 DEF PowerInv, WorldInv, Session, LogInv
<1>7. \A j \in Offsets : j > pack.sealed => \A r \in slots'[pack.gen].disk[j] : r.kind # "seal"
  BY <1>2, VoidBlock
<1>8. \A h \in Gens : h # pack.gen => Sheds(slots'[h], slots[h]) /\ Dims(slots'[h], slots[h])
  BY <1>2, ShedsSame
<1>9. \A h \in Gens : (h > pack.gen \/ h < pack.gen) => h # pack.gen
  BY <1>2 DEF Gens
<1>10. Anchor(pack.gen, pack.sealed)'
  <2>1. Value(slots[pack.gen].vol[pack.sealed].seq, slots[pack.gen].vol[pack.sealed].manifest) = committed'
    BY <1>4, <1>5 DEF Here
  <2>2. \A j \in Offsets : slots'[pack.gen].vol[j] = slots[pack.gen].vol[j]
                           /\ slots'[pack.gen].disk[j] = {slots'[pack.gen].vol[j]}
    BY <1>2 DEF Here
  <2>3. Anchor(pack.gen, pack.sealed) /\ pack.gen \in Gens
    BY <1>2, <1>6
  <2> DEFINE g == pack.gen
             i == pack.sealed
  <2>4. Anchor(g, i)'
    <3>1. /\ \A h \in Gens : h > g => Sheds(slots'[h], slots[h])
          /\ \A h \in Gens : h < g => Dims(slots'[h], slots[h])
      BY <1>8, <1>9
    <3>2. pack' = pack
      BY <1>1
    <3> QED
      BY <1>2, <1>6, <1>7, <2>1, <2>2, <2>3, <3>1, <3>2, AnchorKept
  <2> QED
    BY <2>4
<1>11. WorldInv'
  BY <1>1, <1>3, <1>10 DEF WorldInv
<1>12. DeskInv'
  <2>1. \A h \in Gens : h > pack.gen => ~slots'[h].name
    BY <1>1, <1>2, <1>9 DEF PowerInv, DeskInv
  <2> QED
    BY <1>1, <1>3, <1>5, <2>1 DEF DeskInv, Open
<1> QED
  BY <1>11, <1>12 DEF PowerInv

LEMMA OpenFoundedPower ==
    ASSUME Inv, CleanInv, LogInv, PowerInv, Setting, OpenFounded
    PROVE  PowerInv'
<1>1. /\ pc = "founding" /\ pc' = "ready" /\ Expose(pack) /\ UNCHANGED <<pack, source>>
      /\ pack.gen = 0 /\ pack.sealed = 0
      /\ slots' = [slots EXCEPT ![pack.gen] = Flush(Here)]
  BY DEF OpenFounded, Here, Inv, PhaseInv, LogInv, EndInv
<1>2. /\ pack.gen \in Gens
      /\ slots'[pack.gen].vol = Here.vol
      /\ \A j \in Offsets : slots'[pack.gen].disk[j] = {Here.vol[j]}
      /\ \A j \in Offsets : j > pack.sealed => Here.vol[j] = Void
      /\ \A h \in Gens : h # pack.gen => slots'[h] = slots[h]
  BY <1>1, FlushHere
<1>3. Unsealed(pack) /\ Here.vol[0] = Header(pack.salt)
  BY <1>1, SealedMeans DEF LogInv, StandsInv, Stands
<1>4. NoAnchor
  BY <1>1 DEF PowerInv, WorldInv
<1>5. 0 \in Offsets /\ \A j \in Offsets : j # 0 => j > 0
  BY RecordsAssumption DEF Offsets
<1>6. \A g \in Gens : \A j \in Offsets : \A r \in slots'[g].disk[j] : r.kind # "seal"
  <2>1. \A j \in Offsets : Here.vol[j].kind # "seal"
    BY <1>1, <1>2, <1>3, <1>5, VoidBlock DEF Header
  <2>2. \A g \in Gens : g # 0 => \A j \in Offsets : \A r \in slots[g].disk[j] : r.kind # "seal"
    BY <1>4 DEF NoAnchor
  <2> QED
    BY <1>1, <1>2, <2>1, <2>2
<1>7. /\ attempted' = {} /\ pack.last = NoLink /\ pack.seq = 0 /\ pack.manifest = {}
      /\ ~source => committed' = Value(0, {})
      /\ source \/ committed' = Value(pack.seq, pack.manifest)
      /\ source => committed' = committed
  BY <1>1, <1>3 DEF Expose, Unsealed
<1>8. NoAnchor'
  BY <1>1, <1>4, <1>6, <1>7 DEF NoAnchor
<1>9. WorldInv'
  BY <1>1, <1>8 DEF WorldInv
<1>10. DeskInv'
  <2>1. Here'.disk[0] = {Here'.vol[0]}
    BY <1>1, <1>2, <1>5 DEF Here
  <2>2. \A h \in Gens : h > pack.gen => ~slots'[h].name
    <3>1. \A h \in Gens : h > pack.gen => ~slots[h].name /\ h # pack.gen
      BY <1>1 DEF PowerInv, DeskInv, Gens
    <3> QED
      BY <1>2, <3>1
  <2> QED
    BY <1>1, <1>7, <2>1, <2>2 DEF DeskInv, Open
<1> QED
  BY <1>9, <1>10 DEF PowerInv

-----------------------------------------------------------------------------
(* Committing.                                                              *)

\* A step of the writer after which its slot still holds, up to the published seal, what
\* it held, and no slot may hold a seal it could not hold before.
LEMMA HereKept ==
    ASSUME Inv, LogInv, Inv', LogInv', PowerInv, pc \in Open, pc' \in Open, pack' = pack,
           source' = source, committed' = committed, attempted \subseteq attempted',
           slots'[pack.gen].name = Here.name, slots'[pack.gen].names = Here.names,
           \A j \in Offsets : j <= pack.sealed =>
              slots'[pack.gen].vol[j] = Here.vol[j] /\ slots'[pack.gen].disk[j] = Here.disk[j],
           Sheds(slots'[pack.gen], Here),
           \A h \in Gens : h # pack.gen => Sheds(slots'[h], slots[h]),
           \A h \in Gens : h < pack.gen => Dims(slots'[h], slots[h])
    PROVE  /\ WorldInv' /\ (pack'.sealed = 0 => Here'.disk[0] = {Here'.vol[0]})
           /\ (source' /\ pack'.last = NoLink) \/ committed' = Value(pack'.seq, pack'.manifest)
<1>1. pack.gen \in Gens /\ pack.sealed \in Offsets /\ 0 \in Offsets /\ \A j \in Offsets : j \in Nat
      /\ ShapeInv /\ ShapeInv'
  BY WriterFacts DEF LogInv
<1>2. CASE pack.sealed = 0
  <2>1. NoAnchor /\ Here.disk[0] = {Here.vol[0]}
    BY <1>2 DEF PowerInv, WorldInv, DeskInv, Session
  <2>2. \A h \in Gens : Sheds(slots'[h], slots[h])
    BY DEF Here
  <2>3. NoAnchor'
    BY <2>1, <2>2, NoAnchorKept
  <2>4. Here'.disk[0] = {Here'.vol[0]}
    <3>1. slots'[pack.gen].vol[0] = Here.vol[0] /\ slots'[pack.gen].disk[0] = Here.disk[0]
      BY <1>1, <1>2
    <3> QED
      BY <2>1, <3>1 DEF Here
  <2> QED
    BY <1>2, <2>3, <2>4 DEF WorldInv, PowerInv, DeskInv, Open
<1>3. CASE pack.sealed # 0
  <2>1. PICK g \in Gens, i \in Offsets : g = pack.gen /\ i = pack.sealed
    BY <1>1
  <2>2. Anchor(g, i)
    BY <1>3, <2>1 DEF PowerInv, WorldInv, Session
  <2>3. Solid(slots[g], i) /\ Tail(slots[g], i, attempted)
    BY <2>2 DEF Anchor
  <2>4. slots[g].name /\ slots[g].names = {"listed"}
        /\ \A j \in Offsets : j <= i => slots[g].disk[j] = {slots[g].vol[j]}
    BY <2>3 DEF Solid, Durable
  <2>5. /\ slots'[g].name /\ slots'[g].names = {"listed"}
        /\ \A j \in Offsets : j <= i =>
              slots'[g].vol[j] = slots[g].vol[j] /\ slots'[g].disk[j] = {slots'[g].vol[j]}
    BY <2>1, <2>4 DEF Here
  <2>6. \A j \in Offsets : j > i => \A r \in slots'[g].disk[j] : r.kind = "seal" =>
           r \in slots[g].disk[j] /\ Value(r.seq, r.manifest) \in attempted'
    BY <2>1, <2>3 DEF Here, Sheds, Tail
  <2>7. /\ \A h \in Gens : h > g => Sheds(slots'[h], slots[h])
        /\ \A h \in Gens : h < g => Dims(slots'[h], slots[h])
    BY <2>1 DEF Gens
  <2>8. {committed} \cup attempted \subseteq {committed'} \cup attempted'
    OBVIOUS
  <2>9. Anchor(g, i)'
    BY <1>1, <2>2, <2>5, <2>6, <2>7, <2>8, AnchorKept
  <2>10. WorldInv'
    BY <1>3, <2>1, <2>9 DEF WorldInv, Open
  <2> QED
    BY <1>3, <2>10 DEF PowerInv, DeskInv
<1> QED
  BY <1>2, <1>3

LEMMA AppendPower ==
    ASSUME Inv, LogInv, Inv', LogInv', PowerInv, pc = "ready",
           NEW objects \in SUBSET Objects, NEW manifest \in SUBSET Objects,
           NEW migrating \in BOOLEAN, AppendObjects(objects, manifest, migrating)
    PROVE  PowerInv'
<1>0. PICK new, end, last : new = NewOf(objects) /\ end = Here.len /\ last = end + Cardinality(new)
  OBVIOUS
<1>1. Appended(new, end, last, manifest, migrating)
  BY <1>0, AppendFacts
<1>2. /\ pc' = "commit" /\ UNCHANGED <<pack, source, committed, attempted>>
      /\ new \in SUBSET Objects /\ Fits(new, end) /\ end \in Offsets
      /\ slots'[pack.gen] = Write(Here, ObjectRecords(new, end), last)
      /\ \A h \in Gens : h # pack.gen => slots'[h] = slots[h]
  BY <1>1 DEF Appended, observed
<1>3. /\ pack.gen \in Gens /\ Here \in Slot /\ pack.sealed \in Offsets /\ \A j \in Offsets : j \in Nat
      /\ end = pack.sealed
  BY <1>0, WriterFacts DEF LogInv, EndInv
<1>4. /\ \A j \in DOMAIN ObjectRecords(new, end) : j > end /\ j \in Offsets
      /\ \A j \in DOMAIN ObjectRecords(new, end) : ObjectRecords(new, end)[j].kind # "seal"
  BY <1>2, ObjectRecordsFacts DEF ObjectPayloads
<1>5. Sheds(slots'[pack.gen], Here)
  BY <1>2, <1>3, <1>4, ShedsObjects
<1>6. ASSUME NEW j \in Offsets, j <= pack.sealed
      PROVE  slots'[pack.gen].vol[j] = Here.vol[j] /\ slots'[pack.gen].disk[j] = Here.disk[j]
  <2>1. j \notin DOMAIN ObjectRecords(new, end)
    BY <1>3, <1>4, <1>6
  <2> QED
    BY <1>2, <1>3, <2>1, WriteFields
<1>7. slots'[pack.gen].name = Here.name /\ slots'[pack.gen].names = Here.names
  BY <1>2, <1>3, WriteFields
<1>8. \A h \in Gens : h # pack.gen => Sheds(slots'[h], slots[h]) /\ Dims(slots'[h], slots[h])
  BY <1>2, ShedsSame
<1>9. \A h \in Gens : h < pack.gen => h # pack.gen
  BY <1>3 DEF Gens
<1>10. /\ WorldInv' /\ (pack'.sealed = 0 => Here'.disk[0] = {Here'.vol[0]})
       /\ (source' /\ pack'.last = NoLink) \/ committed' = Value(pack'.seq, pack'.manifest)
  <2>1. pc \in Open /\ pc' \in Open
    BY <1>2 DEF Open
  <2> QED
    BY <1>2, <1>5, <1>6, <1>7, <1>8, <1>9, <2>1, HereKept
<1>11. DeskInv'
  <2>1. attempted' = {} /\ \A h \in Gens : h > pack.gen => ~slots[h].name /\ h # pack.gen
    BY <1>2, <1>3 DEF PowerInv, DeskInv, Gens
  <2>2. \A h \in Gens : h > pack'.gen => ~slots'[h].name
    BY <1>2, <2>1
  <2> QED
    BY <1>2, <1>10, <2>1, <2>2 DEF DeskInv, Open
<1> QED
  BY <1>10, <1>11 DEF PowerInv

LEMMA CommitEndPower ==
    ASSUME Inv, LogInv, Inv', LogInv', PowerInv, CommitFlushFails \/ CommitUndo
    PROVE  PowerInv'
<1>1. /\ pack.gen \in Gens /\ Here \in Slot /\ pack.sealed \in Offsets /\ \A j \in Offsets : j \in Nat
  BY WriterFacts DEF LogInv
<1>2. PICK u : /\ slots' = [slots EXCEPT ![pack.gen] = u]
               /\ u = FlushFailed(Here) \/ (pc = "commit" /\ u = Truncate(Here, wip.undo))
  BY DEF CommitFlushFails, CommitUndo, Here
<1>3. /\ UNCHANGED <<pack, source, committed, attempted>>
      /\ pc \in {"commit", "sealed"} /\ pc' \in {"ready", "poisoned"}
      /\ pc = "commit" \/ pc' = "poisoned"
  BY DEF CommitFlushFails, CommitUndo, observed
<1>4. slots'[pack.gen] = u /\ \A h \in Gens : h # pack.gen => slots'[h] = slots[h]
  BY <1>1, <1>2 DEF Inv, TypeOK
<1>5. /\ u.name = Here.name /\ u.names = Here.names /\ Sheds(u, Here)
      /\ \A j \in Offsets : j <= pack.sealed => u.vol[j] = Here.vol[j] /\ u.disk[j] = Here.disk[j]
  <2>1. CASE u = FlushFailed(Here)
    BY <1>1, <2>1, FlushFailedFields, ShedsSame
  <2>2. CASE pc = "commit" /\ u = Truncate(Here, wip.undo)
    <3>1. u = Truncate(Here, pack.sealed)
      BY <2>2 DEF LogInv, EndInv
    <3> QED
      BY <1>1, <3>1, TruncateFields, ShedsTruncate
  <2> QED
    BY <1>2, <2>1, <2>2
<1>6. \A h \in Gens : h # pack.gen => Sheds(slots'[h], slots[h]) /\ Dims(slots'[h], slots[h])
  BY <1>4, ShedsSame
<1>7. \A h \in Gens : h < pack.gen => h # pack.gen
  BY <1>1 DEF Gens
<1>8. /\ WorldInv' /\ (pack'.sealed = 0 => Here'.disk[0] = {Here'.vol[0]})
      /\ (source' /\ pack'.last = NoLink) \/ committed' = Value(pack'.seq, pack'.manifest)
  <2>1. pc \in Open /\ pc' \in Open
    BY <1>3 DEF Open
  <2> QED
    BY <1>3, <1>4, <1>5, <1>6, <1>7, <2>1, HereKept
<1>9. DeskInv'
  <2>1. (pc = "commit" => attempted' = {}) /\ \A h \in Gens : h > pack.gen => ~slots[h].name /\ h # pack.gen
    BY <1>1, <1>3 DEF PowerInv, DeskInv, Gens
  <2>2. \A h \in Gens : h > pack'.gen => ~slots'[h].name
    BY <1>3, <1>4, <2>1
  <2> QED
    BY <1>3, <1>8, <2>1, <2>2 DEF DeskInv, Open
<1> QED
  BY <1>8, <1>9 DEF PowerInv

\* The seal of a commit in flight is one step after the published one, or a root.
LEMMA FlightSuccessor ==
    ASSUME Inv, LogInv, pc \in {"commit", "sealed"}
    PROVE  /\ pack.sealed # 0 => Successor(wip.seal, Here.vol, pack.sealed)
           /\ pack.sealed = 0 => Root(wip.seal) /\ pack.gen = 0 /\ (wip.seal.full => source)
<1>1. Follows(wip.seal, pack, wip.table) /\ Stands(Here.vol, pack)
      /\ (wip.seal.full /\ pack.sealed = 0 => source)
  BY DEF LogInv, FlightInv, StandsInv, Session, Open
<1> DEFINE r == wip.seal
           t == wip.table
<1>2. /\ r.prev = pack.last /\ r.seq > pack.seq
      /\ r.full => r.base = t
      /\ t = Merge(r.added, pack.table) \/ (r.full /\ pack.sealed = 0)
      /\ r.manifest \subseteq DOMAIN t
  BY <1>1 DEF Follows
<1> HIDE DEF r, t
<1>3. CASE pack.sealed # 0
  <2>1. Agrees(Here.vol, pack)
    BY <1>1, <1>3, SealedMeans
  <2>2. /\ ChainTable(Here.vol, pack.sealed) = pack.table /\ Here.vol[pack.sealed].seq = pack.seq
        /\ pack.last = [at |-> pack.sealed, check |-> SealCheck(Here.vol[pack.sealed])]
    BY <2>1 DEF Agrees
  <2>3. t = Merge(r.added, pack.table)
    BY <1>2, <1>3
  <2>4. r.full => Entries(r) = Merge(r.added, pack.table)
    <3>1. Merge(r.added, Merge(r.added, pack.table)) = Merge(r.added, pack.table)
      BY DEF Merge
    <3> QED
      BY <1>2, <2>3, <3>1 DEF Entries
  <2>5. DOMAIN t = DOMAIN r.added \cup DOMAIN pack.table
    BY <2>3 DEF Merge
  <2>6. Successor(r, Here.vol, pack.sealed)
    BY <1>2, <2>2, <2>4, <2>5 DEF Successor
  <2> QED
    BY <1>3, <2>6 DEF r
<1>4. CASE pack.sealed = 0
  <2>1. pack.last = NoLink /\ pack.table = NoTable /\ pack.gen = 0
    BY <1>1, <1>4, SealedMeans DEF Unsealed
  <2>2. DOMAIN t \subseteq DOMAIN Entries(r)
    <3>1. CASE r.full
      BY <1>2, <3>1 DEF Entries, Merge
    <3>2. CASE ~r.full
      BY <1>2, <2>1, <3>2 DEF Entries, Merge, NoTable
    <3> QED
      BY <3>1, <3>2
  <2>3. Root(r)
    BY <1>2, <2>1, <2>2 DEF Root
  <2> QED
    BY <1>1, <1>4, <2>1, <2>3 DEF r
<1> QED
  BY <1>3, <1>4

LEMMA CommitSealPower ==
    ASSUME Inv, LogInv, Inv', LogInv', PowerInv, CommitSeal
    PROVE  PowerInv'
<1>0. PICK end : end = Here.len + 1
  OBVIOUS
<1>1. /\ pc = "commit" /\ pc' = "sealed" /\ UNCHANGED <<pack, wip, source, committed>>
      /\ end \in Offsets
      /\ slots'[pack.gen] = Write(Here, [i \in {end} |-> wip.seal], end)
      /\ \A h \in Gens : h # pack.gen => slots'[h] = slots[h]
  BY <1>0, CommitSealFacts
<1>2. /\ pack.gen \in Gens /\ Here \in Slot /\ pack.sealed \in Offsets /\ 0 \in Offsets
      /\ (\A j \in Offsets : j \in Nat) /\ Here.len \in Nat /\ ShapeInv /\ ShapeInv'
      /\ pack.sealed <= Here.len
  <2>1. pack.sealed <= Here.len
    BY <1>1 DEF Inv, PhaseInv, Open
  <2> QED
    BY <2>1, WriterFacts DEF LogInv, Offsets
<1>3. pack.sealed < end /\ end # 0
  BY <1>0, <1>2
<1>4. attempted = {} /\ attempted' = {Value(wip.seal.seq, wip.seal.manifest)}
  BY <1>1 DEF PowerInv, DeskInv, CommitSeal
<1>5. /\ pack.sealed # 0 => Successor(wip.seal, Here.vol, pack.sealed)
      /\ pack.sealed = 0 => Root(wip.seal) /\ pack.gen = 0 /\ (wip.seal.full => source)
  BY <1>1, FlightSuccessor
<1> DEFINE u == slots'[pack.gen]
<1>6. /\ u.name = Here.name /\ u.names = Here.names
      /\ u.disk[end] = Here.disk[end] \cup {wip.seal}
      /\ \A j \in Offsets : j # end => u.vol[j] = Here.vol[j] /\ u.disk[j] = Here.disk[j]
  BY <1>1, <1>2, WriteFields
<1>7. \A j \in Offsets : j <= pack.sealed => u.vol[j] = Here.vol[j] /\ u.disk[j] = Here.disk[j]
  BY <1>2, <1>3, <1>6
<1>8. \A j \in Offsets : \A r \in u.disk[j] : r \in Here.disk[j] \/ (j = end /\ r = wip.seal)
  BY <1>1, <1>6
<1> HIDE DEF u
<1>9. \A h \in Gens : (h > pack.gen \/ h < pack.gen) => h # pack.gen
  BY <1>2 DEF Gens
<1>10. ASSUME pack.sealed = 0
      PROVE  WorldInv' /\ (pack'.sealed = 0 => Here'.disk[0] = {Here'.vol[0]})
  <2>1. NoAnchor /\ Here.disk[0] = {Here.vol[0]}
    BY <1>1, <1>10 DEF PowerInv, WorldInv, DeskInv, Session, Open
  <2>2. \A g \in Gens : \A j \in Offsets : \A r \in slots[g].disk[j] : r.kind # "seal"
    BY <1>4, <2>1, NoAnchorBare
  <2>3. \A g \in Gens : \A j \in Offsets : \A r \in slots'[g].disk[j] : r.kind = "seal" =>
           g = pack.gen /\ r = wip.seal
    BY <1>1, <1>2, <1>8, <2>2 DEF Here, u
  <2>4. NoAnchor'
    BY <1>1, <1>4, <1>5, <1>10, <2>1, <2>3 DEF NoAnchor
  <2>5. Here'.disk[0] = {Here'.vol[0]}
    <3>1. u.vol[0] = Here.vol[0] /\ u.disk[0] = Here.disk[0]
      BY <1>2, <1>3, <1>6
    <3>2. Here' = u
      BY <1>1 DEF Here, u
    <3> QED
      BY <2>1, <3>1, <3>2
  <2> QED
    BY <1>1, <1>10, <2>4, <2>5 DEF WorldInv
<1>11. ASSUME pack.sealed # 0
      PROVE  WorldInv' /\ (pack'.sealed = 0 => Here'.disk[0] = {Here'.vol[0]})
  <2>1. PICK g \in Gens, i \in Offsets : g = pack.gen /\ i = pack.sealed
    BY <1>2
  <2>2. Anchor(g, i)
    BY <1>1, <1>11, <2>1 DEF PowerInv, WorldInv, Session, Open
  <2>3. /\ Solid(slots[g], i) /\ Tail(slots[g], i, {})
        /\ Value(slots[g].vol[i].seq, slots[g].vol[i].manifest) = committed
        /\ \A h \in Gens : h > g => Younger(slots[h], slots[g].vol[i])
        /\ \A h \in Gens : h < g => Beaten(slots[h], slots[g].vol[i].seq)
    BY <1>4, <2>2 DEF Anchor
  <2>4. slots[g].name /\ slots[g].names = {"listed"}
        /\ \A j \in Offsets : j <= i => slots[g].disk[j] = {slots[g].vol[j]}
    BY <2>3 DEF Solid, Durable
  <2>5. slots[g] \in Slot /\ slots'[g] \in Slot /\ ShapeSlot(slots[g]) /\ ShapeSlot(slots'[g])
    BY <1>2 DEF Inv, TypeOK, ShapeInv
  <2>6. /\ Solid(slots'[g], i) /\ slots'[g].vol[i] = slots[g].vol[i]
        /\ ChainTable(slots'[g].vol, i) = ChainTable(slots[g].vol, i)
    <3>1. /\ slots'[g].name /\ slots'[g].names = {"listed"}
          /\ \A j \in Offsets : j <= i =>
                slots'[g].vol[j] = slots[g].vol[j] /\ slots'[g].disk[j] = {slots'[g].vol[j]}
      BY <1>6, <1>7, <2>1, <2>4 DEF Here, u
    <3> QED
      BY <2>3, <2>5, <3>1, SolidSame
  <2>7. Successor(wip.seal, slots'[g].vol, i)
    <3>1. Successor(wip.seal, slots[g].vol, i)
      BY <1>5, <1>11, <2>1 DEF Here
    <3> QED
      BY <2>6, <3>1 DEF Successor
  <2>8. Tail(slots'[g], i, attempted')
    <3> SUFFICES ASSUME NEW j \in Offsets, j > i, NEW r \in slots'[g].disk[j], r.kind = "seal"
                 PROVE  Successor(r, slots'[g].vol, i) /\ Value(r.seq, r.manifest) \in attempted'
      BY DEF Tail
    <3>1. r \notin slots[g].disk[j]
      BY <2>3 DEF Tail
    <3>2. r = wip.seal
      BY <1>8, <2>1, <3>1 DEF Here, u
    <3> QED
      BY <1>4, <2>7, <3>2
  <2>9. \A h \in Gens : (h > g \/ h < g) => slots'[h] = slots[h]
    BY <1>1, <1>9, <2>1
  <2>10. Anchor(g, i)'
    BY <1>1, <2>3, <2>6, <2>8, <2>9 DEF Anchor
  <2>11. WorldInv'
    BY <1>1, <1>11, <2>1, <2>10 DEF WorldInv
  <2> QED
    BY <1>1, <1>11, <2>11
<1>12. WorldInv' /\ (pack'.sealed = 0 => Here'.disk[0] = {Here'.vol[0]})
  BY <1>1, <1>10, <1>11
<1>13. DeskInv'
  <2>1. \A h \in Gens : h > pack'.gen => ~slots'[h].name
    BY <1>1, <1>9 DEF PowerInv, DeskInv
  <2>2. (source' /\ pack'.last = NoLink) \/ committed' = Value(pack'.seq, pack'.manifest)
    BY <1>1 DEF PowerInv, DeskInv, Open
  <2> QED
    BY <1>1, <1>4, <1>12, <2>1, <2>2 DEF DeskInv, Open
<1> QED
  BY <1>12, <1>13 DEF PowerInv

\* A seal whose table the pack holds, and reads, is a good one.
LEMMA PublishedGood ==
    ASSUME NEW b, NEW p, Agrees(b, p), Readable(b, p.table, p.manifest),
           \A h \in DOMAIN b[p.sealed].added :
              h \in DOMAIN p.table /\ p.table[h] = b[p.sealed].added[h],
           b[p.sealed].full => b[p.sealed].base = p.table
    PROVE  Good(b, p.sealed)
<1>1. /\ p.sealed \in Seals(b) /\ ChainHolds(b, p.sealed) /\ ChainTable(b, p.sealed) = p.table
      /\ b[p.sealed].manifest = p.manifest
  BY DEF Agrees
<1>2. DeltaHolds(b, p.table) /\ p.manifest \subseteq DOMAIN p.table
  BY DEF Readable
<1>3. DeltaHolds(b, b[p.sealed].added)
  BY <1>2 DEF DeltaHolds
<1>4. BirthHolds(b, p.sealed)
  BY <1>2 DEF BirthHolds
<1> QED
  BY <1>1, <1>2, <1>3, <1>4 DEF Good, GoodAt, Verifies

LEMMA CommitFlushPower ==
    ASSUME Inv, CleanInv, LogInv, Inv', LogInv', ReadInv', PowerInv, Setting, CommitFlush
    PROVE  PowerInv'
<1>1. /\ pc = "sealed" /\ pc' = "ready" /\ UNCHANGED <<source>> /\ attempted' = {}
      /\ committed' = Value(wip.seal.seq, wip.seal.manifest)
      /\ slots'[pack.gen] = Flush(Here) /\ \A h \in Gens : h # pack.gen => slots'[h] = slots[h]
      /\ pack'.gen = pack.gen /\ pack'.table = wip.table /\ pack'.sealed = Here.len
      /\ pack'.seq = wip.seal.seq /\ pack'.manifest = wip.seal.manifest
  BY CommitFlushFacts
<1>2. /\ pack.gen \in Gens /\ Here \in Slot /\ GoodSlot(Here, pack.gen) /\ ShapeSlot(Here)
      /\ Here.len \in Offsets /\ pack.sealed \in Offsets
      /\ (\A j \in Offsets : j \in Nat) /\ ShapeInv /\ ShapeInv'
  BY HereFacts, WriterFacts DEF LogInv
<1>3. Here.name /\ pack.sealed < Here.len /\ Here.vol[Here.len] = wip.seal
      /\ Follows(wip.seal, pack, wip.table)
  BY <1>1 DEF Inv, PhaseInv, Open, LogInv, EndInv, FlightInv
<1>4. PICK g \in Gens, n \in Offsets, i \in Offsets, r \in {wip.seal} :
         g = pack.gen /\ n = Here.len /\ i = pack.sealed /\ r = wip.seal
  BY <1>2
<1>5. n \in Nat /\ i \in Nat /\ i < n /\ n # 0
  BY <1>2, <1>3, <1>4
<1> DEFINE u == slots'[g]
<1>6. /\ u.name /\ u.names = {"listed"} /\ u.vol = Here.vol /\ u \in Slot /\ ShapeSlot(u)
      /\ (\A j \in Offsets : u.disk[j] = {u.vol[j]}) /\ u.vol[n] = r
      /\ \A j \in Offsets : j > n => u.vol[j] = Void
  <2>1. /\ Flush(Here).name = Here.name /\ Flush(Here).vol = Here.vol
        /\ \A j \in Offsets : Flush(Here).disk[j] = {Flush(Here).vol[j]}
    <3>1. CleanSlot(Here)
      BY <1>1, <1>2 DEF CleanInv, Here
    <3> QED
      BY <1>2, <1>3, <3>1, GoodFlush, CleanOps
  <2>2. Flush(Here).names = {"listed"}
    BY <1>2, FlushFields DEF Setting
  <2>3. \A j \in Offsets : j > n => Here.vol[j] = Void
    BY <1>2, <1>3, <1>4 DEF ShapeSlot
  <2>4. u \in Slot /\ ShapeSlot(u)
    BY <1>2 DEF Inv, TypeOK, ShapeInv
  <2>5. u = Flush(Here) /\ Here.vol[n] = r
    BY <1>1, <1>3, <1>4
  <2> HIDE DEF u
  <2> QED
    BY <1>3, <2>1, <2>2, <2>3, <2>4, <2>5
<1>7. Good(u.vol, n)
  <2>1. Here' = u /\ pack'.sealed = n
    BY <1>1, <1>4 DEF Here
  <2>2. Stands(u.vol, pack')
    <3>1. StandsInv'
      BY DEF LogInv
    <3> QED
      BY <1>1, <2>1, <3>1 DEF StandsInv, Session, Open
  <2>3. Agrees(u.vol, pack')
    BY <1>5, <2>1, <2>2, SealedMeans
  <2>4. Readable(u.vol, pack'.table, pack'.manifest)
    BY <1>1, <2>1 DEF ReadInv, Session, Open
  <2>5. /\ \A h \in DOMAIN r.added : h \in DOMAIN pack'.table /\ pack'.table[h] = r.added[h]
        /\ r.full => r.base = pack'.table
    BY <1>1, <1>3, <1>4 DEF Follows
  <2> HIDE DEF u
  <2>6. Good(u.vol, pack'.sealed)
    BY <1>6, <2>1, <2>3, <2>4, <2>5, PublishedGood
  <2> QED
    BY <2>1, <2>6
<1>8. Solid(u, n) /\ Tail(u, n, {})
  <2>1. Solid(u, n)
    BY <1>6, <1>7 DEF Solid, Durable
  <2>2. Tail(u, n, {})
    BY <1>6, VoidBlock DEF Tail
  <2> QED
    BY <2>1, <2>2
<1>9. \A h \in Gens : (h > g \/ h < g) => slots'[h] = slots[h] /\ slots[h] \in Slot /\ ShapeSlot(slots[h])
  BY <1>1, <1>2, <1>4 DEF Inv, TypeOK, ShapeInv, Gens
<1>10. r.seq \in Nat
  BY <1>1, <1>4 DEF Inv, PhaseInv, SealRecords
<1>11. ASSUME NEW h \in Gens, h > g PROVE Younger(slots[h], r)
  <2>1. CASE i = 0
    <3>1. NoAnchor /\ h # 0
      BY <1>1, <1>4, <1>11, <2>1 DEF PowerInv, WorldInv, Session, Open, Gens
    <3> QED
      BY <3>1 DEF NoAnchor, Younger
  <2>2. CASE i # 0
    <3>1. Anchor(g, i) /\ Successor(r, slots[g].vol, i)
      BY <1>1, <1>4, <2>2, FlightSuccessor DEF PowerInv, WorldInv, Session, Open, Here
    <3>2. Younger(slots[h], slots[g].vol[i]) /\ r.seq > slots[g].vol[i].seq /\ slots[g].vol[i].seq \in Nat
      <4>1. i \in Seals(slots[g].vol) /\ slots[g].name
        BY <3>1 DEF Anchor, Solid, Good, Durable
      <4> QED
        BY <1>2, <1>11, <3>1, <4>1, SlotLeaf DEF Anchor, Successor
    <3>3. \A j \in Offsets : \A q \in slots[h].disk[j] : q.kind = "seal" => q.seq \in Nat
      BY <1>9, <1>11, DiskSeals
    <3>4. \A j \in Offsets : \A q \in slots[h].disk[j] : q.kind = "seal" => q.seq <= r.seq /\ q.seq # r.seq
      BY <1>10, <3>2, <3>3 DEF Younger
    <3> QED
      BY <3>2, <3>4 DEF Younger
  <2> QED
    BY <2>1, <2>2
<1>12. ASSUME NEW h \in Gens, h < g PROVE Beaten(slots[h], r.seq)
  <2>1. i # 0
    <3>1. i = 0 => g = 0
      BY <1>1, <1>4, FlightSuccessor
    <3> QED
      BY <1>12, <3>1 DEF Gens
  <2>2. Anchor(g, i) /\ Successor(r, slots[g].vol, i)
    BY <1>1, <1>4, <2>1, FlightSuccessor DEF PowerInv, WorldInv, Session, Open, Here
  <2>3. i \in Seals(slots[g].vol) /\ slots[g].name
    BY <2>2 DEF Anchor, Solid, Good, Durable
  <2>4. slots[g].vol[i].seq \in Nat /\ Beaten(slots[h], slots[g].vol[i].seq) /\ slots[g].vol[i].seq < r.seq
    BY <1>2, <1>12, <2>2, <2>3, SlotLeaf DEF Anchor, Successor
  <2>5. slots[g].vol[i].seq <= r.seq
    BY <1>10, <2>4
  <2> QED
    BY <1>9, <1>10, <1>12, <2>4, <2>5, BeatenMore
<1>13. Anchor(g, n)'
  <2>1. Value(u.vol[n].seq, u.vol[n].manifest) \in {committed'} \cup attempted'
    BY <1>1, <1>4, <1>6
  <2>2. /\ \A h \in Gens : h > g => Younger(slots'[h], u.vol[n])
        /\ \A h \in Gens : h < g => Beaten(slots'[h], u.vol[n].seq)
    BY <1>6, <1>9, <1>11, <1>12
  <2> QED
    BY <1>1, <1>8, <2>1, <2>2 DEF Anchor
<1>14. WorldInv'
  BY <1>1, <1>4, <1>5, <1>13 DEF WorldInv
<1>15. DeskInv'
  <2>1. \A h \in Gens : h > pack'.gen => ~slots'[h].name
    BY <1>1, <1>4, <1>9 DEF PowerInv, DeskInv
  <2> QED
    BY <1>1, <1>4, <1>5, <2>1 DEF DeskInv, Open
<1> QED
  BY <1>14, <1>15 DEF PowerInv

-----------------------------------------------------------------------------
(* Compacting.                                                              *)

LEMMA CompactPower ==
    ASSUME Inv, LogInv, Inv', LogInv', PowerInv, Compact
    PROVE  PowerInv'
<1>1. PICK after \in Swept(slots, {pack.gen + 1}), salt \in FreshSalts(slots[pack.gen + 1]) :
           /\ pc = "ready" /\ pc' = "header" /\ UNCHANGED <<pack, views, source, observed>>
           /\ Sealed /\ pack.gen \in Gens /\ pack.gen + 1 \in Gens /\ pack.gen + 1 # pack.gen
           /\ slots'[pack.gen + 1] = InitSlot(after[pack.gen + 1], salt)
           /\ after \in [Gens -> Slot]
           /\ after[pack.gen + 1] \in {slots[pack.gen + 1], Remove(slots[pack.gen + 1])}
           /\ \A h \in Gens : h # pack.gen + 1 => slots'[h] = slots[h]
  BY CompactFacts
<1>2. Sheds(slots'[pack.gen + 1], slots[pack.gen + 1])
  <2>1. after[pack.gen + 1] \in Slot /\ slots[pack.gen + 1] \in Slot
    BY <1>1 DEF Inv, TypeOK
  <2>2. after[pack.gen + 1].disk = slots[pack.gen + 1].disk
    BY <1>1, <2>1, RemoveFields
  <2>3. Sheds(InitSlot(after[pack.gen + 1], salt), after[pack.gen + 1])
    BY <2>1, ShedsInit
  <2> QED
    BY <1>1, <2>2, <2>3 DEF Sheds
<1>3. \A h \in Gens : h # pack.gen + 1 => Sheds(slots'[h], slots[h]) /\ Dims(slots'[h], slots[h])
  BY <1>1, ShedsSame
<1>4. \A h \in Gens : (h < pack.gen => h # pack.gen + 1) /\ (h > pack.gen + 1 => h > pack.gen /\ h # pack.gen + 1)
  BY <1>1 DEF Gens
<1>5. slots'[pack.gen] = Here
  BY <1>1 DEF Here
<1>6. /\ WorldInv' /\ (pack'.sealed = 0 => Here'.disk[0] = {Here'.vol[0]})
      /\ (source' /\ pack'.last = NoLink) \/ committed' = Value(pack'.seq, pack'.manifest)
  <2>1. pc \in Open /\ pc' \in Open /\ UNCHANGED <<committed, attempted>>
    BY <1>1 DEF Open, observed
  <2>2. Sheds(slots'[pack.gen], Here)
    BY <1>5, ShedsSame
  <2>3. /\ \A h \in Gens : h # pack.gen => Sheds(slots'[h], slots[h])
        /\ \A h \in Gens : h < pack.gen => Dims(slots'[h], slots[h])
    BY <1>2, <1>3, <1>4
  <2> QED
    BY <1>1, <1>5, <2>1, <2>2, <2>3, HereKept
<1>7. DeskInv'
  <2>1. attempted' = {} /\ \A h \in Gens : h > pack'.gen + 1 => ~slots'[h].name
    BY <1>1, <1>4 DEF PowerInv, DeskInv, observed
  <2> QED
    BY <1>1, <1>6, <2>1 DEF DeskInv, Open
<1> QED
  BY <1>6, <1>7 DEF PowerInv

LEMMA CompactFailsPower ==
    ASSUME Inv, LogInv, Inv', LogInv', PowerInv, Setting, CompactFails
    PROVE  PowerInv'
<1>0. PICK next : next = pack.gen + 1
  OBVIOUS
<1>1. /\ pc \in {"header", "successor"} /\ pc' = "ready"
      /\ UNCHANGED <<pack, views, source, observed>>
      /\ pack.gen \in Gens /\ next \in Gens /\ next # pack.gen /\ pack.gen < next
      /\ slots'[next] = Remove(slots[next])
      /\ \A h \in Gens : h # next => slots'[h] = slots[h]
  BY <1>0, CompactFailsFacts DEF Setting
<1>2. Sheds(slots'[next], slots[next]) /\ Dims(slots'[next], slots[next]) /\ ~slots'[next].name
  BY <1>1, ShedsRemove DEF Inv, TypeOK
<1>3. \A h \in Gens : Sheds(slots'[h], slots[h]) /\ Dims(slots'[h], slots[h])
  BY <1>1, <1>2, ShedsSame
<1>4. \A h \in Gens : h > pack.gen => h = next \/ h > pack.gen + 1
  BY <1>0, <1>1 DEF Gens
<1>5. slots'[pack.gen] = Here
  BY <1>1 DEF Here
<1>6. /\ WorldInv' /\ (pack'.sealed = 0 => Here'.disk[0] = {Here'.vol[0]})
      /\ (source' /\ pack'.last = NoLink) \/ committed' = Value(pack'.seq, pack'.manifest)
  <2>1. pc \in Open /\ pc' \in Open /\ UNCHANGED <<committed, attempted>>
    BY <1>1 DEF Open, observed
  <2>2. Sheds(slots'[pack.gen], Here)
    BY <1>5, ShedsSame
  <2> QED
    BY <1>1, <1>3, <1>5, <2>1, <2>2, HereKept
<1>7. DeskInv'
  <2>1. attempted' = {} /\ \A h \in Gens : h > pack.gen + 1 => ~slots[h].name
    BY <1>1 DEF PowerInv, DeskInv, observed
  <2>2. \A h \in Gens : h > pack'.gen => ~slots'[h].name
    BY <1>1, <1>2, <1>4, <2>1
  <2> QED
    BY <1>1, <1>6, <2>1, <2>2 DEF DeskInv, Open
<1> QED
  BY <1>6, <1>7 DEF PowerInv

LEMMA CompactCopyPower ==
    ASSUME Inv, LogInv, Inv', LogInv', ReadInv', PowerInv, NEW live, CompactCopy(live)
    PROVE  PowerInv'
<1>0. PICK keep, end, seal, w : /\ keep = Keep(live) /\ end = Cardinality(keep) + 1
                                /\ seal = BirthOf(wip.seal.salt, Placed(keep, 0))
                                /\ w = Merge(ObjectRecords(keep, 0), [i \in {end} |-> seal])
  OBVIOUS
<1>1. Copied(keep, end, seal, w)
  BY <1>0, CompactCopyFacts
<1>2. /\ pc = "header" /\ pc' = "successor" /\ UNCHANGED <<pack, source, committed, attempted>>
      /\ pack.gen \in Gens /\ pack.gen + 1 \in Gens /\ pack.gen + 1 # pack.gen
      /\ slots'[pack.gen + 1] = Write(Flush(Next1), w, end)
      /\ \A h \in Gens : h # pack.gen + 1 => slots'[h] = slots[h]
      /\ wip'.seal = seal /\ wip'.table = Placed(keep, 0)
      /\ DOMAIN w = DOMAIN ObjectRecords(keep, 0) \cup {end} /\ w[end] = seal
      /\ \A i \in DOMAIN ObjectRecords(keep, 0) : w[i] \in ObjectPayloads
  BY <1>1 DEF Copied, observed
<1>3. PICK g \in Gens, next \in Gens : g = pack.gen /\ next = pack.gen + 1
  BY <1>2
<1>4. PICK i \in Offsets : i = pack.sealed
  BY DEF Inv, TypeOK, Packs
<1>5. /\ ShapeInv /\ i # 0 /\ attempted = {} /\ Stands(slots[g].vol, pack) /\ slots[next].name
      /\ pack.sealed # 0
  BY <1>2, <1>3, <1>4
     DEF LogInv, EndInv, PowerInv, DeskInv, StandsInv, Session, Open, Inv, PhaseInv, Here
<1>6. Anchor(g, i)
  BY <1>2, <1>3, <1>4, <1>5 DEF PowerInv, WorldInv, Session, Open
<1> DEFINE top == slots[g].vol[i]
<1>7. top.seq = pack.seq /\ top.manifest = pack.manifest
  <2>1. Agrees(slots[g].vol, pack)
    BY <1>5, SealedMeans
  <2> QED
    BY <1>4, <2>1 DEF Agrees
<1>8. /\ seal.prev = NoLink /\ seal.full /\ seal.seq = pack.seq /\ seal.manifest = pack.manifest
      /\ seal.added = NoTable /\ seal.base = Placed(keep, 0)
  BY <1>0 DEF BirthOf
<1>9. Root(seal)
  <2>1. pack.manifest \subseteq DOMAIN Placed(keep, 0)
    BY <1>2 DEF ReadInv, Readable
  <2>2. DOMAIN Placed(keep, 0) \subseteq DOMAIN Entries(seal)
    BY <1>8 DEF Entries, Merge
  <2> QED
    BY <1>8, <2>1, <2>2 DEF Root
<1>10. \A j \in Offsets : \A r \in slots'[next].disk[j] : r.kind = "seal" =>
          r \in slots[next].disk[j] \/ r = seal
  <2>1. slots[next] \in Slot /\ ShapeSlot(slots[next]) /\ Flush(slots[next]) \in Slot
    <3>1. GoodSlot(slots[next], next)
      BY DEF Inv, SlotsInv
    <3>2. GoodSlot(Flush(slots[next]), next)
      BY <3>1, GoodFlush
    <3> QED
      BY <1>5, <3>1, <3>2 DEF GoodSlot, ShapeInv
  <2>2. Sheds(Flush(slots[next]), slots[next])
    BY <1>5, <2>1, ShedsFlush
  <2>3. slots'[next] = Write(Flush(slots[next]), w, end)
    BY <1>2, <1>3 DEF Next1
  <2>4. \A j \in DOMAIN w : w[j].kind = "seal" => w[j] = seal
    BY <1>2 DEF ObjectPayloads
  <2>5. \A j \in Offsets : \/ slots'[next].disk[j] = Flush(slots[next]).disk[j]
                           \/ j \in DOMAIN w /\ slots'[next].disk[j] = Flush(slots[next]).disk[j] \cup {w[j]}
    BY <2>1, <2>3, WriteFields
  <2> QED
    BY <2>2, <2>4, <2>5 DEF Sheds
<1>11. next > g /\ g # next /\ \A h \in Gens : h < g => h # next
  BY <1>3 DEF Gens
<1>12. Younger(slots'[next], top)
  <2>1. Younger(slots[next], top) /\ top.seq \in Nat
    <3>1. pack.seq \in Nat
      BY DEF Inv, TypeOK, Packs
    <3> QED
      BY <1>6, <1>7, <1>11, <3>1 DEF Anchor
  <2> HIDE DEF top
  <2> SUFFICES ASSUME NEW j \in Offsets, NEW r \in slots'[next].disk[j], r.kind = "seal"
               PROVE  /\ Root(r) /\ r.full /\ r.seq <= top.seq
                      /\ r.seq = top.seq => r.manifest = top.manifest
    BY DEF Younger
  <2>2. CASE r \in slots[next].disk[j]
    BY <2>1, <2>2 DEF Younger
  <2>3. CASE r = seal
    BY <1>7, <1>8, <1>9, <2>1, <2>3
  <2> QED
    BY <1>10, <2>2, <2>3
<1>13. Anchor(g, i)'
  <2>1. slots'[g] = slots[g] /\ \A h \in Gens : h # next => slots'[h] = slots[h]
    BY <1>2, <1>3, <1>11
  <2>2. \A h \in Gens : h > g => Younger(slots'[h], top)
    BY <1>6, <1>12, <2>1 DEF Anchor
  <2>3. \A h \in Gens : h < g => Beaten(slots'[h], top.seq)
    BY <1>6, <1>11, <2>1 DEF Anchor
  <2> QED
    BY <1>2, <1>6, <2>1, <2>2, <2>3 DEF Anchor
<1>14. WorldInv'
  BY <1>2, <1>3, <1>4, <1>5, <1>13 DEF WorldInv
<1>15. DeskInv'
  <2>1. \A h \in Gens : h > pack'.gen + 1 => ~slots'[h].name
    <3>1. \A h \in Gens : h > pack.gen + 1 => ~slots[h].name /\ h # pack.gen + 1
      BY <1>2 DEF PowerInv, DeskInv, Gens
    <3> QED
      BY <1>2, <3>1
  <2>2. committed' = Value(pack'.seq, pack'.manifest)
    <3>1. pack.last # NoLink
      BY <1>5, SealedMeans
    <3> QED
      BY <1>2, <3>1 DEF PowerInv, DeskInv, Open
  <2> QED
    BY <1>2, <1>5, <2>1, <2>2 DEF DeskInv, Open
<1> QED
  BY <1>14, <1>15 DEF PowerInv

LEMMA CompactSwapPower ==
    ASSUME Inv, CleanInv, LogInv, Inv', LogInv', ReadInv', PowerInv, Setting, CompactSwap
    PROVE  PowerInv'
<1>0. PICK next : next = pack.gen + 1
  OBVIOUS
<1>1. Swapped(next)
  BY <1>0, CompactSwapFacts
<1>2. /\ pc = "successor" /\ pc' = "ready" /\ UNCHANGED <<source, committed, attempted>>
      /\ pack.gen \in Gens /\ next \in Gens /\ next # pack.gen /\ pack.gen < next
      /\ slots'[next] = Flush(slots[next])
      /\ \A h \in Gens : h # next => slots'[h] \in {slots[h], Remove(slots[h])}
      /\ \A h \in Gens : h > next => slots'[h] = slots[h]
      /\ pack'.gen = next /\ pack'.table = wip.table /\ pack'.sealed = slots[next].len
      /\ pack'.seq = pack.seq /\ pack'.manifest = pack.manifest
  BY <1>1 DEF Swapped, observed
<1>3. PICK g \in Gens, i \in Offsets : g = pack.gen /\ i = pack.sealed
  BY <1>2 DEF Inv, TypeOK, Packs
<1>4. /\ slots[next] \in Slot /\ GoodSlot(slots[next], next) /\ ShapeSlot(slots[next])
      /\ ShapeInv /\ ShapeInv'
  BY <1>2 DEF Inv, TypeOK, SlotsInv, LogInv, ShapeInv
<1>5. PICK n \in Offsets : n = slots[next].len
  BY <1>4 DEF Slot
<1>6. /\ i # 0 /\ pack.sealed # 0 /\ attempted = {} /\ Stands(slots[g].vol, pack) /\ slots[next].name
  BY <1>0, <1>2, <1>3
     DEF LogInv, EndInv, PowerInv, DeskInv, StandsInv, Session, Open, Inv, PhaseInv, Here
<1>7. Anchor(g, i)
  BY <1>2, <1>3, <1>6 DEF PowerInv, WorldInv, Session, Open
<1> DEFINE top == slots[g].vol[i]
           u   == slots'[next]
           new == slots[next].vol[n]
<1>8. top.seq = pack.seq /\ top.manifest = pack.manifest /\ pack.last # NoLink /\ top.seq \in Nat
  <2>1. Agrees(slots[g].vol, pack) /\ pack.last # NoLink /\ pack.seq \in Nat
    BY <1>6, SealedMeans DEF Inv, TypeOK, Packs
  <2> QED
    BY <1>3, <2>1 DEF Agrees
<1>9. /\ n # 0 /\ new.seq = pack.seq /\ new.manifest = pack.manifest
      /\ new.added = NoTable /\ new.base = wip.table
  BY <1>0, <1>2, <1>5 DEF LogInv, BirthInv, Next1
<1>10. /\ u.name /\ u.names = {"listed"} /\ u.vol = slots[next].vol
       /\ (\A j \in Offsets : u.disk[j] = {u.vol[j]})
       /\ \A j \in Offsets : j > n => u.vol[j] = Void
  <2>1. /\ Flush(slots[next]).name = slots[next].name /\ Flush(slots[next]).vol = slots[next].vol
        /\ \A j \in Offsets : Flush(slots[next]).disk[j] = {Flush(slots[next]).vol[j]}
    <3>1. CleanSlot(slots[next])
      BY <1>0, <1>2 DEF CleanInv
    <3> QED
      BY <1>4, <1>6, <3>1, GoodFlush, CleanOps
  <2>2. Flush(slots[next]).names = {"listed"}
    BY <1>4, FlushFields DEF Setting
  <2>3. \A j \in Offsets : j > n => slots[next].vol[j] = Void
    BY <1>4, <1>5, <1>6 DEF ShapeSlot
  <2>4. u = Flush(slots[next])
    BY <1>2
  <2> HIDE DEF u
  <2> QED
    BY <1>6, <2>1, <2>2, <2>3, <2>4
<1>11. Good(u.vol, n)
  <2>1. Here' = u /\ pack'.sealed = n
    BY <1>2, <1>5 DEF Here
  <2>2. Stands(u.vol, pack')
    <3>1. StandsInv'
      BY DEF LogInv
    <3> QED
      BY <1>2, <2>1, <3>1 DEF StandsInv, Session, Open
  <2>3. Agrees(u.vol, pack')
    BY <1>9, <2>1, <2>2, SealedMeans
  <2>4. Readable(u.vol, pack'.table, pack'.manifest)
    BY <1>2, <2>1 DEF ReadInv, Session, Open
  <2>5. u.vol[pack'.sealed] = new
    BY <1>10, <2>1
  <2>6. /\ \A h \in DOMAIN new.added : h \in DOMAIN pack'.table /\ pack'.table[h] = new.added[h]
        /\ new.full => new.base = pack'.table
    BY <1>2, <1>9 DEF NoTable
  <2> HIDE DEF u, new
  <2>7. Good(u.vol, pack'.sealed)
    BY <2>3, <2>4, <2>5, <2>6, PublishedGood
  <2> QED
    BY <2>1, <2>7
<1>12. Solid(u, n) /\ Tail(u, n, {})
  <2>1. Solid(u, n)
    BY <1>10, <1>11 DEF Solid, Durable
  <2>2. Tail(u, n, {})
    BY <1>10, VoidBlock DEF Tail
  <2> QED
    BY <2>1, <2>2
<1>13. committed = Value(pack.seq, pack.manifest)
  BY <1>2, <1>8 DEF PowerInv, DeskInv, Open
<1>14. ASSUME NEW h \in Gens, h > next PROVE Younger(slots'[h], u.vol[n])
  <2>1. h > g /\ slots'[h] = slots[h]
    BY <1>2, <1>3, <1>14 DEF Gens
  <2>2. Younger(slots[h], top)
    BY <1>7, <2>1 DEF Anchor
  <2>3. u.vol[n].seq = top.seq /\ u.vol[n].manifest = top.manifest
    BY <1>8, <1>9, <1>10
  <2> HIDE DEF top, u
  <2> QED
    BY <2>1, <2>2, <2>3 DEF Younger
<1>15. ASSUME NEW h \in Gens, h < next PROVE Beaten(slots'[h], u.vol[n].seq)
  <2>1. Dims(slots'[h], slots[h]) /\ slots[h] \in Slot /\ ShapeSlot(slots[h])
    <3>1. h # next /\ slots[h] \in Slot /\ ShapeSlot(slots[h])
      BY <1>2, <1>4, <1>15 DEF Gens, Inv, TypeOK, ShapeInv
    <3> QED
      BY <1>2, <3>1, ShedsSame, ShedsRemove
  <2>2. u.vol[n].seq = top.seq
    BY <1>8, <1>9, <1>10
  <2>3. Beaten(slots[h], top.seq)
    <3>1. CASE h < g
      BY <1>7, <3>1 DEF Anchor
    <3>2. CASE h = g
      <4>1. Solid(slots[g], i) /\ Tail(slots[g], i, {})
        BY <1>6, <1>7 DEF Anchor
      <4>2. \A b \in Leaves(slots[g]) : Elected(b) = i /\ b[i] = top
        BY <2>1, <3>2, <4>1, LeafStays
      <4> HIDE DEF top
      <4>3. \A b \in Leaves(slots[g]) : b[Elected(b)].seq <= top.seq
        BY <1>8, <4>2
      <4> QED
        BY <3>2, <4>3 DEF Beaten
    <3>3. h < g \/ h = g
      BY <1>0, <1>3, <1>15 DEF Gens
    <3> QED
      BY <3>1, <3>2, <3>3
  <2> HIDE DEF u, top
  <2> QED
    BY <2>1, <2>2, <2>3, BeatenDim
<1>16. Anchor(next, n)'
  <2>1. Value(u.vol[n].seq, u.vol[n].manifest) \in {committed'} \cup attempted'
    BY <1>2, <1>9, <1>10, <1>13
  <2>2. attempted' = {}
    BY <1>2, <1>6
  <2> QED
    BY <1>12, <1>14, <1>15, <2>1, <2>2 DEF Anchor
<1>17. WorldInv'
  BY <1>2, <1>5, <1>9, <1>16 DEF WorldInv
<1>18. DeskInv'
  <2>1. \A h \in Gens : h > pack'.gen => ~slots'[h].name
    BY <1>0, <1>2 DEF PowerInv, DeskInv
  <2> QED
    BY <1>2, <1>5, <1>6, <1>9, <1>13, <2>1 DEF DeskInv, Open
<1> QED
  BY <1>17, <1>18 DEF PowerInv

-----------------------------------------------------------------------------
(***************************************************************************)
(* The invariant holds.                                                    *)
(***************************************************************************)

LEMMA InitPower == Init => PowerInv
<1> SUFFICES ASSUME Init PROVE PowerInv
  OBVIOUS
<1>1. pc = "down" /\ attempted = {} /\ (~source => committed = Value(0, {}))
      /\ (source => committed.seq = SourceSeq)
  BY DEF Init, Value
<1>2. \A g \in Gens : \A j \in Offsets : \A r \in slots[g].disk[j] : r.kind # "seal"
  BY DEF Init, Absent, Void
<1>3. NoAnchor
  BY <1>1, <1>2 DEF NoAnchor
<1>4. WorldInv
  BY <1>1, <1>3 DEF WorldInv, Blank, Session, Open
<1>5. DeskInv
  BY <1>1 DEF DeskInv, Open
<1> QED
  BY <1>4, <1>5 DEF PowerInv

\* The seal an open is about to elect is an anchor, and an anchor reads in full.
LEMMA AnchorElects == Inv /\ ShapeInv /\ WorldInv => ElectedGood
<1> SUFFICES ASSUME Inv, ShapeInv, WorldInv, pc = "down",
                    NEW g \in Sound, \A h \in Sound : Outranks(g, h)
             PROVE  GoodAt(slots[g].vol, Elected(slots[g].vol))
  BY DEF ElectedGood
<1>1. Anchor(g, Elected(slots[g].vol))
  BY ElectAnchor
<1> QED
  BY <1>1 DEF Anchor, Solid, Good

LEMMA NextPower ==
    ASSUME Inv, CleanInv, LogInv, ReadInv, PowerInv, Setting, Next
    PROVE  PowerInv'
<1>1. Inv' /\ LogInv'
  BY NextStep, NextLog
<1>2. ReadInv'
  BY NextRead, AnchorElects DEF PowerInv, LogInv
<1>3. ~OpenFlushFails /\ ~Restart
  BY DEF Setting, OpenFlushFails, Restart
<1>4. CASE OpenElected \/ OpenTrimmed \/ OpenFresh \/ OpenFounded \/ OpenRefused \/ Stillborn
  BY <1>1, <1>4, OpenElectedPower, OpenTrimmedPower, OpenFreshPower, OpenFoundedPower,
     OpenRefusedPower, StillbornPower
<1>5. CASE MigrateCommit \/ \E objects, manifest \in SUBSET Objects : Commit(objects, manifest)
  <2>1. committed.manifest \in SUBSET Objects
    BY DEF Inv, TypeOK, Values, Manifests
  <2>2. CASE MigrateCommit
    BY <1>1, <2>1, <2>2, AppendPower DEF MigrateCommit
  <2>3. ASSUME NEW objects \in SUBSET Objects, NEW manifest \in SUBSET Objects, Commit(objects, manifest)
        PROVE  PowerInv'
    BY <1>1, <2>3, AppendPower DEF Commit
  <2> QED
    BY <1>5, <2>2, <2>3
<1>6. CASE CommitSeal \/ CommitFlush \/ CommitFlushFails \/ CommitUndo
  BY <1>1, <1>2, <1>6, CommitSealPower, CommitFlushPower, CommitEndPower
<1>7. CASE CommitUndoFails \/ RetireSource
  BY <1>7, UndoFailsPower, RetirePower
<1>8. CASE Compact \/ CompactSwap \/ CompactFails
  BY <1>1, <1>2, <1>8, CompactPower, CompactSwapPower, CompactFailsPower
<1>9. ASSUME NEW dead \in SUBSET Objects, CompactCopy(Objects \ dead) PROVE PowerInv'
  BY <1>1, <1>2, <1>9, CompactCopyPower
<1>10. CASE \E r \in Readers : TakeView(r) \/ DropView(r)
  BY <1>10, ReaderPower
<1>11. CASE Close \/ PowerLoss \/ PowerBack
  BY <1>11, ClosePower, PowerLossPower, PowerBackPower
<1>12. CASE \E g \in Gens : Survive(g)
  BY <1>1, <1>12, SurvivePower
<1> QED
  BY <1>3, <1>4, <1>5, <1>6, <1>7, <1>8, <1>9, <1>10, <1>11, <1>12 DEF Next

-----------------------------------------------------------------------------
(***************************************************************************)
(* The theorems.                                                           *)
(***************************************************************************)

SafeInv == Inv /\ CleanInv /\ LogInv /\ ReadInv /\ ViewReadInv /\ PowerInv

\* Through any number of power losses, each of which may keep any combination of the
\* unflushed blocks, and through failed flushes and compactions: there is an anchor for
\* the open to elect, or nothing was ever acknowledged.
THEOREM AnchorHolds ==
    ASSUME Setting
    PROVE  Spec => []SafeInv
<1>1. Init => SafeInv
  BY InitInv, InitClean, InitLog, InitRead, InitPower DEF SafeInv
<1>2. ASSUME SafeInv, Next PROVE SafeInv'
  <2>1. Inv' /\ LogInv'
    BY <1>2, NextStep, NextLog DEF SafeInv
  <2>2. ElectedGood
    BY <1>2, AnchorElects DEF SafeInv, PowerInv, LogInv
  <2>3. ReadInv' /\ ViewReadInv'
    BY <1>2, <2>2, NextRead, NextViewRead DEF SafeInv
  <2>4. PowerInv'
    BY <1>2, NextPower DEF SafeInv
  <2>5. CleanInv'
    BY <1>2, NextClean DEF SafeInv, Setting
  <2> QED
    BY <2>1, <2>3, <2>4, <2>5 DEF SafeInv
<1>3. ASSUME SafeInv, UNCHANGED vars PROVE SafeInv'
  BY <1>3, StutterStep, StutterClean, StutterLog, StutterRead, StutterViewRead, StutterPower
     DEF SafeInv
<1>4. SafeInv /\ [Next]_vars => SafeInv'
  BY <1>2, <1>3
<1> QED
  BY <1>1, <1>4, PTL DEF Spec

\* Whatever a power loss leaves behind, an open never exposes a pack whose table names
\* an object that does not re-hash, although recover_state re-hashes only the newest
\* seal's own objects.
THEOREM TablesSurvive ==
    ASSUME Setting
    PROVE  Spec => []TableReadable
<1>1. SafeInv => TableReadable
  BY ReadMeans DEF SafeInv
<1> QED
  BY <1>1, AnchorHolds, PTL

\* Nor a manifest that needs an object the pack does not hold.
THEOREM ManifestsSurvive ==
    ASSUME Setting
    PROVE  Spec => []ManifestComplete
<1>1. SafeInv => ManifestComplete
  BY ReadMeans DEF SafeInv
<1> QED
  BY <1>1, AnchorHolds, PTL

\* A view reads all its table names while it is held, in a store that recovered from a
\* power loss as in any other.
THEOREM ViewsSurvive ==
    ASSUME Setting
    PROVE  Spec => []ViewsReadable
<1>1. SafeInv => ViewsReadable
  BY ReadMeans DEF SafeInv
<1> QED
  BY <1>1, AnchorHolds, PTL

\* Invariant I2 of the pack log (pack.rs): no byte below the sealed length of an open
\* pack can be lost any more, after a commit, a compaction or a recovery alike.
THEOREM PublishedDurable ==
    ASSUME Setting
    PROVE  Spec => []PublishedIsDurable
<1>1. SafeInv => PublishedIsDurable
  <2> SUFFICES ASSUME SafeInv, pc \in Open, NEW i \in 0 .. pack.sealed
               PROVE  Here.disk[i] = {Here.vol[i]}
    BY DEF PublishedIsDurable
  <2>1. pack.sealed \in Offsets /\ \A j \in Offsets : 0 .. j \subseteq Offsets
    BY RecordsAssumption DEF SafeInv, Inv, TypeOK, Packs, Offsets
  <2>2. i \in Offsets /\ i <= pack.sealed /\ (pack.sealed = 0 => i = 0)
    BY <2>1 DEF Offsets
  <2>3. CASE pack.sealed = 0
    BY <2>2, <2>3 DEF SafeInv, PowerInv, DeskInv
  <2>4. CASE pack.sealed # 0
    <3>1. Anchor(pack.gen, pack.sealed)
      BY <2>4 DEF SafeInv, PowerInv, WorldInv, Session
    <3> QED
      BY <2>2, <3>1 DEF Anchor, Solid, Durable, Here
  <2> QED
    BY <2>3, <2>4
<1> QED
  BY <1>1, AnchorHolds, PTL

\* The open refuses a pack as torn (a birth seal whose objects are gone) only beside a
\* source that is still authoritative: no acknowledged history ends in a refusal.
THEOREM NeverRefused ==
    ASSUME Setting
    PROVE  Spec => []NeverBricked
<1>1. SafeInv => NeverBricked
  BY DEF SafeInv, PowerInv, WorldInv, NeverBricked
<1> QED
  BY <1>1, AnchorHolds, PTL

-----------------------------------------------------------------------------
(***************************************************************************)
(* The pack log implements the durable store.                              *)
(***************************************************************************)

\* A commit in flight, and one whose outcome is open, is one sequence after what callers
\* know of; and they know of everything that was acknowledged.
StoreInv ==
    /\ pc = "commit" => /\ wip.seal.seq = committed.seq + 1
                        /\ Value(wip.seal.seq, wip.seal.manifest) \in StoreValues
    /\ \A v \in attempted : v.seq = committed.seq + 1
    /\ acked <= committed.seq
    /\ source => SourceSeq < MaxSeq

LEMMA InitStore == Init => StoreInv
<1> SUFFICES ASSUME Init PROVE StoreInv
  OBVIOUS
<1>1. pc = "down" /\ attempted = {} /\ acked = 0 /\ source \in Sources
  BY DEF Init
<1>2. committed.seq \in Nat
  BY PackLogAssumption DEF Init, Value
<1>3. source => SourceSeq < MaxSeq
  <2>1. source \in BOOLEAN
    BY <1>1, PackLogAssumption
  <2>2. source => source = TRUE
    BY <2>1, Zenon
  <2>3. source => TRUE \in Sources
    BY <1>1, <2>2, Zenon
  <2> QED
    BY <2>3, PackLogAssumption
<1> QED
  BY <1>1, <1>2, <1>3 DEF StoreInv

\* The steps that show callers a state, and those that start a commit.
Shows == OpenElected \/ OpenTrimmed \/ OpenFounded

Appends == MigrateCommit \/ \E objects, manifest \in SUBSET Objects : Commit(objects, manifest)

\* An open shows what was committed or one whole commit whose outcome was open.
LEMMA OpenShows ==
    ASSUME Inv, LogInv, PowerInv, Shows
    PROVE  /\ pc \notin Open /\ UNCHANGED <<acked, source>>
           /\ \/ pc' = "trimming" /\ UNCHANGED <<committed, attempted>>
              \/ pc' = "ready" /\ attempted' = {} /\ committed' \in {committed} \cup attempted
<1>1. CASE OpenElected
  <2>1. pc = "down" /\ UNCHANGED <<source, acked>> /\ ShapeInv /\ WorldInv
    BY <1>1, OpenElectedFacts DEF LogInv, PowerInv
  <2>2. PICK g \in Sound : \E after : ElectedBy(g, after)
    BY <1>1, OpenElectedFacts
  <2>3. PICK after : ElectedBy(g, after)
    BY <2>2
  <2>4. PICK k : k = Elected(slots[g].vol)
    OBVIOUS
  <2>5. \A h \in Sound : Outranks(g, h)
    BY <2>3 DEF ElectedBy
  <2>6. Anchor(g, k)
    BY <2>1, <2>4, <2>5, ElectAnchor
  <2>7. k # 0 /\ Recovered(g).seq = slots[g].vol[k].seq /\ Recovered(g).manifest = slots[g].vol[k].manifest
        /\ Recovered(g).last.at = k
    BY <2>4 DEF Recovered, Sound
  <2>8. Recovered(g).last # NoLink
    BY <2>7 DEF NoLink
  <2>9. \/ pc' = "trimming" /\ UNCHANGED <<committed, attempted>>
        \/ pc' = "ready" /\ Expose(Recovered(g))
    BY <2>3 DEF ElectedBy
  <2>10. Value(Recovered(g).seq, Recovered(g).manifest) \in {committed} \cup attempted
    BY <2>6, <2>7 DEF Anchor
  <2> QED
    BY <2>1, <2>8, <2>9, <2>10 DEF Expose, Open
<1>2. CASE OpenTrimmed
  <2>1. pc = "trimming" /\ pc' = "ready" /\ Expose(pack) /\ UNCHANGED <<acked, source>>
    BY <1>2 DEF OpenTrimmed
  <2>2. pack.sealed # 0 /\ Stands(Here.vol, pack)
    BY <2>1 DEF LogInv, EndInv, StandsInv, Session
  <2>3. Agrees(Here.vol, pack)
    BY <2>2 DEF Stands, Unsealed
  <2>4. pack.last # NoLink /\ Here.vol[pack.sealed].seq = pack.seq
        /\ Here.vol[pack.sealed].manifest = pack.manifest
    BY <2>2, <2>3 DEF Agrees, NoLink
  <2>5. Anchor(pack.gen, pack.sealed)
    BY <2>1, <2>2 DEF PowerInv, WorldInv, Session
  <2>6. Value(pack.seq, pack.manifest) \in {committed} \cup attempted
    BY <2>4, <2>5 DEF Anchor, Here
  <2> QED
    BY <2>1, <2>4, <2>6 DEF Expose, Open
<1>3. CASE OpenFounded
  <2>1. pc = "founding" /\ pc' = "ready" /\ Expose(pack) /\ UNCHANGED <<acked, source>>
    BY <1>3 DEF OpenFounded
  <2>2. pack.sealed = 0 /\ Stands(Here.vol, pack)
    BY <2>1 DEF LogInv, EndInv, StandsInv
  <2>3. pack.last = NoLink /\ pack.seq = 0 /\ pack.manifest = {}
    BY <2>2, SealedMeans DEF Unsealed
  <2>4. ~source => committed = Value(0, {})
    BY <2>1, <2>2 DEF PowerInv, WorldInv, NoAnchor
  <2> QED
    BY <2>1, <2>3, <2>4 DEF Expose, Open
<1> QED
  BY <1>1, <1>2, <1>3 DEF Shows

\* A commit, and a migration, seals the next sequence after the one callers know of.
LEMMA AppendNext ==
    ASSUME Inv, LogInv, PowerInv, StoreInv, Appends
    PROVE  /\ pc = "ready" /\ pc' = "commit" /\ UNCHANGED <<committed, attempted, acked, source>>
           /\ wip'.seal.seq = committed.seq + 1
           /\ Value(wip'.seal.seq, wip'.seal.manifest) \in StoreValues
<1>1. committed \in Values /\ pack \in Packs
  BY DEF Inv, TypeOK
<1>2. CASE MigrateCommit
  <2>1. /\ pc = "ready" /\ pc' = "commit" /\ source /\ pack.last = NoLink
        /\ wip'.seal.seq = SourceSeq + 1 /\ wip'.seal.manifest = committed.manifest
        /\ UNCHANGED <<committed, attempted, acked, source>>
    BY <1>2 DEF MigrateCommit, AppendObjects, observed, Sealed
  <2>2. pack.sealed = 0
    BY <2>1, SealedMeans DEF LogInv, StandsInv, Session, Open
  <2>3. committed.seq = SourceSeq
    BY <2>1, <2>2 DEF PowerInv, WorldInv, NoAnchor, Session, Open
  <2>4. SourceSeq + 1 \in 0 .. MaxSeq
    BY <2>1, PackLogAssumption, RecordsAssumption DEF StoreInv
  <2> QED
    BY <1>1, <2>1, <2>3, <2>4 DEF Value, StoreValues, Values, Manifests
<1>3. ASSUME NEW objects \in SUBSET Objects, NEW manifest \in SUBSET Objects, Commit(objects, manifest)
      PROVE  /\ pc = "ready" /\ pc' = "commit" /\ UNCHANGED <<committed, attempted, acked, source>>
             /\ wip'.seal.seq = committed.seq + 1
             /\ Value(wip'.seal.seq, wip'.seal.manifest) \in StoreValues
  <2>1. /\ pc = "ready" /\ pc' = "commit" /\ ~source /\ pack.seq < MaxSeq
        /\ wip'.seal.seq = pack.seq + 1 /\ wip'.seal.manifest = manifest
        /\ UNCHANGED <<committed, attempted, acked, source>>
    BY <1>3 DEF Commit, AppendObjects, observed
  <2>2. committed.seq = pack.seq
    BY <2>1 DEF PowerInv, DeskInv, Open, Value
  <2>3. pack.seq + 1 \in 0 .. MaxSeq
    BY <1>1, <2>1, RecordsAssumption DEF Packs
  <2> QED
    BY <2>1, <2>2, <2>3 DEF Value, StoreValues
<1> QED
  BY <1>2, <1>3 DEF Appends

\* What a step does that tells callers nothing.
Silent ==
    /\ UNCHANGED <<committed, attempted, acked>> /\ (source' => source)
    /\ pc' = "commit" => pc = "commit" /\ wip' = wip
    /\ pc' \in Open => pc \in Open

LEMMA SilentStep ==
    ASSUME Setting, Next
    PROVE  Shows \/ Appends \/ CommitSeal \/ CommitFlush \/ Silent
<1>1. OpenFresh \/ OpenRefused \/ Stillborn => Silent
  BY DEF OpenFresh, OpenRefused, Stillborn, observed, Open, Silent
<1>2. CommitFlushFails \/ CommitUndo \/ CommitUndoFails \/ RetireSource => Silent
  BY DEF CommitFlushFails, CommitUndo, CommitUndoFails, RetireSource, observed, Open, Silent
<1>3. Compact \/ CompactSwap \/ CompactFails => Silent
  BY DEF Compact, CompactSwap, CompactFails, observed, Open, Silent
<1>4. ASSUME NEW dead \in SUBSET Objects, CompactCopy(Objects \ dead) PROVE Silent
  BY <1>4 DEF CompactCopy, observed, Open, Silent
<1>5. ASSUME NEW r \in Readers, TakeView(r) \/ DropView(r) PROVE Silent
  BY <1>5 DEF TakeView, DropView, observed, Silent
<1>6. Close \/ PowerLoss \/ PowerBack => Silent
  BY DEF Close, PowerLoss, PowerBack, observed, Open, Silent
<1>7. ASSUME NEW g \in Gens, Survive(g) PROVE Silent
  BY <1>7 DEF Survive, observed, Silent
<1>8. ~OpenFlushFails /\ ~Restart
  BY DEF Setting, OpenFlushFails, Restart
<1> QED
  BY <1>1, <1>2, <1>3, <1>4, <1>5, <1>6, <1>7, <1>8 DEF Next, Shows, Appends

LEMMA NextStore ==
    ASSUME Inv, LogInv, PowerInv, StoreInv, Setting, Next
    PROVE  StoreInv'
<1>0. committed.seq \in Nat /\ acked \in Nat
  BY DEF Inv, TypeOK, Values
<1>1. CASE Shows
  <2>1. /\ UNCHANGED <<acked, source>> /\ pc' # "commit"
        /\ \/ UNCHANGED <<committed, attempted>>
           \/ attempted' = {} /\ committed' \in {committed} \cup attempted
    BY <1>1, OpenShows
  <2>2. committed'.seq = committed.seq \/ committed'.seq = committed.seq + 1
    BY <2>1 DEF StoreInv
  <2> QED
    BY <1>0, <2>1, <2>2 DEF StoreInv
<1>2. CASE Appends
  BY <1>2, AppendNext DEF StoreInv
<1>3. CASE CommitSeal
  <2>1. /\ pc = "commit" /\ pc' = "sealed" /\ UNCHANGED <<committed, acked, source>>
        /\ attempted' = attempted \cup {Value(wip.seal.seq, wip.seal.manifest)}
    BY <1>3 DEF CommitSeal
  <2>2. Value(wip.seal.seq, wip.seal.manifest).seq = committed.seq + 1
    BY <2>1 DEF StoreInv, Value
  <2> QED
    BY <2>1, <2>2 DEF StoreInv
<1>4. CASE CommitFlush
  <2>1. /\ pc = "sealed" /\ pc' = "ready" /\ source' = source /\ attempted' = {}
        /\ committed' = Value(wip.seal.seq, wip.seal.manifest) /\ acked' = wip.seal.seq
    BY <1>4 DEF CommitFlush, Publish
  <2>2. wip.seal.seq = committed.seq + 1
    BY <2>1 DEF PowerInv, DeskInv, StoreInv, Value
  <2>3. committed'.seq = committed.seq + 1 /\ acked' = committed.seq + 1
    BY <2>1, <2>2 DEF Value
  <2> QED
    BY <1>0, <2>1, <2>3 DEF StoreInv
<1>5. CASE Silent
  BY <1>5 DEF Silent, StoreInv
<1> QED
  BY <1>1, <1>2, <1>3, <1>4, <1>5, SilentStep

LEMMA StutterStore ==
    ASSUME StoreInv, UNCHANGED vars
    PROVE  StoreInv'
BY DEF StoreInv, vars, observed

DurableInv == SafeInv /\ StoreInv

\* With the anchor: sequences only go up, and what was acknowledged is never below them.
THEOREM StoreInvHolds ==
    ASSUME Setting
    PROVE  Spec => []DurableInv
<1>1. Init => StoreInv
  BY InitStore
<1>2. SafeInv /\ StoreInv /\ [Next]_vars => StoreInv'
  BY NextStore, StutterStore DEF SafeInv
<1>3. DurableInv <=> SafeInv /\ StoreInv
  BY DEF DurableInv
<1> QED
  BY <1>1, <1>2, <1>3, AnchorHolds, PTL DEF Spec

\* No open shows a state older than the last commit a caller was told of, whatever power
\* losses, failed commits and compactions came between.
THEOREM AckedKept ==
    ASSUME Setting
    PROVE  Spec => []AckedSurvives
<1>1. DurableInv => AckedSurvives
  <2> SUFFICES ASSUME DurableInv, pc \in Open, ~source
               PROVE  pack.seq >= acked
    BY DEF AckedSurvives
  <2>1. committed.seq = pack.seq /\ acked <= committed.seq
    BY DEF DurableInv, SafeInv, PowerInv, DeskInv, StoreInv, Value
  <2>2. acked \in Nat /\ pack.seq \in Nat
    BY DEF DurableInv, SafeInv, Inv, TypeOK, Packs
  <2> QED
    BY <2>1, <2>2
<1> QED
  BY <1>1, StoreInvHolds, PTL

\* One step of the pack log is one step of the durable store, or none.
LEMMA StoreStep ==
    ASSUME DurableInv, Setting, Next
    PROVE  [Store!Next]_(Store!vars)
<1>0. Inv /\ LogInv /\ PowerInv /\ StoreInv
  BY DEF DurableInv, SafeInv
<1>1. CASE Shows
  <2>1. CASE pc' = "trimming" /\ UNCHANGED <<committed, attempted>>
    <3>1. (pc' \in Open) = (pc \in Open)
      BY <1>0, <1>1, <2>1, OpenShows DEF Open
    <3> QED
      BY <2>1, <3>1 DEF Store!vars
  <2>2. CASE pc' = "ready" /\ attempted' = {} /\ committed' \in {committed} \cup attempted
    <3>1. ~(pc \in Open) /\ pc' \in Open
      BY <1>0, <1>1, <2>2, OpenShows DEF Open
    <3>2. Store!Recover
      BY <2>2, <3>1 DEF Store!Recover
    <3> QED
      BY <3>2 DEF Store!Next
  <2> QED
    BY <1>0, <1>1, <2>1, <2>2, OpenShows
<1>2. CASE Appends
  <2>1. UNCHANGED <<committed, attempted>> /\ (pc' \in Open) = (pc \in Open)
    BY <1>0, <1>2, AppendNext DEF Open
  <2> QED
    BY <2>1 DEF Store!vars
<1>3. CASE CommitSeal
  <2>1. /\ pc = "commit" /\ pc' = "sealed" /\ committed' = committed
        /\ attempted' = attempted \cup {Value(wip.seal.seq, wip.seal.manifest)}
    BY <1>3 DEF CommitSeal
  <2>2. pc \in Open /\ (pc' \in Open) = (pc \in Open)
    BY <2>1 DEF Open
  <2>3. /\ Value(wip.seal.seq, wip.seal.manifest) \in StoreValues
        /\ Value(wip.seal.seq, wip.seal.manifest).seq = committed.seq + 1
    BY <1>0, <2>1 DEF StoreInv, Value
  <2>4. Store!Attempt
    BY <2>1, <2>2, <2>3 DEF Store!Attempt
  <2> QED
    BY <2>4 DEF Store!Next
<1>4. CASE CommitFlush
  <2>1. /\ pc = "sealed" /\ pc' = "ready" /\ attempted' = {}
        /\ committed' = Value(wip.seal.seq, wip.seal.manifest)
    BY <1>4 DEF CommitFlush, Publish
  <2>2. committed' \in attempted
    BY <1>0, <2>1 DEF PowerInv, DeskInv
  <2>3. pc \in Open /\ (pc' \in Open) = (pc \in Open)
    BY <2>1 DEF Open
  <2>4. Store!Acknowledge
    BY <2>1, <2>2, <2>3 DEF Store!Acknowledge
  <2> QED
    BY <2>4 DEF Store!Next
<1>5. CASE Silent
  <2>1. UNCHANGED <<committed, attempted>> /\ (pc' \in Open => pc \in Open)
    BY <1>5 DEF Silent
  <2>2. CASE pc' \in Open <=> pc \in Open
    <3>1. (pc' \in Open) = (pc \in Open)
      BY <2>2
    <3> QED
      BY <2>1, <3>1 DEF Store!vars
  <2>3. CASE pc \in Open /\ pc' \notin Open
    <3>1. (pc' \in Open) = FALSE
      BY <2>3
    <3>2. Store!Stop
      BY <2>1, <2>3, <3>1 DEF Store!Stop
    <3> QED
      BY <3>2 DEF Store!Next
  <2> QED
    BY <2>1, <2>2, <2>3
<1> QED
  BY <1>1, <1>2, <1>3, <1>4, <1>5, SilentStep

\* The pack log implements the durable store: through power losses, failed flushes,
\* undone commits, migrations and compactions, an open shows the last acknowledged state
\* or one complete commit attempted since, and takes back nothing it has shown.
THEOREM StoreImplemented ==
    ASSUME Setting
    PROVE  Spec => ImplementsStore
<1>1. Init => Store!Init
  <2> SUFFICES ASSUME Init PROVE Store!Init
    OBVIOUS
  <2>1. pc \notin Open /\ attempted = {}
    BY DEF Init, Open
  <2>2. source => SourceSeq < MaxSeq
    BY InitStore DEF StoreInv
  <2>3. committed \in StoreValues
    BY <2>2, PackLogAssumption, RecordsAssumption DEF Init, Value, StoreValues
  <2> QED
    BY <2>1, <2>3 DEF Store!Init
<1>2. DurableInv /\ [Next]_vars => [Store!Next]_(Store!vars)
  <2>1. ASSUME UNCHANGED vars PROVE UNCHANGED Store!vars
    BY <2>1 DEF vars, observed, Store!vars
  <2> QED
    BY <2>1, StoreStep
<1> QED
  BY <1>1, <1>2, StoreInvHolds, PTL DEF Spec, ImplementsStore, Store!Spec
=============================================================================
