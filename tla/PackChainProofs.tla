--------------------------- MODULE PackChainProofs ---------------------------
(***************************************************************************)
(* What opening a slot concludes from its seals, for logs of any length:   *)
(* a chain of seals reaches backwards only, so what lies above a seal says *)
(* nothing about it, and a seal appended to a chain adds its own entries   *)
(* and nothing else.  From this follows that the writer's table and its    *)
(* distance to the last checkpoint are what a recovery would compute.      *)
(***************************************************************************)
EXTENDS PackLogProofs

\* A seal links to a lower offset and names objects at lower offsets.
Backward(r, i) ==
    r.kind = "seal" =>
        /\ r.prev.at < i
        /\ \A h \in DOMAIN r.added : r.added[h] < i
        /\ \A h \in DOMAIN r.base : r.base[h] < i

\* The blocks of a slot, all of whose seals look backwards.
IsLog(b) == b \in [Offsets -> Block] /\ \A i \in Offsets : Backward(b[i], i)

-----------------------------------------------------------------------------
(***************************************************************************)
(* Chains.  Reach is the least set that holds its start and is closed      *)
(* under the links, so a set that is closed bounds it.                     *)
(***************************************************************************)

\* What read_seal returns is a seal record at an offset above the header.
LEMMA SealFacts ==
    ASSUME NEW b \in [Offsets -> Block], NEW i \in Seals(b)
    PROVE  /\ i \in Offsets /\ i \in 1 .. MaxLen /\ i \in Nat /\ IsSeal(b, i)
           /\ b[i] \in SealRecords /\ b[i].prev.at \in 0 .. MaxLen
           /\ b[i].full \in BOOLEAN
           /\ b[i].added \in Tables /\ b[i].base \in Tables /\ Entries(b[i]) \in Tables
<1>1. i \in 1 .. MaxLen /\ IsSeal(b, i) /\ i \in Offsets /\ i \in Nat
  BY RecordsAssumption DEF Seals, Offsets
<1>2. b[i] \in SealRecords
  BY <1>1, SealIsSealRecord DEF IsSeal
<1>3. b[i].prev.at \in 0 .. MaxLen /\ b[i].full \in BOOLEAN /\ b[i].added \in Tables /\ b[i].base \in Tables
  BY <1>2 DEF SealRecords, Links
<1>4. Entries(b[i]) \in Tables
  BY <1>3, MergeType DEF Entries
<1> QED
  BY <1>1, <1>2, <1>3, <1>4

\* A walk that holds the start and leaves no link out holds all that is reached.
LEMMA ReachBounded ==
    ASSUME NEW b, NEW start, NEW ends, NEW W \in SUBSET Seals(b), start \in W,
           \A j \in W \ ends : b[j].prev.at \in Seals(b) => b[j].prev.at \in W
    PROVE  Reach(b, start, ends) \subseteq W
BY DEF Reach

\* The start is reached.
LEMMA ReachStart ==
    ASSUME NEW b, NEW ends, NEW start \in Seals(b)
    PROVE  start \in Reach(b, start, ends) /\ Reach(b, start, ends) \subseteq Seals(b)
BY DEF Reach

\* What a reached seal links to is reached.
LEMMA ReachStep ==
    ASSUME NEW b, NEW start, NEW ends, NEW j \in Reach(b, start, ends), j \notin ends,
           b[j].prev.at \in Seals(b)
    PROVE  b[j].prev.at \in Reach(b, start, ends)
BY DEF Reach

\* Links lead backwards: nothing above the start is reached.
LEMMA ReachBelow ==
    ASSUME NEW b, IsLog(b), NEW ends, NEW start \in Seals(b)
    PROVE  \A j \in Reach(b, start, ends) : j \in Seals(b) /\ j <= start
<1> DEFINE W == {j \in Seals(b) : j <= start}
<1>1. b \in [Offsets -> Block]
  BY DEF IsLog
<1>2. start \in W /\ W \in SUBSET Seals(b)
  BY <1>1, SealFacts
<1>3. ASSUME NEW j \in W \ ends, b[j].prev.at \in Seals(b) PROVE b[j].prev.at \in W
  <2>1. j \in Offsets /\ j \in Nat /\ b[j].kind = "seal" /\ start \in Nat
    BY <1>1, SealFacts DEF IsSeal
  <2>2. b[j].prev.at < j /\ b[j].prev.at \in Nat
    BY <1>1, <1>3, <2>1, SealFacts DEF IsLog, Backward
  <2> QED
    BY <1>3, <2>1, <2>2
<1>4. Reach(b, start, ends) \subseteq W
  <2> HIDE DEF W
  <2> QED
    BY <1>2, <1>3, ReachBounded
<1> QED
  BY <1>4

\* Two logs agree up to an offset.
Same(b, c, i) == \A j \in Offsets : j <= i => b[j] = c[j]

LEMMA SameSeals ==
    ASSUME NEW b, NEW c, NEW i \in Offsets, Same(b, c, i), NEW j, j <= i
    PROVE  j \in Seals(b) <=> j \in Seals(c)
<1>1. 0 \in Offsets /\ 0 <= i
  BY RecordsAssumption DEF Offsets
<1>2. b[0] = c[0]
  BY <1>1 DEF Same
<1>3. j \in 1 .. MaxLen => b[j] = c[j]
  BY RecordsAssumption DEF Same, Offsets
<1> QED
  BY <1>2, <1>3 DEF Seals, IsSeal

\* What verify_chain walks is decided by the blocks up to the seal it starts from.
LEMMA SameReach ==
    ASSUME NEW b, NEW c, IsLog(b), IsLog(c), NEW i \in Seals(b), Same(b, c, i),
           NEW d, NEW e, \A j \in Seals(b) : j <= i => (j \in d <=> j \in e)
    PROVE  Reach(c, i, e) \subseteq Reach(b, i, d)
<1> DEFINE W == Reach(b, i, d)
<1>1. b \in [Offsets -> Block] /\ c \in [Offsets -> Block]
  BY DEF IsLog
<1>2. i \in Offsets /\ i \in Nat
  BY <1>1, SealFacts
<1>3. \A j \in W : j \in Seals(b) /\ j <= i
  BY ReachBelow
<1>4. W \in SUBSET Seals(c)
  BY <1>2, <1>3, SameSeals
<1>5. i \in W
  BY ReachStart
<1>6. ASSUME NEW j \in W \ e, c[j].prev.at \in Seals(c) PROVE c[j].prev.at \in W
  <2>1. j \in Seals(b) /\ j <= i /\ j \in Seals(c)
    BY <1>3, <1>4
  <2>2. j \in Offsets /\ j \in Nat /\ IsSeal(c, j) /\ c[j].prev.at \in 0 .. MaxLen
    BY <1>1, <2>1, SealFacts
  <2>3. b[j] = c[j]
    BY <2>1, <2>2 DEF Same
  <2>4. c[j].prev.at < j
    BY <2>2 DEF IsLog, Backward, IsSeal
  <2>5. c[j].prev.at <= i
    BY <1>2, <2>1, <2>2, <2>4
  <2>6. b[j].prev.at \in Seals(b)
    BY <1>2, <1>6, <2>3, <2>5, SameSeals
  <2>7. j \notin d
    BY <1>6, <2>1
  <2> QED
    BY <1>6, <2>3, <2>6, <2>7, ReachStep
<1> HIDE DEF W
<1>7. Reach(c, i, e) \subseteq W
  BY <1>4, <1>5, <1>6, ReachBounded
<1> QED
  BY <1>7 DEF W

LEMMA SameSym == ASSUME NEW b, NEW c, NEW i, Same(b, c, i) PROVE Same(c, b, i)
BY DEF Same

LEMMA SameChain ==
    ASSUME NEW b, NEW c, IsLog(b), IsLog(c), NEW i \in Seals(b), Same(b, c, i)
    PROVE  /\ i \in Seals(c) /\ Chain(b, i) = Chain(c, i)
           /\ \A j \in Chain(b, i) : j \in Seals(b) /\ j \in Seals(c) /\ j <= i /\ b[j] = c[j]
<1> DEFINE d == {j \in Seals(b) : b[j].full}
           e == {j \in Seals(c) : c[j].full}
<1>1. b \in [Offsets -> Block] /\ c \in [Offsets -> Block]
  BY DEF IsLog
<1>2. i \in Offsets /\ i \in Nat
  BY <1>1, SealFacts
<1>3. i \in Seals(c) /\ Same(c, b, i)
  BY <1>2, SameSeals, SameSym
<1>4. \A j \in Seals(b) : j <= i => j \in Seals(c) /\ b[j] = c[j]
  BY <1>1, <1>2, SealFacts, SameSeals DEF Same
<1>5. \A j \in Seals(c) : j <= i => j \in Seals(b) /\ b[j] = c[j]
  BY <1>1, <1>2, SealFacts, SameSeals DEF Same
<1>6. \A j \in Seals(b) : j <= i => (j \in d <=> j \in e)
  BY <1>4
<1>7. \A j \in Seals(c) : j <= i => (j \in e <=> j \in d)
  BY <1>5
<1> HIDE DEF d, e
<1>8. Reach(c, i, e) \subseteq Reach(b, i, d)
  BY <1>6, SameReach
<1>9. Reach(b, i, d) \subseteq Reach(c, i, e)
  BY <1>3, <1>7, SameReach
<1>10. Chain(b, i) = Reach(b, i, d) /\ Chain(c, i) = Reach(c, i, e)
  BY DEF Chain, d, e
<1>11. \A j \in Reach(b, i, d) : j \in Seals(b) /\ j <= i
  BY ReachBelow
<1> QED
  BY <1>3, <1>4, <1>8, <1>9, <1>10, <1>11

\* Blocks above a seal do not change what verify_chain concludes at it.
LEMMA SameConclusion ==
    ASSUME NEW b, NEW c, IsLog(b), IsLog(c), NEW i \in Seals(b), Same(b, c, i)
    PROVE  /\ ChainTable(c, i) = ChainTable(b, i)
           /\ SinceCheckpoint(c, i) = SinceCheckpoint(b, i)
           /\ ChainHolds(b, i) => ChainHolds(c, i)
<1>1. /\ Chain(b, i) = Chain(c, i)
      /\ \A j \in Chain(b, i) : j \in Seals(b) /\ j \in Seals(c) /\ j <= i /\ b[j] = c[j]
  BY SameChain
<1>2. b \in [Offsets -> Block] /\ c \in [Offsets -> Block]
  BY DEF IsLog
<1>3. ChainTable(c, i) = ChainTable(b, i)
  <2> DEFINE B(h) == {j \in Chain(b, i) : h \in DOMAIN Entries(b[j])}
             C(h) == {j \in Chain(c, i) : h \in DOMAIN Entries(c[j])}
  <2>1. \A h : B(h) = C(h)
    BY <1>1
  <2>2. \A h \in Objects : B(h) # {} => b[Max(B(h))] = c[Max(B(h))]
    <3> TAKE h \in Objects
    <3>1. B(h) \in SUBSET (0 .. MaxLen)
      BY <1>1, <1>2, SealFacts, RecordsAssumption
    <3>2. B(h) # {} => Max(B(h)) \in B(h)
      <4> HIDE DEF B
      <4> QED
        BY <3>1, MaxOffset
    <3> QED
      BY <1>1, <3>2
  <2>3. ChainTable(b, i) = [h \in {h \in Objects : B(h) # {}} |-> Entries(b[Max(B(h))])[h]]
    BY DEF ChainTable
  <2>4. ChainTable(c, i) = [h \in {h \in Objects : C(h) # {}} |-> Entries(c[Max(C(h))])[h]]
    BY DEF ChainTable
  <2> HIDE DEF B, C
  <2>5. \A h \in Objects : B(h) # {} => Entries(c[Max(C(h))])[h] = Entries(b[Max(B(h))])[h]
    BY <2>1, <2>2
  <2> QED
    BY <2>1, <2>3, <2>4, <2>5
<1>4. SinceCheckpoint(c, i) = SinceCheckpoint(b, i)
  <2>1. {j \in Chain(c, i) : ~c[j].full} = {j \in Chain(b, i) : ~b[j].full}
    BY <1>1
  <2> QED
    BY <2>1 DEF SinceCheckpoint
<1>5. ASSUME ChainHolds(b, i) PROVE ChainHolds(c, i)
  <2> SUFFICES ASSUME NEW j \in Chain(c, i), ~c[j].full, c[j].prev.at # 0
               PROVE  LinkHolds(c, j)
    BY DEF ChainHolds
  <2>1. j \in Chain(b, i) /\ j \in Seals(b) /\ j <= i /\ b[j] = c[j]
    BY <1>1
  <2>2. LinkHolds(b, j)
    BY <1>5, <2>1 DEF ChainHolds
  <2>3. j \in Offsets /\ j \in Nat /\ b[j].prev.at \in 0 .. MaxLen /\ i \in Nat /\ i \in Offsets
        /\ b[j].kind = "seal"
    BY <1>2, <2>1, SealFacts DEF IsSeal
  <2>4. b[j].prev.at < j
    BY <2>3 DEF IsLog, Backward
  <2>5. b[j].prev.at \in Seals(b) /\ b[j].prev.at <= i /\ b[j].prev.at \in Offsets
    BY <2>1, <2>2, <2>3, <2>4 DEF LinkHolds, Seals, IsSeal, Offsets
  <2>6. b[j].prev.at \in Seals(c) /\ b[b[j].prev.at] = c[b[j].prev.at]
    BY <2>3, <2>5, SameSeals DEF Same
  <2> QED
    BY <2>1, <2>2, <2>6 DEF LinkHolds, Seals
<1> QED
  BY <1>3, <1>4, <1>5

\* A checkpoint, and a seal without predecessor, is a chain of its own.
LEMMA LoneChain ==
    ASSUME NEW b, IsLog(b), NEW i \in Seals(b), b[i].full \/ b[i].prev.at = 0
    PROVE  Chain(b, i) = {i} /\ ChainHolds(b, i)
<1> DEFINE d == {j \in Seals(b) : b[j].full}
<1>1. 0 \notin Seals(b)
  BY DEF Seals
<1>2. i \notin d => b[i].prev.at \notin Seals(b)
  BY <1>1
<1>3. Reach(b, i, d) \subseteq {i}
  <2> DEFINE W == {i}
  <2>1. W \in SUBSET Seals(b) /\ i \in W
    OBVIOUS
  <2>2. \A j \in W \ d : b[j].prev.at \in Seals(b) => b[j].prev.at \in W
    BY <1>2
  <2> HIDE DEF d, W
  <2>3. Reach(b, i, d) \subseteq W
    BY <2>1, <2>2, ReachBounded
  <2> QED
    BY <2>3 DEF W
<1>4. i \in Reach(b, i, d)
  BY ReachStart
<1>5. Chain(b, i) = {i}
  BY <1>3, <1>4 DEF Chain
<1> QED
  BY <1>5 DEF ChainHolds

\* A delta seal adds itself to its predecessor's chain.
LEMMA DeltaChain ==
    ASSUME NEW b, IsLog(b), NEW i \in Seals(b), ~b[i].full, b[i].prev.at \in Seals(b)
    PROVE  Chain(b, i) = {i} \cup Chain(b, b[i].prev.at)
<1> DEFINE d == {j \in Seals(b) : b[j].full}
           p == b[i].prev.at
           R == Reach(b, p, d)
           Q == Reach(b, i, d)
<1>1. R \subseteq Seals(b) /\ p \in R /\ Q \subseteq Seals(b) /\ i \in Q
  BY ReachStart
<1>2. Q \subseteq {i} \cup R
  <2> DEFINE W == {i} \cup R
  <2>1. \A j \in W \ d : b[j].prev.at \in Seals(b) => b[j].prev.at \in W
    <3> HIDE DEF d
    <3> QED
      BY <1>1, ReachStep
  <2>2. W \in SUBSET Seals(b) /\ i \in W
    BY <1>1
  <2> HIDE DEF d, W
  <2>3. Q \subseteq W
    BY <2>1, <2>2, ReachBounded
  <2> QED
    BY <2>3 DEF W
<1>3. R \subseteq Q
  <2>1. i \notin d
    OBVIOUS
  <2> HIDE DEF d
  <2>2. p \in Q
    BY <1>1, <2>1, ReachStep
  <2>3. \A j \in Q \ d : b[j].prev.at \in Seals(b) => b[j].prev.at \in Q
    BY ReachStep
  <2>4. Q \in SUBSET Seals(b)
    BY <1>1
  <2> QED
    BY <2>2, <2>3, <2>4, ReachBounded
<1>4. Chain(b, i) = Q /\ Chain(b, p) = R
  BY DEF Chain
<1> QED
  BY <1>1, <1>2, <1>3, <1>4

\* The table of a checkpoint, or of a seal without predecessor, is what it says itself.
LEMMA LoneTable ==
    ASSUME NEW b, IsLog(b), NEW i \in Seals(b), b[i].full \/ b[i].prev.at = 0
    PROVE  /\ ChainTable(b, i) = Entries(b[i])
           /\ SinceCheckpoint(b, i) = IF b[i].full THEN 0 ELSE 1
<1>0. Chain(b, i) = {i}
  BY LoneChain
<1>1. /\ b \in [Offsets -> Block] /\ Entries(b[i]) \in Tables /\ i \in 0 .. MaxLen
      /\ b[i].full \in BOOLEAN
  BY SealFacts DEF IsLog, Offsets
<1>2. DOMAIN Entries(b[i]) \subseteq Objects
      /\ Entries(b[i]) \in [DOMAIN Entries(b[i]) -> 1 .. MaxLen]
  BY <1>1, TableFacts
<1> DEFINE N(h) == {j \in Chain(b, i) : h \in DOMAIN Entries(b[j])}
<1>3. \A h : N(h) = IF h \in DOMAIN Entries(b[i]) THEN {i} ELSE {}
  BY <1>0
<1>4. Max({i}) = i
  <2>1. {i} \in SUBSET (0 .. MaxLen) /\ {i} # {}
    BY <1>1
  <2> QED
    BY <2>1, MaxOffset
<1>5. ChainTable(b, i) = [h \in {h \in Objects : N(h) # {}} |-> Entries(b[Max(N(h))])[h]]
  BY DEF ChainTable
<1> HIDE DEF N
<1>6. {h \in Objects : N(h) # {}} = DOMAIN Entries(b[i])
  BY <1>2, <1>3
<1>7. \A h \in DOMAIN Entries(b[i]) : Entries(b[Max(N(h))])[h] = Entries(b[i])[h]
  BY <1>3, <1>4
<1>8. ChainTable(b, i) = Entries(b[i])
  BY <1>2, <1>5, <1>6, <1>7
<1>9. SinceCheckpoint(b, i) = IF b[i].full THEN 0 ELSE 1
  <2>1. {j \in Chain(b, i) : ~b[j].full} = IF b[i].full THEN {} ELSE {i}
    BY <1>0, <1>1
  <2> QED
    BY <2>1, FS_EmptySet, FS_Singleton DEF SinceCheckpoint
<1> QED
  BY <1>8, <1>9

\* The table of a delta seal is its own entries over its predecessor's table, and it is
\* one seal further from the checkpoint.
LEMMA DeltaTable ==
    ASSUME NEW b, IsLog(b), NEW i \in Seals(b), ~b[i].full, b[i].prev.at \in Seals(b)
    PROVE  /\ ChainTable(b, i) = Merge(b[i].added, ChainTable(b, b[i].prev.at))
           /\ SinceCheckpoint(b, i) = SinceCheckpoint(b, b[i].prev.at) + 1
           /\ ChainHolds(b, b[i].prev.at) /\ LinkHolds(b, i) => ChainHolds(b, i)
<1> DEFINE p == b[i].prev.at
<1>0. Chain(b, i) = {i} \cup Chain(b, p)
  BY DeltaChain
<1>1. b \in [Offsets -> Block] /\ i \in Nat /\ i \in Offsets /\ p \in Nat /\ IsSeal(b, i)
  BY SealFacts DEF IsLog
<1>2. p < i
  BY <1>1 DEF IsLog, Backward, IsSeal
<1>3. \A j \in Chain(b, p) : j \in Seals(b) /\ j \in Nat /\ j <= p
  BY <1>1, ReachBelow, SealFacts DEF Chain
<1>4. i \notin Chain(b, p)
  BY <1>1, <1>2, <1>3
<1>5. Entries(b[i]) = b[i].added /\ b[i].added \in Tables
  BY <1>1, SealFacts DEF Entries
<1>6. DOMAIN b[i].added \subseteq Objects
  BY <1>5, TableFacts
<1> DEFINE N(h) == {j \in Chain(b, i) : h \in DOMAIN Entries(b[j])}
           P(h) == {j \in Chain(b, p) : h \in DOMAIN Entries(b[j])}
<1>7. \A h : h \notin DOMAIN b[i].added => N(h) = P(h)
  BY <1>0, <1>5
<1>8. \A h : h \in DOMAIN b[i].added => N(h) # {} /\ Max(N(h)) = i
  <2> SUFFICES ASSUME NEW h, h \in DOMAIN b[i].added PROVE N(h) # {} /\ Max(N(h)) = i
    OBVIOUS
  <2>1. i \in N(h)
    BY <1>0, <1>5
  <2>2. N(h) \in SUBSET (0 .. MaxLen) /\ \A j \in N(h) : j <= i /\ j \in Nat
    <3>1. \A j \in N(h) : j = i \/ j \in Chain(b, p)
      BY <1>0
    <3>2. \A j \in Chain(b, p) : j \in 0 .. MaxLen /\ j <= i
      BY <1>1, <1>2, <1>3, SealFacts DEF Offsets
    <3> HIDE DEF N
    <3> QED
      BY <1>1, <3>1, <3>2 DEF Offsets
  <2> HIDE DEF N
  <2>3. Max(N(h)) \in N(h) /\ \A y \in N(h) : Max(N(h)) >= y
    BY <2>1, <2>2, MaxOffset
  <2> QED
    BY <1>1, <2>1, <2>2, <2>3
<1>9. ChainTable(b, i) = [h \in {h \in Objects : N(h) # {}} |-> Entries(b[Max(N(h))])[h]]
  BY DEF ChainTable
<1>10. ChainTable(b, p) = [h \in {h \in Objects : P(h) # {}} |-> Entries(b[Max(P(h))])[h]]
  BY DEF ChainTable
<1>11. ChainTable(b, i) = Merge(b[i].added, ChainTable(b, p))
  <2> HIDE DEF N, P, p
  <2>1. {h \in Objects : N(h) # {}} = DOMAIN b[i].added \cup {h \in Objects : P(h) # {}}
    BY <1>6, <1>7, <1>8
  <2>2. \A h \in Objects : Entries(b[Max(N(h))])[h] =
            IF h \in DOMAIN b[i].added THEN b[i].added[h] ELSE Entries(b[Max(P(h))])[h]
    BY <1>5, <1>7, <1>8
  <2> QED
    BY <1>6, <1>9, <1>10, <2>1, <2>2 DEF Merge
<1>12. SinceCheckpoint(b, i) = SinceCheckpoint(b, p) + 1
  <2> DEFINE S == {j \in Chain(b, p) : ~b[j].full}
  <2>1. {j \in Chain(b, i) : ~b[j].full} = S \cup {i}
    BY <1>0
  <2>2. S \in SUBSET (1 .. MaxLen) /\ i \notin S
    BY <1>1, <1>3, <1>4, SealFacts
  <2>3. IsFiniteSet(S)
    <3>1. IsFiniteSet(1 .. MaxLen)
      BY FS_Interval, RecordsAssumption
    <3> QED
      BY <2>2, <3>1, FS_Subset
  <2> HIDE DEF S
  <2>4. Cardinality(S \cup {i}) = Cardinality(S) + 1
    BY <2>2, <2>3, FS_AddElement
  <2> QED
    BY <2>1, <2>4 DEF SinceCheckpoint, S
<1>13. ChainHolds(b, p) /\ LinkHolds(b, i) => ChainHolds(b, i)
  BY <1>0 DEF ChainHolds
<1> QED
  BY <1>11, <1>12, <1>13

\* The objects a chain's table names lie below the seal.
LEMMA TableBelow ==
    ASSUME NEW b, IsLog(b), NEW i \in Seals(b), NEW h \in DOMAIN ChainTable(b, i)
    PROVE  ChainTable(b, i)[h] < i /\ ChainTable(b, i)[h] \in 1 .. MaxLen
<1> DEFINE N == {j \in Chain(b, i) : h \in DOMAIN Entries(b[j])}
           D == {g \in Objects : {j \in Chain(b, i) : g \in DOMAIN Entries(b[j])} # {}}
<1>0. b \in [Offsets -> Block] /\ i \in Nat
  BY SealFacts DEF IsLog
<1>1. h \in D /\ ChainTable(b, i)[h] = Entries(b[Max(N)])[h]
  BY DEF ChainTable
<1>2. \A j \in Chain(b, i) : j \in Seals(b) /\ j <= i /\ j \in Nat
  BY <1>0, ReachBelow, SealFacts DEF Chain
<1>3. N \in SUBSET (0 .. MaxLen) /\ N # {}
  BY <1>0, <1>1, <1>2, SealFacts DEF Offsets
<1> DEFINE m == Max(N)
<1>4. m \in N
  BY <1>3, MaxOffset
<1> HIDE DEF m
<1>5. m \in Seals(b) /\ m <= i /\ m \in Nat /\ h \in DOMAIN Entries(b[m])
  BY <1>2, <1>4
<1>6. m \in Offsets /\ b[m].kind = "seal" /\ Entries(b[m]) \in Tables
      /\ b[m].added \in Tables /\ b[m].base \in Tables
  BY <1>0, <1>5, SealFacts DEF IsSeal
<1>7. Entries(b[m])[h] < m
  BY <1>5, <1>6 DEF IsLog, Backward, Entries, Merge
<1>8. Entries(b[m])[h] \in 1 .. MaxLen
  BY <1>5, <1>6, TableFacts
<1> QED
  BY <1>0, <1>1, <1>5, <1>7, <1>8 DEF m

-----------------------------------------------------------------------------
(***************************************************************************)
(* The medium, block by block.                                             *)
(***************************************************************************)

LEMMA WriteFields ==
    ASSUME NEW s \in Slot, NEW w, NEW end
    PROVE  /\ Write(s, w, end).len = end /\ Write(s, w, end).name = s.name
           /\ Write(s, w, end).names = s.names
           /\ \A i \in Offsets : i \in DOMAIN w =>
                 /\ Write(s, w, end).vol[i] = w[i]
                 /\ Write(s, w, end).disk[i] = s.disk[i] \cup {w[i]}
           /\ \A i \in Offsets : i \notin DOMAIN w =>
                 /\ Write(s, w, end).vol[i] = s.vol[i]
                 /\ Write(s, w, end).disk[i] = s.disk[i]
BY DEF Write, Slot

LEMMA TruncateFields ==
    ASSUME NEW s \in Slot, NEW n \in Offsets
    PROVE  /\ Truncate(s, n).len = n /\ Truncate(s, n).name = s.name
           /\ Truncate(s, n).names = s.names
           /\ \A i \in Offsets : i <= n =>
                 Truncate(s, n).vol[i] = s.vol[i] /\ Truncate(s, n).disk[i] = s.disk[i]
           /\ \A i \in Offsets : i > n => Truncate(s, n).vol[i] = Void
           /\ \A i \in Offsets : /\ s.disk[i] \subseteq Truncate(s, n).disk[i]
                                 /\ Truncate(s, n).disk[i] \subseteq s.disk[i] \cup {Void}
           /\ \A i \in Offsets : s.vol[i] \in s.disk[i] =>
                 Truncate(s, n).vol[i] \in Truncate(s, n).disk[i]
<1>1. \A i \in Offsets : i \in Nat /\ n \in Nat
  BY DEF Offsets
<1> QED
  BY <1>1 DEF Truncate, Slot

LEMMA FlushFields ==
    ASSUME NEW s \in Slot
    PROVE  /\ Flush(s).len = s.len /\ Flush(s).name = s.name /\ Flush(s).vol = s.vol
           /\ Flush(s).names = IF EntriesDurable THEN {"listed"} ELSE s.names
           /\ \A i \in Offsets : Flush(s).disk[i] \in {s.disk[i], {s.vol[i]}}
BY DEF Flush, Slot

LEMMA FlushFailedFields ==
    ASSUME NEW s \in Slot
    PROVE  /\ FlushFailed(s).len = s.len /\ FlushFailed(s).name = s.name
           /\ FlushFailed(s).names = s.names
           /\ FlushFailed(s).vol = s.vol /\ FlushFailed(s).disk = s.disk
BY DEF FlushFailed, Slot

LEMMA InitSlotFields ==
    ASSUME NEW s \in Slot, NEW salt
    PROVE  /\ InitSlot(s, salt).len = 0 /\ InitSlot(s, salt).name
           /\ InitSlot(s, salt).vol[0] = Header(salt)
           /\ InitSlot(s, salt).disk[0] = s.disk[0] \cup {Void, Header(salt)}
           /\ \A i \in Offsets : i # 0 =>
                 /\ InitSlot(s, salt).vol[i] = Void
                 /\ InitSlot(s, salt).disk[i] = s.disk[i] \cup {Void}
<1>1. 0 \in Offsets
  BY RecordsAssumption DEF Offsets
<1> QED
  BY <1>1 DEF InitSlot, Write, Create

LEMMA RemoveFields ==
    ASSUME NEW s \in Slot
    PROVE  /\ ~Remove(s).name /\ Remove(s).disk = s.disk
           /\ s.name => \A i \in Offsets : Remove(s).vol[i] = Void
           /\ ~s.name => Remove(s) = s
BY DEF Remove, Slot

\* A power loss leaves of each block one of the values it may be found with.
LEMMA SurvivorFields ==
    ASSUME NEW s \in Slot, NEW c \in Survivors(s)
    PROVE  \A i \in Offsets : c[i] \in s.disk[i]
<1> DEFINE loose == {i \in Offsets : s.disk[i] # {s.vol[i]}}
<1>1. PICK f \in [loose -> UNION {s.disk[i] : i \in loose}] :
        /\ \A i \in loose : f[i] \in s.disk[i]
        /\ c = [i \in Offsets |-> IF i \in loose THEN f[i] ELSE s.vol[i]]
  BY DEF Survivors
<1> QED
  BY <1>1

\* A seal of another life of the file is a hole; every other block is as it was.
LEMMA VerifiableFields ==
    ASSUME NEW b \in [Offsets -> Block]
    PROVE  /\ Verifiable(b) \in [Offsets -> Block]
           /\ \A i \in Offsets : Verifiable(b)[i] \in {b[i], Void}
           /\ \A i \in Offsets : b[i].kind # "seal" => Verifiable(b)[i] = b[i]
           /\ \A i \in Offsets : IsSeal(b, i) => Verifiable(b)[i] = b[i]
           /\ \A i \in Offsets : Verifiable(b)[i].kind = "seal" => IsSeal(Verifiable(b), i)
<1>1. 0 \in Offsets
  BY RecordsAssumption DEF Offsets
<1>2. Verifiable(b) \in [Offsets -> Block] /\ \A i \in Offsets : Verifiable(b)[i] \in {b[i], Void}
  BY VoidBlock DEF Verifiable
<1>3. \A i \in Offsets : b[i].kind # "seal" => Verifiable(b)[i] = b[i]
  BY DEF Verifiable
<1>4. \A i \in Offsets : IsSeal(b, i) => Verifiable(b)[i] = b[i]
  BY DEF Verifiable
<1>5. ASSUME NEW i \in Offsets, Verifiable(b)[i].kind = "seal" PROVE IsSeal(Verifiable(b), i)
  <2>1. IsSeal(b, i)
    BY <1>5, VoidBlock DEF Verifiable
  <2>2. Verifiable(b)[0] = b[0]
    BY <1>1, <2>1 DEF Verifiable, IsSeal
  <2> QED
    BY <1>4, <2>1, <2>2 DEF IsSeal
<1> QED
  BY <1>2, <1>3, <1>4, <1>5

-----------------------------------------------------------------------------
(***************************************************************************)
(* The shape of a slot: its seals look backwards, wherever they may be     *)
(* found; what is read ends at the tracked length, is among what the disk  *)
(* may hold, and shows no seal of another life.                            *)
(***************************************************************************)

ShapeSlot(s) ==
    /\ \A i \in Offsets : \A r \in s.disk[i] \cup {s.vol[i]} : Backward(r, i)
    /\ s.name => \A i \in Offsets : i > s.len => s.vol[i] = Void
    /\ s.name => \A i \in Offsets : s.vol[i] \in s.disk[i]
    /\ ~s.name => \A i \in Offsets : s.vol[i] = Void
    /\ \A i \in Offsets : s.vol[i].kind = "seal" => IsSeal(s.vol, i)

ShapeInv == \A g \in Gens : ShapeSlot(slots[g])

LEMMA VoidBackward == \A i : Backward(Void, i)
BY VoidBlock DEF Backward

LEMMA ShapeAbsent == ShapeSlot(Absent)
BY VoidBlock, VoidBackward DEF ShapeSlot, Absent

LEMMA ShapeLog ==
    ASSUME NEW s \in Slot, ShapeSlot(s)
    PROVE  IsLog(s.vol)
BY DEF ShapeSlot, IsLog, Slot

\* Records appended above the end of a slot, seals under its salt and looking backwards.
LEMMA ShapeWrite ==
    ASSUME NEW s \in Slot, ShapeSlot(s), s.name, NEW end \in Offsets, s.len <= end,
           NEW w, DOMAIN w \subseteq Offsets,
           \A i \in DOMAIN w : s.len < i /\ i <= end /\ Backward(w[i], i),
           \A i \in DOMAIN w : w[i].kind = "seal" => s.vol[0].kind = "header" /\ w[i].salt = s.vol[0].salt
    PROVE  ShapeSlot(Write(s, w, end))
<1> DEFINE n == Write(s, w, end)
<1>1. /\ n.len = end /\ n.name = s.name /\ n.names = s.names
      /\ \A i \in Offsets : i \in DOMAIN w =>
            n.vol[i] = w[i] /\ n.disk[i] = s.disk[i] \cup {w[i]}
      /\ \A i \in Offsets : i \notin DOMAIN w =>
            n.vol[i] = s.vol[i] /\ n.disk[i] = s.disk[i]
  BY DEF Write, Slot
<1>0. s.len \in Nat /\ end \in Nat /\ 0 \in Offsets /\ \A i \in Offsets : i \in Nat
  BY RecordsAssumption DEF Slot, Offsets
<1> HIDE DEF n
<1>2. \A i \in Offsets : \A r \in n.disk[i] \cup {n.vol[i]} : Backward(r, i)
  BY <1>1 DEF ShapeSlot
<1>3. \A i \in Offsets : i > n.len => n.vol[i] = Void
  BY <1>0, <1>1 DEF ShapeSlot
<1>4. \A i \in Offsets : n.vol[i] \in n.disk[i]
  BY <1>1 DEF ShapeSlot
<1>5. n.vol[0] = s.vol[0]
  <2>1. 0 \notin DOMAIN w
    BY <1>0
  <2> QED
    BY <1>0, <1>1, <2>1
<1>6. ASSUME NEW i \in Offsets, n.vol[i].kind = "seal" PROVE IsSeal(n.vol, i)
  <2>1. CASE i \in DOMAIN w
    <3>1. i \in 1 .. MaxLen
      BY <1>0, <2>1 DEF Offsets
    <3> QED
      BY <1>1, <1>5, <1>6, <2>1, <3>1 DEF IsSeal
  <2>2. CASE i \notin DOMAIN w
    <3>1. IsSeal(s.vol, i) /\ n.vol[i] = s.vol[i]
      BY <1>1, <1>6, <2>2 DEF ShapeSlot
    <3> QED
      BY <1>5, <3>1 DEF IsSeal
  <2> QED
    BY <2>1, <2>2
<1>7. n.name
  BY <1>1
<1>8. ShapeSlot(n)
  BY <1>2, <1>3, <1>4, <1>6, <1>7 DEF ShapeSlot
<1> QED
  BY <1>8 DEF n

LEMMA ShapeTruncate ==
    ASSUME NEW s \in Slot, ShapeSlot(s), s.name, NEW n \in Offsets
    PROVE  ShapeSlot(Truncate(s, n))
<1> DEFINE t == Truncate(s, n)
<1>1. /\ t.len = n /\ t.name = s.name
      /\ \A i \in Offsets : i <= n => t.vol[i] = s.vol[i] /\ t.disk[i] = s.disk[i]
      /\ \A i \in Offsets : i > n => t.vol[i] = Void
      /\ \A i \in Offsets : t.disk[i] \subseteq s.disk[i] \cup {Void}
      /\ \A i \in Offsets : s.vol[i] \in s.disk[i] => t.vol[i] \in t.disk[i]
  <2> USE TruncateFields
  <2>1. t.len = n /\ t.name = s.name
    OBVIOUS
  <2>2. \A i \in Offsets : i <= n => t.vol[i] = s.vol[i] /\ t.disk[i] = s.disk[i]
    OBVIOUS
  <2>3. \A i \in Offsets : i > n => t.vol[i] = Void
    OBVIOUS
  <2>4. \A i \in Offsets : t.disk[i] \subseteq s.disk[i] \cup {Void}
    OBVIOUS
  <2>5. \A i \in Offsets : s.vol[i] \in s.disk[i] => t.vol[i] \in t.disk[i]
    OBVIOUS
  <2> QED
    BY <2>1, <2>2, <2>3, <2>4, <2>5
<1>0. n \in Nat /\ 0 \in Offsets /\ \A i \in Offsets : i \in Nat
  BY RecordsAssumption DEF Offsets
<1> HIDE DEF t
<1>2. \A i \in Offsets : t.vol[i] \in {s.vol[i], Void}
  <2>1. \A i \in Offsets : i <= n \/ i > n
    BY <1>0
  <2> QED
    BY <1>1, <2>1
<1>3. \A i \in Offsets : \A r \in t.disk[i] \cup {t.vol[i]} : Backward(r, i)
  BY <1>1, <1>2, VoidBackward DEF ShapeSlot
<1>4. t.vol[0] = s.vol[0]
  BY <1>0, <1>1
<1>5. \A i \in Offsets : t.vol[i].kind = "seal" => IsSeal(t.vol, i)
  BY <1>2, <1>4, VoidBlock DEF ShapeSlot, IsSeal
<1>6. ShapeSlot(t)
  BY <1>1, <1>3, <1>5 DEF ShapeSlot
<1> QED
  BY <1>6 DEF t

LEMMA ShapeFlush ==
    ASSUME NEW s \in Slot, ShapeSlot(s)
    PROVE  ShapeSlot(Flush(s)) /\ ShapeSlot(FlushFailed(s))
<1>1. ShapeSlot(FlushFailed(s))
  BY FlushFailedFields DEF ShapeSlot
<1> DEFINE f == Flush(s)
<1>2. f.len = s.len /\ f.name = s.name /\ f.vol = s.vol
      /\ \A i \in Offsets : f.disk[i] \in {s.disk[i], {s.vol[i]}}
  BY FlushFields
<1> HIDE DEF f
<1>3. \A i \in Offsets : \A r \in f.disk[i] \cup {f.vol[i]} : Backward(r, i)
  BY <1>2 DEF ShapeSlot
<1>4. f.name => \A i \in Offsets : f.vol[i] \in f.disk[i]
  BY <1>2 DEF ShapeSlot
<1>5. ShapeSlot(f)
  BY <1>2, <1>3, <1>4 DEF ShapeSlot
<1> QED
  BY <1>1, <1>5 DEF f

LEMMA ShapeInitSlot ==
    ASSUME NEW s \in Slot, ShapeSlot(s), NEW salt
    PROVE  ShapeSlot(InitSlot(s, salt))
<1> DEFINE n == InitSlot(s, salt)
<1>0. 0 \in Offsets /\ \A i \in Offsets : i \in Nat
  BY RecordsAssumption DEF Offsets
<1>1. /\ n.len = 0 /\ n.name /\ n.vol[0] = Header(salt)
      /\ n.disk[0] = s.disk[0] \cup {Void, Header(salt)}
      /\ \A i \in Offsets : i # 0 => n.vol[i] = Void /\ n.disk[i] = s.disk[i] \cup {Void}
  BY InitSlotFields
<1>2. Header(salt).kind # "seal" /\ \A i : Backward(Header(salt), i)
  BY DEF Header, Backward
<1> HIDE DEF n
<1>3. \A i \in Offsets : n.vol[i] \in {Void, Header(salt)} /\ n.vol[i] \in n.disk[i]
                         /\ n.disk[i] \subseteq s.disk[i] \cup {Void, Header(salt)}
  BY <1>1
<1>4. \A i \in Offsets : \A r \in n.disk[i] \cup {n.vol[i]} : Backward(r, i)
  BY <1>2, <1>3, VoidBackward DEF ShapeSlot
<1>5. \A i \in Offsets : n.vol[i].kind # "seal"
  BY <1>2, <1>3, VoidBlock
<1>6. \A i \in Offsets : i > n.len => n.vol[i] = Void
  BY <1>0, <1>1
<1>7. ShapeSlot(n)
  BY <1>1, <1>3, <1>4, <1>5, <1>6 DEF ShapeSlot
<1> QED
  BY <1>7 DEF n

LEMMA ShapeRemove ==
    ASSUME NEW s \in Slot, ShapeSlot(s)
    PROVE  ShapeSlot(Remove(s))
<1>1. CASE s.name
  <2>1. ~Remove(s).name /\ Remove(s).disk = s.disk /\ \A i \in Offsets : Remove(s).vol[i] = Void
    BY <1>1, RemoveFields
  <2>2. \A i \in Offsets : \A r \in Remove(s).disk[i] \cup {Remove(s).vol[i]} : Backward(r, i)
    BY <2>1, VoidBackward DEF ShapeSlot
  <2> QED
    BY <2>1, <2>2, VoidBlock DEF ShapeSlot
<1>2. CASE ~s.name
  BY <1>2, RemoveFields
<1> QED
  BY <1>1, <1>2

LEMMA ShapeImage ==
    ASSUME NEW s \in Slot, ShapeSlot(s), NEW c \in Survivors(s), NEW n \in Offsets,
           EndsAt(Verifiable(c), n)
    PROVE  ShapeSlot(Image(Verifiable(c), n))
<1> DEFINE b == Verifiable(c)
<1>1. \A i \in Offsets : c[i] \in s.disk[i]
  BY SurvivorFields
<1>2. c \in [Offsets -> Block]
  <2>1. DOMAIN c = Offsets /\ c = [i \in Offsets |-> c[i]]
    BY DEF Survivors
  <2>2. \A i \in Offsets : c[i] \in Block
    BY <1>1 DEF Slot
  <2> QED
    BY <2>1, <2>2
<1>3. /\ \A i \in Offsets : b[i] \in {c[i], Void}
      /\ \A i \in Offsets : b[i].kind = "seal" => IsSeal(b, i)
  BY <1>2, VerifiableFields
<1>4. \A i \in Offsets : i > n => b[i] = Void
  BY DEF EndsAt
<1> HIDE DEF b
<1>5. Image(b, n).vol = b /\ Image(b, n).len = n /\ Image(b, n).name
      /\ \A i \in Offsets : Image(b, n).disk[i] = {b[i]}
  BY DEF Image
<1>6. \A i \in Offsets : Backward(b[i], i)
  BY <1>1, <1>3, VoidBackward DEF ShapeSlot
<1>7. ShapeSlot(Image(b, n))
  BY <1>3, <1>4, <1>5, <1>6 DEF ShapeSlot
<1> QED
  BY <1>7 DEF b

LEMMA ShapeSwept ==
    ASSUME NEW files \in [Gens -> Slot], \A g \in Gens : ShapeSlot(files[g]),
           NEW gone, NEW after \in Swept(files, gone)
    PROVE  \A g \in Gens : ShapeSlot(after[g])
<1>1. \A g \in Gens : after[g] \in {files[g], Remove(files[g])}
  BY DEF Swept
<1>2. \A g \in Gens : files[g] \in Slot
  OBVIOUS
<1> QED
  BY <1>1, <1>2, ShapeRemove

-----------------------------------------------------------------------------
(***************************************************************************)
(* Where the writer stands.                                                *)
(***************************************************************************)

\* The phases in which a PackStore exists or an elected slot is being trimmed.
Session == Open \cup {"trimming"}

\* A pack that has never sealed.
Unsealed(p) ==
    /\ p.last = NoLink /\ p.table = NoTable /\ p.since = 0 /\ p.seq = 0
    /\ p.sealed = 0 /\ p.manifest = {} /\ p.gen = 0

\* A pack whose fields are what recover_state computes at its last seal.
Agrees(b, p) ==
    /\ p.sealed \in Seals(b) /\ ChainHolds(b, p.sealed)
    /\ ChainTable(b, p.sealed) = p.table /\ SinceCheckpoint(b, p.sealed) = p.since
    /\ b[p.sealed].seq = p.seq /\ b[p.sealed].manifest = p.manifest
    /\ p.last = [at |-> p.sealed, check |-> SealCheck(b[p.sealed])]

Stands(b, p) == b[0] = Header(p.salt) /\ (Unsealed(p) \/ Agrees(b, p))

StandsInv == pc \in Session \cup {"founding"} => Stands(Here.vol, pack)

\* Between operations the slot ends at the published seal.
EndInv ==
    /\ pc \in {"ready", "header", "successor", "founding", "trimming"} => Here.len = pack.sealed
    /\ pc \in {"header", "successor", "trimming"} => pack.sealed # 0
    /\ pc = "founding" => pack.sealed = 0
    /\ pc = "commit" => wip.undo = pack.sealed
    /\ pc = "sealed" => pack.sealed < Here.len

\* A seal that commits the table t on top of the pack p.
Follows(r, p, t) ==
    /\ r.salt = p.salt /\ r.prev = p.last /\ r.seq > p.seq
    /\ IF r.full THEN r.base = t ELSE r.base = NoTable
    /\ t = Merge(r.added, p.table) \/ (r.full /\ p.sealed = 0)
    /\ \A h \in DOMAIN r.added : h \in DOMAIN t /\ t[h] = r.added[h]
    /\ r.manifest \subseteq DOMAIN t

\* What a commit in flight is about to publish.
FlightInv ==
    /\ pc \in {"commit", "sealed"} =>
          /\ Follows(wip.seal, pack, wip.table)
          /\ wip.seal.full /\ pack.sealed = 0 => source
          /\ \A h \in DOMAIN wip.table : wip.table[h] <= Here.len
    /\ pc = "sealed" => Here.vol[Here.len] = wip.seal
    /\ pc = "sealed" => \A h \in DOMAIN wip.table : wip.table[h] < Here.len

Next1 == slots[pack.gen + 1]

\* What a compaction in flight is about to publish.
BirthInv ==
    /\ pc = "header" => Next1.vol[0] = wip.seal /\ Next1.len = 0
    /\ pc = "successor" =>
          /\ Next1.vol[0] = Header(wip.seal.salt)
          /\ Next1.len # 0 /\ Next1.vol[Next1.len] = wip.seal
          /\ wip.seal.full /\ wip.seal.prev = NoLink /\ wip.seal.added = NoTable
          /\ wip.seal.base = wip.table
          /\ wip.seal.seq = pack.seq /\ wip.seal.manifest = pack.manifest

LogInv == ShapeInv /\ StandsInv /\ EndInv /\ FlightInv /\ BirthInv

\* A sealed pack is one whose sealed length is not zero.
LEMMA SealedMeans ==
    ASSUME NEW b, NEW p, Stands(b, p)
    PROVE  /\ p.sealed = 0 <=> Unsealed(p)
           /\ p.sealed # 0 <=> Agrees(b, p)
           /\ p.last.at = p.sealed
           /\ p.last = NoLink <=> p.sealed = 0
<1>1. Agrees(b, p) => p.sealed # 0 /\ p.last.at = p.sealed
  BY DEF Agrees, Seals
<1>2. Unsealed(p) => p.sealed = 0 /\ p.last.at = 0 /\ p.last = NoLink
  BY DEF Unsealed, NoLink
<1>3. p.last = NoLink => p.last.at = 0
  BY DEF NoLink
<1> QED
  BY <1>1, <1>2, <1>3 DEF Stands

\* Where the writer stands is decided by the blocks up to its last seal.
LEMMA StandsSame ==
    ASSUME NEW b, NEW c, IsLog(b), IsLog(c), NEW p, p.sealed \in Offsets,
           Same(b, c, p.sealed), Stands(b, p)
    PROVE  Stands(c, p)
<1>1. b[0] = c[0]
  BY RecordsAssumption DEF Same, Offsets
<1>2. CASE Agrees(b, p)
  <2>1. p.sealed \in Seals(b) /\ ChainHolds(b, p.sealed)
    BY <1>2 DEF Agrees
  <2>2. /\ p.sealed \in Seals(c) /\ ChainTable(c, p.sealed) = ChainTable(b, p.sealed)
        /\ SinceCheckpoint(c, p.sealed) = SinceCheckpoint(b, p.sealed)
        /\ ChainHolds(c, p.sealed)
    BY <2>1, SameChain, SameConclusion
  <2>3. b[p.sealed] = c[p.sealed]
    BY DEF Same, Offsets
  <2> QED
    BY <1>1, <1>2, <2>2, <2>3 DEF Agrees, Stands
<1>3. CASE Unsealed(p)
  BY <1>1, <1>3 DEF Stands
<1> QED
  BY <1>2, <1>3 DEF Stands

\* append_seal: the new seal's chain gives the table it was made from, and counts as one
\* seal more unless it is a checkpoint.
LEMMA AppendedSeal ==
    ASSUME NEW b, IsLog(b), NEW p \in Packs, Stands(b, p), NEW n \in Offsets, p.sealed < n,
           b[n] \in SealRecords, NEW t \in Tables, Follows(b[n], p, t)
    PROVE  /\ n \in Seals(b) /\ ChainHolds(b, n) /\ ChainTable(b, n) = t
           /\ SinceCheckpoint(b, n) = IF b[n].full THEN 0 ELSE p.since + 1
<1> DEFINE r == b[n]
<1>0. b \in [Offsets -> Block] /\ p.sealed \in Nat /\ n \in 1 .. MaxLen
  BY DEF IsLog, Packs, Offsets
<1>1. n \in Seals(b)
  BY <1>0 DEF Seals, IsSeal, Stands, Follows, Header, SealRecords
<1>2. p.last.at = p.sealed /\ r.prev = p.last /\ r.full \in BOOLEAN /\ r.added \in Tables
  BY SealedMeans DEF Follows, SealRecords
<1>3. p.sealed # 0 => Agrees(b, p)
  BY SealedMeans
<1>4. CASE r.full
  <2>1. ChainHolds(b, n) /\ ChainTable(b, n) = Entries(r) /\ SinceCheckpoint(b, n) = 0
    BY <1>1, <1>4, LoneChain, LoneTable
  <2>2. Entries(r) = Merge(r.added, t)
    BY <1>4 DEF Entries, Follows
  <2>3. Merge(r.added, t) = t
    <3>1. \A h \in DOMAIN r.added : h \in DOMAIN t /\ t[h] = r.added[h]
      BY DEF Follows
    <3>2. t \in [DOMAIN t -> 1 .. MaxLen]
      BY TableFacts
    <3>3. DOMAIN r.added \cup DOMAIN t = DOMAIN t
      BY <3>1
    <3> QED
      BY <3>1, <3>2, <3>3 DEF Merge
  <2> QED
    BY <1>1, <1>4, <2>1, <2>2, <2>3
<1>5. CASE ~r.full /\ p.sealed = 0
  <2>1. r.prev.at = 0
    BY <1>2, <1>5
  <2>2. ChainHolds(b, n) /\ ChainTable(b, n) = Entries(r) /\ SinceCheckpoint(b, n) = 1
    BY <1>1, <1>5, <2>1, LoneChain, LoneTable
  <2>3. p.table = NoTable /\ p.since = 0
    BY <1>5, SealedMeans DEF Unsealed
  <2>4. t = Merge(r.added, NoTable) /\ Entries(r) = r.added
    BY <1>5, <2>3 DEF Follows, Entries
  <2>5. Merge(r.added, NoTable) = r.added
    <3>1. r.added \in [DOMAIN r.added -> 1 .. MaxLen]
      BY <1>2, TableFacts
    <3>2. DOMAIN NoTable = {}
      BY DEF NoTable
    <3>3. DOMAIN r.added \cup DOMAIN NoTable = DOMAIN r.added
      BY <3>2
    <3> QED
      BY <3>1, <3>3 DEF Merge
  <2> QED
    BY <1>1, <1>5, <2>2, <2>3, <2>4, <2>5
<1>6. CASE ~r.full /\ p.sealed # 0
  <2>1. /\ p.sealed \in Seals(b) /\ ChainHolds(b, p.sealed)
        /\ ChainTable(b, p.sealed) = p.table /\ SinceCheckpoint(b, p.sealed) = p.since
        /\ b[p.sealed].seq = p.seq
        /\ p.last = [at |-> p.sealed, check |-> SealCheck(b[p.sealed])]
    BY <1>3, <1>6 DEF Agrees
  <2>2. r.prev.at = p.sealed /\ r.prev.check = SealCheck(b[p.sealed])
    BY <1>2, <2>1
  <2>3. LinkHolds(b, n)
    BY <2>1, <2>2 DEF LinkHolds, Follows, Seals
  <2>4. t = Merge(r.added, p.table)
    BY <1>6 DEF Follows
  <2> QED
    BY <1>1, <1>6, <2>1, <2>2, <2>3, <2>4, DeltaTable
<1> QED
  BY <1>2, <1>4, <1>5, <1>6

\* A birth seal is a chain of its own, at no distance from the checkpoint it is.
LEMMA BirthSeal ==
    ASSUME NEW b, IsLog(b), NEW n \in Seals(b), b[n].full, b[n].added = NoTable
    PROVE  /\ ChainHolds(b, n) /\ ChainTable(b, n) = b[n].base
           /\ SinceCheckpoint(b, n) = 0
<1>1. b \in [Offsets -> Block] /\ b[n].base \in Tables
  BY SealFacts DEF IsLog
<1>2. ChainHolds(b, n) /\ ChainTable(b, n) = Entries(b[n]) /\ SinceCheckpoint(b, n) = 0
  BY LoneChain, LoneTable
<1>3. Entries(b[n]) = Merge(NoTable, b[n].base)
  BY DEF Entries
<1>4. Merge(NoTable, b[n].base) = b[n].base
  <2>1. b[n].base \in [DOMAIN b[n].base -> 1 .. MaxLen]
    BY <1>1, TableFacts
  <2>2. DOMAIN NoTable = {}
    BY DEF NoTable
  <2>3. DOMAIN NoTable \cup DOMAIN b[n].base = DOMAIN b[n].base
    BY <2>2
  <2> QED
    BY <2>1, <2>2, <2>3 DEF Merge
<1> QED
  BY <1>2, <1>3, <1>4

\* The table of a writer names nothing above its last seal.
LEMMA StandsTable ==
    ASSUME NEW b, IsLog(b), NEW p \in Packs, Stands(b, p), NEW h \in DOMAIN p.table
    PROVE  p.table[h] < p.sealed /\ p.table[h] \in 1 .. MaxLen
<1>1. DOMAIN NoTable = {}
  BY DEF NoTable
<1>2. Agrees(b, p)
  BY <1>1 DEF Stands, Unsealed
<1> QED
  BY <1>2, TableBelow DEF Agrees

\* What an open rebuilds from a sound slot stands at the elected seal.
LEMMA RecoveredStands ==
    ASSUME Inv, ShapeInv, NEW g \in Sound
    PROVE  /\ Stands(slots[g].vol, Recovered(g)) /\ Recovered(g).sealed # 0
           /\ Elected(slots[g].vol) \in Verified(slots[g].vol)
           /\ Elected(slots[g].vol) \in Seals(slots[g].vol)
<1> DEFINE b == slots[g].vol
           i == Elected(b)
<1>1. g \in Gens /\ i # 0
  BY DEF Sound, Found
<1>2. slots[g] \in Slot /\ b \in [Offsets -> Block]
  BY <1>1 DEF Inv, TypeOK, Slot
<1>3. i \in Verified(b)
  <2>1. Verified(b) # {} /\ i = Max(Verified(b))
    BY <1>1 DEF Elected
  <2>2. Verified(b) \in SUBSET (0 .. MaxLen)
    BY RecordsAssumption DEF Verified, Candidates, Reach, Seals
  <2> QED
    BY <2>1, <2>2, MaxOffset
<1>4. i \in Seals(b) /\ ChainHolds(b, i)
  BY <1>3 DEF Verified, Candidates, Reach, Verifies
<1>5. b[0] = Header(b[0].salt)
  <2>1. b[0] \in HeaderRecords
    BY <1>2, <1>4, HeaderIsHeaderRecord, RecordsAssumption DEF Seals, IsSeal, Offsets
  <2> QED
    BY <2>1 DEF HeaderRecords, Header
<1>6. Recovered(g) =
        [gen |-> b[i].gen, salt |-> b[0].salt, table |-> ChainTable(b, i), sealed |-> i,
         seq |-> b[i].seq, last |-> [at |-> i, check |-> SealCheck(b[i])],
         since |-> SinceCheckpoint(b, i), prov |-> b[i].prov, manifest |-> b[i].manifest,
         graveyard |-> {}]
  BY DEF Recovered
<1> HIDE DEF b, i
<1>7. /\ Recovered(g).sealed = i /\ Recovered(g).salt = b[0].salt
      /\ Recovered(g).table = ChainTable(b, i) /\ Recovered(g).since = SinceCheckpoint(b, i)
      /\ Recovered(g).seq = b[i].seq /\ Recovered(g).manifest = b[i].manifest
      /\ Recovered(g).last = [at |-> i, check |-> SealCheck(b[i])]
  BY <1>6
<1>8. Agrees(b, Recovered(g))
  BY <1>4, <1>7 DEF Agrees
<1>9. Stands(b, Recovered(g))
  BY <1>5, <1>7, <1>8 DEF Stands
<1> QED
  BY <1>1, <1>3, <1>4, <1>7, <1>9 DEF b, i

-----------------------------------------------------------------------------
(***************************************************************************)
(* What each action leaves, stated once for the invariants that follow.    *)
(***************************************************************************)

\* The slots' contents are logs.
LEMMA SlotLog ==
    ASSUME Inv, ShapeInv, NEW g \in Gens
    PROVE  slots[g] \in Slot /\ ShapeSlot(slots[g]) /\ IsLog(slots[g].vol)
<1>1. slots[g] \in Slot /\ ShapeSlot(slots[g])
  BY DEF Inv, TypeOK, ShapeInv
<1> QED
  BY <1>1, ShapeLog

\* The writer's slot, and where it ends.
LEMMA WriterFacts ==
    ASSUME Inv, ShapeInv
    PROVE  /\ pack \in Packs /\ pack.gen \in Gens /\ Here \in Slot /\ ShapeSlot(Here)
           /\ IsLog(Here.vol) /\ Here.len \in Offsets /\ pack.sealed \in Offsets
           /\ 0 \in Offsets /\ \A i \in Offsets : i \in Nat
<1>1. pack \in Packs /\ pack.gen \in Gens /\ pack.sealed \in Offsets
  BY DEF Inv, TypeOK, Packs
<1>2. Here \in Slot /\ ShapeSlot(Here) /\ IsLog(Here.vol) /\ Here.len \in Offsets
  BY <1>1, SlotLog DEF Here, Slot
<1> QED
  BY <1>1, <1>2, RecordsAssumption DEF Offsets

NewOf(objects) == objects \ DOMAIN pack.table

\* try_commit and try_migrate, up to the seal.
Appended(new, end, last, manifest, migrating) ==
    /\ pc' = "commit" /\ UNCHANGED <<pack, views, source, observed>>
    /\ new \in SUBSET Objects /\ Fits(new, end)
    /\ end \in Offsets /\ last \in Offsets /\ end <= last
    /\ slots'[pack.gen] = Write(Here, ObjectRecords(new, end), last)
    /\ \A h \in Gens : h # pack.gen => slots'[h] = slots[h]
    /\ wip'.undo = end /\ wip'.table = Merge(Placed(new, end), pack.table)
    /\ manifest \subseteq DOMAIN wip'.table /\ wip'.seal.manifest = manifest
    /\ wip'.seal.salt = pack.salt
    /\ wip'.seal.seq = IF migrating THEN SourceSeq + 1 ELSE pack.seq + 1
    /\ wip'.seal.prev = IF migrating THEN NoLink ELSE pack.last
    /\ wip'.seal.added = IF migrating THEN NoTable ELSE Placed(new, end)
    /\ wip'.seal.full = (migrating \/ pack.since + 1 >= CheckpointEvery)
    /\ wip'.seal.base = IF migrating \/ pack.since + 1 >= CheckpointEvery
                        THEN wip'.table ELSE NoTable

LEMMA AppendFacts ==
    ASSUME Inv, pc = "ready", NEW objects \in SUBSET Objects, NEW manifest \in SUBSET Objects,
           NEW migrating \in BOOLEAN, AppendObjects(objects, manifest, migrating),
           NEW new, new = NewOf(objects), NEW end, end = Here.len,
           NEW last, last = end + Cardinality(new)
    PROVE  Appended(new, end, last, manifest, migrating)
<1>1. /\ pc' = "commit" /\ UNCHANGED <<pack, views, source, observed>> /\ Fits(new, end)
      /\ slots' = [slots EXCEPT ![pack.gen] = Write(Here, ObjectRecords(new, end), last)]
      /\ manifest \subseteq DOMAIN Merge(Placed(new, end), pack.table)
  BY DEF AppendObjects, Here, NewOf
<1>2. new \in SUBSET Objects /\ end \in Offsets /\ pack.gen \in Gens
  BY HereFacts DEF NewOf
<1>3. last \in Offsets /\ end <= last
  BY <1>1, <1>2, PlacedFacts DEF Offsets
<1>4. slots'[pack.gen] = Write(Here, ObjectRecords(new, end), last)
      /\ \A h \in Gens : h # pack.gen => slots'[h] = slots[h]
  BY <1>1, <1>2 DEF Inv, TypeOK
<1> DEFINE due == pack.since + 1 >= CheckpointEvery
           added == Placed(new, end)
           table == Merge(added, pack.table)
<1>5. wip' = [undo  |-> end, table |-> table,
              seal  |-> [kind |-> "seal", salt |-> pack.salt, gen |-> pack.gen,
                         seq   |-> IF migrating THEN SourceSeq + 1 ELSE pack.seq + 1,
                         prev  |-> IF migrating THEN NoLink ELSE pack.last,
                         added |-> IF migrating THEN NoTable ELSE added,
                         full  |-> migrating \/ due,
                         base  |-> IF migrating \/ due THEN table ELSE NoTable,
                         prov  |-> migrating, manifest |-> manifest]]
  BY DEF AppendObjects, NewOf
<1> HIDE DEF added, table, due
<1>6. /\ wip'.undo = end /\ wip'.table = table /\ wip'.seal.manifest = manifest
      /\ wip'.seal.salt = pack.salt
      /\ wip'.seal.seq = IF migrating THEN SourceSeq + 1 ELSE pack.seq + 1
      /\ wip'.seal.prev = IF migrating THEN NoLink ELSE pack.last
      /\ wip'.seal.added = IF migrating THEN NoTable ELSE added
      /\ wip'.seal.full = (migrating \/ due)
      /\ wip'.seal.base = IF migrating \/ due THEN table ELSE NoTable
  BY <1>5
<1> QED
  BY <1>1, <1>2, <1>3, <1>4, <1>6 DEF added, table, due, Appended

\* append_seal.
LEMMA CommitSealFacts ==
    ASSUME Inv, CommitSeal, NEW end, end = Here.len + 1
    PROVE  /\ pc = "commit" /\ pc' = "sealed" /\ UNCHANGED <<pack, wip, views, source, committed, acked>>
           /\ end \in Offsets
           /\ slots' = [slots EXCEPT ![pack.gen] = Write(Here, [i \in {end} |-> wip.seal], end)]
           /\ slots'[pack.gen] = Write(Here, [i \in {end} |-> wip.seal], end)
           /\ \A h \in Gens : h # pack.gen => slots'[h] = slots[h]
<1>1. /\ pc = "commit" /\ pc' = "sealed" /\ UNCHANGED <<pack, wip, views, source, committed, acked>>
      /\ slots' = [slots EXCEPT ![pack.gen] = Write(Here, [i \in {end} |-> wip.seal], end)]
  BY DEF CommitSeal, Here
<1>2. pack.gen \in Gens /\ Here.len \in Offsets /\ Here.len < MaxLen
  BY <1>1, HereFacts DEF Inv, PhaseInv
<1>3. end \in Offsets
  BY <1>2, RecordsAssumption DEF Offsets
<1> QED
  BY <1>1, <1>2, <1>3 DEF Inv, TypeOK

\* The flush of a commit, and what it publishes.
LEMMA CommitFlushFacts ==
    ASSUME Inv, CommitFlush
    PROVE  /\ pc = "sealed" /\ pc' = "ready" /\ UNCHANGED <<views, source>>
           /\ wip' = NoWip /\ committed' = Value(wip.seal.seq, wip.seal.manifest)
           /\ attempted' = {} /\ acked' = wip.seal.seq
           /\ slots' = [slots EXCEPT ![pack.gen] = Flush(Here)]
           /\ slots'[pack.gen] = Flush(Here)
           /\ \A h \in Gens : h # pack.gen => slots'[h] = slots[h]
           /\ pack'.gen = pack.gen /\ pack'.salt = pack.salt /\ pack'.table = wip.table
           /\ pack'.sealed = Here.len /\ pack'.seq = wip.seal.seq
           /\ pack'.last = [at |-> Here.len, check |-> SealCheck(wip.seal)]
           /\ pack'.since = IF wip.seal.full THEN 0 ELSE pack.since + 1
           /\ pack'.manifest = wip.seal.manifest /\ pack'.graveyard = pack.graveyard
<1>1. /\ pc = "sealed" /\ pc' = "ready" /\ UNCHANGED <<views, source>>
      /\ wip' = NoWip /\ committed' = Value(wip.seal.seq, wip.seal.manifest)
      /\ attempted' = {} /\ acked' = wip.seal.seq
      /\ slots' = [slots EXCEPT ![pack.gen] = Flush(Here)]
  BY DEF CommitFlush, Publish, Here
<1>2. pack.gen \in Gens /\ pack \in Packs
  BY HereFacts DEF Inv, TypeOK
<1>3. slots'[pack.gen] = Flush(Here) /\ \A h \in Gens : h # pack.gen => slots'[h] = slots[h]
  BY <1>1, <1>2 DEF Inv, TypeOK
<1>4. /\ pack'.gen = pack.gen /\ pack'.salt = pack.salt /\ pack'.table = wip.table
      /\ pack'.sealed = Here.len /\ pack'.seq = wip.seal.seq
      /\ pack'.last = [at |-> Here.len, check |-> SealCheck(wip.seal)]
      /\ pack'.since = IF wip.seal.full THEN 0 ELSE pack.since + 1
      /\ pack'.manifest = wip.seal.manifest /\ pack'.graveyard = pack.graveyard
  BY <1>2 DEF CommitFlush, Publish, Packs
<1> QED
  BY <1>1, <1>3, <1>4

\* The start of a compaction.
LEMMA CompactFacts ==
    ASSUME Inv, Compact
    PROVE  \E after \in Swept(slots, {pack.gen + 1}), salt \in FreshSalts(slots[pack.gen + 1]) :
           /\ pc = "ready" /\ pc' = "header" /\ UNCHANGED <<pack, views, source, observed>>
           /\ Sealed /\ ~source
           /\ pack.gen \in Gens /\ pack.gen + 1 \in Gens /\ pack.gen + 1 # pack.gen
           /\ slots' = [after EXCEPT ![pack.gen + 1] = InitSlot(after[pack.gen + 1], salt)]
           /\ slots'[pack.gen + 1] = InitSlot(after[pack.gen + 1], salt)
           /\ after \in [Gens -> Slot] /\ after[pack.gen + 1] \in {slots[pack.gen + 1], Remove(slots[pack.gen + 1])}
           /\ \A h \in Gens : h # pack.gen + 1 => slots'[h] = slots[h] /\ after[h] = slots[h]
           /\ wip'.seal = Header(salt)
<1>1. PICK after \in Swept(slots, {pack.gen + 1}), salt \in FreshSalts(slots[pack.gen + 1]) :
        /\ slots' = [after EXCEPT ![pack.gen + 1] = InitSlot(after[pack.gen + 1], salt)]
        /\ wip' = [NoWip EXCEPT !.seal = Header(salt)]
  BY DEF Compact
<1>2. /\ pc = "ready" /\ pc' = "header" /\ UNCHANGED <<pack, views, source, observed>>
      /\ Sealed /\ ~source /\ pack.gen < MaxGen
  BY DEF Compact
<1>3. pack.gen \in Gens /\ pack.gen + 1 \in Gens /\ pack.gen + 1 # pack.gen
  BY <1>2, RecordsAssumption DEF Inv, TypeOK, Packs, Gens
<1>4. /\ after \in [Gens -> Slot]
      /\ \A h \in Gens : h \notin {pack.gen + 1} => after[h] = slots[h]
  BY SweptFacts DEF Inv, TypeOK, SlotsInv
<1>5. after[pack.gen + 1] \in {slots[pack.gen + 1], Remove(slots[pack.gen + 1])}
  BY <1>3 DEF Swept
<1>6. wip'.seal = Header(salt)
  BY <1>1 DEF NoWip
<1>7. slots'[pack.gen + 1] = InitSlot(after[pack.gen + 1], salt)
      /\ \A h \in Gens : h # pack.gen + 1 => slots'[h] = slots[h] /\ after[h] = slots[h]
  BY <1>1, <1>3, <1>4
<1> WITNESS after \in Swept(slots, {pack.gen + 1}), salt \in FreshSalts(slots[pack.gen + 1])
<1> QED
  BY <1>1, <1>2, <1>3, <1>4, <1>5, <1>6, <1>7

Keep(live) == DOMAIN pack.table \cap live

BirthOf(salt, table) ==
    [kind |-> "seal", salt |-> salt, gen |-> pack.gen + 1, seq |-> pack.seq,
     prev |-> NoLink, added |-> NoTable, full |-> TRUE, base |-> table,
     prov |-> FALSE, manifest |-> pack.manifest]

\* build_successor: the live objects, in order, and a birth seal behind them.
Copied(keep, end, seal, w) ==
    /\ pc = "header" /\ pc' = "successor" /\ UNCHANGED <<pack, views, source, observed>>
    /\ keep \in SUBSET Objects /\ Fits(keep, 0) /\ end \in Offsets /\ end \in Nat /\ end # 0
    /\ pack.gen \in Gens /\ pack.gen + 1 \in Gens /\ pack.gen + 1 # pack.gen
    /\ slots'[pack.gen + 1] = Write(Flush(Next1), w, end)
    /\ \A h \in Gens : h # pack.gen + 1 => slots'[h] = slots[h]
    /\ wip'.seal = seal /\ wip'.table = Placed(keep, 0)
    /\ seal \in SealRecords
    /\ DOMAIN w = DOMAIN ObjectRecords(keep, 0) \cup {end} /\ w[end] = seal
    /\ \A i \in DOMAIN ObjectRecords(keep, 0) :
          /\ i \in Offsets /\ 0 < i /\ i < end /\ w[i] = ObjectRecords(keep, 0)[i]
          /\ w[i] \in ObjectPayloads
    /\ \A h \in keep : Placed(keep, 0)[h] < end
    /\ Placed(keep, 0) \in Tables

LEMMA CompactCopyFacts ==
    ASSUME Inv, NEW live, CompactCopy(live), NEW keep, keep = Keep(live),
           NEW end, end = Cardinality(keep) + 1,
           NEW seal, seal = BirthOf(wip.seal.salt, Placed(keep, 0)),
           NEW w, w = Merge(ObjectRecords(keep, 0), [i \in {end} |-> seal])
    PROVE  Copied(keep, end, seal, w)
<1>1. /\ pc = "header" /\ pc' = "successor" /\ UNCHANGED <<pack, views, source, observed>>
      /\ Fits(keep, 0)
      /\ slots' = [slots EXCEPT ![pack.gen + 1] = Write(Flush(Next1), w, end)]
      /\ wip' = [NoWip EXCEPT !.seal = seal, !.table = Placed(keep, 0)]
  BY DEF CompactCopy, Keep, BirthOf, Next1
<1>2. /\ pack \in Packs /\ pack.gen \in Gens /\ pack.gen < MaxGen /\ wip.seal \in HeaderRecords
  BY <1>1 DEF Inv, TypeOK, PhaseInv, Packs
<1>3. pack.gen + 1 \in Gens /\ pack.gen + 1 # pack.gen
  BY <1>2, RecordsAssumption DEF Gens
<1>4. keep \in SUBSET Objects /\ 0 \in Offsets
  BY <1>2, TableFacts, RecordsAssumption DEF Packs, Offsets, Keep
<1>5. /\ Cardinality(keep) \in Nat /\ 0 + Cardinality(keep) < MaxLen
      /\ \A h \in keep : Placed(keep, 0)[h] \in 0 + 1 .. 0 + Cardinality(keep)
      /\ Placed(keep, 0) \in Tables
  BY <1>1, <1>4, PlacedFacts
<1>6. end \in Offsets /\ end \in Nat /\ end # 0
  BY <1>5, RecordsAssumption DEF Offsets
<1>7. seal \in SealRecords
  <2>1. wip.seal.salt \in Nat /\ pack.seq \in Nat /\ pack.manifest \in Manifests
    BY <1>2 DEF HeaderRecords, Packs
  <2>2. pack.gen + 1 \in 0 .. MaxGen /\ NoLink \in Links /\ NoTable \in Tables
    BY <1>3, NoTableType, LinkTypes DEF Gens
  <2> QED
    BY <1>5, <2>1, <2>2 DEF SealRecords, BirthOf
<1>8. /\ slots'[pack.gen + 1] = Write(Flush(Next1), w, end)
      /\ \A h \in Gens : h # pack.gen + 1 => slots'[h] = slots[h]
  BY <1>1, <1>3 DEF Inv, TypeOK
<1>9. wip'.seal = seal /\ wip'.table = Placed(keep, 0)
  BY <1>1 DEF NoWip
<1>10. \A h \in keep : Placed(keep, 0)[h] < end /\ Placed(keep, 0)[h] \in Nat
  BY <1>5
<1>11. \A i \in DOMAIN ObjectRecords(keep, 0) : i \in Offsets /\ 0 < i /\ i < end
         /\ ObjectRecords(keep, 0)[i] \in ObjectPayloads
  <2>1. DOMAIN ObjectRecords(keep, 0) = {Placed(keep, 0)[h] : h \in keep}
    BY DEF ObjectRecords
  <2> QED
    BY <1>1, <1>4, <1>10, <2>1, ObjectRecordsFacts
<1>12. DOMAIN w = DOMAIN ObjectRecords(keep, 0) \cup {end}
       /\ \A i \in DOMAIN ObjectRecords(keep, 0) : w[i] = ObjectRecords(keep, 0)[i]
  BY DEF Merge
<1>13. w[end] = seal
  <2>1. end \notin DOMAIN ObjectRecords(keep, 0)
    BY <1>6, <1>11
  <2> QED
    BY <2>1 DEF Merge
<1> QED
  BY <1>1, <1>2, <1>3, <1>4, <1>5, <1>6, <1>7, <1>8, <1>9, <1>10, <1>11, <1>12, <1>13 DEF Copied

\* An open that elects slot g: the others may go, the tail of g is cut.
ElectedBy(g, after) ==
    LET i == Elected(slots[g].vol) IN
    /\ g \in Sound /\ \A h \in Sound : Outranks(g, h)
    /\ after \in Swept(slots, Found \ {g})
    /\ slots' = [after EXCEPT ![g] = Truncate(after[g], i)]
    /\ pack' = Recovered(g)
    /\ IF slots[g].len > i
       THEN pc' = "trimming" /\ UNCHANGED <<committed, attempted>>
       ELSE pc' = "ready" /\ Expose(Recovered(g))

LEMMA OpenElectedFacts ==
    ASSUME Inv, OpenElected
    PROVE  /\ pc = "down" /\ UNCHANGED <<wip, views, source, acked>>
           /\ \E g \in Sound : \E after : ElectedBy(g, after)
<1>1. PICK g \in Sound :
        /\ \A h \in Sound : Outranks(g, h)
        /\ \E after \in Swept(slots, Found \ {g}) :
            LET i == Elected(slots[g].vol) IN
            /\ slots' = [after EXCEPT ![g] = Truncate(after[g], i)]
            /\ pack' = Recovered(g)
            /\ IF slots[g].len > i
               THEN pc' = "trimming" /\ UNCHANGED <<committed, attempted>>
               ELSE pc' = "ready" /\ Expose(Recovered(g))
  BY DEF OpenElected
<1>2. \E after : ElectedBy(g, after)
  BY <1>1 DEF ElectedBy
<1> QED
  BY <1>2 DEF OpenElected

LEMMA ElectedByFacts ==
    ASSUME Inv, NEW g, NEW after, ElectedBy(g, after), NEW i, i = Elected(slots[g].vol)
    PROVE  /\ g \in Gens /\ g \in Sound /\ i \in Offsets /\ i # 0 /\ slots[g].name /\ slots[g] \in Slot
           /\ pack'.gen = g /\ pack'.sealed = i /\ pack' = Recovered(g)
           /\ pc' \in {"trimming", "ready"}
           /\ slots'[g] = Truncate(slots[g], i)
           /\ \A h \in Gens : h # g => slots'[h] \in {slots[h], Remove(slots[h])}
           /\ ~RemovalFails => \A h \in Gens : h # g => slots'[h] = Remove(slots[h])
<1>1. g \in Sound /\ after \in Swept(slots, Found \ {g})
      /\ slots' = [after EXCEPT ![g] = Truncate(after[g], i)] /\ pack' = Recovered(g)
  BY DEF ElectedBy
<1>2. g \in Gens /\ i \in Offsets /\ slots[g].name /\ pack'.gen = g /\ pack'.sealed = i
  BY <1>1, RecoveredFacts
<1>3. i # 0 /\ slots[g] \in Slot
  BY <1>1, <1>2 DEF Sound, Inv, TypeOK
<1>4. \A h \in Gens : after[h] \in {slots[h], Remove(slots[h])}
  BY <1>1 DEF Swept
<1>5. after[g] = slots[g] /\ DOMAIN after = Gens
  BY <1>1, <1>2 DEF Swept
<1>6. ~RemovalFails => \A h \in Gens : h # g => after[h] = Remove(slots[h])
  <2> SUFFICES ASSUME ~RemovalFails, NEW h \in Gens, h # g PROVE after[h] = Remove(slots[h])
    OBVIOUS
  <2>1. after = [f \in Gens |-> IF f \in (Found \ {g}) \ {} THEN Remove(slots[f]) ELSE slots[f]]
    BY <1>1 DEF Swept
  <2>2. h \in Found => after[h] = Remove(slots[h])
    BY <2>1
  <2>3. h \notin Found => after[h] = slots[h] /\ ~slots[h].name
    BY <2>1 DEF Found
  <2> QED
    BY <2>2, <2>3 DEF Remove
<1>7. slots'[g] = Truncate(slots[g], i) /\ \A h \in Gens : h # g => slots'[h] = after[h]
  BY <1>1, <1>2, <1>5
<1>8. pc' \in {"trimming", "ready"}
  BY DEF ElectedBy
<1> QED
  BY <1>1, <1>2, <1>3, <1>4, <1>6, <1>7, <1>8

\* An open that founds a pack under a fresh salt.
LEMMA OpenFreshFacts ==
    ASSUME Inv, OpenFresh
    PROVE  \E salt \in FreshSalts(slots[0]) : \E s \in {slots[0], Remove(slots[0])} :
           /\ pc = "down" /\ pc' = "founding" /\ UNCHANGED <<wip, views, source, observed>>
           /\ Sound = {} /\ 0 \in Gens /\ s \in Slot
           /\ slots'[0] = InitSlot(s, salt)
           /\ \A h \in Gens : h # 0 => slots'[h] \in {slots[h], Remove(slots[h])}
           /\ ~RemovalFails => \A h \in Gens : h # 0 => slots'[h] = Remove(slots[h])
           /\ pack' = [NoPack EXCEPT !.salt = salt]
           /\ Unsealed(pack') /\ pack'.salt = salt
<1>1. PICK after \in Swept(slots, Found), salt \in FreshSalts(slots[0]) :
        /\ slots' = [after EXCEPT ![0] = InitSlot(after[0], salt)]
        /\ pack' = [NoPack EXCEPT !.salt = salt]
  BY DEF OpenFresh
<1>2. /\ pc = "down" /\ pc' = "founding" /\ UNCHANGED <<wip, views, source, observed>> /\ Sound = {}
  BY DEF OpenFresh
<1>3. 0 \in Gens
  BY NoPackFacts
<1>4. DOMAIN after = Gens /\ \A h \in Gens : after[h] \in {slots[h], Remove(slots[h])}
  BY DEF Swept
<1>5. ~RemovalFails => \A h \in Gens : h # 0 => after[h] = Remove(slots[h])
  <2> SUFFICES ASSUME ~RemovalFails, NEW h \in Gens PROVE after[h] = Remove(slots[h])
    OBVIOUS
  <2>1. after = [f \in Gens |-> IF f \in Found \ {} THEN Remove(slots[f]) ELSE slots[f]]
    BY DEF Swept
  <2>2. h \in Found => after[h] = Remove(slots[h])
    BY <2>1
  <2>3. h \notin Found => after[h] = slots[h] /\ ~slots[h].name
    BY <2>1 DEF Found
  <2> QED
    BY <2>2, <2>3 DEF Remove
<1>6. Unsealed(pack') /\ pack'.salt = salt
  BY <1>1 DEF Unsealed, NoPack
<1>7. after[0] \in Slot
  BY <1>3, SweptFacts DEF Inv, TypeOK, SlotsInv
<1>8. slots'[0] = InitSlot(after[0], salt) /\ \A h \in Gens : h # 0 => slots'[h] = after[h]
  BY <1>1, <1>3, <1>4
<1> QED
  BY <1>1, <1>2, <1>3, <1>4, <1>5, <1>6, <1>7, <1>8

\* The swap at the end of a compaction.
Swapped(next) ==
    /\ pc = "successor" /\ pc' = "ready" /\ wip' = NoWip /\ UNCHANGED <<views, source, observed>>
    /\ pack.gen \in Gens /\ next \in Gens /\ next # pack.gen /\ pack.gen < next
    /\ slots'[next] = Flush(slots[next])
    /\ \A h \in Gens : h # next => slots'[h] \in {slots[h], Remove(slots[h])}
    /\ \A h \in Gens : h > next => slots'[h] = slots[h]
    /\ \A h \in Pinned : h \in Gens /\ h # next => slots'[h] = slots[h]
    /\ pack'.gen = next /\ pack'.salt = wip.seal.salt /\ pack'.table = wip.table
    /\ pack'.sealed = slots[next].len /\ pack'.seq = pack.seq
    /\ pack'.last = [at |-> slots[next].len, check |-> SealCheck(wip.seal)]
    /\ pack'.since = 0 /\ pack'.manifest = pack.manifest

LEMMA CompactSwapFacts ==
    ASSUME Inv, CompactSwap, NEW next, next = pack.gen + 1
    PROVE  Swapped(next)
<1> DEFINE retired == pack.graveyard \cup {pack.gen}
           gone    == retired \ Pinned
<1>1. PICK after \in Swept(slots, gone) : slots' = [after EXCEPT ![next] = Flush(after[next])]
  BY DEF CompactSwap
<1>2. /\ pc = "successor" /\ pc' = "ready" /\ wip' = NoWip
      /\ UNCHANGED <<views, source, observed>>
  BY DEF CompactSwap
<1>3. /\ pack \in Packs /\ pack.gen \in Gens /\ pack.gen < MaxGen
      /\ \A g \in pack.graveyard : g < pack.gen /\ g \in Gens
  BY <1>2 DEF Inv, TypeOK, PhaseInv, Packs
<1>4. next \in Gens /\ next # pack.gen /\ pack.gen < next
      /\ \A h \in gone : h < next /\ h \in Gens
  BY <1>3, RecordsAssumption DEF Gens
<1>5. /\ DOMAIN after = Gens /\ \A h \in Gens : after[h] \in {slots[h], Remove(slots[h])}
      /\ \A h \in Gens : h \notin gone => after[h] = slots[h]
  BY DEF Swept
<1>6. after[next] = slots[next]
  BY <1>4, <1>5 DEF Gens
<1>7. slots'[next] = Flush(slots[next]) /\ \A h \in Gens : h # next => slots'[h] = after[h]
  BY <1>1, <1>4, <1>5, <1>6
<1>8. \A h \in Gens : h > next => slots'[h] = slots[h]
  BY <1>4, <1>5, <1>7 DEF Gens
<1>9. \A h \in Pinned : h \in Gens /\ h # next => slots'[h] = slots[h]
  BY <1>5, <1>7
<1>10. /\ pack'.gen = next /\ pack'.salt = wip.seal.salt /\ pack'.table = wip.table
       /\ pack'.sealed = slots[next].len /\ pack'.seq = pack.seq
       /\ pack'.last = [at |-> slots[next].len, check |-> SealCheck(wip.seal)]
       /\ pack'.since = 0 /\ pack'.manifest = pack.manifest
  BY <1>3 DEF CompactSwap, Packs
<1> QED
  BY <1>2, <1>3, <1>4, <1>5, <1>7, <1>8, <1>9, <1>10 DEF Swapped

-----------------------------------------------------------------------------
(***************************************************************************)
(* LogInv is inductive: first the steps after which no writer stands       *)
(* anywhere, then the steps that leave its slot alone, then the rest.      *)
(***************************************************************************)

LEMMA IdleLog ==
    ASSUME ShapeInv', pc' \in {"down", "dark", "refused"}
    PROVE  LogInv'
BY DEF LogInv, StandsInv, EndInv, FlightInv, BirthInv, Session, Open

LEMMA OneShape ==
    ASSUME ShapeInv, NEW g \in Gens, \A h \in Gens : h # g => slots'[h] = slots[h],
           ShapeSlot(slots'[g])
    PROVE  ShapeInv'
BY DEF ShapeInv

LEMMA SweptShape ==
    ASSUME Inv, ShapeInv, NEW g \in Gens,
           \A h \in Gens : h # g => slots'[h] \in {slots[h], Remove(slots[h])},
           ShapeSlot(slots'[g])
    PROVE  ShapeInv'
<1>1. \A h \in Gens : slots[h] \in Slot /\ ShapeSlot(slots[h])
  BY DEF Inv, TypeOK, ShapeInv
<1> QED
  BY <1>1, ShapeRemove DEF ShapeInv

\* Interruptions, refusals and failed opens.
LEMMA IdleStep ==
    ASSUME Inv, LogInv,
           \/ Close \/ Restart \/ PowerLoss \/ PowerBack \/ OpenRefused \/ OpenFlushFails \/ Stillborn
           \/ \E g \in Gens : Survive(g)
    PROVE  LogInv'
<1>1. \A g \in Gens : slots[g] \in Slot /\ ShapeSlot(slots[g])
  BY DEF Inv, TypeOK, ShapeInv, LogInv
<1>2. CASE Close \/ Restart \/ PowerLoss \/ PowerBack \/ OpenRefused
  <2>1. slots' = slots /\ pc' \in {"down", "dark", "refused"}
    BY <1>2 DEF Close, Restart, PowerLoss, PowerBack, OpenRefused
  <2>2. ShapeInv'
    BY <2>1 DEF LogInv, ShapeInv
  <2> QED
    BY <2>1, <2>2, IdleLog
<1>3. CASE OpenFlushFails
  <2>1. slots' = [slots EXCEPT ![pack.gen] = FlushFailed(Here)] /\ pc' = "down" /\ pack.gen \in Gens
    BY <1>3, HereFacts DEF OpenFlushFails, Here
  <2>2. slots'[pack.gen] = FlushFailed(Here) /\ \A h \in Gens : h # pack.gen => slots'[h] = slots[h]
    BY <2>1 DEF Inv, TypeOK
  <2>3. ShapeSlot(FlushFailed(Here))
    BY <1>1, <2>1, ShapeFlush DEF Here
  <2> QED
    BY <2>1, <2>2, <2>3, OneShape, IdleLog DEF LogInv
<1>4. CASE Stillborn
  <2>1. pc' = "down" /\ \A g \in Gens : slots'[g] \in {slots[g], Remove(slots[g])}
    BY <1>4, StillbornSlots DEF Stillborn
  <2>2. ShapeInv'
    BY <1>1, <2>1, ShapeRemove DEF ShapeInv
  <2> QED
    BY <2>1, <2>2, IdleLog
<1>5. ASSUME NEW g \in Gens, Survive(g) PROVE LogInv'
  <2>1. pc' = "dark"
    BY <1>5 DEF Survive
  <2>2. /\ \A h \in Gens : h # g => slots'[h] = slots[h]
        /\ ShapeSlot(slots'[g])
    <3>1. CASE slots' = [slots EXCEPT ![g] = Absent]
      BY <3>1, ShapeAbsent DEF Inv, TypeOK
    <3>2. CASE \E b \in Survivors(slots[g]), n \in Offsets :
                  /\ EndsAt(Verifiable(b), n)
                  /\ slots' = [slots EXCEPT ![g] = Image(Verifiable(b), n)]
      <4>1. PICK b \in Survivors(slots[g]), n \in Offsets :
                  /\ EndsAt(Verifiable(b), n)
                  /\ slots' = [slots EXCEPT ![g] = Image(Verifiable(b), n)]
        BY <3>2
      <4>2. ShapeSlot(Image(Verifiable(b), n))
        BY <1>1, <4>1, ShapeImage
      <4> QED
        BY <4>1, <4>2 DEF Inv, TypeOK
    <3> QED
      BY <1>5, <3>1, <3>2 DEF Survive
  <2> QED
    BY <2>1, <2>2, OneShape, IdleLog DEF LogInv
<1> QED
  BY <1>2, <1>3, <1>4, <1>5

\* Readers, the retirement of a source and a failed undo.
LEMMA QuietLog ==
    ASSUME Inv, LogInv,
           CommitUndoFails \/ RetireSource \/ \E r \in Readers : TakeView(r) \/ DropView(r)
    PROVE  LogInv'
<1>1. UNCHANGED <<slots, pack>>
      /\ \/ pc' = "poisoned" /\ pc = "commit"
         \/ UNCHANGED <<wip, pc, source>>
         \/ UNCHANGED <<wip, pc>> /\ pc = "ready"
  BY DEF CommitUndoFails, RetireSource, TakeView, DropView
<1>2. ShapeInv' /\ StandsInv'
  BY <1>1 DEF LogInv, ShapeInv, StandsInv, Here, Session, Open
<1>3. EndInv' /\ FlightInv' /\ BirthInv'
  BY <1>1 DEF LogInv, EndInv, FlightInv, BirthInv, Here, Next1
<1> QED
  BY <1>2, <1>3 DEF LogInv

\* open of an elected slot.
LEMMA OpenElectedLog ==
    ASSUME Inv, LogInv, OpenElected
    PROVE  LogInv'
<1>1. PICK g \in Sound : \E after : ElectedBy(g, after)
  BY OpenElectedFacts
<1>2. PICK after : ElectedBy(g, after)
  BY <1>1
<1> DEFINE i == Elected(slots[g].vol)
<1>3. /\ g \in Gens /\ i \in Offsets /\ i # 0 /\ slots[g].name /\ slots[g] \in Slot
      /\ pack'.gen = g /\ pack'.sealed = i /\ pack' = Recovered(g)
      /\ pc' \in {"trimming", "ready"} /\ slots'[g] = Truncate(slots[g], i)
      /\ \A h \in Gens : h # g => slots'[h] \in {slots[h], Remove(slots[h])}
  BY <1>2, ElectedByFacts
<1>4. ShapeSlot(slots[g]) /\ IsLog(slots[g].vol)
  BY <1>3, SlotLog DEF LogInv
<1>5. ShapeSlot(slots'[g]) /\ slots'[g] \in Slot
  <2>1. GoodSlot(slots[g], g)
    BY <1>3 DEF Inv, SlotsInv
  <2>2. Truncate(slots[g], i) \in Slot
    BY <1>3, <2>1, GoodTruncate DEF GoodSlot
  <2> QED
    BY <1>3, <1>4, <2>2, ShapeTruncate
<1>6. ShapeInv'
  BY <1>3, <1>5, SweptShape DEF LogInv
<1>7. IsLog(slots'[g].vol)
  BY <1>5, ShapeLog
<1>8. Same(slots[g].vol, slots'[g].vol, i) /\ slots'[g].len = i
  BY <1>3, TruncateFields DEF Same
<1>9. Stands(slots[g].vol, Recovered(g)) /\ Recovered(g).sealed = i
  BY <1>3, RecoveredStands DEF LogInv
<1> HIDE DEF i
<1>10. Stands(slots'[g].vol, pack')
  BY <1>3, <1>4, <1>7, <1>8, <1>9, StandsSame
<1>11. StandsInv'
  BY <1>3, <1>10 DEF StandsInv, Here
<1>12. EndInv' /\ FlightInv' /\ BirthInv'
  BY <1>3, <1>8 DEF EndInv, FlightInv, BirthInv, Here
<1> QED
  BY <1>6, <1>11, <1>12 DEF LogInv

\* The flush that ends an open.
LEMMA OpenFlushedLog ==
    ASSUME Inv, LogInv, OpenTrimmed \/ OpenFounded
    PROVE  LogInv'
<1>1. /\ pc \in {"trimming", "founding"} /\ pc' = "ready" /\ pack' = pack
      /\ slots' = [slots EXCEPT ![pack.gen] = Flush(Here)]
  BY DEF Inv, PhaseInv, OpenTrimmed, OpenFounded, Here
<1>2. pack.gen \in Gens /\ Here \in Slot /\ ShapeSlot(Here)
  BY WriterFacts DEF LogInv
<1>3. slots'[pack.gen] = Flush(Here) /\ \A h \in Gens : h # pack.gen => slots'[h] = slots[h]
  BY <1>1, <1>2 DEF Inv, TypeOK
<1>4. Here' = Flush(Here) /\ Here'.vol = Here.vol /\ Here'.len = Here.len
  BY <1>1, <1>2, <1>3, FlushFields DEF Here
<1>5. ShapeInv'
  BY <1>2, <1>3, ShapeFlush, OneShape DEF LogInv
<1>6. StandsInv'
  BY <1>1, <1>4 DEF LogInv, StandsInv, Session
<1>7. EndInv' /\ FlightInv' /\ BirthInv'
  BY <1>1, <1>4 DEF LogInv, EndInv, FlightInv, BirthInv
<1> QED
  BY <1>5, <1>6, <1>7 DEF LogInv

\* The founding of a pack.
LEMMA OpenFreshLog ==
    ASSUME Inv, LogInv, OpenFresh
    PROVE  LogInv'
<1>1. PICK salt \in FreshSalts(slots[0]) : \E s \in {slots[0], Remove(slots[0])} :
           /\ pc' = "founding" /\ 0 \in Gens /\ s \in Slot
           /\ slots'[0] = InitSlot(s, salt)
           /\ \A h \in Gens : h # 0 => slots'[h] \in {slots[h], Remove(slots[h])}
           /\ Unsealed(pack') /\ pack'.salt = salt
  BY OpenFreshFacts
<1>2. PICK s \in {slots[0], Remove(slots[0])} :
           /\ pc' = "founding" /\ 0 \in Gens /\ s \in Slot
           /\ slots'[0] = InitSlot(s, salt)
           /\ \A h \in Gens : h # 0 => slots'[h] \in {slots[h], Remove(slots[h])}
           /\ Unsealed(pack') /\ pack'.salt = salt
  BY <1>1
<1>3. ShapeSlot(s)
  <2>1. slots[0] \in Slot /\ ShapeSlot(slots[0])
    BY <1>2 DEF Inv, TypeOK, LogInv, ShapeInv
  <2> QED
    BY <2>1, ShapeRemove
<1>4. ShapeSlot(slots'[0])
  BY <1>2, <1>3, ShapeInitSlot
<1>5. ShapeInv'
  BY <1>2, <1>4, SweptShape DEF LogInv
<1>6. slots'[0].vol[0] = Header(salt) /\ slots'[0].len = 0
  BY <1>2, InitSlotFields
<1>7. pack'.gen = 0 /\ pack'.sealed = 0
  BY <1>2 DEF Unsealed
<1>8. StandsInv'
  BY <1>2, <1>6, <1>7 DEF StandsInv, Here, Stands
<1>9. EndInv' /\ FlightInv' /\ BirthInv'
  BY <1>2, <1>6, <1>7 DEF EndInv, FlightInv, BirthInv, Here
<1> QED
  BY <1>5, <1>8, <1>9 DEF LogInv

\* try_commit and try_migrate, up to the seal.
LEMMA AppendLog ==
    ASSUME Inv, LogInv, pc = "ready", NEW objects \in SUBSET Objects, NEW manifest \in SUBSET Objects,
           NEW migrating \in BOOLEAN, AppendObjects(objects, manifest, migrating),
           migrating => source /\ ~Sealed, ~migrating => pack.seq \in Nat
    PROVE  LogInv'
<1> DEFINE new  == NewOf(objects)
           end  == Here.len
           last == end + Cardinality(new)
           w    == ObjectRecords(new, end)
<1>0. /\ pack \in Packs /\ pack.gen \in Gens /\ Here \in Slot /\ ShapeSlot(Here)
      /\ IsLog(Here.vol) /\ pack.sealed \in Offsets /\ \A i \in Offsets : i \in Nat
  BY WriterFacts DEF LogInv
<1>1. Appended(new, end, last, manifest, migrating) /\ w = ObjectRecords(new, end)
  BY AppendFacts
<1>2. Here.name /\ end = pack.sealed /\ Stands(Here.vol, pack)
  BY DEF Inv, PhaseInv, LogInv, EndInv, StandsInv, Open, Session
<1>3. /\ DOMAIN w \subseteq Offsets /\ \A i \in DOMAIN w : w[i] \in ObjectPayloads
      /\ \A i \in DOMAIN w : end < i /\ i <= last
      /\ DOMAIN Placed(new, end) = new
      /\ \A h \in new : Placed(new, end)[h] \in Nat /\ Placed(new, end)[h] <= last
  <2>1. /\ DOMAIN w \subseteq Offsets /\ \A i \in DOMAIN w : w[i] \in ObjectPayloads
    BY <1>1, ObjectRecordsFacts DEF Appended
  <2>2. DOMAIN w = {Placed(new, end)[h] : h \in new} /\ DOMAIN Placed(new, end) = new
    BY DEF ObjectRecords, Placed
  <2>3. \A h \in new : Placed(new, end)[h] \in end + 1 .. last
    BY <1>1, PlacedFacts DEF Appended
  <2>4. end \in Nat /\ last \in Nat
    BY <1>0, <1>1 DEF Appended
  <2> HIDE DEF new, end, last, w
  <2>5. \A i \in DOMAIN w : end < i /\ i <= last
    BY <2>2, <2>3, <2>4
  <2>6. \A h \in new : Placed(new, end)[h] \in Nat /\ Placed(new, end)[h] <= last
    BY <2>3, <2>4
  <2> QED
    BY <2>1, <2>2, <2>5, <2>6
<1> HIDE DEF new, last, w
<1>4. \A i \in DOMAIN w : w[i].kind = "object" /\ Backward(w[i], i)
  BY <1>3 DEF ObjectPayloads, Backward
<1>5. ShapeSlot(slots'[pack.gen])
  BY <1>0, <1>1, <1>2, <1>3, <1>4, ShapeWrite DEF Appended
<1>6. ShapeInv'
  BY <1>0, <1>1, <1>5, OneShape DEF LogInv, Appended
<1>7. /\ Here'.len = last /\ Here' = slots'[pack.gen]
      /\ \A i \in Offsets : i \notin DOMAIN w => Here'.vol[i] = Here.vol[i]
  BY <1>0, <1>1, WriteFields DEF Here, Appended
<1>8. Same(Here.vol, Here'.vol, pack.sealed)
  BY <1>0, <1>2, <1>3, <1>7 DEF Same
<1>9. IsLog(Here'.vol)
  <2>1. Here' \in Slot
    BY <1>0, <1>1, <1>7, AppendStep DEF Inv, TypeOK, Appended
  <2> QED
    BY <1>5, <1>7, <2>1, ShapeLog
<1>10. StandsInv'
  BY <1>0, <1>1, <1>2, <1>8, <1>9, StandsSame DEF StandsInv, Appended
<1>11. EndInv'
  BY <1>1, <1>2 DEF EndInv, Appended
<1>12. \A h \in DOMAIN wip'.table : wip'.table[h] <= last
  <2> SUFFICES ASSUME NEW h \in DOMAIN wip'.table PROVE wip'.table[h] <= last
    OBVIOUS
  <2>1. h \in new \/ (h \notin new /\ h \in DOMAIN pack.table)
    BY <1>1, <1>3 DEF Merge, Appended
  <2>2. h \in new => wip'.table[h] = Placed(new, end)[h]
    BY <1>1, <1>3 DEF Merge, Appended
  <2>3. h \notin new => wip'.table[h] = pack.table[h]
    BY <1>1, <1>3 DEF Merge, Appended
  <2>4. h \in DOMAIN pack.table => pack.table[h] < pack.sealed /\ pack.table[h] \in Nat
    BY <1>0, <1>2, StandsTable
  <2>5. last \in Nat /\ end \in Nat
    BY <1>0, <1>1 DEF Appended
  <2> QED
    BY <1>1, <1>2, <1>3, <2>1, <2>2, <2>3, <2>4, <2>5 DEF Appended
<1>13. /\ Follows(wip'.seal, pack, wip'.table)
       /\ wip'.seal.full /\ pack.sealed = 0 => source
  <2>1. CASE migrating
    <3>1. Unsealed(pack) /\ pack.sealed = 0
      BY <1>2, <2>1, SealedMeans DEF Sealed
    <3>2. pack.seq = 0 /\ pack.last = NoLink
      BY <3>1 DEF Unsealed
    <3>3. DOMAIN NoTable = {}
      BY DEF NoTable
    <3>4. SourceSeq + 1 > 0
      BY PackLogAssumption
    <3> QED
      BY <1>1, <2>1, <3>1, <3>2, <3>3, <3>4 DEF Follows, Appended
  <2>2. CASE ~migrating
    <3>1. wip'.seal.full /\ pack.sealed = 0 => source
      <4>1. pack.sealed = 0 => pack.since = 0
        BY <1>2, SealedMeans DEF Unsealed
      <4> QED
        BY <1>1, <2>2, <4>1, PackLogAssumption DEF Appended
    <3>2. \A h \in DOMAIN wip'.seal.added : h \in DOMAIN wip'.table /\ wip'.table[h] = wip'.seal.added[h]
      BY <1>1, <2>2 DEF Merge, Appended
    <3>3. wip'.seal.seq > pack.seq
      BY <1>1, <2>2 DEF Appended
    <3> QED
      BY <1>1, <2>2, <3>1, <3>2, <3>3 DEF Follows, Appended
  <2> QED
    BY <2>1, <2>2
<1>14. FlightInv' /\ BirthInv'
  BY <1>1, <1>7, <1>12, <1>13 DEF FlightInv, BirthInv, Appended
<1> QED
  BY <1>6, <1>10, <1>11, <1>14 DEF LogInv

LEMMA CommitLog ==
    ASSUME Inv, LogInv,
           MigrateCommit \/ \E objects, manifest \in SUBSET Objects : Commit(objects, manifest)
    PROVE  LogInv'
<1>1. CASE MigrateCommit
  <2>1. committed.manifest \in SUBSET Objects
    BY DEF Inv, TypeOK, Values, Manifests
  <2> QED
    BY <1>1, <2>1, AppendLog DEF MigrateCommit
<1>2. ASSUME NEW objects \in SUBSET Objects, NEW manifest \in SUBSET Objects, Commit(objects, manifest)
      PROVE  LogInv'
  <2>1. pack.seq \in Nat
    BY DEF Inv, TypeOK, Packs
  <2> QED
    BY <1>2, <2>1, AppendLog DEF Commit
<1> QED
  BY <1>1, <1>2

\* append_seal.
LEMMA CommitSealLog ==
    ASSUME Inv, LogInv, CommitSeal
    PROVE  LogInv'
<1> DEFINE end == Here.len + 1
           w   == [i \in {end} |-> wip.seal]
<1>0. /\ pack \in Packs /\ pack.gen \in Gens /\ Here \in Slot /\ ShapeSlot(Here)
      /\ IsLog(Here.vol) /\ pack.sealed \in Offsets /\ Here.len \in Offsets
      /\ \A i \in Offsets : i \in Nat
  BY WriterFacts DEF LogInv
<1>1. /\ pc = "commit" /\ pc' = "sealed" /\ UNCHANGED <<pack, wip, views, source, committed, acked>>
      /\ end \in Offsets /\ slots'[pack.gen] = Write(Here, w, end)
      /\ \A h \in Gens : h # pack.gen => slots'[h] = slots[h]
  BY CommitSealFacts
<1>2. /\ Here.name /\ pack.sealed <= Here.len /\ Stands(Here.vol, pack) /\ wip.seal \in SealRecords
      /\ Follows(wip.seal, pack, wip.table)
      /\ wip.seal.full /\ pack.sealed = 0 => source
      /\ \A h \in DOMAIN wip.table : wip.table[h] <= Here.len
  BY <1>1 DEF Inv, PhaseInv, LogInv, StandsInv, FlightInv, Open, Session
<1>3. Backward(wip.seal, end)
  <2>1. pack.last.at = pack.sealed /\ wip.seal.prev.at = pack.sealed
    BY <1>2, SealedMeans DEF Follows
  <2>2. \A h \in DOMAIN wip.seal.added : wip.seal.added[h] <= Here.len /\ wip.seal.added[h] \in Nat
    <3>1. wip.seal.added \in Tables
      BY <1>2 DEF SealRecords
    <3>2. \A h \in DOMAIN wip.seal.added : wip.seal.added[h] \in 1 .. MaxLen
      BY <3>1, TableFacts
    <3> QED
      BY <1>2, <3>2 DEF Follows
  <2>3. \A h \in DOMAIN wip.seal.base : wip.seal.base[h] <= Here.len /\ wip.seal.base[h] \in Nat
    <3>1. wip.seal.base \in Tables
      BY <1>2 DEF SealRecords
    <3>2. \A h \in DOMAIN wip.seal.base : wip.seal.base[h] \in 1 .. MaxLen
      BY <3>1, TableFacts
    <3>3. wip.seal.base \in {NoTable, wip.table}
      BY <1>2 DEF Follows
    <3>4. DOMAIN NoTable = {}
      BY DEF NoTable
    <3> QED
      BY <1>2, <3>2, <3>3, <3>4
  <2> QED
    BY <1>0, <1>2, <2>1, <2>2, <2>3 DEF Backward
<1>4. Here.vol[0].kind = "header" /\ Here.vol[0].salt = pack.salt /\ wip.seal.salt = pack.salt
  BY <1>2 DEF Stands, Header, Follows
<1>5. /\ DOMAIN w = {end} /\ w[end] = wip.seal /\ Here.len < end /\ end \in Nat
      /\ Here.len <= end /\ Here.len \in Nat /\ pack.sealed \in Nat
  BY <1>0
<1> HIDE DEF end, w
<1>6. ShapeSlot(slots'[pack.gen])
  <2>1. \A i \in DOMAIN w : Here.len < i /\ i <= end /\ Backward(w[i], i)
    BY <1>3, <1>5
  <2>2. \A i \in DOMAIN w : w[i].kind = "seal" => Here.vol[0].kind = "header" /\ w[i].salt = Here.vol[0].salt
    BY <1>4, <1>5
  <2>3. DOMAIN w \subseteq Offsets /\ Here.len <= end
    BY <1>1, <1>5
  <2>4. ShapeSlot(Write(Here, w, end))
    BY <1>0, <1>1, <1>2, <2>1, <2>2, <2>3, ShapeWrite
  <2> QED
    BY <1>1, <2>4
<1>7. ShapeInv'
  BY <1>0, <1>1, <1>6, OneShape DEF LogInv
<1>8. /\ Here' = slots'[pack.gen] /\ Here'.len = end /\ Here'.vol[end] = wip.seal
      /\ \A i \in Offsets : i # end => Here'.vol[i] = Here.vol[i]
  BY <1>0, <1>1, <1>5, WriteFields DEF Here
<1>9. Same(Here.vol, Here'.vol, pack.sealed)
  BY <1>0, <1>2, <1>5, <1>8 DEF Same
<1>10. IsLog(Here'.vol)
  <2>1. Here' \in Slot
    BY <1>0, <1>1, <1>8, CommitSealStep DEF Inv, TypeOK
  <2> QED
    BY <1>6, <1>8, <2>1, ShapeLog
<1>11. StandsInv'
  BY <1>0, <1>1, <1>2, <1>9, <1>10, StandsSame DEF StandsInv
<1>12. EndInv'
  <2>1. pack.sealed < end
    BY <1>2, <1>5
  <2> QED
    BY <1>1, <1>8, <2>1 DEF EndInv
<1>13. \A h \in DOMAIN wip.table : wip.table[h] < end
  <2>1. wip.table \in Tables
    BY DEF Inv, TypeOK, Wips
  <2>2. \A h \in DOMAIN wip.table : wip.table[h] \in 1 .. MaxLen
    BY <2>1, TableFacts
  <2> QED
    BY <1>0, <1>2, <1>5, <2>2
<1>14. \A h \in DOMAIN wip.table : wip.table[h] <= end
  <2>1. wip.table \in Tables
    BY DEF Inv, TypeOK, Wips
  <2>2. \A h \in DOMAIN wip.table : wip.table[h] \in 1 .. MaxLen
    BY <2>1, TableFacts
  <2> QED
    BY <1>5, <1>13, <2>2
<1>15. FlightInv' /\ BirthInv'
  BY <1>1, <1>2, <1>8, <1>13, <1>14 DEF FlightInv, BirthInv
<1> QED
  BY <1>7, <1>11, <1>12, <1>15 DEF LogInv

\* The flush answers Ok: what is published is what a recovery would compute.
LEMMA CommitFlushLog ==
    ASSUME Inv, LogInv, CommitFlush
    PROVE  LogInv'
<1>0. /\ pack \in Packs /\ pack.gen \in Gens /\ Here \in Slot /\ ShapeSlot(Here)
      /\ IsLog(Here.vol) /\ Here.len \in Offsets
  BY WriterFacts DEF LogInv
<1>1. /\ pc = "sealed" /\ pc' = "ready" /\ slots'[pack.gen] = Flush(Here)
      /\ \A h \in Gens : h # pack.gen => slots'[h] = slots[h]
      /\ pack'.gen = pack.gen /\ pack'.salt = pack.salt /\ pack'.table = wip.table
      /\ pack'.sealed = Here.len /\ pack'.seq = wip.seal.seq
      /\ pack'.last = [at |-> Here.len, check |-> SealCheck(wip.seal)]
      /\ pack'.since = IF wip.seal.full THEN 0 ELSE pack.since + 1
      /\ pack'.manifest = wip.seal.manifest
  BY CommitFlushFacts
<1>2. /\ Stands(Here.vol, pack) /\ pack.sealed < Here.len /\ Here.vol[Here.len] = wip.seal
      /\ Follows(wip.seal, pack, wip.table) /\ wip.seal \in SealRecords /\ wip.table \in Tables
  BY <1>1 DEF Inv, TypeOK, Wips, PhaseInv, LogInv, StandsInv, EndInv, FlightInv, Open, Session
<1>3. /\ Here.len \in Seals(Here.vol) /\ ChainHolds(Here.vol, Here.len)
      /\ ChainTable(Here.vol, Here.len) = wip.table
      /\ SinceCheckpoint(Here.vol, Here.len) = IF wip.seal.full THEN 0 ELSE pack.since + 1
  BY <1>0, <1>2, AppendedSeal
<1>4. Here' = Flush(Here) /\ Here'.vol = Here.vol /\ Here'.len = Here.len
  BY <1>0, <1>1, FlushFields DEF Here
<1>5. ShapeInv'
  BY <1>0, <1>1, ShapeFlush, OneShape DEF LogInv
<1>6. Agrees(Here'.vol, pack')
  BY <1>1, <1>2, <1>3, <1>4 DEF Agrees
<1>7. Stands(Here'.vol, pack')
  BY <1>1, <1>2, <1>4, <1>6 DEF Stands
<1>8. StandsInv'
  BY <1>7 DEF StandsInv
<1>9. EndInv' /\ FlightInv' /\ BirthInv'
  BY <1>1, <1>4 DEF EndInv, FlightInv, BirthInv
<1> QED
  BY <1>5, <1>8, <1>9 DEF LogInv

\* The flush answers Err.
LEMMA CommitFlushFailsLog ==
    ASSUME Inv, LogInv, CommitFlushFails
    PROVE  LogInv'
<1>0. pack.gen \in Gens /\ Here \in Slot /\ ShapeSlot(Here)
  BY WriterFacts DEF LogInv
<1>1. /\ pc = "sealed" /\ pc' = "poisoned" /\ pack' = pack
      /\ slots' = [slots EXCEPT ![pack.gen] = FlushFailed(Here)]
  BY DEF CommitFlushFails, Here
<1>2. slots'[pack.gen] = FlushFailed(Here) /\ \A h \in Gens : h # pack.gen => slots'[h] = slots[h]
  BY <1>0, <1>1 DEF Inv, TypeOK
<1>3. Here' = FlushFailed(Here) /\ Here'.vol = Here.vol
  BY <1>0, <1>1, <1>2, FlushFailedFields DEF Here
<1>4. ShapeInv'
  BY <1>0, <1>2, ShapeFlush, OneShape DEF LogInv
<1>5. StandsInv'
  BY <1>1, <1>3 DEF LogInv, StandsInv, Session, Open
<1>6. EndInv' /\ FlightInv' /\ BirthInv'
  BY <1>1 DEF EndInv, FlightInv, BirthInv
<1> QED
  BY <1>4, <1>5, <1>6 DEF LogInv

\* A failed append is cut back to the published seal.
LEMMA CommitUndoLog ==
    ASSUME Inv, LogInv, CommitUndo
    PROVE  LogInv'
<1>0. /\ pack.gen \in Gens /\ Here \in Slot /\ ShapeSlot(Here) /\ IsLog(Here.vol)
      /\ pack.sealed \in Offsets
  BY WriterFacts DEF LogInv
<1>1. /\ pc = "commit" /\ pc' = "ready" /\ pack' = pack
      /\ slots' = [slots EXCEPT ![pack.gen] = Truncate(Here, wip.undo)]
  BY DEF CommitUndo, Here
<1>2. wip.undo = pack.sealed /\ Stands(Here.vol, pack) /\ Here.name
  BY <1>1 DEF LogInv, EndInv, StandsInv, Inv, PhaseInv, Open, Session
<1>3. /\ slots'[pack.gen] = Truncate(Here, pack.sealed)
      /\ \A h \in Gens : h # pack.gen => slots'[h] = slots[h]
  BY <1>0, <1>1, <1>2 DEF Inv, TypeOK
<1>4. /\ Here' = Truncate(Here, pack.sealed) /\ Here'.len = pack.sealed
      /\ \A i \in Offsets : i <= pack.sealed => Here'.vol[i] = Here.vol[i]
  BY <1>0, <1>1, <1>3, TruncateFields DEF Here
<1>5. ShapeSlot(slots'[pack.gen])
  BY <1>0, <1>2, <1>3, ShapeTruncate
<1>6. ShapeInv'
  BY <1>0, <1>3, <1>5, OneShape DEF LogInv
<1>7. IsLog(Here'.vol)
  <2>1. Here' \in Slot
    BY <1>0, <1>3, <1>4, CommitUndoStep DEF Inv, TypeOK
  <2> QED
    BY <1>3, <1>4, <1>5, <2>1, ShapeLog
<1>8. Same(Here.vol, Here'.vol, pack.sealed)
  BY <1>4 DEF Same
<1>9. StandsInv'
  BY <1>0, <1>1, <1>2, <1>7, <1>8, StandsSame DEF StandsInv
<1>10. EndInv' /\ FlightInv' /\ BirthInv'
  BY <1>1, <1>4 DEF EndInv, FlightInv, BirthInv
<1> QED
  BY <1>6, <1>9, <1>10 DEF LogInv

\* The writer's own slot is untouched while a successor is built or dropped.
LEMMA BuildStands ==
    ASSUME LogInv, pc \in {"ready", "header", "successor"}, pc' \in {"ready", "header", "successor"},
           pack' = pack, slots'[pack.gen] = slots[pack.gen], pc' = "ready" \/ pack.sealed # 0
    PROVE  StandsInv' /\ EndInv' /\ FlightInv'
<1>1. Here' = Here
  BY DEF Here
<1>2. StandsInv'
  BY <1>1 DEF LogInv, StandsInv, Session, Open
<1>3. EndInv'
  BY <1>1 DEF LogInv, EndInv
<1>4. FlightInv'
  BY DEF FlightInv
<1> QED
  BY <1>2, <1>3, <1>4

LEMMA CompactLog ==
    ASSUME Inv, LogInv, Compact
    PROVE  LogInv'
<1>1. PICK after \in Swept(slots, {pack.gen + 1}), salt \in FreshSalts(slots[pack.gen + 1]) :
           /\ pc = "ready" /\ pc' = "header" /\ UNCHANGED <<pack, views, source, observed>>
           /\ Sealed /\ ~source
           /\ pack.gen \in Gens /\ pack.gen + 1 \in Gens /\ pack.gen + 1 # pack.gen
           /\ slots' = [after EXCEPT ![pack.gen + 1] = InitSlot(after[pack.gen + 1], salt)]
           /\ slots'[pack.gen + 1] = InitSlot(after[pack.gen + 1], salt)
           /\ after \in [Gens -> Slot] /\ after[pack.gen + 1] \in {slots[pack.gen + 1], Remove(slots[pack.gen + 1])}
           /\ \A h \in Gens : h # pack.gen + 1 => slots'[h] = slots[h] /\ after[h] = slots[h]
           /\ wip'.seal = Header(salt)
  BY CompactFacts
<1> DEFINE next == pack.gen + 1
           s    == after[next]
<1>2. s \in Slot /\ ShapeSlot(s)
  <2>1. slots[next] \in Slot /\ ShapeSlot(slots[next])
    BY <1>1, SlotLog DEF LogInv
  <2> QED
    BY <1>1, <2>1, ShapeRemove
<1>3. slots'[next] = InitSlot(s, salt) /\ next \in Gens /\ next # pack.gen
      /\ \A h \in Gens : h # next => slots'[h] = slots[h]
  BY <1>1
<1> HIDE DEF s, next
<1>4. ShapeInv'
  BY <1>2, <1>3, ShapeInitSlot, OneShape DEF LogInv
<1>5. slots'[next].vol[0] = Header(salt) /\ slots'[next].len = 0
  BY <1>2, <1>3, InitSlotFields
<1>6. pack.sealed # 0
  <2>1. Stands(Here.vol, pack)
    BY <1>1 DEF LogInv, StandsInv, Session, Open
  <2> QED
    BY <1>1, <2>1, SealedMeans DEF Sealed
<1>7. StandsInv' /\ EndInv' /\ FlightInv'
  BY <1>1, <1>3, <1>6, BuildStands
<1>8. BirthInv'
  BY <1>1, <1>5 DEF BirthInv, Next1, next
<1> QED
  BY <1>4, <1>7, <1>8 DEF LogInv

LEMMA CompactCopyLog ==
    ASSUME Inv, LogInv, NEW live, CompactCopy(live)
    PROVE  LogInv'
<1> DEFINE keep == Keep(live)
           end  == Cardinality(keep) + 1
           t    == Placed(keep, 0)
           seal == BirthOf(wip.seal.salt, t)
           w    == Merge(ObjectRecords(keep, 0), [i \in {end} |-> seal])
           next == pack.gen + 1
           old  == Flush(Next1)
<1>1. /\ pc = "header" /\ pc' = "successor" /\ UNCHANGED <<pack, views, source, observed>>
      /\ end \in Offsets /\ end \in Nat /\ end # 0
      /\ pack.gen \in Gens /\ next \in Gens /\ next # pack.gen
      /\ slots'[next] = Write(old, w, end)
      /\ \A h \in Gens : h # next => slots'[h] = slots[h]
      /\ wip'.seal = seal /\ wip'.table = t /\ seal \in SealRecords
      /\ DOMAIN w = DOMAIN ObjectRecords(keep, 0) \cup {end} /\ w[end] = seal
      /\ \A i \in DOMAIN ObjectRecords(keep, 0) :
            i \in Offsets /\ 0 < i /\ i < end /\ w[i] \in ObjectPayloads
      /\ \A h \in keep : t[h] < end
  <2>1. Copied(keep, end, seal, w)
    BY CompactCopyFacts
  <2> QED
    BY <2>1 DEF Copied
<1>2. /\ seal.kind = "seal" /\ seal.salt = wip.seal.salt /\ seal.prev = NoLink
      /\ seal.added = NoTable /\ seal.full /\ seal.base = t
      /\ seal.seq = pack.seq /\ seal.manifest = pack.manifest
  BY DEF BirthOf
<1>3. DOMAIN t = keep
  BY DEF Placed
<1>4. Next1 = slots[next] /\ Next1 \in Slot /\ ShapeSlot(Next1) /\ Next1.name
  BY <1>1, SlotLog DEF LogInv, Next1, Inv, PhaseInv
<1>5. /\ old \in Slot /\ ShapeSlot(old) /\ old.name /\ old.len = 0 /\ old.vol = Next1.vol
  <2>1. GoodSlot(Next1, next)
    BY <1>1, <1>4 DEF Inv, SlotsInv
  <2>2. old \in Slot
    BY <2>1, GoodFlush DEF GoodSlot
  <2>3. Next1.len = 0
    BY <1>1 DEF LogInv, BirthInv
  <2> QED
    BY <1>4, <2>2, <2>3, FlushFields, ShapeFlush
<1>6. old.vol[0] = Header(wip.seal.salt)
  <2>1. Next1.vol[0] = wip.seal /\ wip.seal \in HeaderRecords
    BY <1>1 DEF LogInv, BirthInv, Inv, PhaseInv
  <2>2. wip.seal = Header(wip.seal.salt)
    BY <2>1 DEF HeaderRecords, Header
  <2> QED
    BY <1>5, <2>1, <2>2
<1> HIDE DEF keep, end, t, seal, w, next, old
<1>7. Backward(seal, end)
  <2>1. seal.prev.at = 0 /\ DOMAIN seal.added = {}
    BY <1>2 DEF NoLink, NoTable
  <2> QED
    BY <1>1, <1>2, <1>3, <2>1 DEF Backward
<1>8. /\ DOMAIN w \subseteq Offsets
      /\ \A i \in DOMAIN w : old.len < i /\ i <= end /\ Backward(w[i], i)
      /\ \A i \in DOMAIN w : w[i].kind = "seal" => old.vol[0].kind = "header" /\ w[i].salt = old.vol[0].salt
  <2>1. \A i \in DOMAIN w : i \in DOMAIN ObjectRecords(keep, 0) \/ i = end
    BY <1>1
  <2>2. \A i \in DOMAIN ObjectRecords(keep, 0) :
           i \in Nat /\ i <= end /\ w[i].kind = "object" /\ Backward(w[i], i)
    BY <1>1 DEF Offsets, ObjectPayloads, Backward
  <2>3. old.vol[0].kind = "header" /\ old.vol[0].salt = seal.salt
    BY <1>2, <1>6 DEF Header
  <2> QED
    BY <1>1, <1>5, <1>7, <2>1, <2>2, <2>3
<1>9. ShapeSlot(slots'[next])
  <2>1. old.len <= end
    BY <1>1, <1>5
  <2>2. ShapeSlot(Write(old, w, end))
    BY <1>1, <1>5, <1>8, <2>1, ShapeWrite
  <2> QED
    BY <1>1, <2>2
<1>10. ShapeInv'
  BY <1>1, <1>9, OneShape DEF LogInv
<1>11. slots'[next].vol[0] = Header(seal.salt) /\ slots'[next].len = end /\ slots'[next].vol[end] = seal
  <2>1. 0 \in Offsets /\ 0 \notin DOMAIN w /\ end \in DOMAIN w
    BY <1>1, RecordsAssumption DEF Offsets
  <2> QED
    BY <1>1, <1>2, <1>5, <1>6, <2>1, WriteFields
<1>12. StandsInv' /\ EndInv' /\ FlightInv'
  <2>1. pack.sealed # 0
    BY <1>1 DEF LogInv, EndInv
  <2> QED
    BY <1>1, <2>1, BuildStands
<1>13. BirthInv'
  <2>1. Next1' = slots'[next]
    BY <1>1 DEF Next1, next
  <2> QED
    BY <1>1, <1>2, <1>11, <2>1 DEF BirthInv
<1> QED
  BY <1>10, <1>12, <1>13 DEF LogInv

LEMMA CompactSwapLog ==
    ASSUME Inv, LogInv, CompactSwap
    PROVE  LogInv'
<1> DEFINE next == pack.gen + 1
<1>1. /\ pc = "successor" /\ pc' = "ready"
      /\ next \in Gens /\ slots'[next] = Flush(slots[next])
      /\ \A h \in Gens : h # next => slots'[h] \in {slots[h], Remove(slots[h])}
      /\ pack'.gen = next /\ pack'.salt = wip.seal.salt /\ pack'.table = wip.table
      /\ pack'.sealed = slots[next].len /\ pack'.seq = pack.seq
      /\ pack'.last = [at |-> slots[next].len, check |-> SealCheck(wip.seal)]
      /\ pack'.since = 0 /\ pack'.manifest = pack.manifest
  <2>1. Swapped(next)
    BY CompactSwapFacts
  <2> QED
    BY <2>1 DEF Swapped
<1> DEFINE s == slots[next]
           n == s.len
<1>2. s = Next1 /\ s \in Slot /\ ShapeSlot(s) /\ IsLog(s.vol) /\ n \in Offsets
  BY <1>1, SlotLog DEF LogInv, Next1, Slot
<1>3. /\ s.vol[0] = Header(wip.seal.salt) /\ n # 0 /\ s.vol[n] = wip.seal
      /\ wip.seal.full /\ wip.seal.prev = NoLink /\ wip.seal.added = NoTable
      /\ wip.seal.base = wip.table /\ wip.seal \in SealRecords
      /\ wip.seal.seq = pack.seq /\ wip.seal.manifest = pack.manifest
  BY <1>1, <1>2 DEF LogInv, BirthInv, Inv, PhaseInv
<1>4. n \in Seals(s.vol)
  BY <1>2, <1>3, RecordsAssumption DEF Seals, IsSeal, Header, SealRecords, Offsets
<1>5. ChainHolds(s.vol, n) /\ ChainTable(s.vol, n) = wip.table /\ SinceCheckpoint(s.vol, n) = 0
  BY <1>2, <1>3, <1>4, BirthSeal
<1>6. slots'[next].vol = s.vol /\ slots'[next].len = n
  BY <1>1, <1>2, FlushFields
<1>7. ShapeInv'
  BY <1>1, <1>2, ShapeFlush, SweptShape DEF LogInv
<1> HIDE DEF s, n, next
<1>8. Here'.vol = s.vol /\ Here'.len = n /\ pack'.sealed = n
  BY <1>1, <1>6 DEF Here, s, n
<1>9. Agrees(Here'.vol, pack')
  BY <1>1, <1>3, <1>4, <1>5, <1>8 DEF Agrees, s, n
<1>10. StandsInv'
  BY <1>1, <1>3, <1>8, <1>9 DEF StandsInv, Stands
<1>11. EndInv' /\ FlightInv' /\ BirthInv'
  BY <1>1, <1>8 DEF EndInv, FlightInv, BirthInv
<1> QED
  BY <1>7, <1>10, <1>11 DEF LogInv

LEMMA CompactFailsFacts ==
    ASSUME Inv, CompactFails, NEW next, next = pack.gen + 1
    PROVE  /\ pc \in {"header", "successor"} /\ pc' = "ready" /\ wip' = NoWip
           /\ UNCHANGED <<pack, views, source, observed>>
           /\ pack.gen \in Gens /\ next \in Gens /\ next # pack.gen /\ pack.gen < next
           /\ slots'[next] \in {slots[next], FlushFailed(slots[next]), Remove(slots[next])}
           /\ ~RemovalFails => slots'[next] = Remove(slots[next])
           /\ \A h \in Gens : h # next => slots'[h] = slots[h]
<1>1. /\ pc \in {"header", "successor"} /\ pc' = "ready" /\ wip' = NoWip
      /\ UNCHANGED <<pack, views, source, observed>>
  BY DEF CompactFails
<1>2. pack.gen \in Gens /\ pack.gen < next
  BY <1>1, RecordsAssumption DEF Inv, TypeOK, Packs, Gens
<1> QED
  BY <1>1, <1>2, CompactFailsSlots

LEMMA CompactFailsLog ==
    ASSUME Inv, LogInv, CompactFails
    PROVE  LogInv'
<1> DEFINE next == pack.gen + 1
<1>1. /\ pc \in {"header", "successor"} /\ pc' = "ready" /\ pack' = pack
      /\ pack.gen \in Gens /\ next \in Gens /\ next # pack.gen
      /\ slots'[next] \in {slots[next], FlushFailed(slots[next]), Remove(slots[next])}
      /\ \A h \in Gens : h # next => slots'[h] = slots[h]
  BY CompactFailsFacts
<1>2. slots[next] \in Slot /\ ShapeSlot(slots[next])
  BY <1>1, SlotLog DEF LogInv
<1>3. ShapeInv'
  BY <1>1, <1>2, ShapeRemove, ShapeFlush, OneShape DEF LogInv
<1>4. StandsInv' /\ EndInv' /\ FlightInv'
  BY <1>1, BuildStands
<1>5. BirthInv'
  BY <1>1 DEF BirthInv
<1> QED
  BY <1>3, <1>4, <1>5 DEF LogInv

LEMMA InitLog == Init => LogInv
<1> SUFFICES ASSUME Init PROVE LogInv
  OBVIOUS
<1>1. ShapeInv
  BY ShapeAbsent DEF Init, ShapeInv
<1>2. StandsInv /\ EndInv /\ FlightInv /\ BirthInv
  BY DEF Init, StandsInv, EndInv, FlightInv, BirthInv, Session, Open
<1> QED
  BY <1>1, <1>2 DEF LogInv

LEMMA StutterLog ==
    ASSUME LogInv, UNCHANGED vars
    PROVE  LogInv'
<1>1. UNCHANGED <<slots, pc, pack, wip, views, source, committed, attempted, acked>>
  BY DEF vars, observed
<1>2. ShapeInv' /\ StandsInv' /\ EndInv'
  BY <1>1 DEF LogInv, ShapeInv, StandsInv, EndInv, Here
<1>3. FlightInv' /\ BirthInv'
  BY <1>1 DEF LogInv, FlightInv, BirthInv, Here, Next1
<1> QED
  BY <1>2, <1>3 DEF LogInv

LEMMA NextLog ==
    ASSUME Inv, LogInv, Next
    PROVE  LogInv'
<1>1. CASE \/ Close \/ Restart \/ PowerLoss \/ PowerBack \/ OpenRefused \/ OpenFlushFails \/ Stillborn
           \/ \E g \in Gens : Survive(g)
  BY <1>1, IdleStep
<1>2. CASE CommitUndoFails \/ RetireSource \/ \E r \in Readers : TakeView(r) \/ DropView(r)
  BY <1>2, QuietLog
<1>3. CASE OpenElected
  BY <1>3, OpenElectedLog
<1>4. CASE OpenTrimmed \/ OpenFounded
  BY <1>4, OpenFlushedLog
<1>5. CASE OpenFresh
  BY <1>5, OpenFreshLog
<1>6. CASE MigrateCommit \/ \E objects, manifest \in SUBSET Objects : Commit(objects, manifest)
  BY <1>6, CommitLog
<1>7. CASE CommitSeal
  BY <1>7, CommitSealLog
<1>8. CASE CommitFlush
  BY <1>8, CommitFlushLog
<1>9. CASE CommitFlushFails
  BY <1>9, CommitFlushFailsLog
<1>10. CASE CommitUndo
  BY <1>10, CommitUndoLog
<1>11. CASE Compact
  BY <1>11, CompactLog
<1>12. ASSUME NEW dead \in SUBSET Objects, CompactCopy(Objects \ dead) PROVE LogInv'
  BY <1>12, CompactCopyLog
<1>13. CASE CompactSwap
  BY <1>13, CompactSwapLog
<1>14. CASE CompactFails
  BY <1>14, CompactFailsLog
<1> QED
  BY <1>1, <1>2, <1>3, <1>4, <1>5, <1>6, <1>7, <1>8, <1>9, <1>10, <1>11, <1>12, <1>13, <1>14
     DEF Next

\* Where the writer stands, in every reachable state, whatever interrupts it.
THEOREM LogInvHolds == Spec => []LogInv
<1>1. Init => LogInv
  BY InitLog
<1>2. Inv /\ LogInv /\ [Next]_vars => LogInv'
  BY NextLog, StutterLog
<1> QED
  BY <1>1, <1>2, InvHolds, PTL DEF Spec

\* The table and the distance to the last checkpoint that PackStore keeps in
\* memory are what recover_state would compute from the records of its slot: after
\* any sequence of commits, checkpoints, failed and undone commits, compactions and
\* recoveries, with power lost, flushes failing and slots that will not go away.
THEOREM BookkeepingHolds == Spec => []BookkeepingAgrees
<1>1. LogInv => BookkeepingAgrees
  <2> SUFFICES ASSUME LogInv, pc \in {"ready", "commit", "sealed", "header", "successor"}, Sealed
               PROVE  /\ ChainHolds(Here.vol, pack.last.at)
                      /\ ChainTable(Here.vol, pack.last.at) = pack.table
                      /\ SinceCheckpoint(Here.vol, pack.last.at) = pack.since
    BY DEF BookkeepingAgrees
  <2>1. Stands(Here.vol, pack)
    BY DEF LogInv, StandsInv, Session, Open
  <2>2. Agrees(Here.vol, pack) /\ pack.last.at = pack.sealed
    BY <2>1, SealedMeans DEF Sealed
  <2> QED
    BY <2>2 DEF Agrees
<1> QED
  BY <1>1, LogInvHolds, PTL

-----------------------------------------------------------------------------
(* Sealed records stay where they are.                                      *)

\* What a commit has appended so far is no seal.
TailInv == pc = "commit" => \A i \in Offsets : i > wip.undo => Here.vol[i].kind # "seal"

\* The step leaves the records of slot g up to its newest verified seal alone.
KeepsSeal(g) == \A i \in 0 .. Elected(slots[g].vol) : slots'[g].vol[i] = slots[g].vol[i]

\* Where the newest verified seal of a slot is.
LEMMA SealBelowEnd ==
    ASSUME Inv, ShapeInv, NEW g \in Sound, NEW seal, seal = Elected(slots[g].vol)
    PROVE  /\ g \in Gens /\ slots[g] \in Slot /\ slots[g].name
           /\ seal \in Offsets /\ 0 .. seal \subseteq Offsets
           /\ slots[g].vol[seal].kind = "seal" /\ seal <= slots[g].len
<1>1. g \in Gens /\ slots[g].name /\ seal # 0
  BY DEF Sound, Found
<1>2. slots[g] \in Slot /\ ShapeSlot(slots[g]) /\ slots[g].vol \in [Offsets -> Block]
  BY <1>1, SlotLog DEF Slot
<1>3. seal \in Offsets /\ IsSeal(slots[g].vol, seal)
  BY <1>1, <1>2, ElectedFacts
<1>4. slots[g].vol[seal].kind = "seal"
  BY <1>3 DEF IsSeal
<1>5. 0 .. seal \subseteq Offsets
  BY <1>3, RecordsAssumption DEF Offsets
<1>6. ~(seal > slots[g].len)
  BY <1>1, <1>2, <1>3, <1>4, VoidBlock DEF ShapeSlot
<1>7. slots[g].len \in Offsets
  BY <1>2 DEF Slot
<1> QED
  BY <1>1, <1>2, <1>3, <1>4, <1>5, <1>6, <1>7, RecordsAssumption DEF Offsets

\* A commit appends objects where the slot was empty.
LEMMA AppendTail ==
    ASSUME Inv, LogInv, pc = "ready", NEW objects \in SUBSET Objects, NEW manifest \in SUBSET Objects,
           NEW migrating \in BOOLEAN, AppendObjects(objects, manifest, migrating)
    PROVE  TailInv' /\ \A g \in Sound : KeepsSeal(g)
<1> DEFINE new  == NewOf(objects)
           end  == Here.len
           last == end + Cardinality(new)
           w    == ObjectRecords(new, end)
<1>1. Appended(new, end, last, manifest, migrating)
  BY AppendFacts
<1>2. Here \in Slot /\ ShapeSlot(Here) /\ pack.gen \in Gens /\ \A i \in Offsets : i \in Nat
  BY WriterFacts DEF LogInv
<1>3. /\ \A i \in DOMAIN w : i > end
      /\ \A i \in DOMAIN w : w[i].kind = "object"
  BY <1>1, ObjectRecordsFacts DEF Appended, ObjectPayloads
<1>4. /\ slots'[pack.gen] = Write(Here, w, last) /\ \A h \in Gens : h # pack.gen => slots'[h] = slots[h]
      /\ wip'.undo = end /\ pack' = pack /\ end \in Offsets
  BY <1>1 DEF Appended
<1> HIDE DEF w, last
<1>5. /\ \A i \in Offsets : i \in DOMAIN w => slots'[pack.gen].vol[i] = w[i]
      /\ \A i \in Offsets : i \notin DOMAIN w => slots'[pack.gen].vol[i] = Here.vol[i]
  BY <1>2, <1>4, WriteFields
<1>6. TailInv'
  <2> SUFFICES ASSUME NEW i \in Offsets, i > end PROVE slots'[pack.gen].vol[i].kind # "seal"
    BY <1>4 DEF TailInv, Here
  <2>1. CASE i \in DOMAIN w
    BY <1>3, <1>5, <2>1
  <2>2. CASE i \notin DOMAIN w
    <3>1. Here.name => Here.vol[i] = Void
      BY <1>2 DEF ShapeSlot
    <3>2. ~Here.name => Here.vol[i] = Void
      BY <1>2 DEF ShapeSlot
    <3> QED
      BY <1>5, <2>2, <3>1, <3>2, VoidBlock
  <2> QED
    BY <2>1, <2>2
<1>7. ASSUME NEW g \in Sound PROVE KeepsSeal(g)
  <2> DEFINE seal == Elected(slots[g].vol)
  <2>1. g \in Gens /\ seal \in Offsets /\ 0 .. seal \subseteq Offsets /\ seal <= slots[g].len
    BY SealBelowEnd DEF LogInv
  <2>2. CASE g # pack.gen
    BY <1>4, <2>1, <2>2 DEF KeepsSeal
  <2>3. CASE g = pack.gen
    <3> HIDE DEF seal
    <3>1. ASSUME NEW i \in 0 .. seal PROVE slots'[g].vol[i] = slots[g].vol[i]
      <4>1. i \in Offsets /\ ~(i > end)
        BY <1>4, <2>1, <2>3 DEF Here, Offsets
      <4> QED
        BY <1>3, <1>5, <2>3, <4>1 DEF Here
    <3> QED
      BY <3>1 DEF seal, KeepsSeal
  <2> QED
    BY <2>2, <2>3
<1> QED
  BY <1>6, <1>7

LEMMA NextTail ==
    ASSUME Inv, LogInv, TailInv, Next
    PROVE  TailInv'
<1>1. CASE MigrateCommit \/ \E objects, manifest \in SUBSET Objects : Commit(objects, manifest)
  <2>1. committed.manifest \in SUBSET Objects
    BY DEF Inv, TypeOK, Values, Manifests
  <2> QED
    BY <1>1, <2>1, AppendTail DEF MigrateCommit, Commit
<1>2. CASE \E r \in Readers : TakeView(r) \/ DropView(r)
  BY <1>2 DEF TakeView, DropView, TailInv, Here
<1>3. CASE \/ OpenElected \/ OpenTrimmed \/ OpenFresh \/ OpenFounded \/ OpenRefused
           \/ OpenFlushFails \/ Stillborn \/ PowerLoss \/ PowerBack \/ \E g \in Gens : Survive(g)
  <2>1. pc' # "commit"
    BY <1>3 DEF OpenElected, OpenTrimmed, OpenFresh, OpenFounded, OpenRefused, OpenFlushFails,
                Stillborn, PowerLoss, PowerBack, Survive
  <2> QED
    BY <2>1 DEF TailInv
<1>4. CASE \/ CommitSeal \/ CommitFlush \/ CommitFlushFails \/ CommitUndo \/ CommitUndoFails
           \/ RetireSource \/ Close \/ Restart
  <2>1. pc' # "commit"
    BY <1>4 DEF CommitSeal, CommitFlush, Publish, CommitFlushFails, CommitUndo,
                CommitUndoFails, RetireSource, Close, Restart
  <2> QED
    BY <2>1 DEF TailInv
<1>5. CASE Compact \/ CompactSwap \/ CompactFails \/ \E dead \in SUBSET Objects : CompactCopy(Objects \ dead)
  <2>1. pc' # "commit"
    BY <1>5 DEF Compact, CompactSwap, CompactFails, CompactCopy
  <2> QED
    BY <2>1 DEF TailInv
<1> QED
  BY <1>1, <1>2, <1>3, <1>4, <1>5 DEF Next

\* A slot that is removed, or flushed with or without success, keeps its records or its name goes.
LEMMA QuietSeal ==
    ASSUME Inv, LogInv, NEW g \in Sound, slots'[g].name,
           slots'[g] \in {slots[g], Flush(slots[g]), FlushFailed(slots[g]), Remove(slots[g])}
    PROVE  KeepsSeal(g)
<1>1. slots[g] \in Slot
  BY SealBelowEnd DEF LogInv
<1>2. ~Remove(slots[g]).name /\ Flush(slots[g]).vol = slots[g].vol /\ FlushFailed(slots[g]).vol = slots[g].vol
  BY <1>1, RemoveFields, FlushFields, FlushFailedFields
<1>3. slots'[g].vol = slots[g].vol
  BY <1>2
<1> QED
  BY <1>3 DEF KeepsSeal

\* A cut at or above the newest verified seal spares it.
LEMMA CutSeal ==
    ASSUME Inv, LogInv, NEW g \in Sound, NEW n \in Offsets, Elected(slots[g].vol) <= n,
           slots'[g] = Truncate(slots[g], n)
    PROVE  KeepsSeal(g)
<1> DEFINE seal == Elected(slots[g].vol)
<1>1. slots[g] \in Slot /\ seal \in Offsets /\ 0 .. seal \subseteq Offsets
  BY SealBelowEnd DEF LogInv
<1>2. \A i \in Offsets : i <= n => slots'[g].vol[i] = slots[g].vol[i]
  BY <1>1, TruncateFields
<1> HIDE DEF seal
<1>3. \A i \in 0 .. seal : i \in Offsets /\ i <= n
  BY <1>1 DEF Offsets, seal
<1> QED
  BY <1>2, <1>3 DEF seal, KeepsSeal

LEMMA NextSeal ==
    ASSUME Inv, LogInv, TailInv, Next, NEW g \in Sound, pc # "dark",
           pc \in Open => g <= pack.gen, slots'[g].name
    PROVE  KeepsSeal(g)
<1> DEFINE seal == Elected(slots[g].vol)
<1>0. /\ g \in Gens /\ slots[g] \in Slot /\ seal \in Offsets /\ 0 .. seal \subseteq Offsets
      /\ slots[g].vol[seal].kind = "seal" /\ seal <= slots[g].len
      /\ slots \in [Gens -> Slot] /\ pack.gen \in Gens
      /\ \A h \in Gens : GoodSlot(slots[h], h)
  BY SealBelowEnd, HereFacts DEF LogInv, Inv, TypeOK, SlotsInv
<1>1. CASE MigrateCommit \/ \E objects, manifest \in SUBSET Objects : Commit(objects, manifest)
  <2>1. committed.manifest \in SUBSET Objects
    BY DEF Inv, TypeOK, Values, Manifests
  <2> QED
    BY <1>1, <2>1, AppendTail DEF MigrateCommit, Commit
<1>2. CASE OpenElected
  <2>1. PICK e \in Sound : \E after : ElectedBy(e, after)
    BY <1>2, OpenElectedFacts
  <2>2. /\ slots'[e] = Truncate(slots[e], Elected(slots[e].vol))
        /\ \A h \in Gens : h # e => slots'[h] \in {slots[h], Remove(slots[h])}
    BY <2>1, ElectedByFacts
  <2>3. CASE g = e
    BY <1>0, <2>2, <2>3, CutSeal DEF Offsets
  <2>4. CASE g # e
    BY <1>0, <2>2, <2>4, QuietSeal
  <2> QED
    BY <2>3, <2>4
<1>3. CASE OpenFresh \/ OpenRefused
  BY <1>3 DEF OpenFresh, OpenRefused
<1>4. CASE OpenTrimmed \/ OpenFounded \/ OpenFlushFails \/ CommitFlush \/ CommitFlushFails
  <2>1. \E h : slots' = [slots EXCEPT ![h] = Flush(@)] \/ slots' = [slots EXCEPT ![h] = FlushFailed(@)]
    BY <1>4 DEF OpenTrimmed, OpenFounded, OpenFlushFails, CommitFlush, CommitFlushFails, Publish
  <2>2. slots'[g] \in {slots[g], Flush(slots[g]), FlushFailed(slots[g])}
    BY <1>0, <2>1
  <2> QED
    BY <2>2, QuietSeal
<1>5. CASE Stillborn
  BY <1>0, <1>5, StillbornSlots, QuietSeal
<1>6. CASE CommitSeal
  <2> DEFINE end == Here.len + 1
             w   == [i \in {end} |-> wip.seal]
  <2>1. /\ slots'[pack.gen] = Write(Here, w, end) /\ end \in Offsets
        /\ \A h \in Gens : h # pack.gen => slots'[h] = slots[h]
    BY <1>6, CommitSealFacts
  <2>2. CASE g # pack.gen
    BY <1>0, <2>1, <2>2, QuietSeal
  <2>3. CASE g = pack.gen
    <3>1. Here \in Slot /\ Here.len \in Nat /\ DOMAIN w = {end}
      BY <1>0, WriterFacts DEF LogInv
    <3> HIDE DEF w
    <3>2. \A i \in Offsets : i # end => slots'[g].vol[i] = slots[g].vol[i]
      BY <2>1, <2>3, <3>1, WriteFields DEF Here
    <3>3. \A i \in 0 .. seal : i # end
      BY <1>0, <2>3, <3>1 DEF Here, Offsets
    <3> QED
      BY <1>0, <3>2, <3>3 DEF KeepsSeal
  <2> QED
    BY <2>2, <2>3
<1>7. CASE CommitUndo
  <2>1. pc = "commit" /\ slots' = [slots EXCEPT ![pack.gen] = Truncate(Here, wip.undo)]
    BY <1>7 DEF CommitUndo, Here
  <2>2. wip.undo \in Offsets
    BY DEF Inv, TypeOK, Wips
  <2>3. CASE g # pack.gen
    BY <1>0, <2>1, <2>3, QuietSeal
  <2>4. CASE g = pack.gen
    <3>1. ~(seal > wip.undo)
      BY <1>0, <2>1, <2>4 DEF TailInv, Here
    <3>2. seal <= wip.undo
      BY <1>0, <2>2, <3>1 DEF Offsets
    <3>3. slots'[g] = Truncate(slots[g], wip.undo)
      BY <1>0, <2>1, <2>4 DEF Here
    <3> QED
      BY <2>2, <3>2, <3>3, CutSeal
  <2> QED
    BY <2>3, <2>4
<1>8. CASE \/ CommitUndoFails \/ RetireSource \/ Close \/ Restart \/ PowerLoss
           \/ \E r \in Readers : TakeView(r) \/ DropView(r)
  BY <1>8 DEF CommitUndoFails, RetireSource, Close, Restart, PowerLoss, TakeView, DropView, KeepsSeal
<1>9. CASE PowerBack \/ \E h \in Gens : Survive(h)
  BY <1>9 DEF PowerBack, Survive
<1>10. ASSUME pc \in Open PROVE g # pack.gen + 1
  BY <1>0, <1>10 DEF Gens
<1>11. CASE Compact
  <2>1. PICK after \in Swept(slots, {pack.gen + 1}) : \E s : slots' = [after EXCEPT ![pack.gen + 1] = s]
    BY <1>11 DEF Compact
  <2>2. g # pack.gen + 1
    BY <1>10, <1>11 DEF Compact, Open
  <2>3. after \in [Gens -> Slot] /\ after[g] = slots[g]
    BY <1>0, <2>2, SweptFacts
  <2> QED
    BY <1>0, <2>1, <2>2, <2>3, QuietSeal
<1>12. CASE \E dead \in SUBSET Objects : CompactCopy(Objects \ dead)
  <2>1. pc \in Open /\ \E s : slots' = [slots EXCEPT ![pack.gen + 1] = s]
    BY <1>12 DEF CompactCopy, Open
  <2> QED
    BY <1>0, <1>10, <2>1, QuietSeal
<1>13. CASE CompactSwap
  <2> DEFINE gone == (pack.graveyard \cup {pack.gen}) \ Pinned
  <2>1. PICK after \in Swept(slots, gone) : slots' = [after EXCEPT ![pack.gen + 1] = Flush(after[pack.gen + 1])]
    BY <1>13 DEF CompactSwap
  <2>2. g # pack.gen + 1
    BY <1>10, <1>13 DEF CompactSwap, Open
  <2>3. DOMAIN after = Gens /\ after[g] \in {slots[g], Remove(slots[g])}
    BY <1>0, <2>1 DEF Swept
  <2> QED
    BY <1>0, <2>1, <2>2, <2>3, QuietSeal
<1>14. CASE CompactFails
  <2>1. g # pack.gen + 1
    BY <1>10, <1>14 DEF CompactFails, Open
  <2> QED
    BY <1>0, <1>14, <2>1, CompactFailsSlots, QuietSeal
<1> QED
  BY <1>1, <1>2, <1>3, <1>4, <1>5, <1>6, <1>7, <1>8, <1>9, <1>11, <1>12, <1>13, <1>14 DEF Next

\* Store::release_owner_lock: sealed bytes are immutable in place, whoever still reads
\* them.  Whatever opens, commits, undoes, compacts and fails to remove, of this store and
\* of every one after it, and whatever failed before, a slot that keeps its name keeps its
\* records up to its newest verified seal.
THEOREM SealedInPlace == Spec => SealedStays
<1> DEFINE Stays == \A g \in Sound :
             pc # "dark" /\ (pc \in Open => g <= pack.gen) /\ slots'[g].name =>
                \A i \in 0 .. Elected(slots[g].vol) : slots'[g].vol[i] = slots[g].vol[i]
<1>1. Spec => []TailInv
  <2>1. Init => TailInv
    BY DEF Init, TailInv
  <2>2. Inv /\ LogInv /\ TailInv /\ [Next]_vars => TailInv'
    <3>1. ASSUME TailInv, UNCHANGED vars PROVE TailInv'
      BY <3>1 DEF TailInv, vars, Here
    <3> QED
      BY <3>1, NextTail
  <2> QED
    BY <2>1, <2>2, InvHolds, LogInvHolds, PTL DEF Spec
<1>2. ASSUME Inv, LogInv, TailInv, Next PROVE Stays
  BY <1>2, NextSeal DEF KeepsSeal
<1>3. Inv /\ LogInv /\ TailInv /\ [Next]_vars => [Stays]_vars
  BY <1>2
<1> QED
  BY <1>1, <1>3, InvHolds, LogInvHolds, PTL DEF Spec, SealedStays
=============================================================================
