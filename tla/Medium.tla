------------------------------- MODULE Medium -------------------------------
(***************************************************************************)
(* The physical seam under the pack log (crates/journal/src/medium.rs):    *)
(* named slots that append, truncate, flush and are removed.  A slot is    *)
(* described by what the running machine reads from it (`vol`, the page    *)
(* cache) and, block by block, by what a power loss may leave of it        *)
(* (`disk`): between two flushes the storage stack persists blocks in any  *)
(* order, so `disk[i]` is the SET of values block i may be found with.     *)
(*                                                                         *)
(* A block is one record of the pack log; offset 0 holds the header.  A    *)
(* record that is torn and a record that is absent read the same way (no   *)
(* record verifies there), so both are Void.                               *)
(***************************************************************************)
EXTENDS PackRecords

CONSTANTS
    EntriesDurable,   \* does syncing a new file also persist its name?
    FlushDropsPages   \* does a failed sync mark the unwritten pages clean?

Offsets == 0 .. MaxLen

ASSUME MediumAssumption ==
    /\ EntriesDurable \in BOOLEAN
    /\ FlushDropsPages \in BOOLEAN

(***************************************************************************)
(* `len`: the tracked length, the last record's offset.  `name`: the slot  *)
(* is listed by the directory.  `names`: the directory entry's possible    *)
(* states after a power loss.  `dirty`: the blocks the next successful     *)
(* sync writes out.                                                        *)
(***************************************************************************)
Slot == [len   : Offsets,
         name  : BOOLEAN,
         names : SUBSET {"listed", "unlisted"},
         vol   : [Offsets -> Block],
         disk  : [Offsets -> SUBSET Block],
         dirty : SUBSET Offsets]

Absent == [len   |-> 0,
           name  |-> FALSE,
           names |-> {"unlisted"},
           vol   |-> [i \in Offsets |-> Void],
           disk  |-> [i \in Offsets |-> {Void}],
           dirty |-> {}]

\* SlotWriter::append of the records w, a function from offsets to blocks; `end`
\* is the tracked length afterwards.
Write(s, w, end) ==
    [s EXCEPT
        !.len   = end,
        !.vol   = [i \in Offsets |-> IF i \in DOMAIN w THEN w[i] ELSE s.vol[i]],
        !.disk  = [i \in Offsets |-> IF i \in DOMAIN w THEN s.disk[i] \cup {w[i]}
                                                       ELSE s.disk[i]],
        !.dirty = s.dirty \cup (DOMAIN w \cap Offsets)]

\* SlotWriter::truncate -- set_len: the tail goes from the cache at once, from
\* the disk only when a flush says so.
Truncate(s, n) ==
    LET cut == {i \in Offsets : i > n /\ s.vol[i] # Void} IN
    [s EXCEPT
        !.len   = n,
        !.vol   = [i \in Offsets |-> IF i \in cut THEN Void ELSE s.vol[i]],
        !.disk  = [i \in Offsets |-> IF i \in cut THEN s.disk[i] \cup {Void}
                                                  ELSE s.disk[i]],
        !.dirty = s.dirty \cup cut]

\* SlotWriter::flush answering Ok: sync_all of the file.
Flush(s) ==
    [s EXCEPT
        !.disk  = [i \in Offsets |-> IF i \in s.dirty THEN {s.vol[i]} ELSE s.disk[i]],
        !.dirty = {},
        !.names = IF EntriesDurable THEN {"listed"} ELSE s.names]

\* SlotWriter::flush answering Err: nothing is known to have been written, and
\* some kernels mark the pages clean all the same.
FlushFailed(s) ==
    [s EXCEPT !.dirty = IF FlushDropsPages THEN {} ELSE s.dirty]

\* Medium::open_slot on a name that may be new, followed by the truncate(0) that
\* init_slot gives whatever it finds there.
Create(s) ==
    [len   |-> 0,
     name  |-> TRUE,
     names |-> s.names \cup {"listed"},
     vol   |-> [i \in Offsets |-> Void],
     disk  |-> [i \in Offsets |-> s.disk[i] \cup {Void}],
     dirty |-> Offsets]

\* Medium::remove_slot: unlinking is not synced, so the name, and with it the
\* old bytes, may be back after a power loss.
Remove(s) ==
    IF s.name
    THEN [len   |-> 0,
          name  |-> FALSE,
          names |-> s.names \cup {"unlisted"},
          vol   |-> [i \in Offsets |-> Void],
          disk  |-> s.disk,
          dirty |-> {}]
    ELSE s

(***************************************************************************)
(* What a power loss may leave of a slot.  Only unsettled blocks vary.  A  *)
(* seal left under a header of another salt can never verify again (salts  *)
(* are random and never repeat), which is what Void says.                  *)
(***************************************************************************)
Settled(s) ==
    /\ s.names = {IF s.name THEN "listed" ELSE "unlisted"}
    /\ \A i \in Offsets : s.disk[i] = {s.vol[i]}

Survivors(s) ==
    LET loose  == {i \in Offsets : s.disk[i] # {s.vol[i]}}
        kept   == {f \in [loose -> UNION {s.disk[i] : i \in loose}] :
                        \A i \in loose : f[i] \in s.disk[i]}
    IN  {[i \in Offsets |-> IF i \in loose THEN f[i] ELSE s.vol[i]] : f \in kept}

Verifiable(b) ==
    [i \in Offsets |-> IF b[i].kind = "seal" /\ ~IsSeal(b, i) THEN Void ELSE b[i]]

\* The file ends behind the last block that holds a record.
EndsAt(b, n) ==
    /\ \A i \in Offsets : i > n => b[i] = Void
    /\ n > 0 => b[n] # Void

Image(b, n) ==
    [len |-> n, name |-> TRUE, names |-> {"listed"}, vol |-> b,
     disk |-> [i \in Offsets |-> {b[i]}], dirty |-> {}]

=============================================================================
