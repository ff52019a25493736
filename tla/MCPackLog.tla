----------------------------- MODULE MCPackLog ------------------------------
(* Instances of PackLog small enough for TLC, and the properties checked.  *)
EXTENDS PackLog

\* The values of the abstract store.
StoreValues == [seq : 0 .. MaxSeq, manifest : SUBSET Objects]

Store == INSTANCE DurableStore WITH
            Values <- StoreValues,
            up     <- pc \in Open,
            value  <- committed,
            maybe  <- attempted

\* The pack log is a durable store: an open always shows the last acknowledged
\* state or one complete commit attempted since, and once shown or acknowledged
\* a state is never taken back.
ImplementsStore == Store!Spec

\* Bound: only a migrated pack, whose sequence starts behind its source's, commits
\* up to MaxSeq; one that was founded stops a commit earlier.
FoundedStopsEarlier ==
    pc \in {"commit", "sealed"} /\ wip.seal.seq = MaxSeq => wip.seal.prov

=============================================================================
