--------------------------- MODULE RunExecProofs ----------------------------
(***************************************************************************)
(* The safety of a Run for every number of Stations, Attempts and events.  *)
(* The argument rests on one fact of the replicated history: an event is   *)
(* known wherever it is heard of and first of all to the Station that      *)
(* committed it.  What a Station does to its own Attempts it can therefore *)
(* decide alone, whatever arrives while it does.                           *)
(***************************************************************************)
EXTENDS RunExec, FiniteSetTheorems, WellFoundedInduction, TLAPS

-----------------------------------------------------------------------------
(* The inductive invariant.                                                *)

Own(s) == {e \in history[s] : e.id[1] = s}

\* The kinds of event only the Station that holds the lease commits.
OfHolder == {"Leased", "Began", "Returned", "Failed", "Unknown"}

\* A Station knows whatever it committed, and counts it.
OwnKnown ==
    \A s, t \in Stations : \A e \in history[t] : e.id[1] = s => e \in history[s]

\* The histories are finite, and there is room for the event being committed.
Counted ==
    \A s \in Stations :
        /\ IsFiniteSet(history[s])
        /\ Cardinality(Own(s)) <= Events + 1
        /\ duty[s].low /\ duty[s].act # "Child" => Cardinality(Own(s)) <= Events

\* An Attempt's events are its holder's, a choice is the owner's.
Written ==
    \A s \in Stations : \A e \in history[s] :
        /\ e.kind \in OfHolder => e.of \in Ids /\ e.of[1] = e.id[1]
        /\ e.kind = "Leased" => e.of = e.id
        /\ e.kind = "Accepted" => e.id[1] = Starter

\* The owner chooses once, the holder returns once.
OnceAtHome ==
    /\ \A e, f \in Facts(history[Starter], "Accepted") : e = f
    /\ \A s \in Stations : \A e, f \in Facts(history[s], "Returned") :
          e.of[1] = s /\ e.of = f.of => e = f

\* A duty about an Attempt is the holder's; one that would begin, claim, return or
\* recover it finds it not ended.
DutySound ==
    \A s \in Stations :
        /\ duty[s].preds \subseteq {e.id : e \in history[s]}
        /\ duty[s].act \in {"Begin", "Claim", "Complete", "Return", "Child", "Fail", "Recover"} =>
              duty[s].of \in Ids /\ duty[s].of[1] = s
        /\ duty[s].act \in {"Begin", "Claim", "Complete", "Return", "Recover"} =>
              ~Ended(history[s], duty[s].of)
        /\ duty[s].act = "Presume" => duty[s].of \in Ids
        /\ duty[s].act = "Begin" => ~Begun(history[s], duty[s].of)
        /\ duty[s].act = "none" => duty[s] = NoDuty

\* A worker is of an Attempt of its Station; it holds on to an ended one only
\* while the failure of its children is being written.
WorkerSound ==
    \A s \in Stations : \A a \in Claimed(s) :
        /\ a[1] = s
        /\ Ended(history[s], a) => duty[s].act \in {"Child", "Fail"} /\ duty[s].of = a

\* A handler was entered only for an Attempt that is begun, and that stays so:
\* no second Began is decided for it.
EnteredBegun ==
    \A a \in Ids :
        /\ invoked[a] <= 1
        /\ invoked[a] > 0 => /\ Begun(history[a[1]], a)
                             /\ worker[a[1]][a] # "registered"

\* No handler was entered for the Attempt about to be claimed.
ClaimFresh ==
    \A s \in Stations : duty[s].act = "Claim" => invoked[duty[s].of] = 0

Inv ==
    /\ TypeOK
    /\ CausallyClosed
    /\ OwnKnown
    /\ Counted
    /\ Written
    /\ OnceAtHome
    /\ DutySound
    /\ WorkerSound
    /\ EnteredBegun

-----------------------------------------------------------------------------
(* Lemmas.                                                                 *)

\* A set of leases with ranks has a last one.
LEMMA LatestIn ==
    ASSUME NEW S, S # {}, \A l \in S : l.rank \in {0} \cup Ranks
    PROVE  Latest(S) \in S
<1> DEFINE U == {n \in Nat : \A l \in S : l.rank <= n}
           R == OpToRel(<, Nat)
<1>1. MaxRank \in U
  BY ConstantsAssumption DEF ConstantsAssumption, Ranks
<1>2. PICK n \in U : \A m \in U : ~(<<m, n>> \in R)
  <2>1. U \subseteq Nat /\ U # {}
    BY <1>1
  <2>2. IsWellFoundedOn(R, Nat)
    BY NatLessThanWellFounded
  <2> HIDE DEF U, R
  <2> QED
    BY <2>1, <2>2, WFMin
<1>3. \A m \in U : ~(m < n)
  BY <1>2 DEF OpToRel
<1>4. \E l \in S : l.rank = n
  <2>1. CASE n = 0
    BY <2>1, ConstantsAssumption DEF Ranks, ConstantsAssumption
  <2>2. CASE n # 0
    <3>1. n - 1 \in Nat /\ n - 1 < n
      BY <2>2
    <3>2. n - 1 \notin U
      BY <3>1, <1>3
    <3>3. PICK l \in S : ~(l.rank <= n - 1)
      BY <3>1, <3>2
    <3>4. l.rank \in Nat /\ l.rank <= n
      BY ConstantsAssumption DEF Ranks, ConstantsAssumption
    <3> QED
      BY <3>3, <3>4
  <2> QED
    BY <2>1, <2>2
<1>5. PICK l \in S : l.rank = n
  BY <1>4
<1>6. \A m \in S : m.rank <= l.rank
  BY <1>5
<1> QED
  BY <1>6 DEF Latest

\* Adding to a finite set adds at most one.
LEMMA AddOne ==
    ASSUME NEW S, IsFiniteSet(S), NEW e
    PROVE  /\ IsFiniteSet(S \cup {e})
           /\ Cardinality(S) \in Nat
           /\ Cardinality(S \cup {e}) \in Nat
           /\ Cardinality(S \cup {e}) <= Cardinality(S) + 1
<1>1. Cardinality(S) \in Nat /\ IsFiniteSet(S \cup {e}) /\ Cardinality(S \cup {e}) \in Nat
  BY FS_CardinalityType, FS_AddElement
<1>2. CASE e \in S
  <2>1. S \cup {e} = S
    BY <1>2
  <2>2. Cardinality(S \cup {e}) = Cardinality(S)
    BY <2>1, Zenon
  <2> QED
    BY <1>1, <2>2
<1>3. CASE e \notin S
  BY <1>1, <1>3, FS_AddElement
<1> QED
  BY <1>1, <1>2, <1>3

\* A Station has no more events of its own than it knows.
LEMMA OwnCounts ==
    ASSUME Inv, NEW s \in Stations
    PROVE  /\ IsFiniteSet(history[s]) /\ IsFiniteSet(Own(s))
           /\ Cardinality(Own(s)) \in Nat /\ Cardinality(history[s]) \in Nat
           /\ Cardinality(Own(s)) <= Cardinality(history[s])
<1>1. IsFiniteSet(history[s]) /\ Own(s) \subseteq history[s]
  BY DEF Inv, Counted, Own
<1> QED
  BY <1>1, FS_Subset, FS_CardinalityType

\* Heads are events of the history.
LEMMA HeadsKnown ==
    ASSUME NEW h
    PROVE  Heads(h) \subseteq {e.id : e \in h}
BY DEF Heads

\* Whether an Attempt is begun depends on its Began events alone.
LEMMA BegunOf ==
    ASSUME NEW h, NEW k, NEW a, Of(h, "Began", a) = Of(k, "Began", a)
    PROVE  Begun(h, a) <=> Begun(k, a)
BY DEF Begun, Of

\* The numbers of a Station.
LEMMA Constants ==
    /\ Events \in Nat /\ Events + 1 \in Nat
    /\ MaxEpoch \in Nat /\ MaxRank \in Nat
    /\ Starter \in Stations
BY ConstantsAssumption DEF ConstantsAssumption

\* One more event of its own: what becomes of the histories.
LEMMA Appended ==
    ASSUME Inv, NEW s \in Stations, NEW e,
           e \in RunEvents, e.id[1] = s,
           e.preds \subseteq {f.id : f \in history[s]},
           e.kind \in OfHolder => e.of \in Ids /\ e.of[1] = s,
           e.kind = "Leased" => e.of = e.id,
           e.kind = "Accepted" => s = Starter,
           history' = [history EXCEPT ![s] = @ \cup {e}]
    PROVE  /\ history' \in [Stations -> SUBSET RunEvents]
           /\ history'[s] = history[s] \cup {e}
           /\ \A t \in Stations : t # s => history'[t] = history[t] /\ Own(t)' = Own(t)
           /\ CausallyClosed' /\ OwnKnown' /\ Written'
           /\ \A t \in Stations : IsFiniteSet(history'[t])
           /\ Cardinality(Own(s)') \in Nat
           /\ Cardinality(Own(s)') <= Cardinality(Own(s)) + 1
<1>1. history \in [Stations -> SUBSET RunEvents]
  BY DEF Inv, TypeOK
<1>2. history'[s] = history[s] \cup {e} /\ \A t \in Stations : t # s => history'[t] = history[t]
  BY <1>1
<1>3. history' \in [Stations -> SUBSET RunEvents]
  BY <1>1
<1>4. \A t \in Stations : t # s => Own(t)' = Own(t)
  BY <1>2 DEF Own
<1>5. CausallyClosed'
  BY <1>2 DEF CausallyClosed, Inv
<1>6. OwnKnown'
  BY <1>2 DEF OwnKnown, Inv
<1>7. Written'
  BY <1>2 DEF Written, Inv
<1>8. Own(s)' = Own(s) \cup {e}
  BY <1>2 DEF Own
<1>9. \A t \in Stations : IsFiniteSet(history'[t])
  <2>0. IsFiniteSet(history[s])
    BY OwnCounts
  <2>1. IsFiniteSet(history[s] \cup {e})
    BY <2>0, AddOne
  <2>2. IsFiniteSet(history'[s])
    BY <1>2, <2>1, Zenon
  <2> QED
    BY <1>2, <2>2 DEF Inv, Counted
<1>10. Cardinality(Own(s)') \in Nat /\ Cardinality(Own(s)') <= Cardinality(Own(s)) + 1
  <2>1. IsFiniteSet(Own(s))
    BY OwnCounts
  <2> QED
    BY <1>8, <2>1, AddOne
<1>11. \A t \in Stations : t # s => history'[t] = history[t] /\ Own(t)' = Own(t)
  BY <1>2, <1>4
<1> QED
  BY <1>2, <1>3, <1>5, <1>6, <1>7, <1>9, <1>10, <1>11

\* Steps that leave the histories alone.
LEMMA Same ==
    ASSUME Inv, history' = history
    PROVE  /\ history' \in [Stations -> SUBSET RunEvents]
           /\ CausallyClosed' /\ OwnKnown' /\ Written' /\ OnceAtHome'
           /\ \A t \in Stations : Own(t)' = Own(t) /\ IsFiniteSet(history'[t])
BY DEF Inv, TypeOK, CausallyClosed, OwnKnown, Written, OnceAtHome, Own, Counted, Facts

\* What next_perform_action hands out is about an Attempt of this Station that
\* has not ended, and to begin one only if it is not begun.
LEMMA NextDutySound ==
    ASSUME Inv, NEW s \in Stations, NextDuty(s) # NoDuty
    PROVE  \E act \in {"Try", "Begin", "Complete", "Fail", "Recover"}, a \in Ids \cup {None} :
              /\ NextDuty(s) = Duty(act, a)
              /\ act # "Try" => a \in Ids /\ a[1] = s /\ ~Ended(history[s], a)
              /\ act = "Begin" => ~Begun(history[s], a)
<1> DEFINE h   == history[s]
           old == {l \in Mine(s, h) : l.epoch # epoch[s]}
           now == {l \in Mine(s, h) : l.epoch = epoch[s]}
<1>1. \A S \in SUBSET Mine(s, h) : S # {} =>
         Latest(S).id \in Ids /\ Latest(S).id[1] = s /\ ~Ended(h, Latest(S).id)
  <2>1. \A l \in Mine(s, h) : l.rank \in {0} \cup Ranks /\ l.id \in Ids /\ l.id[1] = s
                                /\ ~Ended(h, l.id)
    BY DEF Mine, Leases, Facts, Inv, TypeOK, RunEvents
  <2>2. \A S \in SUBSET Mine(s, h) : S # {} => Latest(S) \in S
    BY <2>1, LatestIn
  <2> QED
    BY <2>1, <2>2
<1>2. old \in SUBSET Mine(s, h) /\ now \in SUBSET Mine(s, h)
  OBVIOUS
<1>3. NextDuty(s) =
        CASE old # {} -> Duty("Recover", Latest(old).id)
          [] old = {} /\ now # {} ->
               LET a == Latest(now).id IN
               IF Begun(h, a) THEN WorkerDuty(s, a) ELSE Duty("Begin", a)
          [] old = {} /\ now = {} ->
               IF CanLocalTry(s) THEN Duty("Try", None) ELSE NoDuty
  BY DEF NextDuty
<1> HIDE DEF old, now
<1>4. CASE old # {}
  <2>1. NextDuty(s) = Duty("Recover", Latest(old).id)
    BY <1>3, <1>4
  <2> QED
    BY <1>1, <1>2, <1>4, <2>1
<1>5. CASE old = {} /\ now # {}
  <2> DEFINE a == Latest(now).id
  <2>1. a \in Ids /\ a[1] = s /\ ~Ended(h, a)
    BY <1>1, <1>2, <1>5
  <2>2. NextDuty(s) = IF Begun(h, a) THEN WorkerDuty(s, a) ELSE Duty("Begin", a)
    BY <1>3, <1>5
  <2> HIDE DEF a
  <2>3. CASE Begun(h, a)
    <3>1. NextDuty(s) \in {Duty("Complete", a), Duty("Fail", a), Duty("Recover", a), NoDuty}
      BY <2>2, <2>3 DEF WorkerDuty
    <3> QED
      BY <2>1, <3>1
  <2>4. CASE ~Begun(h, a)
    BY <2>1, <2>2, <2>4
  <2> QED
    BY <2>3, <2>4
<1>6. CASE old = {} /\ now = {}
  <2>1. NextDuty(s) = IF CanLocalTry(s) THEN Duty("Try", None) ELSE NoDuty
    BY <1>3, <1>6
  <2>2. NextDuty(s) = Duty("Try", None)
    BY <2>1
  <2> QED
    BY <2>2
<1> QED
  BY <1>4, <1>5, <1>6

LEMMA NoDutyType == NoDuty \in Duties /\ NoDuty.act = "none" /\ NoDuty.low = FALSE /\ NoDuty.preds = {}
BY DEF NoDuty, Duties

LEMMA DutyType ==
    ASSUME NEW act \in {"Try", "Begin", "Claim", "Complete", "Return", "Child", "Fail", "Recover",
                        "Presume"},
           NEW a \in Ids \cup {None}
    PROVE  /\ Duty(act, a) \in Duties
           /\ Duty(act, a).act = act /\ Duty(act, a).of = a
           /\ Duty(act, a).low = FALSE /\ Duty(act, a).preds = {}
BY DEF Duty, Duties

-----------------------------------------------------------------------------
(* The first state.                                                        *)

LEMMA InitInv == Init => Inv
<1> SUFFICES ASSUME Init PROVE Inv
  OBVIOUS
<1> USE Constants
<1>1. Root \in RunEvents /\ Root.id = <<Starter, 1>> /\ Root.kind = "Started" /\ Root.preds = {}
  BY DEF Root, RunEvents, Ids, Numbers, Kinds, Ranks
<1>2. \A s \in Stations : history[s] \subseteq {Root} /\ (s # Starter => history[s] = {})
  BY DEF Init
<1>3. history[Starter] = {Root}
  BY DEF Init
<1>4. TypeOK
  <2>1. history \in [Stations -> SUBSET RunEvents]
    BY <1>1 DEF Init
  <2>2. epoch \in [Stations -> 1 .. MaxEpoch]
    BY ConstantsAssumption DEF Init, ConstantsAssumption
  <2> QED
    BY <2>1, <2>2, NoDutyType DEF Init, TypeOK
<1>5. CausallyClosed
  BY <1>1, <1>2 DEF CausallyClosed
<1>6. OwnKnown
  BY <1>1, <1>2, <1>3 DEF OwnKnown
<1>7. Counted
  <2>1. ASSUME NEW s \in Stations
        PROVE  IsFiniteSet(history[s]) /\ IsFiniteSet(Own(s)) /\ Cardinality(Own(s)) <= 1
    <3>1. IsFiniteSet({Root}) /\ Cardinality({Root}) = 1
      BY FS_Singleton
    <3>2. Own(s) \subseteq {Root} /\ history[s] \subseteq {Root}
      BY <1>2 DEF Own
    <3>3. Cardinality(Own(s)) <= Cardinality({Root}) /\ IsFiniteSet(Own(s)) /\ IsFiniteSet(history[s])
      BY <3>1, <3>2, FS_Subset
    <3> QED
      BY <3>1, <3>3
  <2>2. \A s \in Stations : Cardinality(Own(s)) \in Nat /\ duty[s] = NoDuty
    BY <2>1, FS_CardinalityType DEF Init
  <2> QED
    BY <2>1, <2>2, NoDutyType DEF Counted
<1>8. Written
  BY <1>1, <1>2 DEF Written, OfHolder
<1>9. OnceAtHome
  BY <1>1, <1>2 DEF OnceAtHome, Facts
<1>10. DutySound
  <2>1. \A s \in Stations : duty[s] = NoDuty
    BY DEF Init
  <2> QED
    BY <2>1, NoDutyType DEF DutySound
<1>11. WorkerSound
  BY DEF Init, WorkerSound, Claimed
<1>12. EnteredBegun
  BY DEF Init, EnteredBegun
<1> QED
  BY <1>4, <1>5, <1>6, <1>7, <1>8, <1>9, <1>10, <1>11, <1>12 DEF Inv

-----------------------------------------------------------------------------
(* Steps that commit nothing.  Each leaves the histories alone (Same); what *)
(* remains are the duty, the workers and the observer.                     *)

\* A Station without a duty takes one up.
LEMMA TakeUp ==
    ASSUME Inv, NEW s \in Stations, duty[s] = NoDuty,
           NEW act \in {"Try", "Begin", "Complete", "Fail", "Recover", "Presume"},
           NEW a \in Ids \cup {None},
           act # "Try" => a \in Ids,
           act \in {"Begin", "Complete", "Fail", "Recover"} =>
              a[1] = s /\ ~Ended(history[s], a),
           act = "Begin" => ~Begun(history[s], a),
           duty' = [duty EXCEPT ![s] = Duty(act, a)],
           UNCHANGED <<history, marker, epoch, worker, cancelled, invoked, doing>>
    PROVE  Inv'
<1>1. duty \in [Stations -> Duties]
  BY DEF Inv, TypeOK
<1>2. duty'[s] = Duty(act, a) /\ \A t \in Stations : t # s => duty'[t] = duty[t]
  BY <1>1
<1>3. /\ duty'[s].act = act /\ duty'[s].of = a
      /\ duty'[s].low = FALSE /\ duty'[s].preds = {}
      /\ duty'[s] \in Duties
  <2>1. act \in {"Try", "Begin", "Complete", "Child", "Fail", "Recover", "Presume"}
    OBVIOUS
  <2>2. /\ Duty(act, a) \in Duties
        /\ Duty(act, a).act = act /\ Duty(act, a).of = a
        /\ Duty(act, a).low = FALSE /\ Duty(act, a).preds = {}
    BY <2>1 DEF Duty, Duties
  <2> QED
    BY <1>2, <2>2, Zenon
<1>4. TypeOK'
  BY <1>1, <1>3 DEF Inv, TypeOK
<1>5. Counted'
  <2>1. \A t \in Stations : Own(t)' = Own(t) /\ IsFiniteSet(history'[t])
    BY Same
  <2> QED
    BY <1>2, <1>3, <2>1 DEF Inv, Counted
<1>6. DutySound'
  <2>1. ASSUME NEW t \in Stations, t # s
        PROVE  duty'[t] = duty[t] /\ history'[t] = history[t]
    BY <1>2, <2>1
  <2>2. history'[s] = history[s] /\ act # "none"
    OBVIOUS
  <2> QED
    BY <1>3, <2>1, <2>2 DEF Inv, DutySound
<1>7. WorkerSound'
  <2>1. \A t \in Stations : Claimed(t)' = Claimed(t) /\ history'[t] = history[t]
    BY DEF Claimed
  <2>2. \A b \in Claimed(s) : ~Ended(history[s], b)
    BY NoDutyType DEF Inv, WorkerSound
  <2> QED
    BY <1>2, <2>1, <2>2 DEF Inv, WorkerSound
<1>8. EnteredBegun'
  BY DEF Inv, EnteredBegun
<1> QED
  BY Same, <1>4, <1>5, <1>6, <1>7, <1>8 DEF Inv

LEMMA DecideInv ==
    ASSUME Inv, NEW s \in Stations, Decide(s)
    PROVE  Inv'
<1>1. PICK act \in {"Try", "Begin", "Complete", "Fail", "Recover"}, a \in Ids \cup {None} :
         /\ NextDuty(s) = Duty(act, a)
         /\ act # "Try" => a \in Ids /\ a[1] = s /\ ~Ended(history[s], a)
         /\ act = "Begin" => ~Begun(history[s], a)
  BY NextDutySound DEF Decide
<1>2. /\ duty[s] = NoDuty
      /\ duty' = [duty EXCEPT ![s] = Duty(act, a)]
      /\ UNCHANGED <<history, marker, epoch, worker, cancelled, invoked, doing>>
  BY <1>1 DEF Decide
<1>3. /\ act # "Try" => a \in Ids
      /\ act \in {"Begin", "Complete", "Fail", "Recover"} => a[1] = s /\ ~Ended(history[s], a)
      /\ act \in {"Try", "Begin", "Complete", "Fail", "Recover", "Presume"}
  BY <1>1
<1> QED
  BY <1>1, <1>2, <1>3, TakeUp

LEMMA PresumeInv ==
    ASSUME Inv, NEW s \in Stations, Presume(s)
    PROVE  Inv'
<1>1. PICK l \in Leases(history[s]) : duty' = [duty EXCEPT ![s] = Duty("Presume", l.id)]
  BY DEF Presume
<1>2. l.id \in Ids
  BY DEF Leases, Facts, Inv, TypeOK, RunEvents
<1>3. /\ duty[s] = NoDuty
      /\ UNCHANGED <<history, marker, epoch, worker, cancelled, invoked, doing>>
  BY DEF Presume
<1> QED
  BY <1>1, <1>2, <1>3, TakeUp

\* Steps that leave the duty alone too.
LEMMA SameDuty ==
    ASSUME Inv, history' = history, duty' = duty
    PROVE  Counted' /\ DutySound'
<1>1. \A t \in Stations : Own(t)' = Own(t) /\ IsFiniteSet(history'[t])
  BY Same
<1>2. Counted'
  BY <1>1 DEF Inv, Counted
<1>3. DutySound'
  BY DEF Inv, DutySound
<1> QED
  BY <1>2, <1>3

LEMMA LaunchInv ==
    ASSUME Inv, NEW s \in Stations, Launch(s)
    PROVE  Inv'
<1>1. PICK a \in Launchable(s) : /\ worker' = [worker EXCEPT ![s][a] = "running"]
                                 /\ invoked' = [invoked EXCEPT ![a] = @ + 1]
  BY DEF Launch
<1>2. UNCHANGED <<history, marker, epoch, duty, cancelled, doing>>
  BY DEF Launch
<1>3. a \in Claimed(s) /\ a \in Ids /\ Begun(history[s], a) /\ worker[s][a] = "registered"
  BY DEF Launchable, Claimed
<1>4. a[1] = s
  BY <1>3 DEF Inv, WorkerSound
<1>5. /\ worker \in [Stations -> [Ids -> {"none", "registered", "running", "done", "broke"}]]
      /\ invoked \in [Ids -> Nat]
  BY DEF Inv, TypeOK
<1>6. /\ worker'[s][a] = "running"
      /\ \A b \in Ids : b # a => worker'[s][b] = worker[s][b]
      /\ \A t \in Stations : t # s => worker'[t] = worker[t]
  BY <1>1, <1>3, <1>5
<1>7. invoked'[a] = invoked[a] + 1 /\ \A b \in Ids : b # a => invoked'[b] = invoked[b]
  BY <1>1, <1>3, <1>5
<1>8. TypeOK'
  <2>1. worker' \in [Stations -> [Ids -> {"none", "registered", "running", "done", "broke"}]]
    BY <1>1, <1>3, <1>5
  <2>2. invoked' \in [Ids -> Nat]
    BY <1>1, <1>3, <1>5
  <2> QED
    BY <1>2, <2>1, <2>2 DEF Inv, TypeOK
<1>9. WorkerSound'
  <2>1. \A t \in Stations : Claimed(t)' = Claimed(t)
    BY <1>3, <1>6 DEF Claimed
  <2> QED
    BY <1>2, <2>1 DEF Inv, WorkerSound
<1>10. EnteredBegun'
  <2>1. invoked[a] = 0
    BY <1>3, <1>4, <1>5 DEF Inv, EnteredBegun
  <2>2. ASSUME NEW b \in Ids
        PROVE  /\ invoked'[b] <= 1
               /\ invoked'[b] > 0 => /\ Begun(history'[b[1]], b)
                                     /\ worker'[b[1]][b] # "registered"
    <3>1. CASE b = a
      BY <1>2, <1>3, <1>4, <1>6, <1>7, <2>1, <3>1
    <3>2. CASE b # a
      <4>1. b[1] \in Stations
        BY DEF Ids
      <4>2. worker'[b[1]][b] = worker[b[1]][b]
        BY <1>6, <3>2, <4>1
      <4> QED
        BY <1>2, <1>7, <3>2, <4>2 DEF Inv, EnteredBegun
    <3> QED
      BY <3>1, <3>2
  <2> QED
    BY <2>2 DEF EnteredBegun
<1> QED
  BY <1>2, <1>8, <1>9, <1>10, Same, SameDuty DEF Inv

LEMMA FinishInv ==
    ASSUME Inv, NEW s \in Stations, NEW a \in Ids, Finish(s, a)
    PROVE  Inv'
<1>1. UNCHANGED <<history, marker, epoch, duty, cancelled, invoked, doing>>
  BY DEF Finish
<1>2. PICK w \in {"done", "broke"} : worker' = [worker EXCEPT ![s][a] = w]
  BY DEF Finish
<1>3. worker \in [Stations -> [Ids -> {"none", "registered", "running", "done", "broke"}]]
  BY DEF Inv, TypeOK
<1>4. /\ worker'[s][a] = w /\ worker[s][a] = "running"
      /\ \A b \in Ids : b # a => worker'[s][b] = worker[s][b]
      /\ \A t \in Stations : t # s => worker'[t] = worker[t]
  BY <1>2, <1>3 DEF Finish
<1>5. TypeOK'
  <2>1. worker' \in [Stations -> [Ids -> {"none", "registered", "running", "done", "broke"}]]
    BY <1>2, <1>3
  <2> QED
    BY <1>1, <2>1 DEF Inv, TypeOK
<1>6. WorkerSound'
  <2>1. \A t \in Stations : Claimed(t)' = Claimed(t)
    BY <1>4 DEF Claimed
  <2> QED
    BY <1>1, <2>1 DEF Inv, WorkerSound
<1>7. EnteredBegun'
  <2>1. \A b \in Ids : worker'[b[1]][b] = "registered" => worker[b[1]][b] = "registered"
    BY <1>4 DEF Ids
  <2> QED
    BY <1>1, <2>1 DEF Inv, EnteredBegun
<1> QED
  BY <1>1, <1>5, <1>6, <1>7, Same, SameDuty DEF Inv

LEMMA ReconcileInv ==
    ASSUME Inv, NEW s \in Stations, Reconcile(s)
    PROVE  Inv'
<1>1. /\ UNCHANGED <<history, marker, epoch, duty, worker, invoked, doing>>
      /\ cancelled' = [cancelled EXCEPT ![s] = Claimed(s)]
  BY DEF Reconcile
<1>2. TypeOK'
  BY <1>1 DEF Inv, TypeOK, Claimed
<1>3. WorkerSound' /\ EnteredBegun'
  BY <1>1 DEF Inv, WorkerSound, EnteredBegun, Claimed
<1> QED
  BY <1>1, <1>2, <1>3, Same, SameDuty DEF Inv

LEMMA LowerInv ==
    ASSUME Inv, NEW s \in Stations, Lower(s)
    PROVE  Inv'
<1>1. UNCHANGED <<history, marker, epoch, worker, cancelled, invoked, doing>>
  BY DEF Lower
<1>2. duty \in [Stations -> Duties]
  BY DEF Inv, TypeOK
<1>3. \A t \in Stations : t # s => duty'[t] = duty[t]
  BY <1>2 DEF Lower
<1>4. /\ duty'[s] = [duty[s] EXCEPT !.low = TRUE, !.preds = Heads(history[s])]
      /\ duty[s].act # "none"
  BY <1>2 DEF Lower, Lowering
<1>5. /\ duty'[s].act = duty[s].act /\ duty'[s].of = duty[s].of
      /\ duty'[s].low = TRUE /\ duty'[s].preds = Heads(history[s])
      /\ duty[s].act # "none"
  <2>1. duty[s] \in Duties
    BY <1>2
  <2> QED
    BY <1>4, <2>1 DEF Duties
<1>6. Heads(history[s]) \subseteq {e.id : e \in history[s]}
  BY HeadsKnown
<1>7. TypeOK'
  <2>1. \A e \in history[s] : e.id \in Ids
    BY DEF Inv, TypeOK, RunEvents
  <2>2. Heads(history[s]) \in SUBSET Ids
    BY <1>6, <2>1
  <2>3. duty'[s] \in Duties
    <3>1. duty[s] \in Duties
      BY <1>2
    <3> QED
      BY <1>4, <2>2, <3>1 DEF Duties
  <2>4. duty' \in [Stations -> Duties]
    BY <1>2, <2>3 DEF Lower
  <2> QED
    BY <1>1, <2>4 DEF Inv, TypeOK
<1>8. Counted'
  <2>1. \A t \in Stations : Own(t)' = Own(t) /\ IsFiniteSet(history'[t])
    BY <1>1, Same
  <2>2. duty[s].act # "Child" => Cardinality(history[s]) < Events
    BY DEF Lower, Admits
  <2>3. duty[s].act # "Child" => Cardinality(Own(s)) <= Events
    BY <2>2, OwnCounts, Constants
  <2> QED
    BY <1>3, <1>5, <2>1, <2>3 DEF Inv, Counted
<1>9. DutySound'
  <2>1. \A t \in Stations : history'[t] = history[t]
    BY <1>1
  <2> QED
    BY <1>3, <1>5, <1>6, <2>1 DEF Inv, DutySound
<1>10. WorkerSound'
  <2>1. \A t \in Stations : Claimed(t)' = Claimed(t) /\ history'[t] = history[t]
    BY <1>1 DEF Claimed
  <2> QED
    BY <1>3, <1>5, <2>1 DEF Inv, WorkerSound
<1>11. EnteredBegun'
  BY <1>1 DEF Inv, EnteredBegun
<1> QED
  BY <1>1, Same, <1>7, <1>8, <1>9, <1>10, <1>11 DEF Inv

Workers == {"none", "registered", "running", "done", "broke"}

\* A Station lets go of one worker.
LEMMA Release ==
    ASSUME Inv, NEW s \in Stations, NEW a \in Ids,
           worker' = [worker EXCEPT ![s][a] = "none"]
    PROVE  /\ worker' \in [Stations -> [Ids -> Workers]]
           /\ Claimed(s)' = Claimed(s) \ {a}
           /\ \A t \in Stations : t # s => Claimed(t)' = Claimed(t)
           /\ \A b \in Ids : worker'[b[1]][b] = "registered" => worker[b[1]][b] = "registered"
<1>1. worker \in [Stations -> [Ids -> Workers]]
  BY DEF Inv, TypeOK, Workers
<1>2. /\ worker'[s][a] = "none"
      /\ \A b \in Ids : b # a => worker'[s][b] = worker[s][b]
      /\ \A t \in Stations : t # s => worker'[t] = worker[t]
  BY <1>1
<1>3. worker' \in [Stations -> [Ids -> Workers]]
  BY <1>1 DEF Workers
<1>4. Claimed(s)' = Claimed(s) \ {a}
  BY <1>2 DEF Claimed
<1>5. \A t \in Stations : t # s => Claimed(t)' = Claimed(t)
  BY <1>2 DEF Claimed
<1>6. \A b \in Ids : worker'[b[1]][b] = "registered" => worker[b[1]][b] = "registered"
  BY <1>2 DEF Ids
<1> QED
  BY <1>3, <1>4, <1>5, <1>6

\* The duty ends: no duty is left.
LEMMA Rested ==
    ASSUME Inv, NEW s \in Stations, duty' = [duty EXCEPT ![s] = NoDuty]
    PROVE  /\ duty' \in [Stations -> Duties]
           /\ duty'[s] = NoDuty /\ duty'[s].act = "none" /\ duty'[s].low = FALSE
           /\ duty'[s].preds = {}
           /\ \A t \in Stations : t # s => duty'[t] = duty[t]
<1>1. duty \in [Stations -> Duties]
  BY DEF Inv, TypeOK
<1>2. duty'[s] = NoDuty /\ \A t \in Stations : t # s => duty'[t] = duty[t]
  BY <1>1
<1>3. duty' \in [Stations -> Duties]
  BY <1>1, NoDutyType
<1> QED
  BY <1>2, <1>3, NoDutyType

\* The duty turns into the next one about its Attempt.
LEMMA Turned ==
    ASSUME Inv, NEW s \in Stations, NEW act \in {"Claim", "Return", "Child", "Fail"}, NEW a \in Ids,
           duty' = [duty EXCEPT ![s] = Duty(act, a)]
    PROVE  /\ duty' \in [Stations -> Duties]
           /\ duty'[s].act = act /\ duty'[s].of = a
           /\ duty'[s].low = FALSE /\ duty'[s].preds = {}
           /\ \A t \in Stations : t # s => duty'[t] = duty[t]
<1>1. duty \in [Stations -> Duties]
  BY DEF Inv, TypeOK
<1>2. duty'[s] = Duty(act, a) /\ \A t \in Stations : t # s => duty'[t] = duty[t]
  BY <1>1
<1>3. /\ Duty(act, a) \in Duties
      /\ Duty(act, a).act = act /\ Duty(act, a).of = a
      /\ Duty(act, a).low = FALSE /\ Duty(act, a).preds = {}
  BY DEF Duty, Duties
<1>4. duty' \in [Stations -> Duties]
  BY <1>1, <1>3
<1> QED
  BY <1>2, <1>3, <1>4

LEMMA RefusedInv ==
    ASSUME Inv, NEW s \in Stations, Refused(s)
    PROVE  Inv'
<1> DEFINE d == duty[s]
<1>1. UNCHANGED <<history, marker, epoch, invoked, doing>>
  BY DEF Refused
<1>2. CASE d.act \in {"Complete", "Return", "Child"}
  <2>1. d.of \in Ids /\ d.of[1] = s
    BY <1>2 DEF Inv, DutySound
  <2>2. duty' = [duty EXCEPT ![s] = Duty("Fail", d.of)] /\ UNCHANGED <<worker, cancelled>>
    BY <1>2 DEF Refused
  <2>3. /\ duty' \in [Stations -> Duties]
        /\ duty'[s].act = "Fail" /\ duty'[s].of = d.of
        /\ duty'[s].low = FALSE /\ duty'[s].preds = {}
        /\ \A t \in Stations : t # s => duty'[t] = duty[t]
    BY <2>1, <2>2, Turned
  <2>4. TypeOK'
    BY <1>1, <2>2, <2>3 DEF Inv, TypeOK
  <2>5. Counted'
    <3>1. \A t \in Stations : Own(t)' = Own(t) /\ IsFiniteSet(history'[t])
      BY <1>1, Same
    <3> QED
      BY <2>3, <3>1 DEF Inv, Counted
  <2>6. DutySound'
    <3>1. \A t \in Stations : history'[t] = history[t]
      BY <1>1
    <3> QED
      BY <2>1, <2>3, <3>1 DEF Inv, DutySound
  <2>7. WorkerSound'
    <3>1. \A t \in Stations : Claimed(t)' = Claimed(t) /\ history'[t] = history[t]
      BY <1>1, <2>2 DEF Claimed
    <3> QED
      BY <2>3, <3>1 DEF Inv, WorkerSound
  <2>8. EnteredBegun'
    BY <1>1, <2>2 DEF Inv, EnteredBegun
  <2> QED
    BY <1>1, Same, <2>4, <2>5, <2>6, <2>7, <2>8 DEF Inv
<1>3. CASE d.act \notin {"Complete", "Return", "Child"}
  <2>1. /\ duty' \in [Stations -> Duties]
        /\ duty'[s] = NoDuty /\ duty'[s].act = "none" /\ duty'[s].low = FALSE
        /\ duty'[s].preds = {}
        /\ \A t \in Stations : t # s => duty'[t] = duty[t]
    BY <1>3, Rested DEF Refused
  <2>2. Counted'
    <3>1. \A t \in Stations : Own(t)' = Own(t) /\ IsFiniteSet(history'[t])
      BY <1>1, Same
    <3> QED
      BY <2>1, <3>1 DEF Inv, Counted
  <2>3. DutySound'
    <3>1. \A t \in Stations : history'[t] = history[t]
      BY <1>1
    <3> QED
      BY <2>1, <3>1 DEF Inv, DutySound
  <2>4. CASE d.act = "Fail"
    <3>1. d.of \in Ids
      BY <2>4 DEF Inv, DutySound
    <3>2. /\ worker' = [worker EXCEPT ![s][d.of] = "none"]
          /\ cancelled' = [cancelled EXCEPT ![s] = @ \ {d.of}]
      BY <2>4 DEF Refused
    <3>3. /\ worker' \in [Stations -> [Ids -> Workers]]
          /\ Claimed(s)' = Claimed(s) \ {d.of}
          /\ \A t \in Stations : t # s => Claimed(t)' = Claimed(t)
          /\ \A b \in Ids : worker'[b[1]][b] = "registered" => worker[b[1]][b] = "registered"
      BY <3>1, <3>2, Release
    <3>4. TypeOK'
      BY <1>1, <2>1, <3>2, <3>3 DEF Inv, TypeOK, Workers
    <3>5. WorkerSound'
      <4>1. \A t \in Stations : history'[t] = history[t]
        BY <1>1
      <4> QED
        BY <2>1, <3>3, <4>1 DEF Inv, WorkerSound
    <3>6. EnteredBegun'
      BY <1>1, <3>3 DEF Inv, EnteredBegun
    <3> QED
      BY <1>1, Same, <2>2, <2>3, <3>4, <3>5, <3>6 DEF Inv
  <2>5. CASE d.act # "Fail"
    <3>1. UNCHANGED <<worker, cancelled>>
      BY <2>5 DEF Refused
    <3>2. TypeOK'
      BY <1>1, <2>1, <3>1 DEF Inv, TypeOK
    <3>3. WorkerSound'
      <4>1. \A t \in Stations : Claimed(t)' = Claimed(t) /\ history'[t] = history[t]
        BY <1>1, <3>1 DEF Claimed
      <4> QED
        BY <1>3, <2>1, <2>5, <4>1 DEF Inv, WorkerSound
    <3>4. EnteredBegun'
      BY <1>1, <3>1 DEF Inv, EnteredBegun
    <3> QED
      BY <1>1, Same, <2>2, <2>3, <3>2, <3>3, <3>4 DEF Inv
  <2> QED
    BY <2>4, <2>5
<1> QED
  BY <1>2, <1>3

LEMMA RereadInv ==
    ASSUME Inv, NEW s \in Stations, Reread(s)
    PROVE  Inv'
<1> DEFINE a == duty[s].of
<1>1. CASE Refused(s)
  BY <1>1, RefusedInv
<1>2. CASE /\ duty' = [duty EXCEPT ![s] = Duty("Return", a)]
           /\ UNCHANGED <<history, marker, epoch, worker, cancelled, invoked, doing>>
  <2>1. duty[s].act = "Complete" /\ a \in Ids /\ a[1] = s /\ ~Ended(history[s], a)
    BY DEF Reread, Inv, DutySound
  <2>2. /\ duty' \in [Stations -> Duties]
        /\ duty'[s].act = "Return" /\ duty'[s].of = a
        /\ duty'[s].low = FALSE /\ duty'[s].preds = {}
        /\ \A t \in Stations : t # s => duty'[t] = duty[t]
    BY <1>2, <2>1, Turned
  <2>3. \A t \in Stations : history'[t] = history[t] /\ Own(t)' = Own(t) /\ IsFiniteSet(history'[t])
    BY <1>2, Same
  <2>4. TypeOK'
    BY <1>2, <2>2 DEF Inv, TypeOK
  <2>5. Counted'
    BY <2>2, <2>3 DEF Inv, Counted
  <2>6. DutySound'
    BY <2>1, <2>2, <2>3 DEF Inv, DutySound
  <2>7. WorkerSound'
    <3>1. \A t \in Stations : Claimed(t)' = Claimed(t)
      BY <1>2 DEF Claimed
    <3> QED
      BY <2>1, <2>2, <2>3, <3>1 DEF Inv, WorkerSound
  <2>8. EnteredBegun'
    BY <1>2 DEF Inv, EnteredBegun
  <2> QED
    BY <1>2, Same, <2>4, <2>5, <2>6, <2>7, <2>8 DEF Inv
<1> QED
  BY <1>1, <1>2 DEF Reread

\* What is claimed has not ended and was never entered.
LEMMA ClaimInv ==
    ASSUME Inv, ClaimFresh, NEW s \in Stations, Claim(s)
    PROVE  Inv'
<1> DEFINE a == duty[s].of
<1>1. /\ duty[s].act = "Claim"
      /\ duty' = [duty EXCEPT ![s] = NoDuty]
      /\ UNCHANGED <<history, marker, epoch, invoked, doing>>
      /\ \/ /\ worker' = [worker EXCEPT ![s][a] = "registered"]
            /\ \/ cancelled' = [cancelled EXCEPT ![s] = Claimed(s) \cup {a}]
               \/ cancelled' = [cancelled EXCEPT ![s] = @ \ {a}]
         \/ UNCHANGED <<worker, cancelled>>
  BY DEF Claim
<1>2. a \in Ids /\ a[1] = s /\ ~Ended(history[s], a) /\ invoked[a] = 0
  BY <1>1 DEF Inv, DutySound, ClaimFresh
<1> HIDE DEF a
<1>3. /\ duty' \in [Stations -> Duties]
      /\ duty'[s] = NoDuty /\ duty'[s].act = "none" /\ duty'[s].low = FALSE
      /\ duty'[s].preds = {}
      /\ \A t \in Stations : t # s => duty'[t] = duty[t]
  BY <1>1, Rested
<1>4. \A t \in Stations : history'[t] = history[t] /\ Own(t)' = Own(t) /\ IsFiniteSet(history'[t])
  BY <1>1, Same
<1>5. worker \in [Stations -> [Ids -> Workers]] /\ cancelled \in [Stations -> SUBSET Ids]
  BY DEF Inv, TypeOK, Workers
<1>6. /\ worker' \in [Stations -> [Ids -> Workers]]
      /\ \A b \in Ids : b # a => worker'[s][b] = worker[s][b]
      /\ \A t \in Stations : t # s => worker'[t] = worker[t]
  <2>1. CASE worker' = [worker EXCEPT ![s][a] = "registered"]
    <3>1. worker' \in [Stations -> [Ids -> Workers]]
      BY <1>2, <1>5, <2>1 DEF Workers
    <3> QED
      BY <1>2, <1>5, <2>1, <3>1
  <2>2. CASE worker' = worker
    BY <1>5, <2>2
  <2> QED
    BY <1>1, <2>1, <2>2
<1>7. cancelled' \in [Stations -> SUBSET Ids]
  <2>1. Claimed(s) \cup {a} \in SUBSET Ids /\ cancelled[s] \ {a} \in SUBSET Ids
    BY <1>2, <1>5 DEF Claimed
  <2> QED
    BY <1>1, <1>5, <2>1
<1>8. TypeOK'
  BY <1>1, <1>3, <1>6, <1>7 DEF Inv, TypeOK, Workers
<1>9. Counted' /\ DutySound'
  BY <1>3, <1>4 DEF Inv, Counted, DutySound
<1>10. WorkerSound'
  <2>1. /\ Claimed(s)' \subseteq Claimed(s) \cup {a}
        /\ \A t \in Stations : t # s => Claimed(t)' = Claimed(t)
    BY <1>6 DEF Claimed
  <2>2. \A b \in Claimed(s) : b[1] = s /\ ~Ended(history[s], b)
    BY <1>1 DEF Inv, WorkerSound
  <2> QED
    BY <1>2, <1>3, <1>4, <2>1, <2>2 DEF Inv, WorkerSound
<1>11. EnteredBegun'
  <2>1. \A b \in Ids : b # a => worker'[b[1]][b] = worker[b[1]][b]
    BY <1>6 DEF Ids
  <2> QED
    BY <1>1, <1>2, <2>1 DEF Inv, EnteredBegun
<1> QED
  BY <1>1, Same, <1>8, <1>9, <1>10, <1>11 DEF Inv

LEMMA CommitChildInv ==
    ASSUME Inv, NEW s \in Stations, CommitChild(s)
    PROVE  Inv'
<1> DEFINE d == duty[s]
<1>1. /\ UNCHANGED <<history, marker, epoch, invoked, doing>>
      /\ d.act = "Child"
      /\ duty' = [duty EXCEPT ![s] = NoDuty]
      /\ worker' = [worker EXCEPT ![s][d.of] = "none"]
      /\ cancelled' = [cancelled EXCEPT ![s] = @ \ {d.of}]
  BY DEF CommitChild
<1>2. d.of \in Ids
  BY <1>1 DEF Inv, DutySound
<1>3. /\ duty' \in [Stations -> Duties]
      /\ duty'[s] = NoDuty /\ duty'[s].act = "none" /\ duty'[s].low = FALSE
      /\ duty'[s].preds = {}
      /\ \A t \in Stations : t # s => duty'[t] = duty[t]
  BY <1>1, Rested
<1>4. /\ worker' \in [Stations -> [Ids -> Workers]]
      /\ Claimed(s)' = Claimed(s) \ {d.of}
      /\ \A t \in Stations : t # s => Claimed(t)' = Claimed(t)
      /\ \A b \in Ids : worker'[b[1]][b] = "registered" => worker[b[1]][b] = "registered"
  BY <1>1, <1>2, Release
<1>5. \A t \in Stations : history'[t] = history[t] /\ Own(t)' = Own(t) /\ IsFiniteSet(history'[t])
  BY <1>1, Same
<1>6. TypeOK'
  BY <1>1, <1>3, <1>4 DEF Inv, TypeOK, Workers
<1>7. Counted'
  BY <1>3, <1>5 DEF Inv, Counted
<1>8. DutySound'
  BY <1>3, <1>5 DEF Inv, DutySound
<1>9. WorkerSound'
  BY <1>3, <1>4, <1>5 DEF Inv, WorkerSound
<1>10. EnteredBegun'
  BY <1>1, <1>4 DEF Inv, EnteredBegun
<1> QED
  BY <1>1, Same, <1>6, <1>7, <1>8, <1>9, <1>10 DEF Inv

LEMMA RestartInv ==
    ASSUME Inv, NEW s \in Stations, Restart(s)
    PROVE  Inv'
<1>1. /\ UNCHANGED <<history, marker, invoked, doing>>
      /\ epoch' = [epoch EXCEPT ![s] = @ + 1] /\ epoch[s] < MaxEpoch
      /\ duty' = [duty EXCEPT ![s] = NoDuty]
      /\ worker' = [worker EXCEPT ![s] = [a \in Ids |-> "none"]]
      /\ cancelled' = [cancelled EXCEPT ![s] = {}]
  BY DEF Restart
<1>2. /\ duty' \in [Stations -> Duties]
      /\ duty'[s] = NoDuty /\ duty'[s].act = "none" /\ duty'[s].low = FALSE
      /\ duty'[s].preds = {}
      /\ \A t \in Stations : t # s => duty'[t] = duty[t]
  BY <1>1, Rested
<1>3. worker \in [Stations -> [Ids -> Workers]]
  BY DEF Inv, TypeOK, Workers
<1>4. /\ worker' \in [Stations -> [Ids -> Workers]]
      /\ worker'[s] = [a \in Ids |-> "none"]
      /\ \A t \in Stations : t # s => worker'[t] = worker[t]
  BY <1>1, <1>3 DEF Workers
<1>5. \A t \in Stations : history'[t] = history[t] /\ Own(t)' = Own(t) /\ IsFiniteSet(history'[t])
  BY <1>1, Same
<1>6. TypeOK'
  <2>1. epoch' \in [Stations -> 1 .. MaxEpoch]
    BY <1>1, Constants DEF Inv, TypeOK
  <2> QED
    BY <1>1, <1>2, <1>4, <2>1 DEF Inv, TypeOK, Workers
<1>7. Counted'
  BY <1>2, <1>5 DEF Inv, Counted
<1>8. DutySound'
  BY <1>2, <1>5 DEF Inv, DutySound
<1>9. WorkerSound'
  <2>1. Claimed(s)' = {} /\ \A t \in Stations : t # s => Claimed(t)' = Claimed(t)
    BY <1>4 DEF Claimed
  <2> QED
    BY <1>2, <1>5, <2>1 DEF Inv, WorkerSound
<1>10. EnteredBegun'
  <2>1. \A b \in Ids : worker'[b[1]][b] = "registered" => worker[b[1]][b] = "registered"
    BY <1>4 DEF Ids
  <2> QED
    BY <1>1, <2>1 DEF Inv, EnteredBegun
<1> QED
  BY <1>1, Same, <1>6, <1>7, <1>8, <1>9, <1>10 DEF Inv

-----------------------------------------------------------------------------
(* Steps that commit an event.                                             *)

\* There is a number for the next event.
LEMMA NumberType ==
    ASSUME Inv, NEW s \in Stations, Cardinality(Own(s)) <= Events
    PROVE  <<s, Number(s)>> \in Ids
<1>1. Number(s) = Cardinality(Own(s)) + 1
  BY DEF Number, Own
<1>2. Cardinality(Own(s)) \in Nat
  BY OwnCounts
<1>3. Number(s) \in Numbers
  BY <1>1, <1>2, Constants DEF Numbers
<1> QED
  BY <1>3 DEF Ids

LEMMA EventType ==
    ASSUME Inv, NEW s \in Stations, Cardinality(Own(s)) <= Events,
           NEW kind \in Kinds, NEW a \in Ids \cup {None}, NEW preds \in SUBSET Ids
    PROVE  LET e == Event(s, kind, a, preds) IN
           /\ e \in RunEvents
           /\ e.id[1] = s /\ e.kind = kind /\ e.of = a /\ e.preds = preds
<1>1. <<s, Number(s)>> \in Ids
  BY NumberType
<1>2. 0 \in 0 .. MaxEpoch
  BY Constants
<1> QED
  BY <1>1, <1>2 DEF Event, RunEvents

LEMMA LeaseType ==
    ASSUME Inv, NEW s \in Stations, Cardinality(Own(s)) <= Events,
           NEW r \in Ranks, NEW preds \in SUBSET Ids
    PROVE  LET e == Lease(s, r, preds) IN
           /\ e \in RunEvents
           /\ e.id[1] = s /\ e.kind = "Leased" /\ e.of = e.id /\ e.preds = preds
           /\ e.of \in Ids
<1>1. <<s, Number(s)>> \in Ids
  BY NumberType
<1>2. epoch[s] \in 0 .. MaxEpoch
  BY Constants DEF Inv, TypeOK
<1>3. "Leased" \in Kinds
  BY DEF Kinds
<1> QED
  BY <1>1, <1>2, <1>3 DEF Lease, Event, RunEvents

\* What a duty or a request cites are events of the Station.
LEMMA CitedType ==
    ASSUME Inv, NEW s \in Stations, NEW p, p \subseteq {e.id : e \in history[s]}
    PROVE  p \in SUBSET Ids
BY DEF Inv, TypeOK, RunEvents

\* An event that ends no Attempt, and begins none, changes neither.
LEMMA Spared ==
    ASSUME NEW h, NEW k, NEW e, k = h \cup {e}, NEW a
    PROVE  /\ e.kind \notin {"Returned", "Failed", "Unknown"} \/ e.of # a =>
                 (Ended(k, a) <=> Ended(h, a))
           /\ e.kind # "Began" \/ e.of # a => (Begun(k, a) <=> Begun(h, a))
<1>1. e.kind \notin {"Returned", "Failed", "Unknown"} \/ e.of # a => (Ended(k, a) <=> Ended(h, a))
  BY DEF Ended
<1>2. ASSUME e.kind # "Began" \/ e.of # a
      PROVE  Begun(k, a) <=> Begun(h, a)
  <2>1. Of(k, "Began", a) = Of(h, "Began", a)
    BY <1>2 DEF Of
  <2> QED
    BY <2>1, BegunOf
<1> QED
  BY <1>1, <1>2

\* Only a choice or a return can be the second.
LEMMA OnceKept ==
    ASSUME Inv, NEW s \in Stations, NEW e, e.kind \notin {"Accepted", "Returned"},
           history'[s] = history[s] \cup {e},
           \A t \in Stations : t # s => history'[t] = history[t]
    PROVE  OnceAtHome'
<1>1. \A t \in Stations : /\ Facts(history'[t], "Accepted") = Facts(history[t], "Accepted")
                          /\ Facts(history'[t], "Returned") = Facts(history[t], "Returned")
  BY DEF Facts
<1> QED
  BY <1>1, Constants DEF Inv, OnceAtHome

\* A request or a choice of a user: an event beside the duty in flight.
LEMMA Beside ==
    ASSUME Inv, NEW s \in Stations, NEW e, e \in RunEvents, e.id[1] = s,
           e.preds = Heads(history[s]),
           e.kind \in {"CancelAsked", "Leased", "Accepted", "Rejected"},
           e.kind = "Leased" => e.of \in Ids /\ e.of = e.id,
           e.kind = "Accepted" => s = Starter,
           Cardinality(history[s]) < Events,
           history' = [history EXCEPT ![s] = @ \cup {e}],
           UNCHANGED <<epoch, duty, worker, invoked, doing>>,
           marker' \in [Stations -> BOOLEAN], cancelled' \in [Stations -> SUBSET Ids],
           OnceAtHome'
    PROVE  Inv'
<1>1. /\ e.preds \subseteq {f.id : f \in history[s]}
      /\ e.kind \in OfHolder => e.of \in Ids /\ e.of[1] = s
  BY HeadsKnown DEF OfHolder
<1>2. /\ history' \in [Stations -> SUBSET RunEvents]
      /\ history'[s] = history[s] \cup {e}
      /\ \A t \in Stations : t # s => history'[t] = history[t] /\ Own(t)' = Own(t)
      /\ CausallyClosed' /\ OwnKnown' /\ Written'
      /\ \A t \in Stations : IsFiniteSet(history'[t])
      /\ Cardinality(Own(s)') \in Nat
      /\ Cardinality(Own(s)') <= Cardinality(Own(s)) + 1
  BY <1>1, Appended
<1>3. \A a : /\ Ended(history'[s], a) <=> Ended(history[s], a)
             /\ Begun(history'[s], a) <=> Begun(history[s], a)
  BY <1>2, Spared
<1>4. \A t \in Stations : \A a : /\ Ended(history'[t], a) <=> Ended(history[t], a)
                                 /\ Begun(history'[t], a) <=> Begun(history[t], a)
  BY <1>2, <1>3
<1>5. TypeOK'
  BY <1>2 DEF Inv, TypeOK
<1>6. Counted'
  <2>1. Cardinality(Own(s)') <= Events /\ Cardinality(Own(s)') <= Events + 1
    BY <1>2, OwnCounts, Constants
  <2>2. ASSUME NEW t \in Stations
        PROVE  /\ IsFiniteSet(history'[t])
               /\ Cardinality(Own(t)') <= Events + 1
               /\ duty'[t].low /\ duty'[t].act # "Child" => Cardinality(Own(t)') <= Events
    <3>1. CASE t = s
      BY <1>2, <2>1, <3>1
    <3>2. CASE t # s
      <4>1. Own(t)' = Own(t) /\ duty'[t] = duty[t]
        BY <1>2, <3>2
      <4>2. Cardinality(Own(t)') = Cardinality(Own(t))
        BY <4>1
      <4> QED
        BY <1>2, <4>1, <4>2 DEF Inv, Counted
    <3> QED
      BY <3>1, <3>2
  <2> QED
    BY <2>2 DEF Counted
<1>7. DutySound'
  <2>1. \A t \in Stations : {f.id : f \in history[t]} \subseteq {f.id : f \in history'[t]}
    BY <1>2
  <2> QED
    BY <1>4, <2>1 DEF Inv, DutySound
<1>8. WorkerSound'
  <2>1. \A t \in Stations : Claimed(t)' = Claimed(t)
    BY DEF Claimed
  <2> QED
    BY <1>4, <2>1 DEF Inv, WorkerSound
<1>9. EnteredBegun'
  <2>1. \A a \in Ids : a[1] \in Stations
    BY DEF Ids
  <2> QED
    BY <1>4, <2>1 DEF Inv, EnteredBegun
<1> QED
  BY <1>2, <1>5, <1>6, <1>7, <1>8, <1>9 DEF Inv

LEMMA CancelInv ==
    ASSUME Inv, NEW s \in Stations, Cancel(s)
    PROVE  Inv'
<1> DEFINE e == Event(s, "CancelAsked", None, Heads(history[s]))
<1>1. /\ history' = [history EXCEPT ![s] = @ \cup {e}]
      /\ cancelled' = [cancelled EXCEPT ![s] = Claimed(s)]
      /\ UNCHANGED <<marker, epoch, duty, worker, invoked, doing>>
      /\ Cardinality(history[s]) < Events
  BY DEF Cancel
<1>2. Cardinality(Own(s)) <= Events
  BY <1>1, OwnCounts, Constants
<1>3. Heads(history[s]) \in SUBSET Ids
  BY HeadsKnown, CitedType
<1>4. "CancelAsked" \in Kinds
  BY DEF Kinds
<1>5. e \in RunEvents /\ e.id[1] = s /\ e.kind = "CancelAsked" /\ e.preds = Heads(history[s])
  BY <1>2, <1>3, <1>4, EventType
<1> HIDE DEF e
<1>6. marker' \in [Stations -> BOOLEAN] /\ cancelled' \in [Stations -> SUBSET Ids]
  BY <1>1 DEF Inv, TypeOK, Claimed
<1>7. /\ history'[s] = history[s] \cup {e}
      /\ \A t \in Stations : t # s => history'[t] = history[t]
  BY <1>1 DEF Inv, TypeOK
<1>8. OnceAtHome'
  BY <1>5, <1>7, OnceKept
<1> QED
  BY <1>1, <1>5, <1>6, <1>8, Beside

LEMMA RetryInv ==
    ASSUME Inv, NEW s \in Stations, Retry(s)
    PROVE  Inv'
<1>1. PICK r \in FreshRanks :
         history' = [history EXCEPT ![s] = @ \cup {Lease(s, r, Heads(history[s]))}]
  BY DEF Retry
<1> DEFINE e == Lease(s, r, Heads(history[s]))
<1>2. /\ UNCHANGED <<marker, epoch, duty, worker, cancelled, invoked, doing>>
      /\ Cardinality(history[s]) < Events
  BY DEF Retry
<1>3. Cardinality(Own(s)) <= Events
  BY <1>2, OwnCounts, Constants
<1>4. Heads(history[s]) \in SUBSET Ids /\ r \in Ranks
  BY HeadsKnown, CitedType DEF FreshRanks
<1>5. /\ e \in RunEvents /\ e.id[1] = s /\ e.kind = "Leased" /\ e.of = e.id
      /\ e.preds = Heads(history[s]) /\ e.of \in Ids
  BY <1>3, <1>4, LeaseType
<1>6. history' = [history EXCEPT ![s] = @ \cup {e}]
  BY <1>1
<1> HIDE DEF e
<1>7. marker' \in [Stations -> BOOLEAN] /\ cancelled' \in [Stations -> SUBSET Ids]
  BY <1>2 DEF Inv, TypeOK
<1>8. /\ history'[s] = history[s] \cup {e}
      /\ \A t \in Stations : t # s => history'[t] = history[t]
  BY <1>6 DEF Inv, TypeOK
<1>9. OnceAtHome'
  BY <1>5, <1>8, OnceKept
<1> QED
  BY <1>2, <1>5, <1>6, <1>7, <1>9, Beside

LEMMA TryStagedInv ==
    ASSUME Inv, NEW s \in Stations, TryStaged(s)
    PROVE  Inv'
<1>1. PICK r \in FreshRanks :
         history' = [history EXCEPT ![s] = @ \cup {Lease(s, r, Heads(history[s]))}]
  BY DEF TryStaged
<1> DEFINE e == Lease(s, r, Heads(history[s]))
<1>2. /\ UNCHANGED <<marker, epoch, duty, worker, cancelled, invoked, doing>>
      /\ Cardinality(history[s]) < Events
  BY DEF TryStaged
<1>3. Cardinality(Own(s)) <= Events
  BY <1>2, OwnCounts, Constants
<1>4. Heads(history[s]) \in SUBSET Ids /\ r \in Ranks
  BY HeadsKnown, CitedType DEF FreshRanks
<1>5. /\ e \in RunEvents /\ e.id[1] = s /\ e.kind = "Leased" /\ e.of = e.id
      /\ e.preds = Heads(history[s]) /\ e.of \in Ids
  BY <1>3, <1>4, LeaseType
<1>6. history' = [history EXCEPT ![s] = @ \cup {e}]
  BY <1>1
<1> HIDE DEF e
<1>7. marker' \in [Stations -> BOOLEAN] /\ cancelled' \in [Stations -> SUBSET Ids]
  BY <1>2 DEF Inv, TypeOK
<1>8. /\ history'[s] = history[s] \cup {e}
      /\ \A t \in Stations : t # s => history'[t] = history[t]
  BY <1>6 DEF Inv, TypeOK
<1>9. OnceAtHome'
  BY <1>5, <1>8, OnceKept
<1> QED
  BY <1>2, <1>5, <1>6, <1>7, <1>9, Beside

LEMMA ChooseInv ==
    ASSUME Inv, NEW s \in Stations, Choose(s)
    PROVE  Inv'
<1>1. PICK l \in Leases(history[s]), c \in Choices :
         history' = [history EXCEPT ![s] = @ \cup {Event(s, c, l.id, Heads(history[s]))}]
  BY DEF Choose
<1> DEFINE e == Event(s, c, l.id, Heads(history[s]))
<1>2. /\ marker' = [marker EXCEPT ![s] = FALSE]
      /\ UNCHANGED <<epoch, duty, worker, cancelled, invoked, doing>>
      /\ Cardinality(history[s]) < Events
      /\ s = Starter /\ Unresolved(history[s])
  BY DEF Choose, Owner
<1>3. Cardinality(Own(s)) <= Events
  BY <1>2, OwnCounts, Constants
<1>4. Heads(history[s]) \in SUBSET Ids
  BY HeadsKnown, CitedType
<1>5. c \in {"Accepted", "Rejected"} /\ c \in Kinds
  BY ConstantsAssumption DEF ConstantsAssumption, Kinds
<1>6. l.id \in Ids
  BY DEF Leases, Facts, Inv, TypeOK, RunEvents
<1>7. e \in RunEvents /\ e.id[1] = s /\ e.kind = c /\ e.preds = Heads(history[s])
  BY <1>3, <1>4, <1>5, <1>6, EventType
<1>8. history' = [history EXCEPT ![s] = @ \cup {e}]
  BY <1>1
<1> HIDE DEF e
<1>9. marker' \in [Stations -> BOOLEAN] /\ cancelled' \in [Stations -> SUBSET Ids]
  BY <1>2 DEF Inv, TypeOK
<1>10. /\ history'[s] = history[s] \cup {e}
       /\ \A t \in Stations : t # s => history'[t] = history[t]
  BY <1>8 DEF Inv, TypeOK
<1>11. OnceAtHome'
  <2>1. Facts(history[s], "Accepted") = {}
    BY <1>2 DEF Unresolved
  <2>2. Facts(history'[s], "Accepted") \subseteq {e}
    BY <1>10, <2>1 DEF Facts
  <2>3. \A t \in Stations : Facts(history'[t], "Returned") = Facts(history[t], "Returned")
    BY <1>5, <1>7, <1>10 DEF Facts
  <2> QED
    BY <1>2, <2>2, <2>3 DEF Inv, OnceAtHome
<1> QED
  BY <1>2, <1>5, <1>7, <1>8, <1>9, <1>11, Beside

\* The event of a duty lands: what becomes of the histories and their count.
LEMMA Landed ==
    ASSUME Inv, NEW s \in Stations, duty[s].low, duty[s].act # "Child",
           NEW e, e \in RunEvents, e.id[1] = s, e.preds = duty[s].preds,
           e.kind \in OfHolder => e.of \in Ids /\ e.of[1] = s,
           e.kind = "Leased" => e.of = e.id,
           e.kind # "Accepted",
           history' = [history EXCEPT ![s] = @ \cup {e}],
           duty'[s].low = FALSE,
           \A t \in Stations : t # s => duty'[t] = duty[t]
    PROVE  /\ history' \in [Stations -> SUBSET RunEvents]
           /\ history'[s] = history[s] \cup {e}
           /\ \A t \in Stations : t # s => history'[t] = history[t]
           /\ CausallyClosed' /\ OwnKnown' /\ Written' /\ Counted'
<1>1. e.preds \subseteq {f.id : f \in history[s]}
  BY DEF Inv, DutySound
<1>2. /\ history' \in [Stations -> SUBSET RunEvents]
      /\ history'[s] = history[s] \cup {e}
      /\ \A t \in Stations : t # s => history'[t] = history[t] /\ Own(t)' = Own(t)
      /\ CausallyClosed' /\ OwnKnown' /\ Written'
      /\ \A t \in Stations : IsFiniteSet(history'[t])
      /\ Cardinality(Own(s)') \in Nat
      /\ Cardinality(Own(s)') <= Cardinality(Own(s)) + 1
  BY <1>1, Appended
<1>3. Counted'
  <2>1. Cardinality(Own(s)) <= Events
    BY DEF Inv, Counted
  <2>2. Cardinality(Own(s)') <= Events + 1
    BY <1>2, <2>1, OwnCounts, Constants
  <2>3. ASSUME NEW t \in Stations
        PROVE  /\ IsFiniteSet(history'[t])
               /\ Cardinality(Own(t)') <= Events + 1
               /\ duty'[t].low /\ duty'[t].act # "Child" => Cardinality(Own(t)') <= Events
    <3>1. CASE t = s
      BY <1>2, <2>2, <3>1
    <3>2. CASE t # s
      <4>1. Own(t)' = Own(t) /\ duty'[t] = duty[t]
        BY <1>2, <3>2
      <4>2. Cardinality(Own(t)') = Cardinality(Own(t))
        BY <4>1
      <4> QED
        BY <1>2, <4>1, <4>2 DEF Inv, Counted
    <3> QED
      BY <3>1, <3>2
  <2> QED
    BY <2>3 DEF Counted
<1> QED
  BY <1>2, <1>3

\* A duty whose event neither begins nor ends an Attempt.
LEMMA Plain ==
    ASSUME Inv, NEW s \in Stations, duty[s].low, duty[s].act \in {"Try", "Presume"},
           NEW e, e \in RunEvents, e.id[1] = s, e.preds = duty[s].preds,
           e.kind \in {"Leased", "Presumed"},
           e.kind = "Leased" => e.of \in Ids /\ e.of = e.id,
           history' = [history EXCEPT ![s] = @ \cup {e}],
           duty' = [duty EXCEPT ![s] = NoDuty],
           UNCHANGED <<marker, epoch, worker, cancelled, invoked, doing>>
    PROVE  Inv'
<1>1. /\ duty' \in [Stations -> Duties]
      /\ duty'[s] = NoDuty /\ duty'[s].act = "none" /\ duty'[s].low = FALSE
      /\ duty'[s].preds = {}
      /\ \A t \in Stations : t # s => duty'[t] = duty[t]
  BY Rested
<1>2. e.kind \in OfHolder => e.of \in Ids /\ e.of[1] = s
  BY DEF OfHolder
<1>3. /\ history' \in [Stations -> SUBSET RunEvents]
      /\ history'[s] = history[s] \cup {e}
      /\ \A t \in Stations : t # s => history'[t] = history[t]
      /\ CausallyClosed' /\ OwnKnown' /\ Written' /\ Counted'
  BY <1>1, <1>2, Landed
<1>4. \A t \in Stations : \A a : /\ Ended(history'[t], a) <=> Ended(history[t], a)
                                 /\ Begun(history'[t], a) <=> Begun(history[t], a)
  BY <1>3, Spared
<1>5. OnceAtHome'
  BY <1>3, OnceKept
<1>6. TypeOK'
  BY <1>1, <1>3 DEF Inv, TypeOK
<1>7. DutySound'
  BY <1>1, <1>3 DEF Inv, DutySound
<1>8. WorkerSound'
  <2>1. \A t \in Stations : Claimed(t)' = Claimed(t)
    BY DEF Claimed
  <2>2. \A b \in Claimed(s) : b[1] = s /\ ~Ended(history[s], b)
    BY DEF Inv, WorkerSound
  <2>3. ASSUME NEW t \in Stations, NEW b \in Claimed(t)'
        PROVE  /\ b[1] = t
               /\ Ended(history'[t], b) => duty'[t].act \in {"Child", "Fail"} /\ duty'[t].of = b
    <3>1. b \in Claimed(t)
      BY <2>1, <2>3
    <3>2. CASE t = s
      BY <1>4, <2>2, <3>1, <3>2
    <3>3. CASE t # s
      <4>1. duty'[t] = duty[t]
        BY <1>1, <3>3
      <4>2. history'[t] = history[t]
        BY <1>3, <3>3
      <4>3. /\ b[1] = t
            /\ Ended(history[t], b) => duty[t].act \in {"Child", "Fail"} /\ duty[t].of = b
        BY <3>1 DEF Inv, WorkerSound
      <4> QED
        BY <4>1, <4>2, <4>3
    <3> QED
      BY <3>2, <3>3
  <2> QED
    BY <2>3 DEF WorkerSound
<1>9. EnteredBegun'
  <2>1. \A a \in Ids : a[1] \in Stations
    BY DEF Ids
  <2> QED
    BY <1>4, <2>1 DEF Inv, EnteredBegun
<1> QED
  BY <1>3, <1>5, <1>6, <1>7, <1>8, <1>9 DEF Inv

\* Of a lowered duty: there is a number for its event, and it cites events.
LEMMA Lowered ==
    ASSUME Inv, NEW s \in Stations, duty[s].low, duty[s].act # "Child"
    PROVE  Cardinality(Own(s)) <= Events /\ duty[s].preds \in SUBSET Ids
<1>1. Cardinality(Own(s)) <= Events
  BY DEF Inv, Counted
<1>2. duty[s].preds \in SUBSET Ids
  BY CitedType DEF Inv, DutySound
<1> QED
  BY <1>1, <1>2

LEMMA CommitTryInv ==
    ASSUME Inv, NEW s \in Stations, CommitTry(s)
    PROVE  Inv'
<1>1. PICK r \in FreshRanks :
         history' = [history EXCEPT ![s] = @ \cup {Lease(s, r, duty[s].preds)}]
  BY DEF CommitTry
<1> DEFINE e == Lease(s, r, duty[s].preds)
<1>2. /\ duty[s].low /\ duty[s].act = "Try"
      /\ duty' = [duty EXCEPT ![s] = NoDuty]
      /\ UNCHANGED <<marker, epoch, worker, cancelled, invoked, doing>>
  BY DEF CommitTry
<1>3. Cardinality(Own(s)) <= Events /\ duty[s].preds \in SUBSET Ids /\ r \in Ranks
  BY <1>2, Lowered DEF FreshRanks
<1>4. /\ e \in RunEvents /\ e.id[1] = s /\ e.kind = "Leased" /\ e.of = e.id
      /\ e.preds = duty[s].preds /\ e.of \in Ids
  BY <1>3, LeaseType
<1>5. history' = [history EXCEPT ![s] = @ \cup {e}]
  BY <1>1
<1> HIDE DEF e
<1> QED
  BY <1>2, <1>4, <1>5, Plain

LEMMA CommitPresumeInv ==
    ASSUME Inv, NEW s \in Stations, CommitPresume(s)
    PROVE  Inv'
<1> DEFINE e == Event(s, "Presumed", duty[s].of, duty[s].preds)
<1>1. /\ duty[s].low /\ duty[s].act = "Presume"
      /\ history' = [history EXCEPT ![s] = @ \cup {e}]
      /\ duty' = [duty EXCEPT ![s] = NoDuty]
      /\ UNCHANGED <<marker, epoch, worker, cancelled, invoked, doing>>
  BY DEF CommitPresume
<1>2. Cardinality(Own(s)) <= Events /\ duty[s].preds \in SUBSET Ids
  BY <1>1, Lowered
<1>3. duty[s].of \in Ids /\ "Presumed" \in Kinds
  BY <1>1 DEF Inv, DutySound, Kinds
<1>4. e \in RunEvents /\ e.id[1] = s /\ e.kind = "Presumed" /\ e.preds = duty[s].preds
  BY <1>2, <1>3, EventType
<1> HIDE DEF e
<1> QED
  BY <1>1, <1>4, Plain

LEMMA CommitBeginInv ==
    ASSUME Inv, NEW s \in Stations, CommitBegin(s)
    PROVE  Inv'
<1> DEFINE a == duty[s].of
           e == Event(s, "Began", a, duty[s].preds)
<1>1. /\ duty[s].low /\ duty[s].act = "Begin"
      /\ history' = [history EXCEPT ![s] = @ \cup {e}]
      /\ duty' = [duty EXCEPT ![s] = Duty("Claim", a)]
      /\ UNCHANGED <<marker, epoch, worker, cancelled, invoked, doing>>
  BY DEF CommitBegin
<1>2. Cardinality(Own(s)) <= Events /\ duty[s].preds \in SUBSET Ids
  BY <1>1, Lowered
<1>3. /\ a \in Ids /\ a[1] = s
      /\ ~Ended(history[s], a) /\ ~Begun(history[s], a)
  BY <1>1 DEF Inv, DutySound
<1>4. e \in RunEvents /\ e.id[1] = s /\ e.kind = "Began" /\ e.of = a /\ e.preds = duty[s].preds
  <2>1. "Began" \in Kinds
    BY DEF Kinds
  <2> QED
    BY <1>2, <1>3, <2>1, EventType
<1> HIDE DEF e, a
<1>5. /\ duty' \in [Stations -> Duties]
      /\ duty'[s].act = "Claim" /\ duty'[s].of = a
      /\ duty'[s].low = FALSE /\ duty'[s].preds = {}
      /\ \A t \in Stations : t # s => duty'[t] = duty[t]
  BY <1>1, <1>3, Turned
<1>6. /\ history' \in [Stations -> SUBSET RunEvents]
      /\ history'[s] = history[s] \cup {e}
      /\ \A t \in Stations : t # s => history'[t] = history[t]
      /\ CausallyClosed' /\ OwnKnown' /\ Written' /\ Counted'
  <2>1. /\ e.kind \in OfHolder => e.of \in Ids /\ e.of[1] = s
        /\ e.kind # "Leased" /\ e.kind # "Accepted" /\ duty[s].act # "Child"
    BY <1>1, <1>3, <1>4
  <2> QED
    BY <1>1, <1>4, <1>5, <2>1, Landed
<1>7. \A t \in Stations : \A b : /\ Ended(history'[t], b) <=> Ended(history[t], b)
                                 /\ b # a => (Begun(history'[t], b) <=> Begun(history[t], b))
  <2>1. \A b : /\ Ended(history'[s], b) <=> Ended(history[s], b)
               /\ b # a => (Begun(history'[s], b) <=> Begun(history[s], b))
    BY <1>4, <1>6, Spared
  <2> QED
    BY <1>6, <2>1
<1>8. OnceAtHome'
  BY <1>4, <1>6, OnceKept
<1>9. TypeOK'
  BY <1>1, <1>5, <1>6 DEF Inv, TypeOK
<1>10. DutySound'
  <2>1. ASSUME NEW t \in Stations, t # s
        PROVE  duty'[t] = duty[t] /\ history'[t] = history[t]
    BY <1>5, <1>6, <2>1
  <2>2. ~Ended(history'[s], a)
    BY <1>3, <1>7
  <2> QED
    BY <1>3, <1>5, <2>1, <2>2 DEF Inv, DutySound
<1>11. WorkerSound'
  <2>1. \A t \in Stations : Claimed(t)' = Claimed(t)
    BY <1>1 DEF Claimed
  <2>2. \A b \in Claimed(s) : b[1] = s /\ ~Ended(history[s], b)
    BY <1>1 DEF Inv, WorkerSound
  <2> QED
    BY <1>5, <1>7, <2>1, <2>2 DEF Inv, WorkerSound
<1>12. EnteredBegun'
  <2>1. invoked[a] \in Nat /\ ~(invoked[a] > 0)
    BY <1>3 DEF Inv, EnteredBegun, TypeOK
  <2>2. \A b \in Ids : b[1] \in Stations
    BY DEF Ids
  <2>3. \A b \in Ids : b # a /\ invoked[b] > 0 => Begun(history'[b[1]], b)
    BY <1>7, <2>2 DEF Inv, EnteredBegun
  <2> QED
    BY <1>1, <2>1, <2>3 DEF Inv, EnteredBegun
<1> QED
  BY <1>6, <1>8, <1>9, <1>10, <1>11, <1>12 DEF Inv

LEMMA CommitEndInv ==
    ASSUME Inv, NEW s \in Stations, CommitEnd(s)
    PROVE  Inv'
<1> DEFINE a == duty[s].of
           act == duty[s].act
           more == act = "Return" /\ "spawn" \in doing
           e == Event(s, KindOf(act), a, duty[s].preds)
<1>1. /\ duty[s].low /\ act \in {"Return", "Fail", "Recover"}
      /\ history' = [history EXCEPT ![s] = @ \cup {e}]
      /\ duty' = [duty EXCEPT ![s] = IF more THEN Duty("Child", a) ELSE NoDuty]
      /\ IF more
           THEN UNCHANGED <<worker, cancelled>>
           ELSE /\ worker' = [worker EXCEPT ![s][a] = "none"]
                /\ cancelled' = [cancelled EXCEPT ![s] = @ \ {a}]
      /\ UNCHANGED <<marker, epoch, invoked, doing>>
  BY DEF CommitEnd
<1>2. Cardinality(Own(s)) <= Events /\ duty[s].preds \in SUBSET Ids
  BY <1>1, Lowered
<1>3. a \in Ids /\ a[1] = s /\ (act = "Return" => ~Ended(history[s], a))
  BY <1>1 DEF Inv, DutySound
<1>4. /\ KindOf(act) \in {"Returned", "Failed", "Unknown"} /\ KindOf(act) \in Kinds
      /\ KindOf(act) = "Returned" => act = "Return"
  BY <1>1 DEF KindOf, Kinds
<1>5. e \in RunEvents /\ e.id[1] = s /\ e.kind = KindOf(act) /\ e.of = a /\ e.preds = duty[s].preds
  BY <1>2, <1>3, <1>4, EventType
<1> HIDE DEF e
<1>6. /\ duty' \in [Stations -> Duties]
      /\ duty'[s].low = FALSE /\ duty'[s].preds = {}
      /\ more => duty'[s].act = "Child" /\ duty'[s].of = a
      /\ ~more => duty'[s] = NoDuty /\ duty'[s].act = "none"
      /\ \A t \in Stations : t # s => duty'[t] = duty[t]
  <2>1. CASE more
    <3>1. duty' = [duty EXCEPT ![s] = Duty("Child", a)]
      BY <1>1, <2>1
    <3> QED
      BY <1>3, <2>1, <3>1, Turned
  <2>2. CASE ~more
    <3>1. duty' = [duty EXCEPT ![s] = NoDuty]
      BY <1>1, <2>2
    <3> QED
      BY <2>2, <3>1, Rested
  <2> QED
    BY <2>1, <2>2
<1>7. /\ history' \in [Stations -> SUBSET RunEvents]
      /\ history'[s] = history[s] \cup {e}
      /\ \A t \in Stations : t # s => history'[t] = history[t]
      /\ CausallyClosed' /\ OwnKnown' /\ Written' /\ Counted'
  <2>1. /\ e.kind \in OfHolder => e.of \in Ids /\ e.of[1] = s
        /\ e.kind # "Leased" /\ e.kind # "Accepted" /\ duty[s].act # "Child"
    BY <1>1, <1>3, <1>4, <1>5
  <2>2. /\ duty[s].low /\ history' = [history EXCEPT ![s] = @ \cup {e}]
        /\ duty'[s].low = FALSE /\ \A t \in Stations : t # s => duty'[t] = duty[t]
        /\ e \in RunEvents /\ e.id[1] = s /\ e.preds = duty[s].preds
    BY <1>1, <1>5, <1>6
  <2> HIDE DEF more, a, act
  <2> QED
    BY <2>1, <2>2, Landed
<1>8. \A b : /\ b # a => (Ended(history'[s], b) <=> Ended(history[s], b))
             /\ Begun(history'[s], b) <=> Begun(history[s], b)
  BY <1>4, <1>5, <1>7, Spared
<1>9. OnceAtHome'
  <2>1. CASE act # "Return"
    <3>1. e.kind \notin {"Accepted", "Returned"}
      BY <1>4, <1>5, <2>1
    <3> QED
      BY <1>7, <3>1, OnceKept
  <2>2. CASE act = "Return"
    <3>1. \A f \in history[s] : f.kind = "Returned" => f.of # a
      BY <1>3, <2>2 DEF Ended
    <3>2. Facts(history'[s], "Returned") \subseteq Facts(history[s], "Returned") \cup {e}
      BY <1>7 DEF Facts
    <3>3. \A t \in Stations : Facts(history'[t], "Accepted") = Facts(history[t], "Accepted")
      BY <1>4, <1>5, <1>7 DEF Facts
    <3>4. ASSUME NEW f \in Facts(history'[s], "Returned"), NEW g \in Facts(history'[s], "Returned"),
                 f.of[1] = s, f.of = g.of
          PROVE  f = g
      <4>1. \A h \in Facts(history[s], "Returned") : h.of # a
        BY <3>1 DEF Facts
      <4>2. CASE f = e \/ g = e
        BY <1>5, <3>2, <3>4, <4>1, <4>2
      <4>3. CASE f # e /\ g # e
        BY <3>2, <3>4, <4>3 DEF Inv, OnceAtHome
      <4> QED
        BY <4>2, <4>3
    <3>5. \A t \in Stations : t # s => Facts(history'[t], "Returned") = Facts(history[t], "Returned")
      BY <1>7
    <3> QED
      BY <3>3, <3>4, <3>5, Constants DEF Inv, OnceAtHome
  <2> QED
    BY <2>1, <2>2
<1>10. /\ worker' \in [Stations -> [Ids -> Workers]]
       /\ cancelled' \in [Stations -> SUBSET Ids]
       /\ Claimed(s)' = IF more THEN Claimed(s) ELSE Claimed(s) \ {a}
       /\ \A t \in Stations : t # s => Claimed(t)' = Claimed(t)
       /\ \A b \in Ids : worker'[b[1]][b] = "registered" => worker[b[1]][b] = "registered"
  <2>1. CASE more
    <3>1. UNCHANGED <<worker, cancelled>>
      BY <1>1, <2>1
    <3> QED
      BY <2>1, <3>1 DEF Inv, TypeOK, Workers, Claimed
  <2>2. CASE ~more
    <3>1. /\ worker' = [worker EXCEPT ![s][a] = "none"]
          /\ cancelled' = [cancelled EXCEPT ![s] = @ \ {a}]
      BY <1>1, <2>2
    <3>2. cancelled' \in [Stations -> SUBSET Ids]
      BY <3>1 DEF Inv, TypeOK
    <3> QED
      BY <1>3, <2>2, <3>1, <3>2, Release
  <2> QED
    BY <2>1, <2>2
<1> HIDE DEF more, a, act
<1>11. TypeOK'
  BY <1>1, <1>6, <1>7, <1>10 DEF Inv, TypeOK, Workers
<1>12. DutySound'
  <2>1. ASSUME NEW t \in Stations, t # s
        PROVE  duty'[t] = duty[t] /\ history'[t] = history[t]
    BY <1>6, <1>7, <2>1
  <2>2. /\ duty'[s].preds \subseteq {f.id : f \in history'[s]}
        /\ duty'[s].act \in {"Begin", "Claim", "Complete", "Return", "Child", "Fail", "Recover"} =>
              duty'[s].of \in Ids /\ duty'[s].of[1] = s
        /\ duty'[s].act \notin {"Begin", "Claim", "Complete", "Return", "Recover", "Presume"}
        /\ duty'[s].act = "none" => duty'[s] = NoDuty
    BY <1>3, <1>6
  <2> QED
    BY <2>1, <2>2 DEF Inv, DutySound
<1>13. WorkerSound'
  <2>1. \A b \in Claimed(s) : b[1] = s /\ (b # a => ~Ended(history[s], b))
    BY DEF Inv, WorkerSound, a
  <2>2. ASSUME NEW t \in Stations, NEW b \in Claimed(t)'
        PROVE  /\ b[1] = t
               /\ Ended(history'[t], b) => duty'[t].act \in {"Child", "Fail"} /\ duty'[t].of = b
    <3>1. CASE t = s
      <4>1. b \in Claimed(s) /\ (~more => b # a)
        BY <1>10, <2>2, <3>1
      <4>2. CASE b = a
        BY <1>6, <2>1, <3>1, <4>1, <4>2
      <4>3. CASE b # a
        BY <1>8, <2>1, <3>1, <4>1, <4>3
      <4> QED
        BY <4>2, <4>3
    <3>2. CASE t # s
      <4>1. duty'[t] = duty[t] /\ history'[t] = history[t] /\ b \in Claimed(t)
        BY <1>6, <1>7, <1>10, <2>2, <3>2
      <4>2. /\ b[1] = t
            /\ Ended(history[t], b) => duty[t].act \in {"Child", "Fail"} /\ duty[t].of = b
        BY <4>1 DEF Inv, WorkerSound
      <4> QED
        BY <4>1, <4>2
    <3> QED
      BY <3>1, <3>2
  <2> QED
    BY <2>2 DEF WorkerSound
<1>14. EnteredBegun'
  <2>1. \A b \in Ids : b[1] \in Stations
    BY DEF Ids
  <2>2. \A t \in Stations : \A b : Begun(history'[t], b) <=> Begun(history[t], b)
    BY <1>7, <1>8
  <2> QED
    BY <1>1, <1>10, <2>1, <2>2 DEF Inv, EnteredBegun
<1> QED
  BY <1>7, <1>9, <1>11, <1>12, <1>13, <1>14 DEF Inv

-----------------------------------------------------------------------------
(* A Contact brings nothing a Station has not written itself about its own *)
(* Attempts.                                                               *)

LEMMA ContactInv ==
    ASSUME Inv, NEW s \in Stations, NEW u \in Stations, Contact(s, u)
    PROVE  Inv'
<1>1. /\ history' = [history EXCEPT ![s] = @ \cup history[u]]
      /\ marker' = [marker EXCEPT ![s] = @ \/ marker[u]]
      /\ UNCHANGED <<epoch, duty, worker, cancelled, invoked, doing>>
  BY DEF Contact
<1>2. history \in [Stations -> SUBSET RunEvents]
  BY DEF Inv, TypeOK
<1>3. /\ history'[s] = history[s] \cup history[u]
      /\ \A t \in Stations : t # s => history'[t] = history[t]
  BY <1>1, <1>2
<1>4. \A e \in history[u] : e.id[1] = s => e \in history[s]
  BY DEF Inv, OwnKnown
<1>5. \A e \in history[u] : e.kind \in OfHolder /\ e.of[1] = s => e \in history[s]
  BY <1>4 DEF Inv, Written
<1>6. TypeOK'
  <2>1. history' \in [Stations -> SUBSET RunEvents]
    BY <1>1, <1>2
  <2>2. marker' \in [Stations -> BOOLEAN]
    BY <1>1 DEF Inv, TypeOK
  <2> QED
    BY <1>1, <2>1, <2>2 DEF Inv, TypeOK
<1>7. CausallyClosed'
  <2>1. ASSUME NEW t \in Stations, NEW e \in history'[t]
        PROVE  e.preds \subseteq {f.id : f \in history'[t]}
    <3>1. PICK v \in Stations : e \in history[v] /\ history[v] \subseteq history'[t]
      BY <1>3, <2>1
    <3>2. e.preds \subseteq {f.id : f \in history[v]}
      BY <3>1 DEF Inv, CausallyClosed
    <3> QED
      BY <3>1, <3>2
  <2> QED
    BY <2>1 DEF CausallyClosed
<1>8. OwnKnown'
  BY <1>3 DEF Inv, OwnKnown
<1>9. Written'
  BY <1>3 DEF Inv, Written
<1>10. \A t \in Stations : Own(t)' = Own(t)
  <2>1. Own(s)' = Own(s)
    BY <1>3, <1>4 DEF Own
  <2> QED
    BY <1>3, <2>1 DEF Own
<1>11. Counted'
  <2>1. IsFiniteSet(history[s] \cup history[u])
    BY FS_Union, OwnCounts
  <2>2. \A t \in Stations : IsFiniteSet(history'[t])
    BY <1>3, <2>1, OwnCounts
  <2> QED
    BY <1>1, <1>10, <2>2 DEF Inv, Counted
<1>12. OnceAtHome'
  <2>1. Facts(history'[Starter], "Accepted") \subseteq Facts(history[Starter], "Accepted")
    <3>1. \A e \in history[u] : e.kind = "Accepted" => e.id[1] = Starter
      BY DEF Inv, Written
    <3> QED
      BY <1>3, <1>4, <3>1, Constants DEF Facts
  <2>2. ASSUME NEW t \in Stations, NEW e \in Facts(history'[t], "Returned"), e.of[1] = t
        PROVE  e \in Facts(history[t], "Returned")
    BY <1>3, <1>5, <2>2 DEF Facts, OfHolder
  <2> QED
    BY <2>1, <2>2 DEF Inv, OnceAtHome
<1>13. ASSUME NEW t \in Stations, NEW a \in Ids, a[1] = t
       PROVE  /\ Ended(history'[t], a) <=> Ended(history[t], a)
              /\ Begun(history'[t], a) <=> Begun(history[t], a)
  <2>1. CASE t = s
    <3>1. \A e \in history'[t] : e.kind \in OfHolder /\ e.of = a => e \in history[t]
      BY <1>3, <1>5, <1>13, <2>1
    <3>2. history[t] \subseteq history'[t]
      BY <1>3, <2>1
    <3>3. Ended(history'[t], a) <=> Ended(history[t], a)
      BY <3>1, <3>2 DEF Ended, OfHolder
    <3>4. Of(history'[t], "Began", a) = Of(history[t], "Began", a)
      BY <3>1, <3>2 DEF Of, OfHolder
    <3> QED
      BY <3>3, <3>4, BegunOf
  <2>2. CASE t # s
    BY <1>3, <2>2
  <2> QED
    BY <2>1, <2>2
<1>14. DutySound'
  <2>1. ASSUME NEW t \in Stations
        PROVE  {e.id : e \in history[t]} \subseteq {e.id : e \in history'[t]}
    BY <1>3
  <2> QED
    BY <1>1, <1>13, <2>1 DEF Inv, DutySound
<1>15. WorkerSound'
  <2>1. \A t \in Stations : Claimed(t)' = Claimed(t) /\ Claimed(t) \subseteq Ids
    BY <1>1 DEF Claimed
  <2>2. ASSUME NEW t \in Stations, NEW b \in Claimed(t)'
        PROVE  /\ b[1] = t
               /\ Ended(history'[t], b) => duty'[t].act \in {"Child", "Fail"} /\ duty'[t].of = b
    <3>1. b \in Claimed(t) /\ b \in Ids
      BY <2>1, <2>2
    <3>2. /\ b[1] = t
          /\ Ended(history[t], b) => duty[t].act \in {"Child", "Fail"} /\ duty[t].of = b
      BY <3>1 DEF Inv, WorkerSound
    <3> QED
      BY <1>1, <1>13, <3>1, <3>2
  <2> QED
    BY <2>2 DEF WorkerSound
<1>16. EnteredBegun'
  <2>1. \A a \in Ids : a[1] \in Stations
    BY DEF Ids
  <2> QED
    BY <1>1, <1>13, <2>1 DEF Inv, EnteredBegun
<1> QED
  BY <1>6, <1>7, <1>8, <1>9, <1>11, <1>12, <1>14, <1>15, <1>16 DEF Inv

-----------------------------------------------------------------------------
(* The theorems.                                                           *)

\* A duty turns to the claim only where Began is committed, and a Station enters no
\* handler while it is about something.
LEMMA FreshNext == Inv /\ ClaimFresh /\ [Next]_vars => ClaimFresh'
<1> SUFFICES ASSUME Inv, ClaimFresh, [Next]_vars, NEW t \in Stations, duty'[t].act = "Claim"
             PROVE  invoked'[duty'[t].of] = 0
  BY DEF ClaimFresh
<1>1. duty \in [Stations -> Duties] /\ invoked \in [Ids -> Nat]
  BY DEF Inv, TypeOK
<1>2. CASE duty' = duty /\ invoked' = invoked
  BY <1>2 DEF ClaimFresh
<1>3. ASSUME NEW s \in Stations, NEW d, d.act # "Claim", duty' = [duty EXCEPT ![s] = d],
             invoked' = invoked
      PROVE  invoked'[duty'[t].of] = 0
  BY <1>1, <1>3 DEF ClaimFresh
<1>4. ASSUME NEW s \in Stations, Launch(s)
      PROVE  invoked'[duty'[t].of] = 0
  <2>1. PICK a \in Launchable(s) : invoked' = [invoked EXCEPT ![a] = @ + 1]
    BY <1>4 DEF Launch
  <2>2. duty' = duty /\ duty[s] = NoDuty
    BY <1>4 DEF Launch
  <2>3. a \in Ids /\ a[1] = s
    BY DEF Launchable, Claimed, Inv, WorkerSound
  <2>4. t # s
    BY <2>2, NoDutyType
  <2>5. duty[t].of \in Ids /\ duty[t].of[1] = t
    BY <2>2 DEF Inv, DutySound
  <2> QED
    BY <1>1, <2>1, <2>2, <2>3, <2>4, <2>5 DEF ClaimFresh
<1>5. ASSUME NEW s \in Stations, CommitBegin(s)
      PROVE  invoked'[duty'[t].of] = 0
  <2>1. /\ duty[s].act = "Begin" /\ invoked' = invoked
        /\ duty' = [duty EXCEPT ![s] = Duty("Claim", duty[s].of)]
    BY <1>5 DEF CommitBegin
  <2>2. duty[s].of \in Ids /\ duty[s].of[1] = s /\ ~Begun(history[s], duty[s].of)
    BY <2>1 DEF Inv, DutySound
  <2>3. invoked[duty[s].of] = 0
    BY <1>1, <2>2 DEF Inv, EnteredBegun
  <2> QED
    BY <1>1, <2>1, <2>3 DEF ClaimFresh, Duty
<1>6. ASSUME NEW s \in Stations, Decide(s)
      PROVE  invoked'[duty'[t].of] = 0
  <2>1. PICK act \in {"Try", "Begin", "Complete", "Fail", "Recover"}, a \in Ids \cup {None} :
           NextDuty(s) = Duty(act, a)
    BY <1>6, NextDutySound DEF Decide
  <2>2. NextDuty(s).act # "Claim"
    BY <2>1 DEF Duty
  <2> QED
    BY <1>3, <1>6, <2>2 DEF Decide
<1>7. ASSUME NEW s \in Stations, Presume(s)
      PROVE  invoked'[duty'[t].of] = 0
  <2>1. PICK l \in Leases(history[s]) : duty' = [duty EXCEPT ![s] = Duty("Presume", l.id)]
    BY <1>7 DEF Presume
  <2>2. Duty("Presume", l.id).act # "Claim"
    BY DEF Duty
  <2> QED
    BY <1>3, <1>7, <2>1, <2>2 DEF Presume
<1>8. ASSUME NEW s \in Stations, Lower(s)
      PROVE  invoked'[duty'[t].of] = 0
  <2>1. /\ duty' = [duty EXCEPT ![s] = [duty[s] EXCEPT !.low = TRUE, !.preds = Heads(history[s])]]
        /\ duty[s].act # "Claim" /\ duty[s] \in Duties /\ invoked' = invoked
    BY <1>1, <1>8 DEF Lower, Lowering
  <2>2. [duty[s] EXCEPT !.low = TRUE, !.preds = Heads(history[s])].act = duty[s].act
    BY <2>1 DEF Duties
  <2> QED
    BY <1>3, <2>1, <2>2
<1>9. ASSUME NEW s \in Stations, Refused(s)
      PROVE  invoked'[duty'[t].of] = 0
  <2>1. \E d \in {Duty("Fail", duty[s].of), NoDuty} : duty' = [duty EXCEPT ![s] = d]
    BY <1>9 DEF Refused
  <2>2. \A d \in {Duty("Fail", duty[s].of), NoDuty} : d.act # "Claim"
    BY DEF Duty, NoDuty
  <2> QED
    BY <1>3, <1>9, <2>1, <2>2 DEF Refused
<1>10. ASSUME NEW s \in Stations, Reread(s)
       PROVE  invoked'[duty'[t].of] = 0
  <2>1. Duty("Return", duty[s].of).act # "Claim"
    BY DEF Duty
  <2> QED
    BY <1>3, <1>9, <1>10, <2>1 DEF Reread
<1>11. ASSUME NEW s \in Stations, CommitEnd(s)
       PROVE  invoked'[duty'[t].of] = 0
  <2>1. \E d \in {Duty("Child", duty[s].of), NoDuty} : duty' = [duty EXCEPT ![s] = d]
    BY <1>11 DEF CommitEnd
  <2>2. \A d \in {Duty("Child", duty[s].of), NoDuty} : d.act # "Claim"
    BY DEF Duty, NoDuty
  <2> QED
    BY <1>3, <1>11, <2>1, <2>2 DEF CommitEnd
<1>12. ASSUME NEW s \in Stations,
              CommitTry(s) \/ CommitChild(s) \/ CommitPresume(s) \/ Claim(s) \/ Restart(s)
       PROVE  invoked'[duty'[t].of] = 0
  <2>1. duty' = [duty EXCEPT ![s] = NoDuty] /\ invoked' = invoked
    BY <1>12 DEF CommitTry, CommitChild, CommitPresume, Claim, Restart
  <2> QED
    BY <1>3, <2>1, NoDutyType
<1>13. ASSUME NEW s \in Stations,
              \/ Reconcile(s) \/ Cancel(s) \/ Retry(s) \/ TryStaged(s) \/ Choose(s)
              \/ \E a \in Ids : Finish(s, a)
              \/ \E u \in Stations : Contact(s, u)
       PROVE  invoked'[duty'[t].of] = 0
  <2>1. duty' = duty /\ invoked' = invoked
    BY <1>13 DEF Reconcile, Cancel, Retry, TryStaged, Choose, Finish, Contact
  <2> QED
    BY <1>2, <2>1
<1>14. CASE UNCHANGED vars
  BY <1>2, <1>14 DEF vars
<1>15. CASE \E s \in Stations :
              \/ LowerRefused(s) \/ CommitRefused(s) \/ Reread(s) \/ Lower(s)
              \/ Decide(s) \/ Presume(s) \/ Launch(s) \/ Commit(s) \/ Claim(s) \/ Restart(s)
  BY <1>4, <1>5, <1>6, <1>7, <1>8, <1>9, <1>10, <1>11, <1>12, <1>15
     DEF LowerRefused, CommitRefused, Commit
<1> QED
  BY <1>13, <1>14, <1>15 DEF Next

LEMMA NextInv == Inv /\ ClaimFresh /\ [Next]_vars => Inv'
<1> SUFFICES ASSUME Inv, ClaimFresh, [Next]_vars PROVE Inv'
  OBVIOUS
<1>1. CASE UNCHANGED vars
  <2>1. /\ history' = history /\ duty' = duty
        /\ UNCHANGED <<marker, epoch, worker, cancelled, invoked, doing>>
    BY <1>1 DEF vars
  <2>2. TypeOK' /\ EnteredBegun'
    BY <2>1 DEF Inv, TypeOK, EnteredBegun
  <2>3. WorkerSound'
    BY <2>1 DEF Inv, WorkerSound, Claimed
  <2> QED
    BY <2>1, <2>2, <2>3, Same, SameDuty DEF Inv
<1>2. ASSUME NEW s \in Stations, NEW t \in Stations, Contact(s, t)
      PROVE  Inv'
  BY <1>2, ContactInv
<1>3. ASSUME NEW s \in Stations, NEW a \in Ids, Finish(s, a)
      PROVE  Inv'
  BY <1>3, FinishInv
<1>4. ASSUME NEW s \in Stations, LowerRefused(s) \/ CommitRefused(s)
      PROVE  Inv'
  <2>1. Refused(s)
    BY <1>4 DEF LowerRefused, CommitRefused
  <2> QED
    BY <2>1, RefusedInv
<1>5. ASSUME NEW s \in Stations, Commit(s) \/ Claim(s)
      PROVE  Inv'
  BY <1>5, CommitTryInv, CommitBeginInv, CommitEndInv, CommitChildInv, CommitPresumeInv,
     ClaimInv DEF Commit
<1>6. ASSUME NEW s \in Stations,
             \/ Decide(s) \/ Launch(s) \/ Reconcile(s) \/ Reread(s) \/ Lower(s) \/ Cancel(s)
             \/ Retry(s) \/ TryStaged(s) \/ Choose(s) \/ Presume(s) \/ Restart(s)
      PROVE  Inv'
  BY <1>6, DecideInv, LaunchInv, ReconcileInv, RereadInv, LowerInv, CancelInv, RetryInv,
     TryStagedInv, ChooseInv, PresumeInv, RestartInv
<1> QED
  BY <1>1, <1>2, <1>3, <1>4, <1>5, <1>6 DEF Next

LEMMA Invariance == Spec => []Inv
<1>1. Init => ClaimFresh
  BY NoDutyType DEF Init, ClaimFresh
<1> QED
  BY <1>1, InitInv, NextInv, FreshNext, PTL DEF Spec

\* The type invariant.  With it: a Station never writes more events of its own
\* than one above the limit, however its commits and its users' requests fall.
THEOREM RunTyped == Spec => []TypeOK
<1>1. Inv => TypeOK
  BY DEF Inv
<1> QED
  BY <1>1, Invariance, PTL

\* One choice closes the Run (Accept in session.rs): an Accepted is the owner's,
\* the owner has every event it wrote, and it accepts only an unresolved Run.
THEOREM ChosenOnce == Spec => []AcceptedOnce
<1>1. Inv => AcceptedOnce
  <2> SUFFICES ASSUME Inv, NEW e \in Facts(Known, "Accepted"), NEW f \in Facts(Known, "Accepted")
               PROVE  e = f
    BY DEF AcceptedOnce
  <2>1. \A g \in Facts(Known, "Accepted") : g \in Facts(history[Starter], "Accepted")
    BY Constants DEF Facts, Known, Inv, Written, OwnKnown
  <2> QED
    BY <2>1 DEF Inv, OnceAtHome
<1> QED
  BY <1>1, Invariance, PTL

\* An Attempt returns at most once (commit_completion): only its holder returns
\* it, from one duty, decided while it had not ended.
THEOREM ReturnsOnce == Spec => []ReturnedOnce
<1>1. Inv => ReturnedOnce
  <2> SUFFICES ASSUME Inv, NEW e \in Facts(Known, "Returned"), NEW f \in Facts(Known, "Returned"),
                      e.of = f.of
               PROVE  e = f
    BY DEF ReturnedOnce
  <2>1. ASSUME NEW g \in Facts(Known, "Returned")
        PROVE  g.of \in Ids /\ g \in Facts(history[g.of[1]], "Returned")
    <3>1. PICK t \in Stations : g \in history[t]
      BY <2>1 DEF Facts, Known
    <3>2. g.kind = "Returned"
      BY <2>1 DEF Facts
    <3>3. g.of \in Ids /\ g.of[1] = g.id[1]
      BY <3>1, <3>2 DEF Inv, Written, OfHolder
    <3>4. g.of[1] \in Stations
      BY <3>3 DEF Ids
    <3>5. g \in history[g.of[1]]
      BY <3>1, <3>3, <3>4 DEF Inv, OwnKnown
    <3> QED
      BY <3>2, <3>3, <3>5 DEF Facts
  <2>2. e.of[1] \in Stations
    BY <2>1 DEF Ids
  <2> QED
    BY <2>1, <2>2 DEF Inv, OnceAtHome
<1> QED
  BY <1>1, Invariance, PTL

\* A handler with effects outside is entered at most once per Attempt
\* (launch_invoke), over restarts, failed commits and any number of Contacts.
THEOREM EnteredOnce == Spec => []NeverReinvoked
<1>1. Inv => NeverReinvoked
  BY DEF Inv, EnteredBegun, NeverReinvoked
<1> QED
  BY <1>1, Invariance, PTL

\* No worker outlives its Attempt (release_attempt).
THEOREM WorkersEnd == Spec => []WorkersHaveLiveAttempts
<1>1. Inv => WorkersHaveLiveAttempts
  BY DEF Inv, WorkerSound, WorkersHaveLiveAttempts
<1> QED
  BY <1>1, Invariance, PTL

\* Stale lowering and Contacts keep every history causally closed
\* (run_event_heads).
THEOREM HistoriesClosed == Spec => []CausallyClosed
<1>1. Inv => CausallyClosed
  BY DEF Inv
<1> QED
  BY <1>1, Invariance, PTL
=============================================================================
