------------------------------- MODULE RunExec -------------------------------
(***************************************************************************)
(* The life of one durable Run in the Stations that replicate it           *)
(* (crates/runtime: exec.rs and the Exec part of session.rs).              *)
(*                                                                         *)
(* A Run is a DAG of immutable events in a Body every Station of the Space *)
(* replicates.  Each Station drains its own duties for the Run, one at a   *)
(* time: it decides on a snapshot, lowers the event on a second snapshot   *)
(* and commits it on a third, so what it lowered may be stale when it      *)
(* lands.  Contacts bring the events of another Station in at any moment;  *)
(* a restart loses the workers and keeps the events.                       *)
(*                                                                         *)
(* An event is named by the Station that committed it and its number       *)
(* there.  The code names it by a content hash, whose order is no order in *)
(* time: where the code compares hashes (Attempts are compared by their    *)
(* Leased event) the model compares ranks drawn when the lease is made.    *)
(***************************************************************************)
EXTENDS Naturals, FiniteSets

CONSTANTS Stations,      \* one device each
          Starter,       \* the Station whose device committed Started
          Performers,    \* the Stations that hold its Build and may perform it
          Attempts,      \* limits.attempts of the Run
          Events,        \* limits.events of the Run
          MaxRank,       \* bound: the hashes leases may have, and so all leases
          Restarting,    \* the Stations that restart
          MaxEpoch,      \* bound: their activations
          Asking,        \* the Stations where cancellation is asked, once
          Choices,       \* what the owner may write: "Accepted", "Rejected"
          Scenarios      \* what may be done together in one behaviour

\* Cancellation is asked where the Run is performed or elsewhere, a user continues
\* the Run, a World stages a Try of it, a liveness sweep finds a deadline past, a
\* returning handler stages a child Start.
Doings == {"cancelHere", "cancelAway", "retry", "stage", "presume", "spawn"}

ASSUME ConstantsAssumption ==
    /\ Starter \in Stations
    /\ Performers \subseteq Stations /\ Restarting \subseteq Stations
    /\ Asking \subseteq Stations
    /\ Attempts \in Nat \ {0}
    /\ Events \in Nat \ {0}
    /\ MaxRank \in Nat
    /\ MaxEpoch \in Nat \ {0}
    /\ Scenarios \subseteq SUBSET Doings
    /\ Choices \subseteq {"Accepted", "Rejected"}

VARIABLES history,   \* the events a Station has committed or incorporated
          marker,    \* whether the Station holds the active marker of the Run
          epoch,     \* the Station's activation
          duty,      \* what its perform pass is about
          worker,    \* the Attempts claimed by this activation
          cancelled, \* the claimed Attempts whose cancel flag is set
          invoked,   \* observer: how often the handler of an Attempt was entered
          doing      \* what is done to the Run in this behaviour

vars == <<history, marker, epoch, duty, worker, cancelled, invoked, doing>>

-----------------------------------------------------------------------------
(* Events.                                                                 *)

Numbers == 1 .. Events + 1
Ranks == 1 .. MaxRank
Ids == Stations \X Numbers
None == <<>>

\* "Unknown" and "Failed" are the two sides of FailureClass that the code
\* tells apart.
Kinds == {"Started", "Leased", "Began", "Returned", "Failed", "Unknown",
          "CancelAsked", "Presumed", "Accepted", "Rejected"}

RunEvents == [id : Ids, kind : Kinds, of : Ids \cup {None}, epoch : 0 .. MaxEpoch,
              rank : {0} \cup Ranks, preds : SUBSET Ids]

Root == [id |-> <<Starter, 1>>, kind |-> "Started", of |-> None,
         epoch |-> 0, rank |-> 0, preds |-> {}]

Facts(h, kind) == {e \in h : e.kind = kind}
Of(h, kind, a) == {e \in h : e.kind = kind /\ e.of = a}

\* run_event_heads: the events no other event cites.
Heads(h) == {e.id : e \in {f \in h : \A g \in h : f.id \notin g.preds}}

Ended(h, a) == \E e \in h : e.of = a /\ e.kind \in {"Returned", "Failed", "Unknown"}

Leases(h) == Facts(h, "Leased")

\* The Attempt the code finds last: the greatest by the hash of its lease.
Latest(leases) == CHOOSE l \in leases : \A m \in leases : m.rank <= l.rank

\* Run::project refuses the whole Run when its history is past a limit, when an
\* Attempt returned twice or when a choice has no Outcome.
Projects(h) ==
    /\ Root \in h
    /\ Cardinality(h) <= Events
    /\ Cardinality(Leases(h)) <= Attempts
    /\ \A l \in Leases(h) : Cardinality(Of(h, "Returned", l.id)) <= 1
    /\ \A e \in Facts(h, "Accepted") \cup Facts(h, "Rejected") : Of(h, "Returned", e.of) # {}

\* Run::is_unresolved (nothing in this build writes a Run-level Cancelled).
Unresolved(h) == Facts(h, "Accepted") = {}

\* One Began and it cites the lease: what Invoke and Accept call begun.
Begun(h, a) == \E b \in h : Of(h, "Began", a) = {b} /\ a \in b.preds

\* returned_after_began, for an Attempt that saved no checkpoint.
ReturnedAfterBegan(h, a) ==
    \E b, r \in h : /\ Of(h, "Began", a) = {b} /\ a \in b.preds
                    /\ Of(h, "Returned", a) = {r} /\ b.id \in r.preds

\* scan_unresolved reads every marker; a Run it cannot project, or one that is
\* closed, fails the scan of the whole World.
Scans(s) == marker[s] => Projects(history[s]) /\ Unresolved(history[s])

\* What scan_unresolved hands to the pass.
Scanned(s) == marker[s] /\ Scans(s)

-----------------------------------------------------------------------------
(* Perform passes.                                                         *)

NoDuty == [act |-> "none", of |-> None, low |-> FALSE, preds |-> {}]
Duty(act, a) == [act |-> act, of |-> a, low |-> FALSE, preds |-> {}]

Duties == [act : {"none", "Try", "Begin", "Claim", "Complete", "Return", "Child", "Fail",
                  "Recover", "Presume"},
           of : Ids \cup {None}, low : BOOLEAN, preds : SUBSET Ids]

Claimed(s) == {a \in Ids : worker[s][a] # "none"}

Mine(s, h) == {l \in Leases(h) : l.id[1] = s /\ ~Ended(h, l.id)}

CanLocalTry(s) ==
    LET h == history[s] IN
    /\ Unresolved(h)
    /\ Facts(h, "CancelAsked") = {}
    /\ Cardinality(Leases(h)) < Attempts
    /\ s \in Performers
    /\ Leases(h) # {} =>
          LET l == Latest(Leases(h)) IN
          /\ l.id[1] = s
          /\ Of(h, "Returned", l.id) = {}
          /\ Of(h, "Unknown", l.id) # {}

\* The duty a worker state calls for: a lost worker is recovered, never
\* entered again.
WorkerDuty(s, a) ==
    CASE worker[s][a] = "done"  -> Duty("Complete", a)
      [] worker[s][a] = "broke" -> Duty("Fail", a)
      [] worker[s][a] = "none"  -> Duty("Recover", a)
      [] OTHER -> NoDuty

\* Mutant: the leases of earlier activations are passed by.
NextDutyFresh(s) ==
    LET h   == history[s]
        now == {l \in Mine(s, h) : l.epoch = epoch[s]}
    IN IF now # {}
         THEN LET a == Latest(now).id IN
              IF Begun(h, a) THEN WorkerDuty(s, a) ELSE Duty("Begin", a)
         ELSE IF CanLocalTry(s) THEN Duty("Try", None) ELSE NoDuty

\* next_perform_action, the duties that end in a commit.
NextDuty(s) ==
    LET h   == history[s]
        old == {l \in Mine(s, h) : l.epoch # epoch[s]}
        now == {l \in Mine(s, h) : l.epoch = epoch[s]}
    IN CASE old # {} -> Duty("Recover", Latest(old).id)
         [] old = {} /\ now # {} ->
              LET a == Latest(now).id IN
              IF Begun(h, a) THEN WorkerDuty(s, a) ELSE Duty("Begin", a)
         [] old = {} /\ now = {} ->
              IF CanLocalTry(s) THEN Duty("Try", None) ELSE NoDuty

\* Mutant: an Attempt whose worker is lost is entered again.
LaunchableLost(s) ==
    LET h   == history[s]
        now == Mine(s, h)
    IN {a \in Ids : /\ now # {} /\ a = Latest(now).id
                    /\ Begun(h, a) /\ worker[s][a] \in {"registered", "none"}}

\* The worker of the Attempt next_perform_action finds is registered and is
\* handed to a thread of its own (launch_invoke).
Launchable(s) ==
    LET h   == history[s]
        now == Mine(s, h)
    IN {a \in Claimed(s) : /\ now # {} /\ a = Latest(now).id
                           /\ \A l \in now : l.epoch = epoch[s]
                           /\ Begun(h, a) /\ worker[s][a] = "registered"}

Decide(s) ==
    /\ duty[s] = NoDuty
    /\ Scanned(s)
    /\ NextDuty(s) # NoDuty
    /\ duty' = [duty EXCEPT ![s] = NextDuty(s)]
    /\ UNCHANGED <<history, marker, epoch, worker, cancelled, invoked, doing>>

\* sweep_liveness, on the same drain after the pass: the deadline of a foreign
\* Attempt has passed on this Station's clock.
Presume(s) ==
    LET h == history[s] IN
    /\ "presume" \in doing
    /\ duty[s] = NoDuty
    /\ Scanned(s)
    /\ \E l \in Leases(h) :
          /\ l.id[1] # s
          /\ ~Ended(h, l.id)
          /\ \A e \in Of(h, "Presumed", l.id) : e.id[1] # s
          /\ duty' = [duty EXCEPT ![s] = Duty("Presume", l.id)]
    /\ UNCHANGED <<history, marker, epoch, worker, cancelled, invoked, doing>>

Launch(s) ==
    /\ duty[s] = NoDuty
    /\ Scanned(s)
    /\ \E a \in Launchable(s) :
          /\ worker' = [worker EXCEPT ![s][a] = "running"]
          /\ invoked' = [invoked EXCEPT ![a] = @ + 1]
    /\ UNCHANGED <<history, marker, epoch, duty, cancelled, doing>>

\* The handler returns or fails on its own thread; one that is cancelled may
\* do either.
Finish(s, a) ==
    /\ worker[s][a] = "running"
    /\ \E w \in {"done", "broke"} : worker' = [worker EXCEPT ![s][a] = w]
    /\ UNCHANGED <<history, marker, epoch, duty, cancelled, invoked, doing>>

\* Mutant: only the requests made at this Station are delivered.
ReconcileOwn(s) ==
    /\ Scanned(s)
    /\ \E e \in Facts(history[s], "CancelAsked") : e.id[1] = s
    /\ ~ Claimed(s) \subseteq cancelled[s]
    /\ cancelled' = [cancelled EXCEPT ![s] = Claimed(s)]
    /\ UNCHANGED <<history, marker, epoch, duty, worker, invoked, doing>>

\* reconcile_cancel_controls, at the start of every pass.
Reconcile(s) ==
    /\ Scanned(s)
    /\ Facts(history[s], "CancelAsked") # {}
    /\ ~ Claimed(s) \subseteq cancelled[s]
    /\ cancelled' = [cancelled EXCEPT ![s] = Claimed(s)]
    /\ UNCHANGED <<history, marker, epoch, duty, worker, invoked, doing>>

\* lower_exec and lower_lifecycle_event, on the snapshot of the moment.
Admits(s) ==
    LET h == history[s] d == duty[s] IN
    /\ Projects(h)
    /\ d.act # "Child" => Cardinality(h) < Events
    /\ d.act = "Try" => Unresolved(h) /\ Cardinality(Leases(h)) < Attempts

\* The duties whose next step is to lower their event.
Lowering(s) == duty[s].act \notin {"none", "Claim", "Complete"} /\ ~duty[s].low

Lower(s) ==
    /\ Lowering(s)
    /\ Admits(s)
    /\ duty' = [duty EXCEPT ![s].low = TRUE, ![s].preds = Heads(history[s])]
    /\ UNCHANGED <<history, marker, epoch, worker, cancelled, invoked, doing>>

\* Mutant: a completion whose children could not be started is tried again.
RefusedRetries(s) ==
    LET d == duty[s] IN
    /\ duty' = [duty EXCEPT ![s] =
                  IF d.act \in {"Complete", "Return", "Child"} THEN Duty("Complete", d.of) ELSE NoDuty]
    /\ UNCHANGED <<worker, cancelled>>
    /\ UNCHANGED <<history, marker, epoch, invoked, doing>>

\* What a refused or failed duty leaves: a completion that could not be
\* committed is committed as a failure (record_attempt_result), a failure that
\* could not be committed releases the Attempt, the rest ends the pass.
Refused(s) ==
    LET d == duty[s] IN
    /\ duty' = [duty EXCEPT ![s] =
                  IF d.act \in {"Complete", "Return", "Child"} THEN Duty("Fail", d.of) ELSE NoDuty]
    /\ IF d.act = "Fail"
         THEN /\ worker' = [worker EXCEPT ![s][d.of] = "none"]
              /\ cancelled' = [cancelled EXCEPT ![s] = @ \ {d.of}]
         ELSE UNCHANGED <<worker, cancelled>>
    /\ UNCHANGED <<history, marker, epoch, invoked, doing>>

LowerRefused(s) ==
    /\ Lowering(s)
    /\ ~Admits(s)
    /\ Refused(s)

\* commit_completion reads the Run again, on a snapshot of its own, for the Began it
\* is to cite; only then is Returned lowered.
Reread(s) ==
    LET h == history[s] IN
    /\ duty[s].act = "Complete"
    /\ IF Projects(h) /\ Cardinality(Of(h, "Began", duty[s].of)) = 1
         THEN /\ duty' = [duty EXCEPT ![s] = Duty("Return", duty[s].of)]
              /\ UNCHANGED <<history, marker, epoch, worker, cancelled, invoked, doing>>
         ELSE Refused(s)

\* The lane is taken, the replica moved, no room: the commit is refused.
CommitRefused(s) ==
    /\ duty[s].low
    /\ Refused(s)

Number(s) == Cardinality({e \in history[s] : e.id[1] = s}) + 1

Event(s, kind, a, preds) ==
    [id |-> <<s, Number(s)>>, kind |-> kind, of |-> a, epoch |-> 0, rank |-> 0,
     preds |-> preds]

\* Mutant: the lease is stamped with the activation to come.
LeaseNext(s, rank, preds) ==
    [Event(s, "Leased", <<s, Number(s)>>, preds) EXCEPT !.epoch = epoch[s] + 1, !.rank = rank]

\* Only a lease tells the activation that made it.
Lease(s, rank, preds) ==
    [Event(s, "Leased", <<s, Number(s)>>, preds) EXCEPT !.epoch = epoch[s], !.rank = rank]

Known == UNION {history[s] : s \in Stations}
FreshRanks == Ranks \ {e.rank : e \in Known}

\* The event a duty commits.
KindOf(act) ==
    CASE act = "Begin"    -> "Began"
      [] act = "Return"   -> "Returned"
      [] act = "Fail"     -> "Failed"
      [] act = "Recover"  -> "Unknown"
      [] act = "Presume"  -> "Presumed"

CommitTry(s) ==
    /\ duty[s].low /\ duty[s].act = "Try"
    /\ \E r \in FreshRanks :
          history' = [history EXCEPT ![s] =
                        @ \cup {Lease(s, r, duty[s].preds)}]
    /\ duty' = [duty EXCEPT ![s] = NoDuty]
    /\ UNCHANGED <<marker, epoch, worker, cancelled, invoked, doing>>

\* Began is committed before the Attempt is claimed.
CommitBegin(s) ==
    /\ duty[s].low /\ duty[s].act = "Begin"
    /\ history' = [history EXCEPT ![s] =
                     @ \cup {Event(s, "Began", duty[s].of, duty[s].preds)}]
    /\ duty' = [duty EXCEPT ![s] = Duty("Claim", duty[s].of)]
    /\ UNCHANGED <<marker, epoch, worker, cancelled, invoked, doing>>

\* new_terminal_session reads the Run, claim_attempt registers the worker and
\* reconcile_cancel_controls delivers a cancellation that landed meanwhile.
\* Nothing is claimed where the Run does not read, and nothing delivered where
\* the scan fails.
Claim(s) ==
    LET d == duty[s] IN
    /\ d.act = "Claim"
    /\ duty' = [duty EXCEPT ![s] = NoDuty]
    /\ IF Projects(history[s])
         THEN /\ worker' = [worker EXCEPT ![s][d.of] = "registered"]
              /\ cancelled' = [cancelled EXCEPT ![s] =
                                 IF Scanned(s) /\ Facts(history[s], "CancelAsked") # {}
                                   THEN Claimed(s) \cup {d.of} ELSE @ \ {d.of}]
         ELSE UNCHANGED <<worker, cancelled>>
    /\ UNCHANGED <<history, marker, epoch, invoked, doing>>

\* Mutant: the worker of an ended Attempt stays claimed.
CommitEndClaimed(s) ==
    LET d == duty[s] IN
    /\ d.low /\ d.act \in {"Return", "Fail", "Recover"}
    /\ history' = [history EXCEPT ![s] = @ \cup {Event(s, KindOf(d.act), d.of, d.preds)}]
    /\ duty' = [duty EXCEPT ![s] = NoDuty]
    /\ UNCHANGED <<marker, epoch, worker, cancelled, invoked, doing>>

\* The duties that end an Attempt.  The children of a returning handler are
\* started after its Returned is committed.
CommitEnd(s) ==
    LET d == duty[s]
        more == d.act = "Return" /\ "spawn" \in doing
    IN
    /\ d.low /\ d.act \in {"Return", "Fail", "Recover"}
    /\ history' = [history EXCEPT ![s] = @ \cup {Event(s, KindOf(d.act), d.of, d.preds)}]
    /\ duty' = [duty EXCEPT ![s] = IF more THEN Duty("Child", d.of) ELSE NoDuty]
    /\ IF more
         THEN UNCHANGED <<worker, cancelled>>
         ELSE /\ worker' = [worker EXCEPT ![s][d.of] = "none"]
              /\ cancelled' = [cancelled EXCEPT ![s] = @ \ {d.of}]
    /\ UNCHANGED <<marker, epoch, invoked, doing>>

\* The child is a Run of its own; only that its Start may fail matters here.
CommitChild(s) ==
    /\ duty[s].low /\ duty[s].act = "Child"
    /\ duty' = [duty EXCEPT ![s] = NoDuty]
    /\ worker' = [worker EXCEPT ![s][duty[s].of] = "none"]
    /\ cancelled' = [cancelled EXCEPT ![s] = @ \ {duty[s].of}]
    /\ UNCHANGED <<history, marker, epoch, invoked, doing>>

CommitPresume(s) ==
    /\ duty[s].low /\ duty[s].act = "Presume"
    /\ history' = [history EXCEPT ![s] =
                     @ \cup {Event(s, "Presumed", duty[s].of, duty[s].preds)}]
    /\ duty' = [duty EXCEPT ![s] = NoDuty]
    /\ UNCHANGED <<marker, epoch, worker, cancelled, invoked, doing>>

Commit(s) ==
    CommitTry(s) \/ CommitBegin(s) \/ CommitEnd(s) \/ CommitChild(s) \/ CommitPresume(s)

-----------------------------------------------------------------------------
(* What users and peers do to the Run.  Work commits only on the root it   *)
(* was lowered on, so each request is one step.                            *)

\* Work: Cancel, or a Cancel a World stages.  The request is an event; the claimed Attempts are told.
Cancel(s) ==
    /\ Projects(history[s]) /\ Unresolved(history[s])
    /\ Cardinality(history[s]) < Events
    /\ s \in Asking /\ (IF s \in Performers THEN "cancelHere" ELSE "cancelAway") \in doing
    /\ \A e \in Facts(history[s], "CancelAsked") : e.id[1] # s
    /\ history' = [history EXCEPT ![s] =
                     @ \cup {Event(s, "CancelAsked", None, Heads(history[s]))}]
    /\ cancelled' = [cancelled EXCEPT ![s] = Claimed(s)]
    /\ UNCHANGED <<marker, epoch, duty, worker, invoked, doing>>

\* Work: Retry.  A completed Attempt of this very activation is continued.
Retry(s) ==
    LET h == history[s]
        over == {l \in Leases(h) : Ended(h, l.id)}
    IN
    /\ "retry" \in doing
    /\ Projects(h) /\ Unresolved(h)
    /\ Facts(h, "CancelAsked") = {}
    /\ Cardinality(Leases(h)) < Attempts
    /\ Cardinality(h) < Events
    /\ over # {}
    /\ Latest(over).id[1] = s /\ Latest(over).epoch = epoch[s]
    /\ \E r \in FreshRanks :
          history' = [history EXCEPT ![s] =
                        @ \cup {Lease(s, r, Heads(h))}]
    /\ UNCHANGED <<marker, epoch, duty, worker, cancelled, invoked, doing>>

\* A Try a World stages where it has the Build: the lowering of a pass's own Try, on
\* the root of the World's commit.
TryStaged(s) ==
    LET h == history[s] IN
    /\ "stage" \in doing /\ s \in Performers
    /\ Projects(h) /\ Unresolved(h)
    /\ Cardinality(Leases(h)) < Attempts
    /\ Cardinality(h) < Events
    /\ \E r \in FreshRanks :
          history' = [history EXCEPT ![s] =
                        @ \cup {Lease(s, r, Heads(h))}]
    /\ UNCHANGED <<marker, epoch, duty, worker, cancelled, invoked, doing>>

\* Mutant: any device may choose.
OwnerAnyone(s) == s \in Stations

\* Who may write a choice: the device that started the Run.
Owner(s) == s = Starter

\* Accept and Reject: the choice and the removal of this Station's marker are
\* one transaction.
Choose(s) ==
    LET h == history[s] IN
    /\ Owner(s)
    /\ Projects(h) /\ Unresolved(h)
    /\ Cardinality(h) < Events
    /\ \E l \in Leases(h), c \in Choices :
          /\ ReturnedAfterBegan(h, l.id)
          /\ Of(h, "Failed", l.id) \cup Of(h, "Unknown", l.id) = {}
          /\ history' = [history EXCEPT ![s] = @ \cup {Event(s, c, l.id, Heads(h))}]
    /\ marker' = [marker EXCEPT ![s] = FALSE]
    /\ UNCHANGED <<epoch, duty, worker, cancelled, invoked, doing>>

\* Mutant: the events are incorporated one by one, in any order.
ContactPiecemeal(s, t) ==
    /\ s # t
    /\ \E e \in history[t] \ history[s] : history' = [history EXCEPT ![s] = @ \cup {e}]
    /\ marker' = [marker EXCEPT ![s] = @ \/ marker[t]]
    /\ UNCHANGED <<epoch, duty, worker, cancelled, invoked, doing>>

\* s incorporates the Manifest of t: every Body t holds, the marker included.
\* A tombstone is local and travels to nobody.
Contact(s, t) ==
    /\ s # t
    /\ ~ history[t] \subseteq history[s] \/ (marker[t] /\ ~marker[s])
    /\ history' = [history EXCEPT ![s] = @ \cup history[t]]
    /\ marker' = [marker EXCEPT ![s] = @ \/ marker[t]]
    /\ UNCHANGED <<epoch, duty, worker, cancelled, invoked, doing>>

\* The activation ends and another begins: the workers are cancelled, joined
\* and forgotten.
Restart(s) ==
    /\ s \in Restarting /\ epoch[s] < MaxEpoch
    /\ epoch' = [epoch EXCEPT ![s] = @ + 1]
    /\ duty' = [duty EXCEPT ![s] = NoDuty]
    /\ worker' = [worker EXCEPT ![s] = [a \in Ids |-> "none"]]
    /\ cancelled' = [cancelled EXCEPT ![s] = {}]
    /\ UNCHANGED <<history, marker, invoked, doing>>

Init ==
    /\ history = [s \in Stations |-> IF s = Starter THEN {Root} ELSE {}]
    /\ marker = [s \in Stations |-> s = Starter]
    /\ epoch = [s \in Stations |-> 1]
    /\ duty = [s \in Stations |-> NoDuty]
    /\ worker = [s \in Stations |-> [a \in Ids |-> "none"]]
    /\ cancelled = [s \in Stations |-> {}]
    /\ invoked = [a \in Ids |-> 0]
    /\ doing \in Scenarios

Next ==
    \/ \E s \in Stations :
          \/ Decide(s) \/ Launch(s) \/ Reconcile(s) \/ \E a \in Ids : Finish(s, a)
          \/ Reread(s) \/ Lower(s) \/ LowerRefused(s) \/ CommitRefused(s) \/ Commit(s)
          \/ Claim(s) \/ Cancel(s) \/ Retry(s) \/ TryStaged(s) \/ Choose(s) \/ Presume(s) \/ Restart(s)
    \/ \E s, t \in Stations : Contact(s, t)

\* A handler that was told of its cancellation ends.
FinishTold(s) == \E a \in cancelled[s] : Finish(s, a)

\* The drain of a Station passes again and again, a handler honours its
\* cancellation, and the mutation lane is not lost to others for ever.  A
\* handler nobody cancels may run for ever.
Fairness ==
    \A s \in Stations :
       /\ WF_vars(Decide(s)) /\ WF_vars(Launch(s)) /\ WF_vars(FinishTold(s))
       /\ WF_vars(Reconcile(s)) /\ WF_vars(Reread(s)) /\ WF_vars(Lower(s))
       /\ WF_vars(LowerRefused(s)) /\ WF_vars(Claim(s))
       /\ SF_vars(Commit(s))

Spec == Init /\ [][Next]_vars /\ Fairness

-----------------------------------------------------------------------------
(* Properties.                                                             *)

\* The shape of every piece of state.
TypeOK ==
    /\ history \in [Stations -> SUBSET RunEvents]
    /\ marker \in [Stations -> BOOLEAN]
    /\ epoch \in [Stations -> 1 .. MaxEpoch]
    /\ duty \in [Stations -> Duties]
    /\ worker \in [Stations -> [Ids -> {"none", "registered", "running", "done", "broke"}]]
    /\ cancelled \in [Stations -> SUBSET Ids]
    /\ invoked \in [Ids -> Nat]
    /\ doing \in Scenarios

\* Without coordination, whatever the Stations race and whenever they meet, at
\* most one Accepted closes the Run: its owner is the only writer of the choice.
AcceptedOnce == \A e, f \in Facts(Known, "Accepted") : e = f

\* An Attempt returns at most once.  Two Returned of one Attempt would make
\* every Station refuse the whole Run (Run::project, "repeated return").
ReturnedOnce ==
    \A e, f \in Facts(Known, "Returned") : e.of = f.of => e = f

\* An Attempt is never entered twice, whatever is lost: not after a restart,
\* not after a commit that failed, not when it is begun again.
NeverReinvoked == \A a \in Ids : invoked[a] <= 1

\* No worker outlives its Attempt: a claimed Attempt has not ended, except
\* while the pass that ends it still holds it.
WorkersHaveLiveAttempts ==
    \A s \in Stations : \A a \in Claimed(s) :
        Ended(history[s], a) => duty[s].of = a

\* A causally closed history: whatever an event cites is known wherever the
\* event is.  run_event_heads refuses the Run otherwise.
CausallyClosed ==
    \A s \in Stations : \A e \in history[s] :
        e.preds \subseteq {f.id : f \in history[s]}

\* A covered lease: something other than its Began was built on it first, so
\* that no later Began can cite it.
Covered(s) ==
    \E l \in Mine(s, history[s]) : l.id \notin Heads(history[s]) /\ ~Begun(history[s], l.id)

\* The Run has no room for another event.
Full(s) == Cardinality(history[s]) >= Events

\* Its handler runs and nobody asked to cancel.
Busy(s) ==
    /\ \E a \in Claimed(s) : worker[s][a] = "running"
    /\ Facts(history[s], "CancelAsked") = {}

\* Every lease ends, returned, failed or found lost: again and again a Station
\* owes the Run nothing.  Four things excuse it: its handler still runs, the
\* lease was covered before it was begun, the Run is full, or the scan of the
\* World fails or passes the Run by.
LeasesEnd ==
    \A s \in Stations :
        []<>(Mine(s, history[s]) = {} \/ Busy(s) \/ Covered(s) \/ Full(s) \/ ~Scanned(s))

\* A cancellation a Station has heard of, from its own users or from another
\* Station, reaches the handlers it is running, whichever came first: none is
\* left running untold.
CancelDelivered ==
    \A s \in Stations :
        []<>(\/ Facts(history[s], "CancelAsked") = {} \/ ~Scanned(s)
             \/ \A a \in Claimed(s) : worker[s][a] = "running" => a \in cancelled[s])

\* "Terminal history is not visited": a closed Run has no active marker.
ClosedRunsLeaveTheScan ==
    \A s \in Stations : marker[s] => Unresolved(history[s])

\* "Completion must cite the current durable Began", so that the owner may
\* accept what was returned.
ReturnsAreAcceptable ==
    \A e \in Facts(Known, "Returned") :
        Of(Known, "Failed", e.of) = {} => ReturnedAfterBegan(Known, e.of)
=============================================================================
