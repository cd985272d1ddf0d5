--------------------------- MODULE Subscriptions ----------------------------
(***************************************************************************)
(* The Graph subscription of the OneDrive drive: the calls of              *)
(* _ensure_onedrive_subscription (function_app.py), made by a bootstrap    *)
(* request and by the maintenance timer at once, the recorded subscription *)
(* of onedrive_state.py that authenticates notifications, the notification *)
(* intake, and the reconciliation that covers for lost notifications.      *)
(*                                                                         *)
(* The settings are cached per process, so an invocation keeps the URL it  *)
(* began with while another version is deployed.                           *)
(*                                                                         *)
(* Of a subscription that Graph no longer has the code can only learn that *)
(* it is gone.  Gone therefore takes the place of its id wherever it is    *)
(* kept, and the id is given to a later subscription.                      *)
(***************************************************************************)
EXTENDS Naturals

CONSTANTS
    Ids,           \* subscription ids, as many as Graph allows
    Urls,          \* notification URLs of successive deployments
    Maintenance,   \* the timer's invocation; the host runs one at a time
    Bootstraps,    \* concurrent bootstrap requests
    MaxFaults,     \* bound on crashes, removals and deployments
    None,
    Gone

ASSUME SubscriptionConstants ==
    /\ {None, Gone} \cap Ids = {}
    /\ Urls # {}
    /\ Maintenance \notin Bootstraps
    /\ MaxFaults \in Nat

Invocations == Bootstraps \cup {Maintenance}

VARIABLES
    subs,          \* Graph's subscriptions to the drive
    down,          \* Graph, or a write of the record, is failing
    url,           \* the URL of the deployed settings
    recorded,      \* the id in the subscription record
    seeded,        \* whether the delta cursor has a link
    run,           \* the local state of each invocation
    dirty,         \* no delta job was staged or queued since the last change
    told,          \* Graph was answered 202 for the last change
    faults         \* crashes, removals and deployments so far

vars == <<subs, down, url, recorded, seeded, run, dirty, told, faults>>

\* due: at most seven days from its expiration.
Subscription == [url : Urls, life : {"fresh", "due"}]

Live == {s \in Ids : subs[s] # None}

RunState ==
    [pc : {"idle", "reconcile"}] \cup
    [pc : {"cursor", "record", "get", "list", "renew", "replace", "save"},
     url : Urls, id : Ids \cup {None, Gone}, stale : SUBSET Ids]

Idle == [pc |-> "idle"]

Init ==
    /\ subs = [s \in Ids |-> None]
    /\ down = FALSE
    /\ url = CHOOSE u \in Urls : TRUE
    /\ recorded = None
    /\ seeded = FALSE
    /\ run = [i \in Invocations |-> Idle]
    /\ dirty = FALSE
    /\ told = TRUE
    /\ faults = 0
-----------------------------------------------------------------------------
\* Faulty variants, from which the runs' properties must tell the code apart.

SeedErrorIgnored == TRUE

RecordsUrl(i) == run[i].url

NeverSaved(i) == recorded

FailureEndsRun(i) == [run EXCEPT ![i] = Idle]

AcceptsFirst(batch, sent) == sent # {}
-----------------------------------------------------------------------------
(***************************************************************************)
(* The environment: Graph, the operator and the host.                      *)
(***************************************************************************)
Vanish(s) ==
    /\ subs' = [subs EXCEPT ![s] = None]
    /\ recorded' = IF recorded = s THEN Gone ELSE recorded
    /\ run' = [i \in Invocations |->
         IF run[i].pc \in {"idle", "reconcile"} THEN run[i]
         ELSE [run[i] EXCEPT !.id = IF @ = s THEN Gone ELSE @, !.stale = @ \ {s}]]

Outage ==
    /\ down' = ~down
    /\ UNCHANGED <<subs, url, recorded, seeded, run, dirty, told, faults>>

Age(s) ==
    /\ s \in Live
    /\ subs[s].life = "fresh"
    /\ subs' = [subs EXCEPT ![s].life = "due"]
    /\ UNCHANGED <<down, url, recorded, seeded, run, dirty, told, faults>>

\* Seven days without renewal: nobody knows the subscription, or none can be
\* renewed.
Lapse(s) ==
    /\ s \in Live
    /\ subs[s].life = "due"
    /\ down \/ (s # recorded /\ \A i \in Invocations : run[i].pc = "idle")
    /\ Vanish(s)
    /\ UNCHANGED <<down, url, seeded, dirty, told, faults>>

Fault == faults < MaxFaults /\ faults' = faults + 1

\* subscriptionRemoved; the lifecycle signal is ignored by process().
Remove(s) ==
    /\ s \in Live
    /\ Fault
    /\ Vanish(s)
    /\ UNCHANGED <<down, url, seeded, dirty, told>>

Deploy(u) ==
    /\ u # url
    /\ Fault
    /\ url' = u
    /\ UNCHANGED <<subs, down, recorded, seeded, run, dirty, told>>

Crash(i) ==
    /\ run[i].pc # "idle"
    /\ Fault
    /\ run' = [run EXCEPT ![i] = Idle]
    /\ UNCHANGED <<subs, down, url, recorded, seeded, dirty, told>>

Change ==
    /\ dirty' = TRUE
    /\ told' = FALSE
    /\ UNCHANGED <<subs, down, url, recorded, seeded, run, faults>>
-----------------------------------------------------------------------------
Begin(i) ==
    /\ run[i].pc = "idle"
    /\ run' = [run EXCEPT ![i] = [pc |-> "cursor", url |-> url, id |-> None, stale |-> {}]]
    /\ UNCHANGED <<subs, down, url, recorded, seeded, dirty, told, faults>>

\* Maintenance goes on to the reconciliation, a bootstrap request is answered.
Ended(i) == [run EXCEPT ![i] = IF i = Maintenance THEN [pc |-> "reconcile"] ELSE Idle]

\* The timer catches whatever the calls raise.
AfterFailure(i) == Ended(i)

GoOn(i, pc, id, stale) ==
    run' = [run EXCEPT ![i] = [pc |-> pc, url |-> @.url, id |-> id, stale |-> stale]]

\* The cursor has a link, or list_delta and set give it one (OneDriveSync has
\* these requests apart).
MaySeed == seeded \/ ~down

Seed(i) ==
    /\ run[i].pc = "cursor"
    /\ MaySeed
    /\ seeded' = (seeded \/ ~down)
    /\ GoOn(i, "record", None, {})
    /\ UNCHANGED <<subs, down, url, recorded, dirty, told, faults>>

ReadRecord(i) ==
    /\ run[i].pc = "record"
    /\ GoOn(i, IF recorded = None THEN "list" ELSE "get", recorded, {})
    /\ UNCHANGED <<subs, down, url, recorded, seeded, dirty, told, faults>>

\* Renew the selected subscription if it is due, else record it.
Select(i, s, stale) ==
    IF subs[s].life = "due" THEN GoOn(i, "renew", s, stale) ELSE GoOn(i, "save", s, {})

\* There is no subscription to keep.
Replace(i, stale) == GoOn(i, "replace", None, stale)

Get(i) ==
    LET s == run[i].id IN
    /\ run[i].pc = "get"
    /\ ~down
    /\ \/ s = Gone /\ GoOn(i, "list", None, {})
       \/ s \in Live /\ subs[s].url = run[i].url /\ Select(i, s, {})
       \/ s \in Live /\ subs[s].url # run[i].url /\ GoOn(i, "list", None, {s})
    /\ UNCHANGED <<subs, down, url, recorded, seeded, dirty, told, faults>>

\* The matching subscriptions that expire last.
Latest(matches) ==
    LET fresh == {s \in matches : subs[s].life = "fresh"}
    IN  IF fresh = {} THEN matches ELSE fresh

List(i) ==
    LET matches == {s \in Live : subs[s].url = run[i].url}
        stale == run[i].stale \cup (Live \ matches)
    IN
    /\ run[i].pc = "list"
    /\ ~down
    /\ \/ matches = {} /\ Replace(i, stale)
       \/ \E s \in Latest(matches) : Select(i, s, stale)
    /\ UNCHANGED <<subs, down, url, recorded, seeded, dirty, told, faults>>

\* renew_subscription; a subscription that is gone is replaced, unlisted.
Renew(i) ==
    LET s == run[i].id IN
    /\ run[i].pc = "renew"
    /\ ~down
    /\ \/ /\ s \in Live
          /\ subs' = [subs EXCEPT ![s].life = "fresh"]
          /\ GoOn(i, "save", s, {})
       \/ s = Gone /\ Replace(i, run[i].stale) /\ UNCHANGED subs
    /\ UNCHANGED <<down, url, recorded, seeded, dirty, told, faults>>

\* Delete the stale subscriptions one by one, then create one.
Delete(i, s) ==
    /\ run[i].pc = "replace"
    /\ s \in run[i].stale
    /\ ~down
    /\ Vanish(s)
    /\ UNCHANGED <<down, url, seeded, dirty, told, faults>>

NewId == CHOOSE s \in Ids : s \notin Live

Created(i) == subs' = [subs EXCEPT ![NewId] = [url |-> run[i].url, life |-> "fresh"]]

MayCreate(i) == run[i].pc = "replace" /\ run[i].stale = {} /\ Live # Ids

Create(i) ==
    /\ MayCreate(i)
    /\ ~down
    /\ Created(i)
    /\ GoOn(i, "save", NewId, {})
    /\ UNCHANGED <<down, url, recorded, seeded, dirty, told, faults>>

Record(i) == run[i].id

Save(i) ==
    /\ run[i].pc = "save"
    /\ recorded' = Record(i)
    /\ run' = Ended(i)
    /\ UNCHANGED <<subs, down, url, seeded, dirty, told, faults>>

\* A call raises; the one that creates may have been carried out.
Raise(i) ==
    /\ run[i].pc \notin {"idle", "reconcile"}
    /\ down \/ (run[i].pc = "replace" /\ run[i].stale = {} /\ Live = Ids)
    /\ UNCHANGED subs \/ (MayCreate(i) /\ Created(i))
    /\ run' = AfterFailure(i)
    /\ UNCHANGED <<down, url, recorded, seeded, dirty, told, faults>>
-----------------------------------------------------------------------------
(***************************************************************************)
(* _enqueue_onedrive_reconciliation: a staged event is published at once,  *)
(* or by the dispatcher (module Intake).                                   *)
(***************************************************************************)
Reconcile ==
    /\ run[Maintenance].pc = "reconcile"
    /\ dirty' = FALSE
    /\ run' = [run EXCEPT ![Maintenance] = Idle]
    /\ UNCHANGED <<subs, down, url, recorded, seeded, told, faults>>
-----------------------------------------------------------------------------
Kinds == {"updated", "reauthorizationRequired"}

\* 202 only if every group was sent; after an error Graph repeats the batch.
Accepted(batch, sent) == sent = batch

(***************************************************************************)
(* A batch of the recorded subscription: its signals are grouped by kind   *)
(* and the groups published one by one until one fails.  Any other batch   *)
(* is answered 401, or 503 without a record, and changes nothing.          *)
(***************************************************************************)
Notify(batch, sent) ==
    /\ recorded \in Live
    /\ sent \subseteq batch
    /\ dirty' = (dirty /\ "updated" \notin sent)
    /\ told' = (told \/ ("updated" \in batch /\ Accepted(batch, sent)))
    /\ UNCHANGED <<subs, down, url, recorded, seeded, run, faults>>

\* process() of a reauthorizationRequired signal, however old.
Reauthorize(s) ==
    /\ s \in Live
    /\ ~down
    /\ subs' = [subs EXCEPT ![s].life = "fresh"]
    /\ UNCHANGED <<down, url, recorded, seeded, run, dirty, told, faults>>
-----------------------------------------------------------------------------
Step(i) ==
    \/ Seed(i) \/ ReadRecord(i) \/ Get(i) \/ List(i) \/ Renew(i)
    \/ Create(i) \/ Save(i) \/ Raise(i)
    \/ \E s \in Ids : Delete(i, s)

Environment ==
    \/ Outage \/ Change
    \/ \E s \in Ids : Age(s) \/ Lapse(s) \/ Remove(s) \/ Reauthorize(s)
    \/ \E u \in Urls : Deploy(u)
    \/ \E i \in Invocations : Crash(i)
    \/ \E batch \in SUBSET Kinds, sent \in SUBSET Kinds : Notify(batch, sent)

Next ==
    \/ Environment
    \/ \E i \in Invocations : Begin(i) \/ Step(i)
    \/ Reconcile

Spec == Init /\ [][Next]_vars

(***************************************************************************)
(* The timer comes up again, and its invocation goes on until it ends:     *)
(* each of its calls returns or raises (urllib's timeout of 30 seconds).   *)
(* Nothing is assumed of notifications, bootstrap requests, or outages.    *)
(***************************************************************************)
Fairness == WF_vars(Begin(Maintenance) \/ Step(Maintenance) \/ Reconcile)

FairSpec == Spec /\ Fairness
-----------------------------------------------------------------------------
TypeOK ==
    /\ subs \in [Ids -> Subscription \cup {None}]
    /\ down \in BOOLEAN
    /\ url \in Urls
    /\ recorded \in Ids \cup {None, Gone}
    /\ seeded \in BOOLEAN
    /\ run \in [Invocations -> RunState]
    /\ dirty \in BOOLEAN
    /\ told \in BOOLEAN
    /\ faults \in 0..MaxFaults

(***************************************************************************)
(* webhook-setup.md:213 "seeds delta?token=latest", then creates: whatever *)
(* fails or runs at once, the drive has no subscription before its cursor, *)
(* so no notification starts a job that lists the drive from the beginning.*)
(***************************************************************************)
SubscribedIsSeeded == Live # {} => seeded

(***************************************************************************)
(* Once Graph was answered 202 for the last change it will not speak of it *)
(* again: a delta job for that change is then on its way.                  *)
(***************************************************************************)
TrustedAnswers == told => ~dirty

(***************************************************************************)
(* tests/test_final_hardening.py:158 "maintenance reconciles when          *)
(* subscription lookup fails": a change leads to a delta job, even if no   *)
(* notification ever arrives and no call of Graph ever succeeds.           *)
(***************************************************************************)
ChangesAreListed == dirty ~> ~dirty

Healthy == recorded \in Live /\ subs[recorded].url = url

(***************************************************************************)
(* When Graph no longer fails, maintenance brings the record to a live     *)
(* subscription with the deployed URL and keeps it there, from whatever    *)
(* lost replies, crashes, concurrent bootstraps, removals and deployments  *)
(* have left behind: duplicates, orphans, stale URLs, a gap.               *)
(***************************************************************************)
Repaired == <>[]~down => <>[]Healthy
=============================================================================
