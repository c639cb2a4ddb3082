------------------------------ MODULE ReviewRun ------------------------------
(***************************************************************************)
(* The review runs of one pull request, from the webhook or manual request   *)
(* that queues a run, through the worker that executes it under a lease it   *)
(* renews, to the result stored with its completed-check event, and to the   *)
(* patch proposals made from it.                                             *)
(*                                                                         *)
(* Each action is one transaction of PostgreSQL, one call to GitHub or one   *)
(* step of a worker; a process may stop between any two of them.  Queueing   *)
(* transactions of a repository serialise on its row.  Pull requests meet    *)
(* only in the worker pool and in the LIMIT of a sweep, see Outbox for that. *)
(***************************************************************************)
EXTENDS Naturals, Sequences

CONSTANTS
  Workers,        \* worker processes, by the worker ID each has to itself
  NoWorker,       \* worker_lease_owner IS NULL
  Requests,       \* manual reviews, by their idempotency key
  Results,        \* the verdicts and findings a review can come to
  NoResult,       \* a handler without a result
  Unreadable,     \* runs whose stored configuration fails its hash check
  MaxRuns,        \* bound: runs of the pull request
  MaxHead         \* bound: pushes to the pull request

Runs == 1..MaxRuns
NoRun == 0

Verdicts == {"SHIP", "FIX", "HUMAN", "INCONCLUSIVE", "ERROR"}

ASSUME ReviewRunAssumption ==
  /\ NoWorker \notin Workers
  /\ Results \subseteq [verdict : Verdicts, verified : BOOLEAN]
  /\ NoResult \notin Results
  /\ Unreadable \subseteq Runs
  /\ MaxRuns \in Nat /\ MaxHead \in Nat \ {0}

VARIABLES
  \* GitHub
  ghHead,         \* how often the pull request was pushed to: its head
  \* API processes
  reads,          \* [Requests -> heads read from GitHub and not yet queued]
  \* PostgreSQL
  deliveries,     \* webhook_deliveries: each push is delivered under its ID
  requests,       \* manual_review_requests: the head, 0 until inserted
  prHead,         \* pull_requests.head_sha, 0 until inserted
  nruns,          \* runs created so far
  head,           \* review_runs.head_sha
  status,         \* review_runs.status, "none" until inserted
  owner,          \* worker_lease_owner
  lease,          \* worker_lease_expires_at: "none" is NULL
  reports,        \* the github_check.completed events of each run
  proposal,       \* patch_proposals: "none", "fresh" or "stale" (stale_at)
  \* Redis
  jobs,           \* the BullMQ job of each run
  \* worker processes
  handlers,       \* the review job a worker is running
  \* history
  origin          \* what each run was queued for

intake == <<ghHead, reads, deliveries, requests, prHead, nruns, head, origin>>
vars == <<intake, status, owner, lease, reports, proposal, jobs, handlers>>

Idle == [pc |-> "idle", run |-> NoRun, result |-> NoResult,
         latest |-> FALSE, locked |-> FALSE]

Statuses == {"none", "queued", "collecting_context", "awaiting_human",
             "completed", "inconclusive", "failed", "cancelled", "superseded"}

Handler ==
  [pc : {"idle", "running", "lost", "finishing", "completing"},
   run : Runs \cup {NoRun}, result : Results \cup {NoResult},
   latest : BOOLEAN, locked : BOOLEAN]

Origins == ({"delivery"} \X (1..MaxHead)) \cup ({"request"} \X Requests)

TypeOK ==
  /\ ghHead \in 1..MaxHead
  /\ reads \in [Requests -> SUBSET (1..MaxHead)]
  /\ deliveries \subseteq 1..MaxHead
  /\ requests \in [Requests -> 0..MaxHead]
  /\ prHead \in 0..MaxHead
  /\ nruns \in 0..MaxRuns
  /\ head \in [Runs -> 0..MaxHead]
  /\ origin \in [Runs -> Origins \cup {<<>>}]
  /\ status \in [Runs -> Statuses]
  /\ owner \in [Runs -> Workers \cup {NoWorker}]
  /\ lease \in [Runs -> {"none", "live", "expired"}]
  /\ reports \in [Runs -> Seq(Results)]
  /\ proposal \in [Runs -> {"none", "fresh", "stale"}]
  /\ jobs \in [Runs -> {"absent", "waiting", "active"}]
  /\ handlers \in [Workers -> Handler]

Init ==
  /\ ghHead = 1
  /\ reads = [q \in Requests |-> {}]
  /\ deliveries = {}
  /\ requests = [q \in Requests |-> 0]
  /\ prHead = 0
  /\ nruns = 0
  /\ head = [r \in Runs |-> 0]
  /\ origin = [r \in Runs |-> <<>>]
  /\ status = [r \in Runs |-> "none"]
  /\ owner = [r \in Runs |-> NoWorker]
  /\ lease = [r \in Runs |-> "none"]
  /\ reports = [r \in Runs |-> <<>>]
  /\ proposal = [r \in Runs |-> "none"]
  /\ jobs = [r \in Runs |-> "absent"]
  /\ handlers = [w \in Workers |-> Idle]

-----------------------------------------------------------------------------
(* Queueing a run.                                                          *)

(* Mutant: the list of active statuses forgets the runs that wait for a human. *)
ActiveButAwaiting == {"queued", "collecting_context"}

(* activeReviewRunStatuses, without the six no code ever sets. *)
ActiveStatuses == {"queued", "collecting_context", "awaiting_human"}

(* Mutant: superseding leaves the proposals as they are. *)
WithdrawnNever(S) == proposal

(* markPatchProposalsStale *)
Withdrawn(S) ==
  [r \in Runs |-> IF r \in S /\ proposal[r] = "fresh" THEN "stale" ELSE proposal[r]]

(* queueGitHubReviewRun: record the head, insert the run with its two outbox *)
(* events, supersede every other active run and withdraw its proposals.  No  *)
(* event tells GitHub that the check of a superseded run is over.            *)
QueueRun(h, o) ==
  LET new == nruns + 1
      replaced == {r \in Runs : status[r] \in ActiveStatuses} IN
  /\ new \in Runs
  /\ prHead' = h
  /\ nruns' = new
  /\ head' = [head EXCEPT ![new] = h]
  /\ origin' = [origin EXCEPT ![new] = o]
  /\ status' = [r \in Runs |-> IF r = new THEN "queued"
                               ELSE IF r \in replaced THEN "superseded"
                               ELSE status[r]]
  /\ proposal' = Withdrawn(replaced)
  /\ UNCHANGED <<owner, lease, reports, jobs, handlers>>

(* A push or, at first, the opening of the pull request. *)
Push ==
  /\ ghHead < MaxHead
  /\ ghHead' = ghHead + 1
  /\ UNCHANGED <<reads, deliveries, requests, prHead, nruns, head, origin, status,
                 owner, lease, reports, proposal, jobs, handlers>>

(* Mutant: a delivery is accepted whether or not its ID is known. *)
NewAlways(d) == TRUE

(* insertWebhookDelivery, ON CONFLICT DO NOTHING *)
NewDelivery(d) == d \notin deliveries

(* acceptGitHubWebhook.  GitHub delivers the webhooks of the pushes in any   *)
(* order and may deliver one twice; the payload carries the head at its time.*)
AcceptWebhook(d) ==
  /\ d \in 1..ghHead
  /\ NewDelivery(d)
  /\ deliveries' = deliveries \cup {d}
  /\ QueueRun(d, <<"delivery", d>>)
  /\ UNCHANGED <<ghHead, reads, requests>>

(* The trigger policy ignores it; the delivery is recorded all the same. *)
IgnoreWebhook(d) ==
  /\ d \in 1..ghHead
  /\ NewDelivery(d)
  /\ deliveries' = deliveries \cup {d}
  /\ UNCHANGED <<ghHead, reads, requests, prHead, nruns, head, origin, status,
                 owner, lease, reports, proposal, jobs, handlers>>

(* A manual review, started from the dashboard or by a review command, first *)
(* asks GitHub for the head.  A client may retry under the same key.         *)
ReadPullRequest(q) ==
  /\ reads' = [reads EXCEPT ![q] = @ \cup {ghHead}]
  /\ UNCHANGED <<ghHead, deliveries, requests, prHead, nruns, head, origin, status,
                 owner, lease, reports, proposal, jobs, handlers>>

(* queueManualReview with a key that is not known yet. *)
QueueManualReview(q, h) ==
  /\ h \in reads[q]
  /\ requests[q] = 0
  /\ requests' = [requests EXCEPT ![q] = h]
  /\ reads' = [reads EXCEPT ![q] = @ \ {h}]
  /\ QueueRun(h, <<"request", q>>)
  /\ UNCHANGED <<ghHead, deliveries>>

(* The key is known: the stored run is returned or, for another head, the    *)
(* request is refused.  Or the API process died before it queued anything.   *)
DropManualReview(q, h) ==
  /\ h \in reads[q]
  /\ reads' = [reads EXCEPT ![q] = @ \ {h}]
  /\ UNCHANGED <<ghHead, deliveries, requests, prHead, nruns, head, origin, status,
                 owner, lease, reports, proposal, jobs, handlers>>

(* cancelReviewRun *)
CancelRun(r) ==
  /\ status[r] \in ActiveStatuses
  /\ status' = [status EXCEPT ![r] = "cancelled"]
  /\ proposal' = Withdrawn({r})
  /\ UNCHANGED <<intake, owner, lease, reports, jobs, handlers>>

(* The eligible CTE of createPatchProposal: findings are stored with the     *)
(* report.                                                                   *)
Eligible(r) ==
  /\ status[r] = "awaiting_human"
  /\ head[r] = prHead
  /\ reports[r] # <<>> /\ reports[r][1].verified

CreateProposal(r) ==
  /\ Eligible(r)
  /\ proposal' = [proposal EXCEPT ![r] = "fresh"]
  /\ UNCHANGED <<intake, status, owner, lease, reports, jobs, handlers>>

-----------------------------------------------------------------------------
(* The review queue.  Its jobs are added by the dispatcher of the run's      *)
(* review_run.queued event and by the sweep over recoverable runs.           *)

(* Mutant: a sweep looks for queued runs only. *)
RecoverableQueued(r) == status[r] = "queued"

(* listRecoverableHostedReviewRunIds *)
Recoverable(r) ==
  \/ status[r] = "queued"
  \/ status[r] = "collecting_context" /\ lease[r] \in {"none", "expired"}

(* Either may act on what it read long ago, so at any time after the insert. *)
Enqueue(r) ==
  /\ status[r] # "none"
  /\ jobs[r] = "absent"
  /\ jobs' = [jobs EXCEPT ![r] = "waiting"]
  /\ UNCHANGED <<intake, status, owner, lease, reports, proposal, handlers>>

(* A failed job is retried with a backoff until its attempts run out. *)
AfterFailure == {"waiting", "absent"}

(* The job's end, when the worker still holds its BullMQ lock. *)
EndJob(w, outcome) ==
  jobs' = IF handlers[w].locked THEN [jobs EXCEPT ![handlers[w].run] = outcome]
                                ELSE jobs

-----------------------------------------------------------------------------
(* The review job handler.                                                  *)

(* Mutant: any active run whose lease is free may be claimed. *)
ClaimableActive(r) ==
  \/ status[r] = "queued"
  \/ status[r] \in {"collecting_context", "awaiting_human"}
     /\ lease[r] \in {"none", "expired"}

(* The WHERE clause of claimHostedReviewRun, the same as the sweep's. *)
Claimable(r) ==
  \/ status[r] = "queued"
  \/ status[r] = "collecting_context" /\ lease[r] \in {"none", "expired"}

Lease(w, r) ==
  /\ status' = [status EXCEPT ![r] = "collecting_context"]
  /\ owner' = [owner EXCEPT ![r] = w]
  /\ lease' = [lease EXCEPT ![r] = "live"]
  /\ UNCHANGED <<intake, reports, proposal>>

(* Whoever worked on the run before no longer holds the latest claim. *)
Claim(w, r) ==
  /\ handlers[w].pc = "idle"
  /\ jobs[r] = "waiting"
  /\ Claimable(r) /\ r \notin Unreadable
  /\ Lease(w, r)
  /\ jobs' = [jobs EXCEPT ![r] = "active"]
  /\ handlers' = [v \in Workers |->
       IF v = w THEN [pc |-> "running", run |-> r, result |-> NoResult,
                      latest |-> TRUE, locked |-> TRUE]
       ELSE [handlers[v] EXCEPT !.latest = @ /\ handlers[v].run # r]]

(* The claim is committed before the row is parsed and its configuration     *)
(* checked: a run that fails there is leased, and the job throws.            *)
ClaimUnreadable(w, r) ==
  /\ handlers[w].pc = "idle"
  /\ jobs[r] = "waiting"
  /\ Claimable(r) /\ r \in Unreadable
  /\ Lease(w, r)
  /\ \E outcome \in AfterFailure : jobs' = [jobs EXCEPT ![r] = outcome]
  /\ UNCHANGED handlers

(* claim returned null: there is nothing to do. *)
Skip(w, r) ==
  /\ handlers[w].pc = "idle"
  /\ jobs[r] = "waiting"
  /\ ~Claimable(r)
  /\ jobs' = [jobs EXCEPT ![r] = "absent"]
  /\ UNCHANGED <<intake, status, owner, lease, reports, proposal, handlers>>

(* The WHERE clause of renewHostedReviewRunLease: the owner, not the expiry. *)
Owns(w, r) == owner[r] = w /\ status[r] = "collecting_context"

(* The heartbeat while the review runs.  If the answer is lost, or there is  *)
(* none, the handler takes the lease for lost and aborts.                    *)
Heartbeat(w) ==
  LET r == handlers[w].run IN
  /\ handlers[w].pc = "running"
  /\ Owns(w, r)
  /\ lease' = [lease EXCEPT ![r] = "live"]
  /\ handlers' \in {handlers, [handlers EXCEPT ![w].pc = "lost"]}
  /\ UNCHANGED <<intake, status, owner, reports, proposal, jobs>>

HeartbeatRefused(w) ==
  /\ handlers[w].pc = "running"
  /\ ~Owns(w, handlers[w].run)
  /\ handlers' = [handlers EXCEPT ![w].pc = "lost"]
  /\ UNCHANGED <<intake, status, owner, lease, reports, proposal, jobs>>

(* Checkout, pipeline and proof come to a result; an infrastructure failure  *)
(* is a result too, the verdict ERROR.                                       *)
FinishReview(w) ==
  /\ handlers[w].pc = "running"
  /\ \E result \in Results :
       handlers' = [handlers EXCEPT
         ![w] = [@ EXCEPT !.pc = "finishing", !.result = result]]
  /\ UNCHANGED <<intake, status, owner, lease, reports, proposal, jobs>>

(* The renewal between heartbeat.stop and complete. *)
FinalRenew(w) ==
  LET r == handlers[w].run IN
  /\ handlers[w].pc = "finishing"
  /\ Owns(w, r)
  /\ lease' = [lease EXCEPT ![r] = "live"]
  /\ handlers' = [handlers EXCEPT ![w].pc = "completing"]
  /\ UNCHANGED <<intake, status, owner, reports, proposal, jobs>>

(* The handler throws: its lease was lost, or a call failed. *)
Throw(w) ==
  /\ \E outcome \in AfterFailure : EndJob(w, outcome)
  /\ handlers' = [handlers EXCEPT ![w] = Idle]
  /\ UNCHANGED <<intake, status, owner, lease, reports, proposal>>

(* 'Review run lease was lost during execution.' or '... before completion.' *)
LeaseLost(w) ==
  /\ \/ handlers[w].pc = "lost"
     \/ handlers[w].pc = "finishing" /\ ~Owns(w, handlers[w].run)
  /\ Throw(w)

HandlerFails(w) ==
  /\ handlers[w].pc # "idle"
  /\ Throw(w)

-----------------------------------------------------------------------------
(* completeHostedReviewRun, on the locked row of the run.                    *)

AwaitsHuman(result) == result.verdict = "FIX" /\ result.verified

(* terminalStatusForVerdict *)
TerminalStatus(result) ==
  CASE result.verdict = "INCONCLUSIVE" -> "inconclusive"
    [] result.verdict = "ERROR" -> "failed"
    [] AwaitsHuman(result) -> "awaiting_human"
    [] OTHER -> "completed"

Decided == {"awaiting_human", "completed", "inconclusive", "failed"}

(* Mutant: the lease owner is not compared. *)
MayStoreAnyOwner(w, r) == status[r] \in {"queued", "collecting_context"}

MayStore(w, r) ==
  /\ status[r] \in {"queued", "collecting_context"}
  /\ owner[r] = w

(* The result is stored with its event; the answer may be lost after that.   *)
StoreResult(w) ==
  LET r == handlers[w].run
      result == handlers[w].result IN
  /\ handlers[w].pc = "completing"
  /\ MayStore(w, r)
  /\ reports[r] = <<>>     \* outbox_events_completed_check_idx
  /\ status' = [status EXCEPT ![r] = TerminalStatus(result)]
  /\ reports' = [reports EXCEPT ![r] = <<result>>]
  /\ owner' = [owner EXCEPT ![r] = NoWorker]
  /\ lease' = [lease EXCEPT ![r] = "none"]
  /\ \E outcome \in {"absent"} \cup AfterFailure : EndJob(w, outcome)
  /\ handlers' = [handlers EXCEPT ![w] = Idle]
  /\ UNCHANGED <<intake, proposal>>

(* The same result is already stored: complete answers as before.  What is   *)
(* compared is the payload of the event, which holds the verdict and the     *)
(* findings but not how well they are proved.                                *)
ResultAlreadyStored(w) ==
  LET r == handlers[w].run IN
  /\ handlers[w].pc = "completing"
  /\ status[r] \in Decided
  /\ reports[r] # <<>> /\ reports[r][1].verdict = handlers[w].result.verdict
  /\ EndJob(w, "absent")
  /\ handlers' = [handlers EXCEPT ![w] = Idle]
  /\ UNCHANGED <<intake, status, owner, lease, reports, proposal>>

(* Another result is stored (results with the same verdict may still differ  *)
(* in their findings), the run was withdrawn, or the lease is not ours.      *)
ResultRefused(w) ==
  /\ handlers[w].pc = "completing"
  /\ ~MayStore(w, handlers[w].run)
  /\ Throw(w)

-----------------------------------------------------------------------------
(* What happens to the workers and the queue.                                *)

Crash(w) ==
  /\ handlers[w].pc # "idle"
  /\ handlers' = [handlers EXCEPT ![w] = Idle]
  /\ UNCHANGED <<intake, status, owner, lease, reports, proposal, jobs>>

(* BullMQ takes the job from a worker that did not renew the job's lock. *)
Stall(r) ==
  /\ jobs[r] = "active"
  /\ \E outcome \in AfterFailure : jobs' = [jobs EXCEPT ![r] = outcome]
  /\ handlers' = [w \in Workers |->
       [handlers[w] EXCEPT !.locked = @ /\ handlers[w].run # r]]
  /\ UNCHANGED <<intake, status, owner, lease, reports, proposal>>

LoseQueue ==
  /\ \E r \in Runs : jobs[r] # "absent"
  /\ jobs' = [r \in Runs |-> "absent"]
  /\ handlers' = [w \in Workers |-> [handlers[w] EXCEPT !.locked = FALSE]]
  /\ UNCHANGED <<intake, status, owner, lease, reports, proposal>>

(* now() passes worker_lease_expires_at. *)
LeaseExpires(r) ==
  /\ lease[r] = "live"
  /\ lease' = [lease EXCEPT ![r] = "expired"]
  /\ UNCHANGED <<intake, status, owner, reports, proposal, jobs, handlers>>

-----------------------------------------------------------------------------
Intake ==
  \/ Push
  \/ \E d \in 1..MaxHead : AcceptWebhook(d) \/ IgnoreWebhook(d)
  \/ \E q \in Requests :
       \/ ReadPullRequest(q)
       \/ \E h \in 1..MaxHead : QueueManualReview(q, h) \/ DropManualReview(q, h)

Control == \E r \in Runs : CancelRun(r) \/ CreateProposal(r) \/ Enqueue(r)

Handle(w) ==
  \/ \E r \in Runs : Claim(w, r) \/ ClaimUnreadable(w, r) \/ Skip(w, r)
  \/ Heartbeat(w) \/ HeartbeatRefused(w) \/ FinishReview(w) \/ FinalRenew(w)
  \/ StoreResult(w) \/ ResultAlreadyStored(w) \/ ResultRefused(w)
  \/ LeaseLost(w) \/ HandlerFails(w)

Fault ==
  \/ \E w \in Workers : Crash(w)
  \/ \E r \in Runs : Stall(r) \/ LeaseExpires(r)
  \/ LoseQueue

Next ==
  \/ Intake
  \/ Control
  \/ \E w \in Workers : Handle(w)
  \/ Fault

Spec == Init /\ [][Next]_vars
-----------------------------------------------------------------------------
(* Properties.                                                              *)

Open == {"queued", "collecting_context", "awaiting_human"}

(* supersedeActiveReviewRuns and upsertPullRequest act together: whatever    *)
(* order webhooks and manual requests are accepted in, the one run that is   *)
(* still open is the newest and reviews the head recorded for the request.   *)
OpenRunIsCurrent ==
  \A r \in Runs : status[r] \in Open => r = nruns /\ head[r] = prHead

(* completeHostedReviewRun: a run has one completed-check event, which says  *)
(* what its status says, and none before it is decided; running a job again  *)
(* after a crash or a lost answer never reports a second time.               *)
ReportedOnce ==
  \A r \in Runs :
    /\ Len(reports[r]) <= 1
    /\ status[r] \in {"queued", "collecting_context"} => reports[r] = <<>>
    /\ status[r] \in Decided =>
         reports[r] # <<>> /\ TerminalStatus(reports[r][1]) = status[r]

(* Renewing and completing compare the worker ID only, so a worker may go on *)
(* after its lease ran out; still no result is stored by a worker once       *)
(* another one claimed the run after it.                                     *)
ResultFromLatestClaim ==
  [][\A r \in Runs : reports'[r] # reports[r] =>
       \E w \in Workers : handlers[w].run = r /\ handlers[w].latest
                         /\ handlers'[w] = Idle]_vars

(* A proposal that can still be decided belongs to the newest run and to the *)
(* head recorded for the pull request, and its run awaits a human.           *)
FreshProposalIsCurrent ==
  \A r \in Runs : proposal[r] = "fresh" =>
    status[r] = "awaiting_human" /\ r = nruns /\ head[r] = prHead

(* However often GitHub delivers a webhook and a client retries a request,   *)
(* no two runs come from the same one, and a request keeps its run's head.   *)
NoRunQueuedTwice ==
  \A r \in 1..nruns :
    /\ \A s \in 1..nruns : origin[r] = origin[s] => r = s
    /\ \A q \in Requests : origin[r] = <<"request", q>> => requests[q] = head[r]

(* The life of a run, as its readers see it. *)
StageName(s) ==
  CASE s = "none" -> "none"
    [] s \in {"queued", "collecting_context"} -> "open"
    [] s \in Decided -> "decided"
    [] OTHER -> "withdrawn"

Stage == [r \in Runs |-> StageName(status[r])]
Report == [r \in Runs |-> IF reports[r] = <<>> THEN NoResult ELSE reports[r][1]]

Lifecycle == INSTANCE ReviewLifecycle WITH
  Awaits <- AwaitsHuman, stage <- Stage, report <- Report

(* Behind the leases, heartbeats and redelivered jobs every review is        *)
(* decided at most once, and never after something newer was asked for.      *)
ImplementsLifecycle == Lifecycle!Spec

-----------------------------------------------------------------------------
(* Fairness: sweeps keep coming and enqueue what they list, BullMQ finds     *)
(* stalled jobs and starves no waiting job, the lease of a handler that is   *)
(* gone runs out, reviews end (their run budget bounds them).  Crashes,      *)
(* errors, losses, and pauses long enough for a heartbeat to miss the lease  *)
(* may strike any number of times but cease in the end.                      *)
LockHeld(r) == \E w \in Workers : handlers[w].run = r /\ handlers[w].locked

Working(r) ==
  \E w \in Workers : handlers[w].run = r /\ handlers[w].pc # "lost" /\ owner[r] = w

EnqueueRecoverable(r) == Recoverable(r) /\ Enqueue(r)
StallOrphan(r) == ~LockHeld(r) /\ Stall(r)
ExpireOrphan(r) == ~Working(r) /\ LeaseExpires(r)

LoseHeartbeat(w) == Heartbeat(w) /\ handlers'[w].pc = "lost"

Disturbance ==
  \/ LoseQueue
  \/ \E w \in Workers : Crash(w) \/ HandlerFails(w) \/ LoseHeartbeat(w)
  \/ \E r \in Runs : (Working(r) /\ LeaseExpires(r)) \/ (LockHeld(r) /\ Stall(r))

Fairness ==
  /\ \A w \in Workers :
       WF_vars(FinishReview(w) \/ FinalRenew(w) \/ StoreResult(w)
                \/ ResultAlreadyStored(w) \/ ResultRefused(w) \/ LeaseLost(w))
  /\ \A r \in Runs :
       /\ WF_vars(EnqueueRecoverable(r)) /\ WF_vars(StallOrphan(r))
       /\ WF_vars(ExpireOrphan(r))
       /\ SF_vars(\E w \in Workers : Claim(w, r))
  /\ <>[][~Disturbance]_vars

FairSpec == Spec /\ Fairness

(* Every queued review comes to an end, through lost jobs, dead workers and  *)
(* expired leases, unless its configuration cannot be read.                  *)
ReviewsEnd ==
  []<>(\A r \in Runs : status[r] \in {"queued", "collecting_context"} => r \in Unreadable)
=============================================================================
