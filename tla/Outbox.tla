------------------------------- MODULE Outbox -------------------------------
(***************************************************************************)
(* The transactional outbox of Walkz and its delivery: rows of              *)
(* outbox_events in PostgreSQL, the BullMQ queue walkz-outbox in Redis, the  *)
(* worker processes that dispatch the events, the periodic recovery sweep    *)
(* that puts unpublished events on the queue, and the GitHub check runs the  *)
(* check handlers create and update, through requests that GitHub may carry  *)
(* out after the handler gave them up.                                       *)
(*                                                                         *)
(* A worker dispatches one outbox job at a time (BullMQ's default            *)
(* concurrency) and may stop between any two awaits.  Time is abstracted:    *)
(* a lease is none, live or expired, and may expire at any moment.           *)
(***************************************************************************)
EXTENDS Naturals, FiniteSets, Sequences

CONSTANTS
  Runs,           \* review runs, the aggregates of three events each
  Fixes,          \* patch proposals, the aggregates of a patch_fix.queued event
  Commands,       \* comment commands, the aggregates of their queued event
  Workers,        \* worker processes, named by their worker ID
  NoWorker,       \* lease_owner IS NULL
  NoEvent,        \* a dispatcher that has no event
  Batch,          \* WALKZ_RECOVERY_BATCH, the LIMIT of a sweep
  MaxRequeues,    \* bound: how often a patch fix is approved again
  Busy,           \* runs on a commit that is reviewed again and again
  MaxChecks,      \* bound: how many check runs a search of a crowded commit adds
  Uninstalled     \* runs whose repository no longer answers the GitHub App

RunKinds == {"review_run.queued", "github_check.queued", "github_check.completed"}
CheckKinds == {"github_check.queued", "github_check.completed"}

FixEvents == Fixes \X {"patch_fix.queued"}
CommandEvents == Commands \X {"github_comment_command.queued"}
Events == (Runs \X RunKinds) \cup FixEvents \cup CommandEvents

Aggregate(e) == e[1]
Kind(e) == e[2]

ReviewQueued(r) == <<r, "review_run.queued">>
CheckQueued(r) == <<r, "github_check.queued">>
CheckCompleted(r) == <<r, "github_check.completed">>

(* A check handler publishes the status its event is named for. *)
CheckStatus(e) == IF Kind(e) = "github_check.queued" THEN "queued" ELSE "completed"

ASSUME OutboxAssumption ==
  /\ Runs \cap Fixes = {} /\ Runs \cap Commands = {} /\ Fixes \cap Commands = {}
  /\ NoWorker \notin Workers
  /\ NoEvent \notin Events
  /\ Batch \in Nat \ {0}
  /\ MaxRequeues \in Nat
  /\ Busy \subseteq Runs /\ MaxChecks \in Nat
  /\ Uninstalled \subseteq Runs

VARIABLES
  \* outbox_events
  createdAt,      \* [Events -> Nat], rank by (created_at, id); 0 until inserted
  clock,          \* the last rank given out
  published,      \* events with published_at set
  owner,          \* lease_owner
  lease,          \* lease_expires_at: "none" is NULL, else "live" or "expired"
  requeues,       \* how often each fix was approved again
  \* Redis
  jobs,           \* the BullMQ job whose ID is the event's: "active" is locked
  \* worker processes
  disp,           \* the outbox job a worker is running
  \* outside
  checks,         \* GitHub: the status of each check run of a review run
  sent,           \* requests given up by their handler that may yet take effect
  crowded,        \* runs on a commit with a hundred check runs of that name
  \* history
  handled,        \* events whose handler succeeded since they were inserted
  overrun         \* runs whose check dispatchers or requests outlived a lease

rows == <<createdAt, clock, published, owner, lease, requeues>>
github == <<checks, sent, crowded>>
vars == <<rows, jobs, disp, github, handled, overrun>>

PCs == {"idle", "handoff", "find", "write", "mark"}
Idle == [pc |-> "idle", event |-> NoEvent, found |-> 0, locked |-> FALSE]

Dispatcher ==
  [pc : PCs, event : Events \cup {NoEvent}, found : Nat, locked : BOOLEAN]

(* A create (found = 0) or update of a check run that was given up. *)
Request == [event : Runs \X CheckKinds, found : Nat]

TypeOK ==
  /\ createdAt \in [Events -> Nat]
  /\ clock \in Nat
  /\ published \subseteq Events
  /\ owner \in [Events -> Workers \cup {NoWorker}]
  /\ lease \in [Events -> {"none", "live", "expired"}]
  /\ requeues \in [Fixes -> 0..MaxRequeues]
  /\ jobs \in [Events -> {"absent", "waiting", "active"}]
  /\ disp \in [Workers -> Dispatcher]
  /\ checks \in [Runs -> Seq({"queued", "completed"})]
  /\ sent \subseteq Request
  /\ crowded \subseteq Runs
  /\ handled \subseteq Events
  /\ overrun \subseteq Runs

Init ==
  /\ createdAt = [e \in Events |-> 0]
  /\ clock = 0
  /\ published = {}
  /\ owner = [e \in Events |-> NoWorker]
  /\ lease = [e \in Events |-> "none"]
  /\ requeues = [f \in Fixes |-> 0]
  /\ jobs = [e \in Events |-> "absent"]
  /\ disp = [w \in Workers |-> Idle]
  /\ checks = [r \in Runs |-> <<>>]
  /\ sent = {}
  /\ crowded = {}
  /\ handled = {}
  /\ overrun = {}

Inserted == {e \in Events : createdAt[e] > 0}

Earlier(e) ==
  {f \in Inserted : Aggregate(f) = Aggregate(e) /\ createdAt[f] < createdAt[e]}

-----------------------------------------------------------------------------
(* The transactions that write events.                                      *)

(* queueGitHubReviewRun inserts both events of a new run in one transaction. *)
(* They share created_at, so their random IDs decide which comes first.      *)
QueueReviewRun(r) ==
  /\ ReviewQueued(r) \notin Inserted
  /\ \E tie \in {1, 2} :
       createdAt' = [createdAt EXCEPT ![ReviewQueued(r)] = clock + tie,
                                      ![CheckQueued(r)] = clock + (3 - tie)]
  /\ clock' = clock + 2
  /\ UNCHANGED <<published, owner, lease, requeues, jobs, disp, github,
                 handled, overrun>>

(* completeHostedReviewRun inserts the completed check, once for each run.   *)
(* It may do so before either earlier event was dispatched: recovery also    *)
(* enqueues queued runs straight from review_runs.                           *)
CompleteReviewRun(r) ==
  /\ ReviewQueued(r) \in Inserted
  /\ CheckCompleted(r) \notin Inserted
  /\ createdAt' = [createdAt EXCEPT ![CheckCompleted(r)] = clock + 1]
  /\ clock' = clock + 1
  /\ UNCHANGED <<published, owner, lease, requeues, jobs, disp, github,
                 handled, overrun>>

(* Mutant: approving again leaves the row published. *)
QueuePatchFixOnce(f) ==
  LET e == <<f, "patch_fix.queued">> IN
  /\ e \in Inserted => requeues[f] < MaxRequeues
  /\ requeues' = IF e \in Inserted
                 THEN [requeues EXCEPT ![f] = @ + 1] ELSE requeues
  /\ createdAt' = [createdAt EXCEPT ![e] = clock + 1]
  /\ clock' = clock + 1
  /\ handled' = handled \ {e}
  /\ UNCHANGED <<published, owner, lease, jobs, disp, github, overrun>>

(* An approval inserts the event; approving a failed fix again re-arms the   *)
(* row (ON CONFLICT DO UPDATE) and leaves its lease columns as they are.     *)
QueuePatchFix(f) ==
  LET e == <<f, "patch_fix.queued">> IN
  /\ e \in Inserted => requeues[f] < MaxRequeues
  /\ requeues' = IF e \in Inserted
                 THEN [requeues EXCEPT ![f] = @ + 1] ELSE requeues
  /\ createdAt' = [createdAt EXCEPT ![e] = clock + 1]
  /\ clock' = clock + 1
  /\ published' = published \ {e}
  /\ handled' = handled \ {e}
  /\ UNCHANGED <<owner, lease, jobs, disp, github, overrun>>

(* acceptGitHubWebhook inserts the event with its command. *)
QueueCommand(c) ==
  LET e == <<c, "github_comment_command.queued">> IN
  /\ e \notin Inserted
  /\ createdAt' = [createdAt EXCEPT ![e] = clock + 1]
  /\ clock' = clock + 1
  /\ UNCHANGED <<published, owner, lease, requeues, jobs, disp, github,
                 handled, overrun>>

-----------------------------------------------------------------------------
(* The recovery sweep, at start and on a timer in every worker process.      *)

LeaseFree(e) == lease[e] \in {"none", "expired"}

(* The WHERE clause of listRecoverableOutboxEventIds. *)
Recoverable == {e \in Inserted \ published : LeaseFree(e)}

(* ORDER BY created_at leaves the two events of a new run in no order, while *)
(* claimOutboxEvent orders them by their IDs.                                *)
Tied(e, f) ==
  Aggregate(e) = Aggregate(f) /\ {Kind(e), Kind(f)} \subseteq
    {"review_run.queued", "github_check.queued"}

ListedBefore(e) ==
  {f \in Recoverable \ {e} : createdAt[f] < createdAt[e] \/ Tied(e, f)}

(* Mutant: the sweep lists one row too few. *)
ListedShort == {e \in Recoverable : Cardinality(ListedBefore(e)) < Batch - 1}

(* The rows that listRecoverableOutboxEventIds returns in every sweep,       *)
(* however PostgreSQL orders rows that tie.                                  *)
Listed == {e \in Recoverable : Cardinality(ListedBefore(e)) < Batch}

(* queue.add with the event ID as jobId, ignored while that job exists.  A   *)
(* sweep adds the IDs of its list one after the other, so when the turn of   *)
(* an ID comes its row may long have been leased or published; a failed add  *)
(* drops the rest of the list.  Hence any row that was ever listed.          *)
Enqueue(e) ==
  /\ e \in Inserted
  /\ jobs[e] = "absent"
  /\ jobs' = [jobs EXCEPT ![e] = "waiting"]
  /\ UNCHANGED <<rows, disp, github, handled, overrun>>

-----------------------------------------------------------------------------
(* dispatchOutboxEvent: claim, handle, mark published.                       *)

(* Mutant: the NOT EXISTS clause is missing. *)
ClaimableOutOfOrder(e) == e \in Inserted \ published /\ LeaseFree(e)

(* Mutant: a live lease does not stop a second claim. *)
ClaimableTwice(e) == e \in Inserted \ published /\ Earlier(e) \subseteq published

(* The WHERE clause of claimOutboxEvent. *)
Claimable(e) ==
  /\ e \in Inserted \ published
  /\ LeaseFree(e)
  /\ Earlier(e) \subseteq published

(* The job's end, when the worker still holds its BullMQ lock. *)
EndJob(w, status) ==
  jobs' = IF disp[w].locked THEN [jobs EXCEPT ![disp[w].event] = status] ELSE jobs

(* A failed job is retried with a backoff until its attempts run out. *)
AfterFailure == {"waiting", "absent"}

FirstStep(e) == IF Kind(e) \in CheckKinds THEN "find" ELSE "handoff"

Claim(w, e) ==
  /\ disp[w].pc = "idle"
  /\ jobs[e] = "waiting"
  /\ Claimable(e)
  /\ owner' = [owner EXCEPT ![e] = w]
  /\ lease' = [lease EXCEPT ![e] = "live"]
  /\ jobs' = [jobs EXCEPT ![e] = "active"]
  /\ disp' = [disp EXCEPT ![w] = [pc |-> FirstStep(e), event |-> e,
                                  found |-> 0, locked |-> TRUE]]
  /\ UNCHANGED <<createdAt, clock, published, requeues, github, handled,
                 overrun>>

(* claim returned null: the job ends as 'skipped'. *)
Skip(w, e) ==
  /\ disp[w].pc = "idle"
  /\ jobs[e] = "waiting"
  /\ ~Claimable(e)
  /\ jobs' = [jobs EXCEPT ![e] = "absent"]
  /\ UNCHANGED <<rows, disp, github, handled, overrun>>

(* The three *.queued kinds put an ID on another BullMQ queue. *)
HandOff(w) ==
  /\ disp[w].pc = "handoff"
  /\ handled' = handled \cup {disp[w].event}
  /\ disp' = [disp EXCEPT ![w].pc = "mark"]
  /\ UNCHANGED <<rows, jobs, github, overrun>>

(* The check publisher looks for a check run with the run's external ID      *)
(* among the first hundred of that name on the commit.  GitHub promises no   *)
(* order, so any of several may be the one found, and on a crowded commit    *)
(* none; MaxChecks bounds how often that leads to another one.               *)
FindCheck(w) ==
  LET r == Aggregate(disp[w].event) IN
  /\ disp[w].pc = "find"
  /\ r \notin Uninstalled
  /\ \E n \in 0..Len(checks[r]) :
       /\ n = 0 => checks[r] = <<>> \/ (r \in crowded /\ Len(checks[r]) < MaxChecks)
       /\ disp' = [disp EXCEPT ![w] = [@ EXCEPT !.pc = "write", !.found = n]]
  /\ UNCHANGED <<rows, jobs, github, handled, overrun>>

(* The check runs after an update of the n-th, or after a create. *)
Written(e, n) ==
  [checks EXCEPT ![Aggregate(e)] =
     IF n = 0 THEN Append(@, CheckStatus(e)) ELSE [@ EXCEPT ![n] = CheckStatus(e)]]

(* It updates the check run it found, else creates one. *)
WriteCheck(w) ==
  LET e == disp[w].event IN
  /\ disp[w].pc = "write"
  /\ checks' = Written(e, disp[w].found)
  /\ handled' = handled \cup {e}
  /\ disp' = [disp EXCEPT ![w].pc = "mark"]
  /\ UNCHANGED <<rows, jobs, sent, crowded, overrun>>

(* The request fails at the client, or its process dies, while GitHub may    *)
(* still carry it out.  Bound: one of several equal requests is followed.    *)
AbandonWrite(w) ==
  LET s == [event |-> disp[w].event, found |-> disp[w].found] IN
  /\ disp[w].pc = "write"
  /\ s \notin sent
  /\ sent' = sent \cup {s}
  /\ UNCHANGED jobs \/ \E status \in AfterFailure : EndJob(w, status)
  /\ disp' = [disp EXCEPT ![w] = Idle]
  /\ UNCHANGED <<rows, checks, crowded, handled, overrun>>

(* It takes effect after all, which no worker is told. *)
Land(s) ==
  /\ sent' = sent \ {s}
  /\ checks' = Written(s.event, s.found)
  /\ UNCHANGED <<rows, jobs, disp, crowded, handled, overrun>>

(* markOutboxEventPublished compares the owner, not the expiry, and leaves   *)
(* lease_owner set.  Its answer may be lost after the commit, which fails    *)
(* the job.                                                                  *)
MarkPublished(w) ==
  LET e == disp[w].event IN
  /\ disp[w].pc = "mark"
  /\ owner[e] = w /\ e \notin published
  /\ published' = published \cup {e}
  /\ lease' = [lease EXCEPT ![e] = "none"]
  /\ \E status \in {"absent"} \cup AfterFailure : EndJob(w, status)
  /\ disp' = [disp EXCEPT ![w] = Idle]
  /\ UNCHANGED <<createdAt, clock, owner, requeues, github, handled,
                 overrun>>

(* The dispatcher throws: the handler failed, a request timed out or a query *)
(* failed.  What it already wrote stays, and so does its lease.              *)
Throw(w) ==
  /\ \E status \in AfterFailure : EndJob(w, status)
  /\ disp' = [disp EXCEPT ![w] = Idle]
  /\ UNCHANGED <<rows, github, handled, overrun>>

(* 'Outbox event lease was lost before publication acknowledgement.' *)
MarkRefused(w) ==
  LET e == disp[w].event IN
  /\ disp[w].pc = "mark"
  /\ owner[e] # w \/ e \in published
  /\ Throw(w)

(* GitHub never answers the App on an uninstalled repository with success. *)
GitHubRefuses(w) ==
  /\ disp[w].pc = "find"
  /\ Aggregate(disp[w].event) \in Uninstalled
  /\ Throw(w)

DispatchFails(w) ==
  /\ disp[w].pc # "idle"
  /\ Throw(w)

-----------------------------------------------------------------------------
(* What happens to the workers and the queue.                                *)

(* The process dies; its job stays active until BullMQ finds it stalled. *)
Crash(w) ==
  /\ disp[w].pc # "idle"
  /\ disp' = [disp EXCEPT ![w] = Idle]
  /\ UNCHANGED <<rows, jobs, github, handled, overrun>>

LockHeld(e) == \E w \in Workers : disp[w].event = e /\ disp[w].locked

Unlock(E) ==
  disp' = [w \in Workers |-> IF disp[w].event \in E
                             THEN [disp[w] EXCEPT !.locked = FALSE]
                             ELSE disp[w]]

(* BullMQ takes the job from a worker that did not renew the job's lock.     *)
(* The worker may be dead, or only paused or cut off from Redis.             *)
Stall(e) ==
  /\ jobs[e] = "active"
  /\ \E status \in AfterFailure : jobs' = [jobs EXCEPT ![e] = status]
  /\ Unlock({e})
  /\ UNCHANGED <<rows, github, handled, overrun>>

(* Redis comes back without its data, as the recovery drill rehearses. *)
LoseQueue ==
  /\ \E e \in Events : jobs[e] # "absent"
  /\ jobs' = [e \in Events |-> "absent"]
  /\ Unlock(Events)
  /\ UNCHANGED <<rows, github, handled, overrun>>

(* Somebody still has the event's check run to write, or may have written it. *)
Outstanding(e) ==
  (\E w \in Workers : disp[w].event = e) \/ \E s \in sent : s.event = e

(* now() passes lease_expires_at.  Nothing renews an outbox lease, so a slow *)
(* dispatcher, or a request it gave up, can outlive it.                      *)
LeaseExpires(e) ==
  /\ lease[e] = "live"
  /\ lease' = [lease EXCEPT ![e] = "expired"]
  /\ overrun' = IF Kind(e) \in CheckKinds /\ Outstanding(e)
                THEN overrun \cup {Aggregate(e)} ELSE overrun
  /\ UNCHANGED <<createdAt, clock, published, owner, requeues, jobs, disp,
                 github, handled>>

(* Other reviews of the same commit fill the first hundred check runs. *)
Crowd(r) ==
  /\ r \in Busy \ crowded
  /\ crowded' = crowded \cup {r}
  /\ UNCHANGED <<rows, jobs, disp, checks, sent, handled, overrun>>

-----------------------------------------------------------------------------
Produce ==
  \/ \E r \in Runs : QueueReviewRun(r) \/ CompleteReviewRun(r)
  \/ \E f \in Fixes : QueuePatchFix(f)
  \/ \E c \in Commands : QueueCommand(c)

Recover == \E e \in Events : Enqueue(e)

Dispatch(w) ==
  \/ \E e \in Events : Claim(w, e) \/ Skip(w, e)
  \/ HandOff(w) \/ FindCheck(w) \/ WriteCheck(w) \/ AbandonWrite(w)
  \/ MarkPublished(w) \/ MarkRefused(w) \/ GitHubRefuses(w) \/ DispatchFails(w)

Fault ==
  \/ \E w \in Workers : Crash(w)
  \/ \E e \in Events : Stall(e) \/ LeaseExpires(e)
  \/ LoseQueue

GitHub ==
  \/ \E s \in sent : Land(s)
  \/ \E r \in Runs : Crowd(r)

Next ==
  \/ Produce
  \/ Recover
  \/ \E w \in Workers : Dispatch(w)
  \/ Fault
  \/ GitHub

Spec == Init /\ [][Next]_vars
-----------------------------------------------------------------------------
(* Properties.                                                              *)

(* claimOutboxEvent's NOT EXISTS keeps each aggregate's events in order: an  *)
(* event is marked published only when all earlier ones are, whatever        *)
(* crashes, lost leases and duplicate jobs come between claim and mark.      *)
PublishedInOrder == \A e \in published : Earlier(e) \subseteq published

(* At least once: no row is marked published before its handler succeeded.   *)
(* A patch fix approved again while its event is being dispatched is the one *)
(* exception, because the old dispatcher may mark the re-armed row.          *)
PublishedOnlyIfHandled == published \ FixEvents \subseteq handled

(* Unless a dispatcher or a request outlived its lease, or the commit has    *)
(* more check runs than the search reads, a run has a single GitHub check    *)
(* run, and once its completed event is published that check run shows the   *)
(* completed status: the find-then-create-or-update of the publisher does    *)
(* not duplicate or regress the check, through crashes, requests that take   *)
(* effect after they failed, and redeliveries.                               *)
CheckConverges ==
  \A r \in Runs \ (overrun \cup crowded) :
    /\ Len(checks[r]) <= 1
    /\ CheckCompleted(r) \in published => checks[r] = <<"completed">>

(* Only a dispatcher that no longer holds the lease of the run's queued      *)
(* event, or a request it gave up that takes effect after that lease, can    *)
(* turn a completed check run back to queued.                                *)
OnlyLateDispatchersRegressChecks ==
  [][\A r \in Runs : \A n \in DOMAIN checks[r] :
       LET e == CheckQueued(r) IN
       checks[r][n] = "completed" /\ checks'[r][n] = "queued" =>
         \/ \E w \in Workers :
              /\ disp[w].event = e /\ disp[w].pc = "write"
              /\ ~(lease[e] = "live" /\ owner[e] = w)
         \/ \E s \in sent \ sent' : s.event = e /\ lease[e] # "live"]_vars

(* The outbox keeps its promise to the writers. *)
Promise == INSTANCE OrderedDelivery WITH
  Rewritable <- FixEvents,
  rank <- createdAt, delivered <- handled, acked <- published

ImplementsOrderedDelivery == Promise!Spec

-----------------------------------------------------------------------------
(* Fairness: sweeps keep coming and enqueue what they list, BullMQ finds     *)
(* stalled jobs and starves no waiting job, leases run out, calls return.    *)
(* Crashes, errors and losses may strike any number of times but cease in    *)
(* the end; GitHub may refuse an uninstalled repository for ever.            *)
EnqueueListed(e) == e \in Listed /\ Enqueue(e)

StallOrphan(e) == ~LockHeld(e) /\ Stall(e)

Disturbance ==
  LoseQueue \/ \E w \in Workers : Crash(w) \/ DispatchFails(w) \/ AbandonWrite(w)

Fairness ==
  /\ \A w \in Workers :
       WF_vars(HandOff(w) \/ FindCheck(w) \/ WriteCheck(w)
                \/ MarkPublished(w) \/ MarkRefused(w) \/ GitHubRefuses(w))
  /\ \A e \in Events :
       /\ WF_vars(EnqueueListed(e))
       /\ Aggregate(e) \notin Uninstalled => SF_vars(\E w \in Workers : Claim(w, e))
       /\ WF_vars(LeaseExpires(e)) /\ WF_vars(StallOrphan(e))
  /\ <>[][~Disturbance]_vars

FairSpec == Spec /\ Fairness

(* No row is lost: though jobs, processes and all of Redis may be lost on    *)
(* the way, the backlog drains.  Rows of an uninstalled repository stay      *)
(* behind, and do not hold up the others.                                    *)
BacklogDrains ==
  []<>(\A e \in Inserted \ published : Aggregate(e) \in Uninstalled)
=============================================================================
