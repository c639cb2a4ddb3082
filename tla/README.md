# Walkz in TLA+

Walkz reviews GitHub pull requests: an API process accepts webhooks and
dashboard requests, PostgreSQL holds every durable fact, BullMQ queues in Redis
wake worker processes, and the workers execute reviews and publish check runs,
replies and suggested patches on GitHub. Everything that matters happens across
those four, in small transactions and single calls between which a process may
stop. This directory models that part of the program, checks it with TLC and
proves its safety properties with TLAPS.

## The system

| Component | State it keeps | Operations |
| --- | --- | --- |
| Outbox (`persistence/outbox.ts`, `worker/index.ts`, `hosted-outbox-handler.ts`) | rows of `outbox_events`: `created_at`, `published_at`, lease owner and expiry | insert with the writer's transaction, claim in order of the aggregate, hand off or publish, mark published, list recoverable rows |
| Check publication (`github-check-handler.ts`, `github/publisher.ts`, `octokit-checks.ts`) | check runs at GitHub, found by external ID | find, then create or update |
| Run intake (`github-review-intake.ts`, `github-review-run.ts`, `manual-review.ts`, `webhook-delivery.ts`) | `webhook_deliveries`, `manual_review_requests`, `pull_requests.head_sha`, `review_runs` | accept a delivery once, start a manual review under a key, supersede the active runs |
| Run lifecycle (`review-run-control.ts`, `hosted-review-worker.ts`, `review-result.ts`) | status, head, lease, stored result | claim, renew, complete with its event, cancel, supersede |
| Review job handler (`hosted-review-handler.ts`, `review-queue.ts`) | a job in a worker, its heartbeat | claim, heartbeat, execute, final renewal, complete |
| Comment commands (`github-comment-command.ts`, `github-comment-command-handler.ts`) | `github_comment_commands`: status, attempts, lease, target, reply | accept, claim (five attempts), authorize, queue a review or bind a proposal, search and post the reply, end |
| Patch proposals (`patch-proposal.ts`, `patch-preparation.ts`, `patch-generation.ts`) | proposals and their decisions, by hash; the recorded model answer; the text in pages and comments only | prepare, create, approve, reject, withdraw |
| Suggestion publication (`patch-suggestion-api.ts`, `github/suggestion.ts`) | publication lease and reference of a proposal, review comments at GitHub | prepare, search, create, delete, record, release |
| Patch fixes (`patch-fix.ts`, `patch-reproof.ts`, `hosted-patch-fix-handler.ts`) | fix jobs: status, attempt, lease; recorded proofs | approve, claim (five attempts), prove again, record the proof, complete, fail, release, approve again |
| Worker runtime (`worker/runtime.ts`, `durable-recovery.ts`, `packages/operations`) | a process: its queues, its recovery timer, its operations server | start, recover, probe, close; the one-shot reconciliation |
| Engine (`pipeline.ts`, `evidence.ts`, `verdict.ts`, `proof-*.ts`, `prompt.ts`, `context`) | one attempt at a review, in memory; the recorded model answers | collect the change, run the checks, review, specialize, challenge, prove, adjudicate |
| Providers (`groq.ts` and the retry loop) | none across calls, save the record of an answer | select a model, request, classify, retry, read |
| Sandbox (`runner.ts`, `docker-proof.ts`) | a container, its client process, a proof directory | run, terminate, remove, verify |
| Git access (`packages/git`) | none across calls | references, changed files, guidance, proof trees |
| Web dashboard (`manual-review-form.tsx`, `patch-fix-controls.tsx`, `hosted-api-proxy.ts`) | a page: the key of an unanswered request, the fix it shows, a poll timer | ask for a review, propose, publish and decide, resume, poll |
| Contracts, authentication, installations, configuration, feedback, telemetry counters, CLI, MCP, scripts | records of their own, or none | outside the review protocol |

How they interact. A transaction that changes a run also inserts the outbox rows
that announce it; no process talks to another directly. A worker that dispatches
a row either puts an ID on another queue (`review_run.queued`,
`patch_fix.queued`, `github_comment_command.queued`) or publishes a check
(`github_check.queued`, `github_check.completed`). The handler of the second
queue claims the row named by the ID, works under its lease and stores the
outcome, which inserts the next outbox row. The review handler calls the
pipeline, which calls the sandbox and the provider under one signal, and then
the proof. A comment command ends in one of two calls that the dashboard makes
as well: queue a review under a key, or prepare a patch. Redis holds nothing
that cannot be rebuilt: sweeps read PostgreSQL and enqueue what is unpublished,
queued or leased to a worker whose lease ran out. The dashboard reaches the API
through a proxy with a time limit of its own.

What is hard here:

- two workers on one row: leases expire under a slow worker, BullMQ gives a
  stalled job away, maybe to the same process, and every compare-and-set
  compares the owner but not the expiry;
- a stop between two steps: after the handler and before the mark, after the
  commit and before its answer, after a check run, a comment or a suggestion is
  created and before anything records it, after `docker create` was sent;
- order: webhooks of successive pushes arrive in any order, the two events of a
  new run share `created_at`, and a completed check may be written before the
  queued one was dispatched;
- stale reads: the head that a manual review read from GitHub, the list a sweep
  returned, the check run that was found a moment ago, the text of a suggestion
  that people edited;
- a model that answers differently each time it is asked;
- answers that are lost: a request that the page counts as failed goes on at the
  API, and is made again;
- gaps: a stage that was refused, cut, cancelled or failed has to weigh in the
  verdict;
- things that must end: a backlog behind rows that never succeed, a run whose
  worker died, an attempt whose provider asks to wait for hours, a page that
  follows a fix.

`PROJECT.json` lists these hazards at the lines where they bite, each with the
properties that would show it going wrong or the reason that none does. Four have
none: a backlog that a batch of one does not drain, sweeps full of withdrawn fixes
or of runs whose configuration cannot be read, and a worker that stops in the
last attempt are what the code really does, and the liveness properties except
them; and two transactions that wait for each other's locks are left to PostgreSQL.

What makes each component correct:

- Outbox: at-least-once delivery, in the order of the aggregate; nothing lost;
  one check run per review run, which ends up completed.
- Intake: one run per delivery and per key; the newest run is the only open one.
- Lifecycle: at most one result per run, by the worker with the latest claim,
  and none after the run was withdrawn; every run ends.
- Commands: one effect and one answer each; what the answer says did happen; the
  handler of the latest claim ends it; it does end.
- Proposals: one patch per finding, which is proved as it is suggested; what can
  still be decided belongs to the current head and run; a proposal is decided
  once and bound to one suggestion.
- Publication: one suggestion on GitHub per proposal, which stays there once it
  is recorded.
- Fixes: a job ends in an outcome that a recorded proof had, by the worker with
  the latest claim, agrees with the decision, and ends at all.
- Runtime: a stopped process leaves nothing behind; work that PostgreSQL knows
  of is done; readiness returns with the dependencies.
- Engine, provider, sandbox: SHIP over no gap, FIX on evidence only, a run in a
  container called passed only if it passed and left nothing, the recorded
  answer decides, and every attempt ends.
- Dashboard: one review per request of the user, however often it is repeated;
  nothing is approved before it is published; what is shown does not stay
  behind.

## Modules

| Module | Models | Source |
| --- | --- | --- |
| `OrderedDelivery` | what an outbox promises: ranks, delivery, acknowledgement | abstract |
| `Outbox` | rows, queue, dispatchers, check runs | `outbox.ts`, `index.ts`, `hosted-outbox-handler.ts`, `publisher.ts` |
| `ReviewLifecycle` | what the runs of a pull request promise | abstract |
| `ReviewRun` | intake, supersession, leases, heartbeat, completion, proposals | `github-review-run.ts`, `manual-review.ts`, `hosted-review-worker.ts`, `review-result.ts`, `hosted-review-handler.ts` |
| `ProposalLife` | what a proposal promises: decided once, bound once, withdrawn for good | abstract |
| `PatchPublication` | decision and publication of a proposal | `patch-proposal.ts`, `patch-suggestion-api.ts`, `suggestion.ts` |
| `FixLife` | what a fix job promises: ends in an outcome that was proved, for good | abstract |
| `PatchFix` | decision, claim, heartbeat, proof, completion, failure, retry | `patch-fix.ts`, `patch-reproof.ts`, `patch-fix-target.ts`, `hosted-patch-fix-handler.ts` |
| `CommandLife` | what a comment command promises its author | abstract |
| `CommentCommand` | acceptance, claim, rights, review or proposal, answer, end | `github-comment-command.ts`, `github-comment-command-handler.ts`, `comment-command-client.ts` |
| `PatchText` | prompt window, acceptance of an answer, suggestion block, its reading, replacement of lines | `patch-generation.ts`, `suggestion.ts`, `patch-reproof.ts` |
| `PatchPreparation` | pages and commands that ask for a patch, its way to GitHub and back to the proof | `patch-proposal-service.ts`, `model-invocation.ts`, `patch-fix-target.ts` and those above |
| `WorkerRuntime` | start, close, recovery rounds, timer, probes, reconciliation | `runtime.ts`, `durable-recovery.ts`, `bin.ts`, `reconcile-bin.ts` |
| `ContainerRun` | one command in a container | `runner.ts`, `docker-proof.ts` |
| `ProviderApi`, `ProviderCall` | choice of a model, failures, completions; one call with its retries and its record | `groq.ts`, `retry.ts`, `http.ts`, `errors.ts`, `model-invocation.ts` |
| `ReviewInputs`, `ProofPlans` | pure algorithms: references, changed files, budgets, guidance, packing, locations; proof plans, budgets and trees | `repository.ts`, `diff.ts`, `prompt.ts`, `proof-plan.ts`, `proof-workspace.ts` |
| `HostedReview` | the attempts at one review: pipeline, verdict, proof | `pipeline.ts`, `verdict.ts`, `challenger.ts`, `security-specialist.ts`, `hosted-review-proof.ts` and the three above |
| `Dashboard` | a page that asks for a review, or follows a fix, through the proxy | `manual-review-form.tsx`, `patch-fix-controls.tsx`, `patch-fix-actions.ts`, `hosted-api-proxy.ts`, `manual-review-api.ts` |

`MCOutbox`, `MCReviewRun`, `MCPatchPublication`, `MCCommentCommand`,
`MCPatchPreparation`, `MCWorkerRuntime` and `MCHostedReview` hold instances for
TLC; `OutboxProofs`, `ReviewRunProofs`, `PatchPublicationProofs`,
`PatchFixProofs`, `CommentCommandProofs`, `PatchPreparationProofs`,
`WorkerProofs` (of `WorkerRuntime`, `HostedReview` and the operators the latter
uses) and `DashboardProofs` the theorems and their proofs. An
operator whose comment begins with "Mutant" is a plausible bug, for which a
property of a run is known to fail; `PROJECT.json` says which.

How the modules fit. Each component with rows of its own has a module, in which
the others are single steps: `Outbox` announces what `ReviewRun`, `PatchFix` and
`CommentCommand` work on, `HostedReview` is the inside of one attempt of
`ReviewRun`, `PatchPreparation` what happens to the text of a proposal whose rows
are in `PatchPublication` and `PatchFix`, `WorkerRuntime` the process around all
handlers. `HostedReview` instantiates `ContainerRun` and `ProviderCall` over its
own variables and signal.

### Outbox

The rows are functions over `Events`, the pairs of an aggregate and a kind; the
aggregates are review runs (three kinds), patch fixes and comment commands.
`createdAt` is the rank of a row by `(created_at, id)`. `QueueReviewRun` inserts
two rows in one transaction, whose random IDs decide their order; `QueuePatchFix`
re-arms its row in place as the `ON CONFLICT DO UPDATE` does, without touching
the lease columns.

A dispatcher is a record with a program counter: `Claim` (the `UPDATE` of
`claimOutboxEvent` with its `NOT EXISTS` over earlier rows), then `HandOff`, or
`FindCheck` and `WriteCheck`, the two requests to GitHub, and then
`MarkPublished`, which compares the owner only. Each step may throw instead. A
dispatcher also knows whether BullMQ still takes it for the holder of its job:
after `Stall` or `LoseQueue` it goes on, and its end no longer changes the job.

A lease is none, live or expired, and may expire at any time. `Enqueue` takes
any row that exists, because a sweep works through a list it read before; only
for fairness does it matter what the list contains (`Listed`, with the limit).
`checks[r]` is the list of GitHub check runs with the external ID of `r`. A
request that fails at the worker may have reached GitHub all the same
(`AbandonWrite`): it is in `sent`, and takes effect (`Land`) at any time or never,
beside the dispatcher that tries again. The search reads the first hundred check
runs of its name on the commit. Other reviews of the commit may fill them
(`Crowd`, for the runs in `Busy`); then `FindCheck` may find nothing although there
is one, and `WriteCheck` adds another. `handled` and `overrun` are
history variables; `overrun` has the runs whose check was in the hands of a
dispatcher, or of a request it had given up, when the lease ran out.

### ReviewRun

One pull request, its runs numbered in the order of their creation. `QueueRun`
is `queueGitHubReviewRun`: it records the head, inserts the run, supersedes all
other active runs and withdraws their proposals, and is a part of
`AcceptWebhook` and `QueueManualReview`. Of the nine active statuses of the
source, six are never set by any code and are left out.

A handler goes `running` (heartbeats), `finishing`, `completing`; it is `lost`
when a heartbeat was refused or failed. `StoreResult` is the transaction of
`completeHostedReviewRun` on the locked row: it compares status and owner, sets
the terminal status, inserts the completed-check event and clears the lease.
`ResultAlreadyStored` and `ResultRefused` are its other outcomes.
`latest` is history: no other worker claimed the run after this handler did.

A result is a verdict and whether a finding is verified, since those decide the
status; what checkout, pipeline and proof compute is nondeterministic. A
proposal is "fresh" while it can be decided and "stale" once withdrawn.

### PatchPublication

One proposal and the requests to publish it, each a record with a program
counter that follows `createPatchSuggestionPublisher` and the service's
`publish`: `Prepare` (a transaction that takes the lease, or refuses),
`HeadUnchanged` and `HeadMoved` (the three reads of GitHub's head), `Find`,
`Create`, `Recover` (the second search after a failed creation), `Delete`,
`Record`, `Release`. `StepFails` is any step that throws and is caught by the
clause that releases the lease; `Abandon` is the end of the process, or a
release that fails as well.

`comments` is the set of requests whose comment with the proposal's marker is on
GitHub. A creation that fails at the client goes to `unknown`, from where its
comment may `Land` at any time or never. A deletion that fails at the client
(`DeleteFails`) goes to `doomed`, from where it may take effect later as well
(`DeleteLands`). `ghCurrent` and `prCurrent` say whether
GitHub's head and the recorded one are the proposal's; the first changes with
every push, the second when a run is queued (`Supersede`, the effect of
`ReviewRun!QueueRun` on this proposal).

`strays` is history: the requests whose lease ran out while they were at work
(nothing renews its two minutes), those whose comment landed after they had looked
for it, and those whose deletion failed and came later. No protocol on top of
GitHub's comments can rule out what they do, so the properties are about all the
others, in the presence of strays.

### PatchFix

One proposal, its fix job and the workers. The proposal is what the other modules
leave of it: its decision, whether its suggestion is recorded (`Publish`), and
whether it was withdrawn (`Withdraw`, which stands for whatever replaces or
cancels its run, since the recorded head changes only together with that). The
user is left out: the one who decides is the one who approves again.

A handler follows `createHostedPatchFixJobHandler`: `loading` (the target),
`latest` (is there a proof of an earlier attempt?), then either `reusing` it, or
`proving`, `recording` and `completing`. `Throw` is the catch clause, with its
difference between the phase "binding", where every error fails the job for good
until it is approved again, and the others, where an error releases it unless
this was the last attempt. `Fail` and `Release` do nothing once a heartbeat was
refused, and their `UPDATE`s do nothing for anyone but the owner.

`evidence` is the outcome recorded for each attempt. Recording asks whether the
proposal is still approved and current, not whether the worker still has the
job, so a proof may be recorded after the job ended. BullMQ's jobs are left out:
they carry an ID, and what a worker may do with it, the claim decides; for
fairness only the sweep counts.

### CommentCommand

One command and its handlers; a handler is in a process (`worker`), and several
may be in the same one. `Accept` stores the command once per comment. `Claim` is
the `UPDATE` of `claimGitHubCommentCommand`: the attempt counts up, the lease
names the process. A handler then goes through the awaits of
`createHostedCommentCommandHandler`: `authorizing` (the author's permission),
for a review `reading` (the head) and `queueing` (the manual review under the
command's own ID as its key), for a fix `preparing` and `binding`, then
`searching` (for an answer with the marker, among the comments that are scanned)
and `posting`, then `ending`. An error goes to `ending` with the exit that the
catch clause chooses: retry while attempts are left, else fail. `LeaseExpires`,
`Crash`, `Lose` (a heartbeat that was refused or failed) happen at any time.

`crowded` says that the thread has more comments than a search reads. `replies`
counts the answers on GitHub by kind. `strayed` is history: some handler posted
after another one had claimed the command, which no call to GitHub can prevent.

### PatchText and PatchPreparation

`PatchText` has the operators, with a text as what `split('\n')` makes of a
string: `Window` (the context around a finding, shrunk to the budget, a
recursive function; a finding past the end of its file has none), `WellFormed`
and `Acceptable` (the two passes over a model's answer), `Block` and `Readings`
(a suggestion block does not show a final newline; the hash decides between the
two readings), `Restored`, `Applied`, and `Suggested`, what GitHub would commit.
The hash of a text is the text.

`PatchPreparation` has pages and command handlers that go `reading` (the head's
file), `asking` (the model), `accepting`, `creating`. They share only the row of
`model_invocations` (`invocation`), whose second answer must agree with the first
(`Agrees`), and the proposals. `Publish` needs the text, which only a page has;
`ReadBack` and `Reprove` have the comment only, which people `Edit`. Publication,
approval and the fix job are one step each, since their leases are elsewhere.

### WorkerRuntime

A process with its `start` (waiting for dependencies, recovering, binding the
server), its `stop` (the steps of `close()` in order), one round of recovery at a
time (`round`: who started it, at which of the four queues, what it has listed),
the `timer`, the probes. An item is a row that the sweep of its queue lists
(`waiting`), oldest first, until its job (`jobs`) was done. `Outage` and `Return`
take a dependency away and bring it back; with Redis go its jobs. A probe that
hangs, for ever if nothing ends it, is shared by the checks that come meanwhile
(`probe`), and a check gives up after its time limit. `Reconcile` is the one-shot
process of `reconcile-bin.ts`. `early` is history: `close()` began before
`start()` was over.

### HostedReview, ContainerRun, ProviderCall and the operators they use

An attempt goes through `references`, `context`, `checks`, `access`, `review`,
`security`, `challenge`, the verdict, the proof of the findings that qualify, and
the final verdict. Each stage may be refused, be cut, throw, or meet the signal,
each with the status that `pipeline.ts` gives it (`review`, `findings`). The
handler's own signal (`aborted`) and the pipeline's `deadline` may come at any
step; `Signal` is what the calls below see.

`ContainerRun` has the worker's view of a run (`exec`) and the daemon's
(`container`) apart: the client may die before its container was created, the
signal or the time limit may come between, removal may fail and is verified.
`command` is history: how the command really ended. `ProviderCall` is the retry
loop: ask, classify, sleep for as long as the provider wants, record the answer,
with the row of the stage compared as in `PatchPreparation`.

`ReviewInputs` and `ProofPlans` are what the stages compute: kinds and risks of
changed files, their selection within the budgets, guidance, packing of a
prompt, locations a finding may name; the proof's command, regressions, budget
and trees. A prompt has any number of texts that can be cut (the diff, the
documents of the guidance, two for each check that ran), each with the bytes its
first characters take by themselves and in the serialized prompt, where JSON
escapes some of them: the first decide what is cut, the second whether it fits.
The challenge's prompt does not say whether it was cut (`tells`). A plan has the
minimums, the maximums and all the limits of the plan's schema and of
`assertPlanFitsBudget`. `MCHostedReview` assumes (`InputsAssumption`, evaluated by
TLC) what their callers rely on, against reference definitions over small inputs;
`WorkerProofs` proves most of it for all inputs. In the state machine a stage is
told only the outcome of these operators, which are the sets of outcomes that the
instance's inputs have; so the properties of `HostedReview` hold for whatever they
return, and what they compute is for the theorems and assumptions about them.

### Dashboard

`control` says whether the user is at the form or at the fix controls, which
share no state. The form: a `post` is a request on its way, `sent`, then `read`
(the API has asked GitHub for the head), then `done`; `waiting` is the one the
page waits for, `key` is `requestId.current`. `GiveUp` is the proxy's time limit
or a lost answer: the page counts the request as failed and the API goes on.
`Refuse` and `ApiFails` end a request with a status, of which `Reused` decides
whether the key is kept. `asking` and `runs` are history: which requests of the
page are for one thing the user asked for, that is, until the page says that it
was accepted or refused, or another number is typed; and the runs queued for it.

The fix controls: what is `shown`, whether the page has a `candidate` (the text),
the `calls` it waits for, the `timer` of the next poll. `Show` is `setFix` with
the effect that depends on the status shown: clean up, and set up again. An
answer is what the API holds when it arrives. A write that fails for the page was
refused, had its effect, or has it later (`late`); those of a page that is opened
again as well. A page that was left for another one, and not loaded anew, goes on
with its submission: when its publication is answered it sends the approval
(`LatePublishes`). The stored fix is its job's status, whether its suggestion is
recorded, and its attempts; `Claim` and `Finish` are the worker.

## Runs

| Run | Shows | Bounds |
| --- | --- | --- |
| `Outbox_safety` | one check per run that converges; only a late dispatcher or request turns a check back | 1 run (3 events), then 1 command, 2 workers, 2 checks, 2 at a time of workers, requests given up and crowded commits |
| `Outbox_delivery` | refinement of `OrderedDelivery`, also when a row is re-armed while it is dispatched; the backlog drains through every kind of loss and behind rows that never succeed | 1 uninstalled run, 1 fix re-armed once, 1 worker, sweeps of 4 rows |
| `ReviewRun_safety` | current proposals, fencing, refinement of `ReviewLifecycle`, every review ends | 2 runs, 1 head besides the first, 1 request, 2 workers |
| `ReviewRun_intake` | one current open run and no run twice, with webhooks and manual requests in every order | 3 runs, 2 heads besides the first, 1 request, 1 worker, 1 unreadable run |
| `PatchPublication_safety` | one suggestion, recorded ones stay, only own ones are deleted, also late, refinement of `ProposalLife` | 3 requests, one of them in time |
| `PatchPublication_rejected` | a violation, see Findings | 2 requests |
| `PatchFix_all` | decisions, one proof per attempt, who may end a job, refinement of `FixLife`, jobs end | 2 workers, 3 attempts |
| `CommentCommand_all` | one answer, true ends, who may end a command, refinement of `CommandLife`, commands end | 2 handlers, 2 processes, 2 attempts, 2 heads |
| `PatchPreparation_all` | one patch per finding, proved as suggested, unedited ones recognized, windows whole | 2 pages, 1 command, 9 sources, 16 answers, 3 edits |
| `HostedReview_all` | type, clean containers, SHIP over no gap, FIX on evidence, recorded answers, attempts end; the pure algorithms | 2 attempts, 1 required command, 2 findings, 2 tries, 1 challenged, 1 proof; prompts of up to 3 texts, plans of up to 3 commands |
| `WorkerRuntime_all` | clean stop, work recovered, readiness back unless an operation hangs for ever | 3 fixes, 1 of them dead, sweeps of 2, 2 troubles |
| `Dashboard_all` | one review per request of the user, published before approved, fixes followed | 4 requests, 3 heads, 3 attempts |

Why the bounds suffice. Aggregates of the outbox meet only in the worker pool and
in the limit of a sweep, so one run with its three events shows what order can go
wrong, and a second aggregate is needed only where a sweep is shared or a row is
re-armed (`Outbox_delivery`). `CommandsLast` keeps the command of `Outbox_safety`
until the run's events are published: it meets their late dispatchers, and what an
early one could do to it is in the refinement theorem. A lease is overrun by one
worker while a second one claims: two workers. `TwoAtATime` keeps any two of a
worker at work, a request that was given up, and a crowded commit: every race here
is one late party with one in time; the theorems have no such bound. The runs of a
pull request interact through "replace whatever is active", which two runs show;
the third is there for webhooks that arrive in the wrong order around a manual
review. `MaxRuns`, `MaxHead` and `MaxRequeues` bound counters that grow without
limit in the program; a read of GitHub's head that is repeated is the same read. A
crashed or retried job needs no bound: a handler starts again from the same state.

Three requests to publish are a crashed or slow one, the one that takes over
from it and one that meets both. `SomeInTime` follows a behaviour until all three are
strays: from then on nothing is claimed of the comments.

Three attempts at a fix (five in the source, where they are a limit too) are one
that is lost while its worker goes on, one that takes over, and a last one. A
command has two attempts and two handlers for the same reason: the first goes on
beside the last. One handler's process is fixed, since the names of processes can
be exchanged; that both handlers are in it, or in two, are both reached.

Two pages and a command are two that ask at the same time and one that asks with
neither's text. The sources of `PatchPreparation` have a finding at either end
of the file and past it, a blank line, a byte order mark, mixed line ends, and
budgets for all, some and none of the context; the answers end with and without
a newline, are blank, unchanged, malformed or out of place. A line stands for as
many bytes as it has symbols.

The second attempt of `HostedReview` is there for the answers that the first one
recorded; a second finding exceeds the challenge and the proofs; one command
fails, passes or is never run. Three rows are the fewest with one that never gets
done, one that shares its sweep, and one that has to wait for the next; two
troubles are an outage during another, or a failed round and then a stop. Four
requests of the form are one whose answer is lost, its repetition, and one more
of each after the key was dropped; three heads let each repetition meet a push.

Deadlock is checked in `PatchPublication`, `PatchPreparation` and
`WorkerRuntime`. It is not in the others: when all is published, decided, ended
or asked the system waits for the next webhook or request.

`TypeOK` is a theorem in every module with proofs; only `HostedReview_all`, whose
variables have the most parts, runs it as well.

### Fairness

Every liveness property is checked under `FairSpec` (`MCSpec` for the commands,
`FairRuntimeSpec` for the runtime).
`Outbox` and `ReviewRun` assume:

- sweeps keep coming (a timer in every worker, `runtime.ts`) and add what they
  list, weakly fair for each row that remains listed;
- BullMQ gives a waiting job to a worker in the end: strong fairness of a claim,
  since rows may be leased and released meanwhile;
- calls return: a dispatcher or handler takes a step in the end (requests and
  runs have time limits);
- time passes: an outbox lease expires; a review lease does when nobody renews
  it; BullMQ finds a job whose worker is gone;
- crashes, errors, losses of Redis, and pauses long enough to lose a lease that
  is still being worked under may happen any number of times, and cease in the
  end (`<>[][~Disturbance]_vars`). Without it nothing could be promised, since
  a worker that always crashes before it marks never publishes.

`PatchFix` and `CommentCommand` need less: handlers take steps, the lease of a
worker that is gone expires, and what is claimable is claimed by some worker.
Crashes need not cease, because attempts are bounded; a job may use them all up.

`HostedReview`: something goes on in an attempt, be it the worker, its container,
a single request or a deadline, since each has a time limit. That a provider's
`Retry-After` passes is not assumed: `AttemptEnds` is about exactly that.

`WorkerRuntime`: outages end, the container is started again, the steps of start
and close and of a round go on, timers fire, workers take the jobs there are,
probes are asked for, and answered if the dependency does. That an operation which
hangs fails some day is not assumed, since the worker sets no time limit on it
(`pool.ts:25`, `runtime.ts:509`): `ReadyAgain` has it as its condition
(`HungOperationsEnd`). Its disturbances are bounded
(`MaxTrouble`), which is the assumption that they cease.

`Dashboard`: a timer fires, and a page that goes on polling is answered some day
(strong fairness, since polls may fail any number of times before).

Nothing is assumed of GitHub's users, webhooks or of an uninstalled repository.
With a sweep limit of one the backlog need not drain: the sweep orders by
`created_at`, which the two rows of a new run share, and may list the row that
the claim refuses for ever. The environment variable allows that value.

## Findings

`PatchPublication_rejected` shows two disagreements with one behaviour. The
dashboard tells who rejected a proposal that nothing was published
(`patch-fix-controls.tsx:46`). The reference is recorded after the comment
exists, and only a recorded one prevents a rejection, so the suggestion of a
request that is still at work, or died, stays on GitHub. And `README.md:93` and
`:99` say that a suggestion is published after approval and reproof. The code
publishes a pending proposal (`preparePatchSuggestionForApproval`), the dashboard
approves it afterwards (`patch-fix-actions.ts:19`), and the reproof follows.

Behaviours that no text contradicts, stated by the models and worth knowing:

- A run whose configuration fails its hash check is claimed and fails again for
  ever (`ReviewsEnd` excepts such runs). A worker that dies in the last attempt
  at a fix or a command leaves it reproving or processing for ever (`FixEnds` and
  `CommandEnds` except such rows).
- A superseded or cancelled run gets no completed-check event, so that its check
  stays queued at GitHub. The publisher searches the first 100 check runs of a
  commit only, so that a commit that is reviewed often enough gets a second check
  of one run (`CheckConverges` excepts crowded commits).
- A request to GitHub that failed at the worker may be carried out after its lease
  has expired: a check is created twice or turned back, a comment that another
  request has found and recorded is deleted. No key of the call prevents it
  (`overrun` and `strays` except such requests).
- A `SELECT 1` that never returns keeps the worker unready until it is restarted,
  whatever becomes of PostgreSQL.
- A fix that is withdrawn after its approval stays queued and listed by the
  sweep; as many such rows as the limit fill it (`WorkRecovered` asks for fewer).
- A fix may end with the proof of an earlier attempt while a later attempt's
  differs (`FixLife` asks for some recorded proof only). A fix that is approved
  again while its row is being dispatched may have the new approval marked
  published by the old dispatcher (`PublishedOnlyIfHandled` excepts such rows).
- `close()` during `start()` does not stop it: it goes on to serve and to set the
  timer (`StopsWhole` excepts this with `early`).
- The text of a patch that a command proposed is nowhere but in the model's
  answer (`runtime.ts:449`): a page has to ask for it again, and gets it only if
  the model answers alike.
- A suggestion for a file with mixed line ends or a byte order mark is published
  and approved, but its reproof always fails (`patch-reproof.ts:125`). A blank
  replacement is applied otherwise by the reproof than by GitHub's commit.
- The form keeps its key after a 500. If a first request was recorded, its answer
  was lost and a push followed, the key belongs to another head, every repetition
  is refused with 500 again, and only typing the number again helps. After a lost
  answer, a 401 drops the key, so that the review asked for after signing in again
  may be a second one: the page has told the user that the first was refused
  (`OneReviewPerAsking` counts what the page calls unconfirmed).
- If the page cannot load the fix after a decision, it shows the old status, and
  polls only if that one was active, until it is loaded again (`FixIsFollowed` is
  about pages that show a fix at work).

## Proofs

`tlapm` proves, for every value of the constants that satisfies the assumption of
the module (`OutboxAssumption`, `ReviewRunAssumption`,
`PatchPublicationAssumption`, `PatchFixAssumption`, `CommentCommandAssumption`,
`PatchTextAssumption`, `PatchPreparationAssumption`, `WorkerRuntimeAssumption`,
`HostedReviewAssumption`, `ProofPlansAssumption`, `DashboardAssumption`):
identifiers are distinct, bounds are numbers, texts are texts; a finding has a
first line that is at least one and no later than its last one, as
`patchGenerationInputSchema` demands; the limits of a proof are ordered, and no
configuration sets less than the minimum, as its own schema demands. There
may be any number of runs, fixes, commands, workers, requests, attempts, pages,
rows, checks and findings:

| Theorem | States |
| --- | --- |
| `TypeCorrect` in seven modules | `Spec => []TypeOK` |
| `WorkerProofs!ReviewTypeCorrect`, `RuntimeTypeCorrect` | `Spec => []TypeOK`, `RuntimeSpec => []RuntimeTypeOK` |
| `OutboxProofs!PublicationOrder` | `Spec => []PublishedInOrder` |
| `OutboxProofs!DeliveredAtLeastOnce` | `Spec => []PublishedOnlyIfHandled` |
| `OutboxProofs!ChecksConverge` | `Spec => []CheckConverges` |
| `OutboxProofs!LateDispatchersOnly` | `Spec => OnlyLateDispatchersRegressChecks` |
| `OutboxProofs!Refinement` | `Spec => ImplementsOrderedDelivery` |
| `ReviewRunProofs!CurrentRun` | `Spec => []OpenRunIsCurrent` |
| `ReviewRunProofs!OneReport` | `Spec => []ReportedOnce` |
| `ReviewRunProofs!CurrentProposal` | `Spec => []FreshProposalIsCurrent` |
| `ReviewRunProofs!IntakeIsIdempotent` | `Spec => []NoRunQueuedTwice` |
| `ReviewRunProofs!LatestClaimReports` | `Spec => ResultFromLatestClaim` |
| `ReviewRunProofs!LifecycleRefinement` | `Spec => ImplementsLifecycle` |
| `PatchPublicationProofs!AtMostOneSuggestion` | `Spec => []OneSuggestion` |
| `PatchPublicationProofs!RecordedStaysPosted` | `Spec => []ReferenceIsPosted` |
| `PatchPublicationProofs!OnlyOwnIsDeleted` | `Spec => DeletesOnlyOwn` |
| `PatchPublicationProofs!ProposalRefinement` | `Spec => ImplementsProposalLife` |
| `PatchFixProofs!DecisionsAgree` | `Spec => []DecisionAgrees` |
| `PatchFixProofs!OneProofPerAttempt` | `Spec => []ProvenOnce` |
| `PatchFixProofs!LatestClaimEnds` | `Spec => OnlyLatestClaimEnds` |
| `PatchFixProofs!FixRefinement` | `Spec => ImplementsFixLife` |
| `CommentCommandProofs!EndsTruly` | `Spec => []EndIsTrue` |
| `CommentCommandProofs!RepliesOnce` | `Spec => []OneReplyEach` |
| `CommentCommandProofs!LatestClaimEnds` | `Spec => OnlyLatestClaimEnds` |
| `CommentCommandProofs!LifeImplemented` | `Spec => ImplementsCommandLife` |
| `PatchPreparationProofs!OnePatch` | `Spec => []OnePatchPerFinding` |
| `PatchPreparationProofs!ProofIsOfSuggestion` | `Spec => []ProvedIsWhatIsSuggested` |
| `PatchPreparationProofs!OnlyEditsChange` | `Spec => []UneditedIsRecognized` |
| `PatchPreparationProofs!WholeWindow` | `Spec => []WindowIsWhole` |
| `WorkerProofs!NothingGoesOn` | `RuntimeSpec => []StopsWhole` |
| `WorkerProofs!RunsAreConclusive` | `Spec => []ConclusiveRunIsClean` |
| `WorkerProofs!NoGapIsShipped` | `Spec => []ShipsOverNoGap` |
| `WorkerProofs!FixHasEvidence` | `Spec => []FixRestsOnEvidence` |
| `WorkerProofs!AnswersAreRecorded` | `Spec => []RecordedAnswersDecide` |
| `WorkerProofs!PackingIsExact` | a prompt of any number of texts is cut only if it must be, then fits, and is refused exactly if what cannot be cut is too much or there is nothing to cut |
| `WorkerProofs!OwnPlanIsAdmitted` | the plans of a command and its regressions pass the schema and every minimum and limit of the budget that is made with them; only the configuration, the command or equal revisions refuse them |
| `WorkerProofs!RiskiestAreTaken` | the file budget is kept, used up, and spent on the riskiest files |
| `DashboardProofs!OneReview` | `Spec => []OneReviewPerAsking` |
| `DashboardProofs!PublishedBeforeQueued` | `Spec => []ApprovedIsPublished` |

`PublishedInOrder`, `PublishedOnlyIfHandled` and `ReportedOnce` are theorems that
no run repeats: `Outbox_delivery` and `ReviewRun_safety` check the refinements,
which say no less of these instances.

The arguments:

- Outbox. `Typed` strengthens `TypeOK` with what a program counter says of its
  record. `Ranked` says that no rank exceeds the clock, so a new row comes after
  all others. `Ordered` is the crux: not only published rows but also the rows *in
  flight* have all earlier rows of their aggregate published. A claim establishes
  it and nothing takes it back, because ranks change only for rows that are
  written and go to the end; therefore a mark is safe even when its lease is long
  gone. `Delivered` adds that a dispatcher about to mark has handled its row,
  fixes excepted. The refinement maps ranks, `handled` and `published` to the
  abstract variables; all else stutters. For the check runs, `Leased` says that a
  dispatcher of a run none of whose dispatchers outlived its lease still holds the
  lease of its row, and that a published row has no live one. `SentHolds` says the
  same of a request that was given up and may still take effect: its event is
  leased until it runs out, so nobody else dispatches it, and by `SentInOrder` it
  is the first of its run that is not published. With `Ordered`, at most one
  dispatcher or request has a check event of such a run in hand (`OneInHand`), so
  what it found on GitHub is still what is there when it writes (`Shown`), unless
  the commit is crowded. `CompletedAfter`, which holds of all runs, says that a
  check is completed only after the queued event was published; hence whoever
  turns it back writes for a published row, which it cannot hold.
- ReviewRun. `Settled` says, for each run, what its status means: open runs are
  the newest one at the recorded head, undecided ones have no report, decided ones
  have the report their status follows from, a fresh proposal's run awaits a
  human. It is inductive as it stands, without a word about leases: the row lock
  of each transaction is what protects it. `Traced` relates each run to the
  delivery or request it came from. `Fenced` says that the owner of a run in work
  is the worker with the latest claim, and that there is only one such worker,
  hence comparing the owner fences off the others, provided that worker IDs are
  unique. The lifecycle refinement follows from `Settled`.
- PatchPublication. `Exclusive` says that a request at work that is no stray holds
  a live lease on an unpublished proposal; two such requests are one. Hence what
  it learnt stays true (`Informed`): about to create, there is no comment but
  those of strays; not knowing whether it created, at most its own.
  `FoundIsPosted` says that what the owner of the lease is about to record is on
  GitHub, which only a request that created it could undo (`OwnOnly`), and that
  one would be the owner, unless it is a stray: a deletion that takes effect late
  makes it one.
- PatchFix. Every claim counts the attempt up, so the attempts of handlers at work
  differ (`Apart`) and none exceeds the job's. `Sound` adds that the owner, if it
  is at work, has the job's own attempt, which makes comparing the owner as good
  as comparing the claim, and that no proof is recorded yet for the attempt of a
  handler that may still record one; `Unproved` says so of attempts to come, which
  is what a claim needs. `ProvenOnce` alone is not inductive: it says nothing of
  handlers that have yet to reach the recording.
- CommentCommand. Every claim counts the attempt up, as in a fix job, so that
  handlers at work differ in their attempts (`Apart`). The lease has only the name
  of a process; `Named` says that a handler which is alone in its process and
  whose name the row bears has the latest claim. `Fit` says of each handler what
  it has established so far: an answer it is about to report is on GitHub, a
  review it announces is queued. `Effects` keeps the two effects apart, and `Once`
  is `OneReplyEach` with what it needs: the handler of the latest claim that is
  about to post has searched, and nothing was posted since but by strays.
- PatchPreparation. `Records` says that the proposals are those of the recorded
  answer, and that a preparer past `asking` has that answer: the upsert refuses
  another one, whoever is first. `Untouched` says that a comment nobody edited
  shows the block of its patch, and the lemma `TextIsRead` that a text is among
  the readings of its block; the hash then picks it. `Faithful` follows, since the
  proof applies nothing that it has not compared. The window is a recursive
  function over windows, whose prompts have a size that is a recursive function
  too. Neither is known to exist until that is proved, by induction on sets of
  numbers (`Induction`, from the library's well-foundedness of `<`); every call
  drops a line. `Best` is what the induction carries: between a window and the
  finding, the result fits, and a line more on the side that was last narrowed
  does not.
- WorkerRuntime. `Rising` relates the steps of `start()` to what a process that is
  up has (a timer, a server, a round of the timer), and says that its connections
  are open as long as `close()` is not over; `Falling` says what each step of
  `close()` has left behind, provided that it did not begin early.
- HostedReview. The verdict reads what the stages reported, and the ghosts say
  what happened; the invariant relates the two, one part per sub-protocol:
  `RunInv` (a container's outcome and what is left of it), `ChecksInv` (an outcome
  is the end of its command, and checks that are called complete are so),
  `CallInv` (a call belongs to the stage that made it, and goes by the recorded
  row), `StagesInv` (a model asked in vain has left its stage incomplete),
  `FindingsInv` (a verified finding was reproduced, support comes from failed
  checks). `VerdictInv`, the two properties of the verdict, is inductive only with
  all of them: each names a stage that could otherwise leave a gap unnoticed.
- What a review is made from. `PackingIsExact`: every round takes a character at
  least from the largest text (`CutLoses`), so there are no more rounds than
  characters (`RoundsAdvance`); the loop ends before that only if the prompt fits
  or its largest text, hence every text, is empty. It does not use that an escaped
  character takes more bytes than a raw one, only that a text without characters
  takes none. `OwnPlanIsAdmitted`: the total of the budget is no less than one
  run's time, since there is at least one attempt and the longest allowed run is
  no longer than the longest allowed proof (`OwnBudget`); the minimums hold
  because a configuration may set no less (`ProofPlansAssumption`).
  `RiskiestAreTaken`: `Ahead` is a strict total order (a risk is a number, for
  which sums of finite sets are shown to exist), so ranks are a bijection onto the
  first numbers.
- Dashboard. The form: `Keyed` says that the key is the first request of what the
  user asks for, whatever was lost, so that a request carries both and a key has a
  run exactly when it is recorded. The controls: `Recorded` says that whoever may
  approve (a page that has published, one that shows a recorded suggestion, a
  write left at the API) does so for a fix with a recorded suggestion, and that a
  record stays. `ApprovedIsPublished` alone is not inductive: it says nothing of
  approvals on their way.

Only model-checked: the liveness properties (`BacklogDrains`, `ReviewsEnd`,
`FixEnds`, `CommandEnds`, `AttemptEnds`, `WorkRecovered`, `ReadyAgain`,
`FixIsFollowed`), since fairness and `ENABLED` are out of the prover's reach; of
the operators, the locations a finding may name, the guidance, and how much diff
is included. Every invariant and action property of a passing run is a theorem.

## Not modelled

Text, annotations and conclusions of checks and comments; signatures, sessions,
encryption; wording of prompts and what a model finds; the output a container
prints and its redaction; how GitHub pages and orders what it lists; installation
and configuration changes, save that an uninstalled repository refuses requests;
row locks inside a transaction, transactions being atomic actions, one that
PostgreSQL aborts being one that failed; the parsing of comments into commands and
of Git's output into changes; pages of the dashboard that only show or store
settings; the counters of the telemetry; CLI and MCP server, which call the
pipeline once and keep nothing; scripts. `PROJECT.json` gives the reason for every
component.

## Plan

In this order; each module with its instance, its runs and its proofs.

1. `PatchPublication` and `PatchFix` composed over one proposal, with the steps
   that each now takes of the other as what they are.
2. `LockOrder`: the rows each transaction locks, and when two may wait for each
   other.
3. `SignIn`: the OAuth state, consumed once, and sessions.
4. Proofs: what the diff spends of its budget, and that its files are the first by
   rank that fit; the refinement of `PatchFix` and `PatchPublication` by their
   composition (1), from the invariants of both.
