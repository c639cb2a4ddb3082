--------------------------- MODULE CommentCommand ---------------------------
(***************************************************************************)
(* A command that a maintainer writes as a comment on a pull request: to     *)
(* review it, or to propose a fix.  It is stored once, worked off by a       *)
(* handler under a lease, answered by a comment of the App, and ended.       *)
(*                                                                         *)
(* The lease names the worker process, not the attempt.  Handlers crash,     *)
(* pause beyond their lease and go on beside the one that claimed the        *)
(* command after them, maybe in the same process (BullMQ hands a stalled     *)
(* job to any process).  The jobs of the queue only wake a handler: one may  *)
(* be told of the command at any time, and the claim decides.                *)
(***************************************************************************)
EXTENDS Integers

CONSTANTS
  Handlers,
  Workers,          \* names of worker processes
  NoWorker,
  MaxAttempts,      \* 5 in the source
  MaxHead           \* bound: pushes to the pull request

ASSUME CommentCommandAssumption ==
  /\ NoWorker \notin Workers
  /\ MaxAttempts \in Nat \ {0} /\ MaxHead \in Nat \ {0}

VARIABLES
  worker,           \* the process of each handler
  head,             \* head of the pull request on GitHub
  crowded,          \* the pull request has more comments than are scanned
  replies,          \* how many answers of each kind GitHub shows
  \* github_comment_commands
  command,
  status,           \* "absent": not yet stored
  attempt,
  owner,            \* lease_owner
  lease,            \* lease_expires_at
  link,             \* patch_proposal_id IS NOT NULL, while it is worked on
  target,           \* review_run_id or patch_proposal_id of a completed one
  reply,            \* reply_url
  \* manual_review_requests
  request,          \* the head of the review queued under the command's ID
  bound,            \* a proposal was once bound to the command
  \* handlers
  handlers,
  strayed           \* a handler answered that no longer had the last claim

thread == <<head, crowded>>
row == <<status, attempt, owner, lease, link, target, reply>>
effects == <<request, bound>>
vars == <<worker, thread, replies, command, row, effects, handlers, strayed>>

Kinds == {"queued", "proposal", "denied", "ignored", "error"}
Ends == {"completed", "denied", "ignored", "failed"}
Heads == 1..MaxHead

Working ==
  {"authorizing", "reading", "queueing", "preparing", "binding",
   "searching", "posting"}

Handler ==
  [pc : {"idle", "closing", "ending"} \cup Working,
   attempt : 0..MaxAttempts,       \* of the claim it works under
   linked : BOOLEAN,               \* the proposal that the claim returned
   head : 0..MaxHead,              \* as read from GitHub
   kind : Kinds \cup {"none"},     \* the answer it gives, or gave
   exit : {"answer", "retry", "fail"},   \* how it means to end
   lost : BOOLEAN]                 \* a heartbeat was refused or failed

Idle == [pc |-> "idle", attempt |-> 0, linked |-> FALSE, head |-> 0,
         kind |-> "none", exit |-> "answer", lost |-> FALSE]

(* Types, and the lease and target checks of migrations 014 and 015. *)
TypeOK ==
  /\ worker \in [Handlers -> Workers]
  /\ head \in Heads /\ crowded \in BOOLEAN
  /\ replies \in [Kinds -> Nat]
  /\ command \in {"review", "propose_fix"}
  /\ status \in {"absent", "queued", "processing"} \cup Ends
  /\ attempt \in 0..MaxAttempts
  /\ owner \in Workers \cup {NoWorker}
  /\ lease \in {"none", "live", "expired"}
  /\ owner = NoWorker <=> lease = "none"
  /\ link \in BOOLEAN
  /\ target \in {"none", "run", "proposal"}
  /\ target # "none" <=> status = "completed"
  /\ reply \in Kinds \cup {"none"}
  /\ request \in 0..MaxHead /\ bound \in BOOLEAN
  /\ handlers \in [Handlers -> Handler]
  /\ strayed \in BOOLEAN

Init ==
  /\ worker \in [Handlers -> Workers]
  /\ head = 1 /\ crowded = FALSE
  /\ replies = [k \in Kinds |-> 0]
  /\ command \in {"review", "propose_fix"}
  /\ status = "absent" /\ attempt = 0
  /\ owner = NoWorker /\ lease = "none"
  /\ link = FALSE /\ target = "none" /\ reply = "none"
  /\ request = 0 /\ bound = FALSE
  /\ handlers = [h \in Handlers |-> Idle]
  /\ strayed = FALSE

-----------------------------------------------------------------------------
(* The pull request.                                                        *)

Push ==
  /\ head < MaxHead
  /\ head' = head + 1
  /\ UNCHANGED <<worker, crowded, replies, command, row, effects, handlers, strayed>>

Crowd ==
  /\ ~crowded
  /\ crowded' = TRUE
  /\ UNCHANGED <<worker, head, replies, command, row, effects, handlers, strayed>>

(* acceptGitHubWebhook: the delivery and the comment are unique, so that      *)
(* every further delivery of the comment stores nothing.                     *)
AcceptCommand ==
  /\ status = "absent"
  /\ status' = "queued"
  /\ UNCHANGED <<worker, thread, replies, command, attempt, owner, lease, link,
                 target, reply, effects, handlers, strayed>>

-----------------------------------------------------------------------------
(* A handler.                                                               *)
At(h, pc) == handlers[h].pc = pc
Goto(h, pc) == handlers' = [handlers EXCEPT ![h].pc = pc]
Answer(h, k) == handlers' = [handlers EXCEPT ![h].pc = "searching", ![h].kind = k]
Leave(h) == handlers' = [handlers EXCEPT ![h] = Idle]

(* What the catch clause makes of an error: the command is tried again, or,  *)
(* in its last attempt, its author is told; if that fails too, it is not.    *)
Throw(h) ==
  LET c == handlers[h] IN
  handlers' = [handlers EXCEPT ![h] =
    IF c.exit = "fail" THEN [c EXCEPT !.pc = "closing", !.kind = "none"]
    ELSE IF c.lost \/ c.attempt < MaxAttempts
         THEN [c EXCEPT !.pc = "closing", !.exit = "retry"]
         ELSE [c EXCEPT !.pc = "searching", !.exit = "fail", !.kind = "error"]]

(* Mutant: the command of a dead worker is not claimable. *)
ClaimableQueued == status = "queued" /\ attempt < MaxAttempts

Claimable ==
  /\ attempt < MaxAttempts
  /\ status = "queued" \/ (status = "processing" /\ lease # "live")

Claim(h) ==
  /\ At(h, "idle")
  /\ Claimable
  /\ status' = "processing" /\ attempt' = attempt + 1
  /\ owner' = worker[h] /\ lease' = "live"
  /\ handlers' = [handlers EXCEPT ![h] =
       [Idle EXCEPT !.pc = "authorizing", !.attempt = attempt + 1, !.linked = link]]
  /\ UNCHANGED <<worker, thread, replies, command, link, target, reply, effects,
                 strayed>>

(* Mutant: whoever works on the command is taken for its owner. *)
OwnsUnchecked(h) == status = "processing"

(* The condition of renew, release, complete and fail. *)
Owns(h) == status = "processing" /\ owner = worker[h]

Heartbeat(h) ==
  /\ handlers[h].pc \in Working
  /\ IF Owns(h)
     THEN lease' = "live" /\ UNCHANGED handlers
     ELSE handlers' = [handlers EXCEPT ![h].lost = TRUE] /\ UNCHANGED lease
  /\ UNCHANGED <<worker, thread, replies, command, status, attempt, owner, link,
                 target, reply, effects, strayed>>

HeartbeatFails(h) ==
  /\ handlers[h].pc \in Working
  /\ handlers' = [handlers EXCEPT ![h].lost = TRUE]
  /\ UNCHANGED <<worker, thread, replies, command, row, effects, strayed>>

(* canMaintain, asked anew in every attempt: rights come and go. *)
Authorize(h) ==
  /\ At(h, "authorizing")
  /\ \/ Answer(h, "denied")
     \/ command = "review" /\ Goto(h, "reading")
     \/ command = "propose_fix" /\ ~handlers[h].linked /\ Goto(h, "preparing")
     \/ command = "propose_fix" /\ handlers[h].linked /\ Answer(h, "proposal")
  /\ UNCHANGED <<worker, thread, replies, command, row, effects, strayed>>

ReadPullRequest(h) ==
  /\ At(h, "reading")
  /\ handlers' = [handlers EXCEPT ![h].pc = "queueing", ![h].head = head]
  /\ UNCHANGED <<worker, thread, replies, command, row, effects, strayed>>

(* Mutant: the review of an earlier attempt is not looked for. *)
RequestAnew(h) == request' = handlers[h].head

(* claimManualReviewRequest: the command's ID is the key of its review, and   *)
(* the key of another head is refused.                                       *)
RequestReview(h) ==
  /\ request \in {0, handlers[h].head}
  /\ request' = handlers[h].head

(* queueManualReview, which does not ask for the lease.  The answer of the    *)
(* transaction may be lost.                                                  *)
QueueReview(h) ==
  /\ At(h, "queueing")
  /\ RequestReview(h)
  /\ Answer(h, "queued") \/ Throw(h)
  /\ UNCHANGED <<worker, thread, replies, command, row, bound, strayed>>

(* prepareVerifiedPatchProposal, or no finding that it could be made from. *)
PrepareProposal(h) ==
  /\ At(h, "preparing")
  /\ Answer(h, "ignored") \/ Goto(h, "binding")
  /\ UNCHANGED <<worker, thread, replies, command, row, effects, strayed>>

Bindable(h) == Owns(h) /\ ~link

(* createPatchFixProposalForCommentCommand: proposal, job and link in one     *)
(* transaction.  It throws as well if the same patch was already proposed     *)
(* for another command.                                                      *)
BindProposal(h) ==
  /\ At(h, "binding")
  /\ Bindable(h)
  /\ link' = TRUE /\ bound' = TRUE
  /\ Answer(h, "proposal") \/ Throw(h)
  /\ UNCHANGED <<worker, thread, replies, command, status, attempt, owner, lease,
                 target, reply, request, strayed>>

(* Mutants: the answer is posted without looking for an earlier one; or any   *)
(* answer to the command is taken for it.                                    *)
FoundNever(h) == FALSE
FoundAnyKind(h) == \E k \in Kinds : replies[k] > 0

Found(h) == replies[handlers[h].kind] > 0

(* findExistingReply; a long thread is not searched to its end. *)
SearchReply(h) ==
  /\ At(h, "searching")
  /\ IF Found(h) THEN Goto(h, "closing")
     ELSE IF crowded THEN Throw(h) ELSE Goto(h, "posting")
  /\ UNCHANGED <<worker, thread, replies, command, row, effects, strayed>>

Latest(h) == handlers[h].attempt = attempt

(* The comment is created, and the client may never know. *)
PostReply(h) ==
  /\ At(h, "posting")
  /\ replies' = [replies EXCEPT ![handlers[h].kind] = @ + 1]
  /\ strayed' = (strayed \/ ~Latest(h))
  /\ Goto(h, "closing") \/ Throw(h)
  /\ UNCHANGED <<worker, thread, command, row, effects>>

(* A step of the handler fails and has done nothing. *)
StepFails(h) ==
  /\ handlers[h].pc \in Working
  /\ Throw(h)
  /\ UNCHANGED <<worker, thread, replies, command, row, effects, strayed>>

(* The heartbeat is stopped and the lease renewed once more. *)
Close(h) ==
  /\ At(h, "closing")
  /\ IF Owns(h) /\ ~handlers[h].lost
     THEN lease' = "live" /\ Goto(h, "ending")
     ELSE Leave(h) /\ UNCHANGED lease
  /\ UNCHANGED <<worker, thread, replies, command, status, attempt, owner, link,
                 target, reply, effects, strayed>>

Free(newStatus) == status' = newStatus /\ owner' = NoWorker /\ lease' = "none"

EndOf(kind) ==
  IF kind \in {"queued", "proposal"} THEN "completed" ELSE kind

TargetOf(kind) ==
  IF kind = "queued" THEN "run" ELSE IF kind = "proposal" THEN "proposal" ELSE "none"

Ending(h, exit) == At(h, "ending") /\ handlers[h].exit = exit

(* completeGitHubCommentCommand, which also clears the link unless the answer *)
(* is the proposal.                                                          *)
Complete(h) ==
  LET kind == handlers[h].kind IN
  /\ Ending(h, "answer")
  /\ Owns(h)
  /\ Free(EndOf(kind))
  /\ reply' = kind /\ target' = TargetOf(kind) /\ link' = (kind = "proposal")
  /\ Leave(h)
  /\ UNCHANGED <<worker, thread, replies, command, attempt, effects, strayed>>

Release(h) ==
  /\ Ending(h, "retry")
  /\ Owns(h) /\ attempt < MaxAttempts
  /\ Free("queued")
  /\ Leave(h)
  /\ UNCHANGED <<worker, thread, replies, command, attempt, link, target, reply,
                 effects, strayed>>

Fail(h) ==
  /\ Ending(h, "fail")
  /\ Owns(h)
  /\ Free("failed")
  /\ reply' = IF handlers[h].kind = "error" THEN "error" ELSE reply
  /\ Leave(h)
  /\ UNCHANGED <<worker, thread, replies, command, attempt, link, target, effects,
                 strayed>>

(* The last query matches no row, or fails: the job throws, to be retried. *)
EndRefused(h) ==
  /\ At(h, "ending")
  /\ Leave(h)
  /\ UNCHANGED <<worker, thread, replies, command, row, effects, strayed>>

(* The process dies. *)
Crash(h) ==
  /\ ~At(h, "idle")
  /\ Leave(h)
  /\ UNCHANGED <<worker, thread, replies, command, row, effects, strayed>>

LeaseExpires ==
  /\ lease = "live"
  /\ lease' = "expired"
  /\ UNCHANGED <<worker, thread, replies, command, status, attempt, owner, link,
                 target, reply, effects, handlers, strayed>>

-----------------------------------------------------------------------------
Handle(h) ==
  \/ Authorize(h) \/ ReadPullRequest(h) \/ QueueReview(h)
  \/ PrepareProposal(h) \/ BindProposal(h)
  \/ SearchReply(h) \/ PostReply(h) \/ StepFails(h)
  \/ Close(h) \/ Complete(h) \/ Release(h) \/ Fail(h) \/ EndRefused(h)

Next ==
  \/ Push \/ Crowd \/ AcceptCommand
  \/ \E h \in Handlers :
       Claim(h) \/ Handle(h) \/ Heartbeat(h) \/ HeartbeatFails(h) \/ Crash(h)
  \/ LeaseExpires

Spec == Init /\ [][Next]_vars

(* No handler is at work in the process that holds the lease. *)
Orphaned == \A h \in Handlers : worker[h] = owner => At(h, "idle")

(* Handlers go on, leases that nobody renews run out, and the sweep offers    *)
(* a claimable command to idle handlers.                                     *)
Fairness ==
  /\ \A h \in Handlers : WF_vars(Handle(h))
  /\ WF_vars(LeaseExpires /\ Orphaned)
  /\ WF_vars(\E h \in Handlers : Claim(h))

FairSpec == Spec /\ Fairness

-----------------------------------------------------------------------------
(* Properties.                                                              *)

(* What an ended command says happened: its answer is on GitHub, its review   *)
(* was queued, its proposal is bound.  The handler that ends it knows this    *)
(* only from its own steps, while others worked on the command before it.    *)
EndIsTrue ==
  /\ reply # "none" => replies[reply] > 0
  /\ status \in {"completed", "denied", "ignored"} => EndOf(reply) = status
  /\ target = "run" => request # 0 /\ ~bound
  /\ target = "proposal" => link /\ bound /\ request = 0

(* GitHub has no idempotency key for comments.  Each answer is given once     *)
(* as long as no handler posts after another one claimed the command, however *)
(* many attempts crash between the comment and the end of the command.       *)
OneReplyEach == ~strayed => \A k \in Kinds : replies[k] <= 1

(* complete, release and fail compare the worker's name, never the expiry or  *)
(* the attempt.  Only the handler of the latest claim ends the work on a      *)
(* command, as long as no other handler runs in its process.                 *)
OnlyLatestClaimEnds ==
  [][status = "processing" /\ status' # "processing"
       => \E h \in Handlers :
            /\ At(h, "ending") /\ handlers'[h].pc = "idle"
            /\ Latest(h) \/ \E g \in Handlers \ {h} : worker[g] = worker[h]]_vars

PhaseOf(s) == IF s \in Ends THEN s ELSE "open"
Life == INSTANCE CommandLife WITH
  phase <- PhaseOf(status), reviewed <- request, proposed <- bound

(* One effect, one end, and none completed without its effect. *)
ImplementsCommandLife == Life!Spec

(* A stored command ends, unless a worker is lost in its last attempt:        *)
(* neither the claim nor the sweep takes it up then.                         *)
CommandEnds ==
  status = "queued" ~> status \in Ends \/ (status = "processing" /\ attempt = MaxAttempts)
=============================================================================
