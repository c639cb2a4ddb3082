------------------------------ MODULE PatchFix ------------------------------
(***************************************************************************)
(* The fix job of one patch proposal: approved, proved again on the patched  *)
(* head by a worker under a lease, and ended with what the proof came to.    *)
(*                                                                         *)
(* A job is claimed at most five times.  Workers crash, lose their lease to  *)
(* another one and go on, while the proposal is published or withdrawn.      *)
(* The jobs of BullMQ are left out: a worker may be told of a proposal at    *)
(* any time, and the claim decides.  "stale" stands for all that withdraws a *)
(* proposal, which includes every replacement of its run and every change of *)
(* the recorded head (FreshProposalIsCurrent of ReviewRun).                  *)
(***************************************************************************)
EXTENDS Integers

CONSTANTS
  Workers,
  NoWorker,
  MaxAttempts       \* 5 in the source

ASSUME PatchFixAssumption ==
  NoWorker \notin Workers /\ MaxAttempts \in Nat \ {0}

VARIABLES
  \* patch_proposals
  approval,         \* approval_status
  published,        \* github_reference IS NOT NULL
  stale,            \* stale_at IS NOT NULL
  \* patch_fix_jobs
  status,
  attempt,
  owner,            \* lease_owner
  lease,            \* lease_expires_at
  \* evidence
  evidence,         \* outcome of the patch_reproof row of each attempt
  \* worker processes
  handlers

proposal == <<approval, published, stale>>
job == <<status, attempt, owner, lease>>
vars == <<proposal, job, evidence, handlers>>

Outcomes == {"resolved", "unresolved", "inconclusive"}
Statuses == {"awaiting_approval", "queued", "reproving", "rejected", "failed"}
              \cup Outcomes
Attempts == 1..MaxAttempts

(* What the catch clause calls the phase "binding": the target is loaded, and *)
(* an earlier proof of it is looked for, or about to be reused.              *)
Binding == {"latest", "reusing"}
Working == Binding \cup {"loading", "proving", "recording", "completing"}
Leaving == {"failing", "releasing"}

Handler ==
  [pc : {"idle"} \cup Working \cup Leaving,
   attempt : 0..MaxAttempts,            \* of the claim it works under
   outcome : Outcomes \cup {"none"},
   lost : BOOLEAN]                      \* a heartbeat was refused or failed

Idle == [pc |-> "idle", attempt |-> 0, outcome |-> "none", lost |-> FALSE]

(* Types, and the lease check of migration 012. *)
TypeOK ==
  /\ approval \in {"pending", "approved", "rejected"}
  /\ published \in BOOLEAN /\ stale \in BOOLEAN
  /\ status \in Statuses
  /\ attempt \in 0..MaxAttempts
  /\ owner \in Workers \cup {NoWorker}
  /\ lease \in {"none", "live", "expired"}
  /\ owner = NoWorker <=> lease = "none"
  /\ evidence \in [Attempts -> Outcomes \cup {"none"}]
  /\ handlers \in [Workers -> Handler]

Init ==
  /\ approval = "pending" /\ published = FALSE /\ stale = FALSE
  /\ status = "awaiting_approval" /\ attempt = 0
  /\ owner = NoWorker /\ lease = "none"
  /\ evidence = [a \in Attempts |-> "none"]
  /\ handlers = [w \in Workers |-> Idle]

-----------------------------------------------------------------------------
(* The proposal.                                                            *)

(* recordPatchSuggestionPublication; the proposal may have become stale. *)
Publish ==
  /\ ~published /\ approval # "rejected"
  /\ published' = TRUE
  /\ UNCHANGED <<approval, stale, job, evidence, handlers>>

Withdraw ==
  /\ ~stale
  /\ stale' = TRUE
  /\ UNCHANGED <<approval, published, job, evidence, handlers>>

Approve ==
  /\ approval = "pending" /\ ~stale
  /\ approval' = "approved"
  /\ status' = IF status = "awaiting_approval" THEN "queued" ELSE status
  /\ UNCHANGED <<published, stale, attempt, owner, lease, evidence, handlers>>

(* Mutant: the job of a rejected proposal is left as it is. *)
RejectedStatusKept == status

RejectedStatus == IF status = "awaiting_approval" THEN "rejected" ELSE status

Reject ==
  /\ approval = "pending" /\ ~stale /\ ~published
  /\ approval' = "rejected"
  /\ status' = RejectedStatus
  /\ UNCHANGED <<published, stale, attempt, owner, lease, evidence, handlers>>

(* Mutant: a job that ended without a conclusion is retried as well. *)
RetriableInconclusive ==
  status \in {"failed", "inconclusive"} /\ published /\ attempt < MaxAttempts

Retriable == status = "failed" /\ published /\ attempt < MaxAttempts

(* The same approval again, of a job that failed. *)
ApproveAgain ==
  /\ approval = "approved" /\ ~stale
  /\ Retriable
  /\ status' = "queued"
  /\ owner' = NoWorker /\ lease' = "none"
  /\ UNCHANGED <<proposal, attempt, evidence, handlers>>

-----------------------------------------------------------------------------
(* A handler.                                                               *)
At(w, pc) == handlers[w].pc = pc
Goto(w, pc) == handlers' = [handlers EXCEPT ![w].pc = pc]
GotoWith(w, pc, o) == handlers' = [handlers EXCEPT ![w].pc = pc, ![w].outcome = o]
Leave(w) == handlers' = [handlers EXCEPT ![w] = Idle]

(* Mutant: the job of a dead worker is not claimable. *)
ClaimableQueued ==
  approval = "approved" /\ published /\ ~stale /\ attempt < MaxAttempts
  /\ status = "queued"

Claimable ==
  /\ approval = "approved" /\ published /\ ~stale
  /\ attempt < MaxAttempts
  /\ status = "queued" \/ (status = "reproving" /\ lease # "live")

(* Mutant: a job taken over from a dead worker keeps its attempt. *)
SameAttempt == IF status = "queued" THEN attempt + 1 ELSE attempt

NextAttempt == attempt + 1

Claim(w) ==
  /\ At(w, "idle")
  /\ Claimable
  /\ status' = "reproving" /\ attempt' = NextAttempt
  /\ owner' = w /\ lease' = "live"
  /\ handlers' = [handlers EXCEPT ![w] =
                    [pc |-> "loading", attempt |-> NextAttempt,
                     outcome |-> "none", lost |-> FALSE]]
  /\ UNCHANGED <<proposal, evidence>>

(* Mutant: whoever works on the job is taken for its owner. *)
OwnsUnchecked(w) == status = "reproving"

(* The condition of renew, release, complete and fail. *)
Owns(w) == status = "reproving" /\ owner = w

Heartbeat(w) ==
  /\ handlers[w].pc \in Working
  /\ IF Owns(w)
     THEN lease' = "live" /\ UNCHANGED handlers
     ELSE handlers' = [handlers EXCEPT ![w].lost = TRUE] /\ UNCHANGED lease
  /\ UNCHANGED <<proposal, status, attempt, owner, evidence>>

HeartbeatFails(w) ==
  /\ handlers[w].pc \in Working
  /\ handlers' = [handlers EXCEPT ![w].lost = TRUE]
  /\ UNCHANGED <<proposal, job, evidence>>

(* loadClaimedPatchFixTarget, which unlike the others compares the expiry.   *)
LoadTarget(w) ==
  /\ At(w, "loading")
  /\ Owns(w) /\ lease = "live" /\ ~stale
  /\ Goto(w, "latest")
  /\ UNCHANGED <<proposal, job, evidence>>

(* proof_binding_invalid: no target, or its plan is not the recorded one.    *)
TargetInvalid(w) ==
  /\ At(w, "loading")
  /\ Goto(w, "failing")
  /\ UNCHANGED <<proposal, job, evidence>>

Recorded == {a \in Attempts : evidence[a] # "none"}

(* latestPatchReproof: the proof of an earlier attempt is not repeated.      *)
LatestReproof(w) ==
  /\ At(w, "latest")
  /\ IF Recorded = {} THEN Goto(w, "proving")
     ELSE \E a \in Recorded :
            /\ \A b \in Recorded : b <= a
            /\ GotoWith(w, "reusing", evidence[a])
  /\ UNCHANGED <<proposal, job, evidence>>

(* runApprovedPatchReproof *)
Reprove(w) ==
  /\ At(w, "proving")
  /\ \E o \in Outcomes : GotoWith(w, "recording", o)
  /\ UNCHANGED <<proposal, job, evidence>>

(* GitHub has not what was approved, or gives no token to ask for it. *)
CandidateChanged(w) ==
  /\ At(w, "proving")
  /\ Goto(w, "failing")
  /\ UNCHANGED <<proposal, job, evidence>>

(* recordPatchReproofResult asks for the proposal, not for the lease. *)
RecordReproof(w) ==
  /\ At(w, "recording")
  /\ IF evidence[handlers[w].attempt] = "none" /\ approval = "approved" /\ ~stale
     THEN /\ evidence' = [evidence EXCEPT ![handlers[w].attempt] = handlers[w].outcome]
          /\ Goto(w, "completing")
     ELSE Goto(w, "failing") /\ UNCHANGED evidence
  /\ UNCHANGED <<proposal, job>>

Free(newStatus) == status' = newStatus /\ owner' = NoWorker /\ lease' = "none"

(* completePatchFixJob *)
Completable(w) ==
  /\ Owns(w)
  /\ \E a \in Attempts : evidence[a] = handlers[w].outcome
  /\ handlers[w].outcome = "resolved" => published

Complete(w) ==
  /\ At(w, "completing") \/ At(w, "reusing")
  /\ Completable(w)
  /\ Free(handlers[w].outcome)
  /\ Leave(w)
  /\ UNCHANGED <<proposal, attempt, evidence>>

(* What the catch clause makes of an error, or of an abort by the heartbeat: *)
(* an error fails the job while its target is bound, or in its last attempt. *)
Throw(w) ==
  /\ handlers[w].pc \in Working
  /\ Goto(w, IF \/ handlers[w].pc \in Binding
                \/ ~handlers[w].lost /\ handlers[w].attempt = MaxAttempts
             THEN "failing" ELSE "releasing")
  /\ UNCHANGED <<proposal, job, evidence>>

(* failPatchFixJob, if no heartbeat was lost. *)
Fail(w) ==
  /\ At(w, "failing")
  /\ IF Owns(w) /\ ~handlers[w].lost THEN Free("failed")
                                     ELSE UNCHANGED <<status, owner, lease>>
  /\ Leave(w)
  /\ UNCHANGED <<proposal, attempt, evidence>>

(* releasePatchFixJob, likewise; not in the last attempt. *)
Release(w) ==
  /\ At(w, "releasing")
  /\ IF Owns(w) /\ ~handlers[w].lost /\ attempt < MaxAttempts
     THEN Free("queued")
     ELSE UNCHANGED <<status, owner, lease>>
  /\ Leave(w)
  /\ UNCHANGED <<proposal, attempt, evidence>>

(* The process dies, or cannot reach the database any more. *)
Crash(w) ==
  /\ ~At(w, "idle")
  /\ Leave(w)
  /\ UNCHANGED <<proposal, job, evidence>>

LeaseExpires ==
  /\ lease = "live"
  /\ lease' = "expired"
  /\ UNCHANGED <<proposal, status, attempt, owner, evidence, handlers>>

-----------------------------------------------------------------------------
(* The handler goes on, without its heartbeat. *)
Handle(w) ==
  \/ LoadTarget(w) \/ TargetInvalid(w) \/ LatestReproof(w)
  \/ Reprove(w) \/ CandidateChanged(w) \/ RecordReproof(w)
  \/ Complete(w) \/ Throw(w) \/ Fail(w) \/ Release(w)

Next ==
  \/ Publish \/ Withdraw \/ Approve \/ Reject \/ ApproveAgain
  \/ \E w \in Workers :
       Claim(w) \/ Handle(w) \/ Heartbeat(w) \/ HeartbeatFails(w) \/ Crash(w)
  \/ LeaseExpires

Spec == Init /\ [][Next]_vars

(* The worker that a live lease was given to is gone. *)
Orphaned == owner # NoWorker /\ (owner \in Workers => At(owner, "idle"))

(* Handlers go on, leases that nobody renews run out, and the sweep offers   *)
(* what is claimable to idle workers.                                        *)
FairSpec ==
  /\ Spec
  /\ \A w \in Workers : WF_vars(Handle(w))
  /\ WF_vars(LeaseExpires /\ Orphaned)
  /\ WF_vars(\E w \in Workers : Claim(w))

-----------------------------------------------------------------------------
(* Properties.                                                              *)

(* The job says of the decision what the proposal says, although only the    *)
(* proposal is locked while one of them is read: decidePatchFixProposal      *)
(* takes a rejected job of an approved proposal for an error.                *)
DecisionAgrees ==
  /\ approval = "pending" <=> status = "awaiting_approval"
  /\ approval = "rejected" <=> status = "rejected"

(* No two handlers work under one attempt, and none records a proof for an   *)
(* attempt that has one, however often the job changes hands: the unique key *)
(* of a proof is never in the way.                                           *)
ProvenOnce ==
  \A w \in Workers :
    /\ \A v \in Workers \ {w} :
         ~At(w, "idle") /\ ~At(v, "idle") => handlers[v].attempt # handlers[w].attempt
    /\ At(w, "recording") => evidence[handlers[w].attempt] = "none"

(* Only the handler of the latest claim ends the work on a job, although     *)
(* complete, fail and release compare the owner and never the expiry.        *)
OnlyLatestClaimEnds ==
  [][status = "reproving" /\ status' # "reproving"
       => \E w \in Workers : ~At(w, "idle") /\ handlers[w].attempt = attempt
                             /\ handlers'[w].pc = "idle"]_vars

PhaseOf(s) ==
  IF s = "awaiting_approval" THEN "undecided"
  ELSE IF s \in {"queued", "reproving"} THEN "open" ELSE s

ProofsOf(e) == {e[a] : a \in {b \in Attempts : e[b] # "none"}}

Life == INSTANCE FixLife WITH
  phase <- PhaseOf(status), proofs <- ProofsOf(evidence)

(* A job ends in an outcome that a recorded proof had, and stays there; only *)
(* a failed one is opened again.                                             *)
ImplementsFixLife == Life!Spec

(* A published, approved job is worked off, unless it is withdrawn or uses   *)
(* up its attempts: a worker that dies in the last one leaves it reproving.  *)
FixEnds ==
  status = "queued" /\ published
    ~> status \notin {"queued", "reproving"} \/ stale \/ attempt = MaxAttempts
=============================================================================
