---------------------------- MODULE HostedReview ----------------------------
(***************************************************************************)
(* The attempts of a worker at one review run: the hosted handler, the       *)
(* review pipeline it calls, the repository's checks in containers, the      *)
(* three model calls, the verdict, and the proof of findings on the base     *)
(* and the head revision.                                                   *)
(*                                                                         *)
(* ReviewRun has the lease and the rows around this; here the lease is only  *)
(* a signal that may fire at any time, next to the deadline of the pipeline. *)
(* Attempts follow one another: what two at a time can do to the row is in   *)
(* ReviewRun, and they share no workspace, container or signal.              *)
(***************************************************************************)
EXTENDS ReviewInputs, ProofPlans

CONSTANTS
  MaxAttempts,      \* bound: attempts at the review
  NumCommands, Required,    \* the configured commands, and the required ones
  NumFindings,      \* bound: different findings the model may report
  MaxTries,         \* 3 in the source: requests of one model call
  MaxChallenged,    \* 5 in the source: findings of one challenge
  MaxProofs,        \* 3 in the source: proofs of one attempt
  Changes, Guides,  \* bound: the changes of a pull request, the guidance
  Budget,           \* of files, of the diff and of the guidance
  Prompts, Room,    \* bound: prompts to be packed, and the room for them
  Configs,          \* bound: configurations of the repository, for its proofs
  Entries, Limits   \* bound: what the trees may hold, and their limits

Commands == 1..NumCommands
Findings == 1..NumFindings

ASSUME HostedReviewAssumption ==
  /\ MaxAttempts \in Nat \ {0} /\ NumCommands \in Nat /\ NumFindings \in Nat
  /\ Required \subseteq Commands
  /\ MaxTries \in Nat \ {0} /\ MaxChallenged \in Nat \ {0}
  /\ MaxProofs \in Nat \ {0}
  /\ Changes \subseteq Seq(ChangedFile) /\ Guides \subseteq Seq(Document)
  /\ Prompts \subseteq Prompt /\ Configs \subseteq Config
  /\ Entries \subseteq Entry

VARIABLES
  plan,             \* commands are configured, and trusted to be run
  attempt, stage,
  aborted,          \* the lease is lost: the handler's controller has aborted
  deadline,         \* the pipeline's deadline has passed
  checks,           \* the run of the repository's commands
  review,           \* what the stages came to
  findings,
  used,             \* ghost: the answer each model stage went by
  proof,            \* the loop over the findings to prove
  reproduced,       \* ghost: findings seen to pass on base and fail on head
  verdict,          \* of this attempt
  blocking,         \* blockingEvidenceLevels, once the verdict has used them
  result,           \* of the review run, once recorded
  exec, container, directory, command,      \* of ContainerRun
  call, rows                                \* of ProviderCall

ContextStages == {"references", "context"}
PipelineStages ==
  ContextStages \cup {"checks", "access", "review", "security", "challenge"}

(* Mutant: the deadline does not reach the calls. *)
SignalAbortedOnly == aborted

(* The signal that the pipeline hands to commands and requests. *)
Signal == aborted \/ (deadline /\ stage \in PipelineStages)

Sandbox == INSTANCE ContainerRun WITH signal <- Signal
(* What the pipeline asks a model for. *)
ModelStages == {"review", "security", "challenge"}

Provider == INSTANCE ProviderCall WITH signal <- Signal

runVars == <<exec, container, directory, command>>
callVars == <<call, rows>>
outcomeVars == <<plan, attempt, result>>
workVars == <<checks, review, findings, used, proof, reproduced,
              verdict, blocking>>
signalVars == <<aborted, deadline>>
vars == <<outcomeVars, stage, signalVars, workVars, runVars, callVars>>

Outcomes == {"passed", "failed", "timed_out", "cancelled", "infrastructure_error"}
Verdicts == {"SHIP", "FIX", "HUMAN", "INCONCLUSIVE", "ERROR"}
Steps == {"not_requested", "complete", "incomplete"}
Lives == {"absent", "high", "supported", "challenged", "verified"}

(* What a run in a container comes to, and how its command really ended: the  *)
(* conclusive outcomes tell it (ConclusiveRunIsClean, which the checks show   *)
(* step by step), timed_out, cancelled and infrastructure_error do not.       *)
Runs ==
  {r \in [outcome : {"passed", "failed", "inconclusive"},
          end : {"zero", "nonzero", "none"}] :
     /\ r.outcome = "passed" => r.end = "zero"
     /\ r.outcome = "failed" => r.end = "nonzero"}

NoRun == [outcome |-> "inconclusive", end |-> "none"]

TypeOK ==
  /\ plan \in {"none", "untrusted", "trusted"}
  /\ blocking \subseteq {"SUPPORTED", "VERIFIED"}
  /\ attempt \in 0..MaxAttempts
  /\ stage \in PipelineStages \cup {"idle", "checkout", "proof", "finishing"}
  /\ aborted \in BOOLEAN /\ deadline \in BOOLEAN
  /\ checks \in [next : 1..NumCommands + 1,
                 outcome : [Commands -> Outcomes \cup {"none"}],
                 end : [Commands -> Sandbox!Exits \cup {"none"}]]
  /\ review \in [context : {"complete", "incomplete", "error"},
                 checks : {"complete", "incomplete", "error"},
                 provider : Steps, security : Steps, challenger : Steps,
                 empty : BOOLEAN, sensitive : BOOLEAN,
                 others : BOOLEAN, human : BOOLEAN]
  /\ findings \in [Findings -> [life : Lives, support : SUBSET Commands]]
  /\ used \in [ModelStages -> Provider!Answers \cup {"none", "unasked"}]
  /\ proof \in [at : 0..NumFindings, picked : BOOLEAN, left : SUBSET Commands,
                tries : 0..MaxProofs, requested : BOOLEAN, incomplete : BOOLEAN,
                step : {"none", "trees", "base", "head", "leaving"},
                base : Runs \cup {NoRun}, head : Runs \cup {NoRun}]
  /\ reproduced \subseteq Findings
  /\ verdict \in Verdicts \cup {"none"} /\ result \in Verdicts \cup {"none"}
  /\ Sandbox!RunTypeOK
  /\ Provider!CallTypeOK

NoChecks == [next |-> 1, outcome |-> [c \in Commands |-> "none"],
             end |-> [c \in Commands |-> "none"]]
NoReview == [context |-> "complete", checks |-> "incomplete",
             provider |-> "not_requested", security |-> "not_requested",
             challenger |-> "not_requested",
             empty |-> FALSE, sensitive |-> FALSE,
             others |-> FALSE, human |-> FALSE]
NoFindings == [f \in Findings |-> [life |-> "absent", support |-> {}]]
NoProof == [at |-> 0, picked |-> FALSE, left |-> {}, tries |-> 0,
            requested |-> FALSE, incomplete |-> FALSE,
            step |-> "none", base |-> NoRun, head |-> NoRun]
Unasked == [s \in ModelStages |-> "unasked"]

Init ==
  /\ plan \in {"none", "untrusted", "trusted"} /\ blocking = {}
  /\ attempt = 0 /\ stage = "idle"
  /\ aborted = FALSE /\ deadline = FALSE
  /\ checks = NoChecks /\ review = NoReview /\ findings = NoFindings
  /\ used = Unasked /\ proof = NoProof /\ reproduced = {}
  /\ verdict = "none" /\ result = "none"
  /\ exec = Sandbox!Idle /\ container = "none"
  /\ directory = FALSE /\ command = "none"
  /\ call = Provider!NoCall
  /\ rows = [s \in ModelStages |-> Provider!NoAnswer]

-----------------------------------------------------------------------------
(* Findings and the verdict.                                                *)
Supported(f) == findings[f].life \in {"supported", "challenged"} /\ findings[f].support # {}
LikelyBlocker(f) == findings[f].life \in {"high", "supported"}

Levels ==
  {l \in {"SUPPORTED", "VERIFIED"} :
     \E f \in Findings: IF l = "VERIFIED" THEN findings[f].life = "verified"
                                          ELSE Supported(f)}

RequiredFailed == \E c \in Required: checks.outcome[c] = "failed"

(* Mutant: the specialist's step is left out. *)
ModelStatusWithoutSecurity ==
  IF "incomplete" \in {review.provider, review.challenger}
  THEN "incomplete" ELSE review.provider

ModelStatus ==
  IF "incomplete" \in {review.provider, review.security, review.challenger}
  THEN "incomplete" ELSE review.provider

(* adjudicateLocalVerdict: errors, then blockers, then gaps, then people. *)
Adjudicate(blockingLevels, proofStatus) ==
  IF "error" \in {review.context, review.checks} THEN "ERROR"
  ELSE IF Levels \cap blockingLevels # {} THEN "FIX"
  ELSE IF "incomplete" \in {review.context, review.checks, ModelStatus, proofStatus}
       THEN "INCONCLUSIVE"
  ELSE IF RequiredFailed \/ review.human THEN "HUMAN"
  ELSE "SHIP"

-----------------------------------------------------------------------------
(* The attempt: claim, signals, and its ends.                               *)

Claim ==
  /\ stage = "idle" /\ result = "none" /\ attempt < MaxAttempts
  /\ attempt' = attempt + 1 /\ stage' = "checkout"
  /\ UNCHANGED <<plan, result, signalVars, workVars, runVars, callVars>>

(* The attempt is over, and what the handler had in memory is gone.  The       *)
(* recorded rows stay; a container that is left is no concern of the next     *)
(* attempt, which runs in another checkout and under other names.            *)
Leave ==
  /\ stage' = "idle"
  /\ aborted' = FALSE /\ deadline' = FALSE
  /\ checks' = NoChecks /\ review' = NoReview /\ findings' = NoFindings
  /\ used' = Unasked /\ proof' = NoProof /\ reproduced' = {} /\ verdict' = "none"
  /\ blocking' = {}
  /\ exec' = Sandbox!Idle /\ container' = "none"
  /\ directory' = FALSE /\ command' = "none"
  /\ call' = Provider!NoCall
  /\ UNCHANGED <<plan, attempt, rows>>

Abandon == Leave /\ UNCHANGED result

(* A renewal is refused or fails: the heartbeat aborts the controller.  From   *)
(* then on the deadline makes no difference.                                *)
LeaseLost ==
  /\ stage # "idle" /\ ~aborted
  /\ aborted' = TRUE /\ deadline' = FALSE
  /\ exec' = Sandbox!Interrupted
  /\ UNCHANGED <<outcomeVars, stage, workVars, container, directory,
                 command, callVars>>

(* The timer of the pipeline runs out. *)
DeadlinePasses ==
  /\ stage \in PipelineStages /\ ~deadline /\ ~aborted
  /\ deadline' = TRUE
  /\ exec' = Sandbox!Interrupted
  /\ UNCHANGED <<outcomeVars, stage, aborted, workVars, container, directory,
                 command, callVars>>

(* The process dies. *)
Crash == stage # "idle" /\ Abandon

(* The timer of the deadline is cleared when the pipeline returns. *)
Enter(s) == stage' = s /\ deadline' = (deadline /\ s \in PipelineStages)
Conclude(v) == Enter("finishing") /\ verdict' = v

(* The tokens, the credential or the checkout fails. *)
StageFails ==
  /\ stage = "checkout"
  /\ ~aborted /\ Conclude("ERROR")
  /\ UNCHANGED <<outcomeVars, aborted, checks, review, findings, used, proof,
                 reproduced, blocking, runVars, callVars>>

CheckedOut ==
  /\ stage = "checkout"
  /\ Enter("references")
  /\ UNCHANGED <<outcomeVars, aborted, workVars, runVars, callVars>>

(* The checkout is removed, or that fails the attempt.  The heartbeat has      *)
(* stopped: the lease must still be renewed.                                *)
Complete ==
  /\ stage = "finishing" /\ ~aborted
  /\ result' \in {verdict, "ERROR"}
  /\ Leave

(* Without the lease the handler throws, and the job is tried again: when a    *)
(* stage fails, and at the end.                                             *)
GiveBack ==
  /\ \/ stage = "finishing"
     \/ stage = "checkout" /\ aborted
  /\ Abandon

-----------------------------------------------------------------------------
(* The pipeline: the diff and the checks.                                   *)

(* The base is the reference that the checkout has verified; the review is of  *)
(* what the head adds to their merge base.                                  *)
ResolveReferences ==
  /\ stage = "references"
  /\ \E found \in SUBSET {"refs/walkz/base", "origin/main"}:
       BaseReference("refs/walkz/base", found) # NoReference
  /\ Enter("context")
  /\ UNCHANGED <<outcomeVars, aborted, workVars, runVars, callVars>>

Packs == {"security-core", "supply-chain", "delivery-safety"}

(* What the pipeline goes by, of any change, guidance and policy packs. *)
Views ==
  {[whole |-> context.complete, empty |-> context.empty,
    sensitive |-> RequiresSpecialist(context, packs)] :
     context \in {Context(files, documents, Budget) :
                     files \in Changes, documents \in Guides},
     packs \in SUBSET Packs}

CollectContext ==
  /\ stage = "context"
  /\ \E view \in Views:
       review' = [review EXCEPT !.context = IF view.whole THEN @ ELSE "incomplete",
                                !.empty = view.empty, !.sensitive = view.sensitive]
  /\ Enter("checks")
  /\ UNCHANGED <<outcomeVars, aborted, checks, findings, used, proof,
                 reproduced, verdict, blocking, runVars, callVars>>

(* The pipeline ends here, and there is nothing to prove. *)
ContextFails ==
  /\ stage \in ContextStages
  /\ Conclude(IF Signal THEN "INCONCLUSIVE" ELSE "ERROR")
  /\ UNCHANGED <<outcomeVars, aborted, checks, review, findings, used, proof,
                 reproduced, blocking, runVars, callVars>>

Running == plan = "trusted" /\ checks.next <= NumCommands
Broken == \E c \in Commands: checks.outcome[c] = "cancelled"

(* All checks run in the checkout, so that the directory stays from one to   *)
(* the next.                                                                *)
RunCheck ==
  /\ stage = "checks" /\ Running /\ ~Broken
  /\ Sandbox!Start(directory)
  /\ UNCHANGED <<outcomeVars, stage, signalVars, workVars, callVars>>

CheckEnds ==
  /\ stage = "checks" /\ Sandbox!At("done")
  /\ checks' = [next |-> checks.next + 1,
                outcome |-> [checks.outcome EXCEPT ![checks.next] = Sandbox!Outcome],
                end |-> [checks.end EXCEPT ![checks.next] =
                           IF Sandbox!Outcome \in {"passed", "failed"}
                           THEN command ELSE "none"]]
  /\ exec' = Sandbox!Idle /\ container' = "none" /\ command' = "none"
  /\ UNCHANGED <<outcomeVars, stage, signalVars, review, findings, used, proof,
                 reproduced, verdict, blocking, directory, callVars>>

(* The command plan does not fit the configuration: runChecks throws. *)
ChecksThrow ==
  /\ stage = "checks" /\ Running /\ ~Broken /\ Sandbox!At("idle")
  /\ Conclude(IF Signal
              THEN "INCONCLUSIVE" ELSE "ERROR")
  /\ UNCHANGED <<outcomeVars, aborted, checks, review, findings, used, proof,
                 reproduced, blocking, runVars, callVars>>

CheckStatus ==
  CASE plan = "none" -> "complete"
    [] plan = "untrusted" -> IF Required = {} THEN "complete" ELSE "incomplete"
    [] OTHER ->
         LET required == {checks.outcome[c] : c \in Required} IN
         IF "infrastructure_error" \in required THEN "error"
         ELSE IF checks.next <= NumCommands \/ required \cap {"timed_out", "cancelled"} # {}
              THEN "incomplete" ELSE "complete"

(* Checks that are not complete end the pipeline without a model. *)
ChecksEnd ==
  /\ stage = "checks" /\ Sandbox!At("idle")
  /\ ~Running \/ Broken
  /\ review' = [review EXCEPT !.checks = CheckStatus]
  /\ Enter(IF CheckStatus = "complete" THEN "access" ELSE "proof")
  /\ directory' = FALSE
  /\ UNCHANGED <<outcomeVars, aborted, checks, findings, used, proof, reproduced,
                 verdict, blocking, exec, container, command, callVars>>

-----------------------------------------------------------------------------
(* The pipeline: the reviewer, the security specialist, the challenger.     *)

(* Nothing is asked for an empty diff. *)
ReviewSkipped ==
  /\ stage = "access" /\ review.empty
  /\ Enter("proof")
  /\ UNCHANGED <<outcomeVars, aborted, workVars, runVars, callVars>>

(* A stage that asks nothing after all: no credential, no access, no model,   *)
(* no tokens left, a prompt that cannot be cut to them.                      *)
StageUnavailable(s, step) ==
  /\ review' = [review EXCEPT ![step] = "incomplete"]
  /\ used' = [used EXCEPT ![s] = "none"]
  /\ Enter("proof")
  /\ UNCHANGED <<outcomeVars, aborted, checks, findings, proof, reproduced,
                 verdict, blocking, runVars, callVars>>

(* A prompt that was cut leaves a gap in the context. *)
Packed == {Packing(prompt, Room) : prompt \in Prompts} \ {"refused"}
Cut(packing) == IF packing = "cut" THEN "incomplete" ELSE review.context

AskModel(s, others) ==
  /\ Enter(s)
  /\ Provider!Ask(s)
  /\ \E packing \in Packed:
       review' = [review EXCEPT !.context = Cut(packing), !.others = others]
  /\ UNCHANGED <<outcomeVars, aborted, checks, findings, used, proof, reproduced,
                 verdict, blocking, runVars>>

(* The call is over.  An answer need not hold: it may name a place outside    *)
(* the diff, or other findings than those asked about.                       *)
Heard(s, holds) ==
  /\ stage = s /\ Provider!At("done")
  /\ holds => call.answer # Provider!NoAnswer
  /\ used' = [used EXCEPT ![s] = IF holds THEN call.answer ELSE "none"]
  /\ call' = Provider!NoCall
  /\ UNCHANGED <<outcomeVars, aborted, checks, proof, reproduced, verdict, blocking,
                 runVars, rows>>

(* The findings a valid or a partly valid answer adds, each supported by the  *)
(* failed checks that name its place.  One that no check supports and that is *)
(* not severe is of no consequence, and left out.                            *)
FailedChecks == {c \in Commands: checks.outcome[c] = "failed"}

Report ==
  \E new \in SUBSET {f \in Findings: findings[f].life = "absent"}:
  \E support \in [new -> SUBSET FailedChecks]:
    findings' = [f \in Findings |->
      IF f \notin new THEN findings[f]
      ELSE [life |-> IF support[f] # {} THEN "supported" ELSE "high",
            support |-> support[f]]]

ReviewUnavailable ==
  /\ stage = "access" /\ ~review.empty
  /\ StageUnavailable("review", "provider")

(* The models that the provider lists as active decide which one reviews, and  *)
(* whether there is another one to challenge it.                             *)
Selections ==
  {s \in [others : BOOLEAN, found : BOOLEAN] :
     \E active \in SUBSET Provider!Models, requested \in Provider!Requests:
       LET model == Provider!SelectModel(active, requested) IN
       /\ s.found = (model # Provider!NoModel)
       /\ s.others = (Provider!OtherModels(active, model) # {})}

AskReview ==
  /\ stage = "access" /\ ~review.empty
  /\ \E selection \in Selections:
       selection.found /\ AskModel("review", selection.others)

(* Places that a finding may name, in a change of the first two lines. *)
ChangedLines == [changed |-> {1, 2}]
Places == [file : {"changed", "untouched"}, line : 1..3, last : 0..3]
Placed == {LocationHolds(place, ChangedLines) : place \in Places}

(* Findings outside the diff leave the step incomplete; the others stay. *)
ReviewHeard ==
  \E holds \in Placed:
    /\ Heard("review", holds)
    /\ review' = [review EXCEPT !.provider = IF holds THEN "complete" ELSE "incomplete"]
    /\ IF call.answer = "notable" THEN Report ELSE UNCHANGED findings
    /\ Enter(IF holds THEN "security" ELSE "proof")

SecuritySkipped ==
  /\ stage = "security" /\ Provider!At("idle") /\ ~review.sensitive
  /\ Enter("challenge")
  /\ UNCHANGED <<outcomeVars, aborted, workVars, runVars, callVars>>

SecurityUnavailable ==
  /\ stage = "security" /\ Provider!At("idle") /\ review.sensitive
  /\ StageUnavailable("security", "security")

AskSecurity ==
  /\ stage = "security" /\ review.sensitive
  /\ AskModel("security", review.others)

(* A specialist that is partly wrong is not heard at all; one that repeats    *)
(* what was found adds nothing.                                             *)
SecurityHeard ==
  \E holds \in Placed:
    /\ Heard("security", holds)
    /\ review' = [review EXCEPT !.security = IF holds THEN "complete" ELSE "incomplete"]
    /\ IF holds /\ call.answer = "notable" THEN Report ELSE UNCHANGED findings
    /\ Enter(IF holds THEN "challenge" ELSE "proof")

LikelyBlockers == {f \in Findings: LikelyBlocker(f)}

ChallengeSkipped ==
  /\ stage = "challenge" /\ Provider!At("idle") /\ LikelyBlockers = {}
  /\ Enter("proof")
  /\ UNCHANGED <<outcomeVars, aborted, workVars, runVars, callVars>>

ChallengeUnavailable ==
  /\ stage = "challenge" /\ Provider!At("idle") /\ LikelyBlockers # {}
  /\ StageUnavailable("challenge", "challenger")

AskChallenge ==
  /\ stage = "challenge" /\ LikelyBlockers # {}
  /\ review.others
  /\ AskModel("challenge", TRUE)

(* The findings with evidence are asked about first; more of them than fit    *)
(* leave the step incomplete, and the rest unchallenged.                     *)
Candidates ==
  {S \in SUBSET LikelyBlockers :
     /\ Cardinality(S) = IF Cardinality(LikelyBlockers) > MaxChallenged
                         THEN MaxChallenged ELSE Cardinality(LikelyBlockers)
     /\ \A f \in S, g \in LikelyBlockers \ S:
          findings[g].life = "supported" => findings[f].life = "supported"}

ChallengeHeard ==
  \E holds \in BOOLEAN, asked \in Candidates:
    /\ Heard("challenge", holds)
    /\ review' = [review EXCEPT
         !.challenger = IF holds /\ Cardinality(LikelyBlockers) <= MaxChallenged
                        THEN "complete" ELSE "incomplete",
         !.human = holds /\ call.answer = "notable"]
    /\ findings' = [f \in Findings |->
         IF holds /\ f \in asked THEN [findings[f] EXCEPT !.life = "challenged"]
         ELSE findings[f]]
    /\ Enter("proof")

-----------------------------------------------------------------------------
(* The proof: each supported finding, by each failed check that named it.   *)

Unproved == {f \in Findings: f > proof.at /\ Supported(f)}
NoPair == [proof EXCEPT !.step = "none", !.base = NoRun, !.head = NoRun]
Left == [NoPair EXCEPT !.left = {}, !.picked = FALSE]
GivenUp == [Left EXCEPT !.incomplete = TRUE]

PickFinding ==
  /\ stage = "proof" /\ ~proof.picked /\ Unproved # {}
  /\ proof' = [proof EXCEPT !.at = Min(Unproved), !.picked = TRUE, !.requested = TRUE,
                            !.left = findings[Min(Unproved)].support]
  /\ UNCHANGED <<outcomeVars, stage, signalVars, checks, review, findings, used,
                 reproduced, verdict, blocking, runVars, callVars>>

(* Mutant: one proof too many. *)
OneMoreProof == proof.tries <= MaxProofs

ProofsLeft == proof.tries < MaxProofs

(* All its checks were tried, or no further proof is allowed. *)
LeaveFinding ==
  /\ stage = "proof" /\ proof.picked /\ proof.step = "none"
  /\ \/ proof.left = {} /\ proof' = Left
     \/ proof.left # {} /\ ~ProofsLeft /\ proof' = GivenUp
  /\ UNCHANGED <<outcomeVars, stage, signalVars, checks, review, findings, used,
                 reproduced, verdict, blocking, runVars, callVars>>

(* Mutant: the head alone decides. *)
ShowsHead(base, head) == head = "failed"

Shows(base, head) == base = "passed" /\ head = "failed"

Assessable(base, head) == {base, head} \subseteq {"passed", "failed"}

Proving(step) == stage = "proof" /\ proof.picked /\ proof.step = step

(* The next failed check is bound to a command that is configured, or not: the *)
(* two revisions may be one.                                                *)
Bindings ==
  {Bindable(config, asked, two) : config \in Configs, asked \in Digests, two \in BOOLEAN}

BindProof ==
  /\ Proving("none") /\ proof.left # {} /\ ProofsLeft
  /\ \E bound \in Bindings:
       proof' = IF bound THEN [proof EXCEPT !.tries = @ + 1, !.step = "trees"]
                         ELSE [GivenUp EXCEPT !.tries = @ + 1]
  /\ UNCHANGED <<outcomeVars, stage, signalVars, checks, review, findings, used,
                 reproduced, verdict, blocking, runVars, callVars>>

(* Both trees are written below a directory of their own, unless one of them   *)
(* is not admitted, Git fails or sends other blobs, or the lease is lost.     *)
Materialized ==
  {AdmittedTree(tree, Limits) /\ BatchMatches(tree, sent) :
     tree \in SUBSET Entries, sent \in SUBSET Entries}

MakeTrees ==
  /\ Proving("trees")
  /\ \E base, head \in Materialized:
       proof' = IF ~aborted /\ base /\ head THEN [proof EXCEPT !.step = "base"]
                                          ELSE GivenUp
  /\ UNCHANGED <<outcomeVars, stage, signalVars, checks, review, findings, used,
                 reproduced, verdict, blocking, runVars, callVars>>

(* Once the lease is lost, no run starts. *)
ContainerRuns == IF aborted THEN {NoRun} ELSE Runs

RunBase ==
  /\ Proving("base")
  /\ \E r \in ContainerRuns: proof' = [proof EXCEPT !.step = "head", !.base = r]
  /\ UNCHANGED <<outcomeVars, stage, signalVars, checks, review, findings, used,
                 reproduced, verdict, blocking, runVars, callVars>>

RunHead ==
  /\ Proving("head")
  /\ \E r \in ContainerRuns: proof' = [proof EXCEPT !.step = "leaving", !.head = r]
  /\ UNCHANGED <<outcomeVars, stage, signalVars, checks, review, findings, used,
                 reproduced, verdict, blocking, runVars, callVars>>

(* The directory is removed.  A pair is not assessed if that fails, or if the  *)
(* lease was lost meanwhile.                                                *)
AssessPair ==
  /\ Proving("leaving")
  /\ \E removed \in BOOLEAN:
       LET base == proof.base
           head == proof.head
           assessed == removed /\ ~aborted /\ Assessable(base.outcome, head.outcome)
           verified == assessed /\ Shows(base.outcome, head.outcome)
       IN /\ proof' = IF ~assessed THEN GivenUp
                      ELSE IF verified THEN Left
                      ELSE [NoPair EXCEPT !.left = @ \ {Min(@)}]
          /\ findings' = IF verified
                         THEN [findings EXCEPT ![proof.at].life = "verified"]
                         ELSE findings
          /\ reproduced' = IF base.end = "zero" /\ head.end = "nonzero"
                           THEN reproduced \cup {proof.at} ELSE reproduced
  /\ UNCHANGED <<outcomeVars, stage, signalVars, checks, review, used, verdict, blocking,
                 runVars, callVars>>

ProofEnds ==
  /\ stage = "proof" /\ ~proof.picked /\ Unproved = {}
  /\ \E levels \in {{"VERIFIED"}, {"SUPPORTED", "VERIFIED"}}:
       /\ blocking' = levels
       /\ Conclude(Adjudicate(levels,
            IF ~proof.requested THEN "not_requested"
            ELSE IF proof.incomplete THEN "incomplete" ELSE "complete"))
  /\ proof' = NoProof
  /\ UNCHANGED <<outcomeVars, aborted, checks, review, findings, used,
                 reproduced, runVars, callVars>>

-----------------------------------------------------------------------------
RunContainer ==
  /\ stage = "checks"
  /\ Sandbox!RunStep
  /\ UNCHANGED <<outcomeVars, stage, signalVars, workVars, callVars>>

CallProvider ==
  /\ stage \in ModelStages
  /\ Provider!Progress
  /\ UNCHANGED <<outcomeVars, stage, signalVars, workVars, runVars>>

ProviderWakes ==
  /\ stage \in ModelStages
  /\ Provider!Wakes
  /\ UNCHANGED <<outcomeVars, stage, signalVars, workVars, runVars>>

Handle ==
  \/ CheckedOut \/ StageFails \/ Complete \/ GiveBack
  \/ ResolveReferences \/ CollectContext
  \/ ContextFails
  \/ RunCheck \/ CheckEnds \/ ChecksThrow \/ ChecksEnd
  \/ ReviewSkipped \/ ReviewUnavailable \/ AskReview \/ ReviewHeard
  \/ SecuritySkipped \/ SecurityUnavailable \/ AskSecurity \/ SecurityHeard
  \/ ChallengeSkipped \/ ChallengeUnavailable \/ AskChallenge \/ ChallengeHeard
  \/ PickFinding \/ LeaveFinding \/ BindProof \/ MakeTrees
  \/ RunBase \/ RunHead \/ AssessPair \/ ProofEnds

Next ==
  \/ Claim \/ Crash \/ LeaseLost \/ DeadlinePasses
  \/ Handle \/ RunContainer \/ CallProvider \/ ProviderWakes

(* Something goes on in an attempt: the worker, its container and single       *)
(* requests have timers of their own, and so has the pipeline.  How long the  *)
(* provider asks to wait before a retry is up to the provider.               *)
Fairness == WF_vars(Handle \/ RunContainer \/ CallProvider \/ DeadlinePasses)

Spec == Init /\ [][Next]_vars

FairSpec == Spec /\ Fairness

-----------------------------------------------------------------------------
(* A check or proof is called passed or failed only if its command really     *)
(* ended so, and leaves neither a container nor a proof directory behind:     *)
(* executionOutcome, cleanContainer and the finally of                       *)
(* executeProofInContainer, against a client that dies before its container.  *)
ConclusiveRunIsClean == Sandbox!Conclusive

(* SHIP is never concluded over a gap: the diff was whole, every required      *)
(* command really exited with zero, a diff was reviewed, and by the specialist *)
(* where the policies ask for it, every model that was asked gave an answer    *)
(* that held, the challenger upheld everything, and no finding was reproduced *)
(* (runLocalReviewPipeline, adjudicateProofedResult).                       *)
ShipsOverNoGap ==
  verdict = "SHIP" =>
    /\ review.context = "complete"
    /\ Required = {} \/ plan # "untrusted"
    /\ plan = "trusted" => \A c \in Required: checks.end[c] = "zero"
    /\ ~review.empty => used["review"] \in Provider!Answers
    /\ ~review.empty /\ review.sensitive => used["security"] \in Provider!Answers
    /\ \A s \in ModelStages: used[s] # "none"
    /\ used["challenge"] # "notable"
    /\ reproduced = {}

(* FIX is never concluded on the model's word alone: a blocking finding was    *)
(* seen to pass on the base and fail on the head, or, where supported         *)
(* findings block, a check that names it really failed.                      *)
FixRestsOnEvidence ==
  verdict = "FIX" =>
    \/ reproduced # {}
    \/ /\ "SUPPORTED" \in blocking
       /\ \E f \in Findings: \E c \in findings[f].support: checks.end[c] = "nonzero"

(* The answers that an attempt goes by are the ones recorded for the review,  *)
(* also when an earlier attempt had asked before it died                     *)
(* (recordModelInvocation, observeRequest).                                  *)
RecordedAnswersDecide ==
  \A s \in ModelStages:
    used[s] \in Provider!Answers => rows[s] = used[s]

(* Every attempt comes to an end, however long the provider asks to wait      *)
(* (the deadline of runLocalReviewPipeline reaches the retry loop).          *)
AttemptEnds == stage # "idle" ~> stage = "idle"
=============================================================================
