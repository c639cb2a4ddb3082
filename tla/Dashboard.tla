------------------------------ MODULE Dashboard ------------------------------
(***************************************************************************)
(* A page of the dashboard and what it asks of the API: the form that starts *)
(* a review, and the controls of the fix of one finding, which follow a fix  *)
(* job until it has ended.                                                   *)
(*                                                                         *)
(* Requests go through a proxy, which waits for an answer for 15 seconds.    *)
(* What the API has begun goes on after that: a request that the page counts *)
(* as failed may have had its effect, or have it later.                      *)
(*                                                                         *)
(* The form and the fix controls share no state, so that a behaviour has the *)
(* user at one of them.                                                     *)
(***************************************************************************)
EXTENDS Naturals

CONSTANTS
  MaxPosts,         \* bound: reviews asked for
  MaxHead,          \* bound: pushes to the pull request
  MaxAttempts       \* 5 in the source: attempts at a fix

ASSUME DashboardAssumption ==
  MaxPosts \in Nat /\ MaxHead \in Nat \ {0} /\ MaxAttempts \in Nat \ {0}

VARIABLES
  control,          \* "form" or "fix": what the user works with
  \* the form
  head,             \* head of the pull request on GitHub
  posts,            \* the requests for a review
  waiting,          \* the one whose answer the page waits for, or 0
  key,              \* requestId.current, or 0
  requests,         \* manual_review_requests: the head of each key, or 0
  asking,           \* ghost: the first post of what the user asks for, or 0
  runs,             \* ghost: the runs queued for it
  \* the fix controls
  view, shown, candidate,
  calls,            \* the requests that the page waits for
  timer,            \* the timer of the next poll
  late,             \* requests at the API that no page waits for
  \* patch_fix_jobs and patch_proposals, for the finding
  job, reference, attempt

apiVars == <<posts, requests, runs>>
formVars == <<head, posts, waiting, key, requests, asking, runs>>
pageVars == <<view, shown, candidate, calls, timer>>
storeVars == <<job, reference, attempt>>
fixVars == <<pageVars, late, storeVars>>
vars == <<control, formVars, fixVars>>

Posts == 1..MaxPosts
Heads == 1..MaxHead

Active == {"queued", "reproving"}
Ended == {"resolved", "unresolved", "inconclusive", "rejected", "failed"}
Statuses == {"awaiting_approval"} \cup Active \cup Ended
Fixes == [status : Statuses, reference : BOOLEAN]
NoFix == [status |-> "none", reference |-> FALSE]

Writes == {"generate", "publish", "approve", "reject"}
Calls == Writes \cup {"resume", "load", "poll"}

(* A submission is a publication that is followed by an approval although its  *)
(* page was left.                                                           *)
Left == Writes \cup {"submission"}

Post ==
  [pc : {"none", "sent", "read", "done"}, key : 0..MaxPosts,
   asking : 0..MaxPosts, head : 0..MaxHead]
NoPost == [pc |-> "none", key |-> 0, asking |-> 0, head |-> 0]

TypeOK ==
  /\ control \in {"form", "fix"}
  /\ head \in Heads
  /\ posts \in [Posts -> Post]
  /\ waiting \in 0..MaxPosts /\ key \in 0..MaxPosts /\ asking \in 0..MaxPosts
  /\ requests \in [Posts -> 0..MaxHead]
  /\ runs \in [Posts -> 0..MaxPosts]
  /\ view \in {"loading", "generating", "deciding", "ready"}
  /\ shown \in Fixes \cup {NoFix}
  /\ candidate \in BOOLEAN /\ timer \in BOOLEAN
  /\ calls \subseteq Calls /\ late \subseteq Left
  /\ job \in Statuses \cup {"none"} /\ reference \in BOOLEAN
  /\ attempt \in 0..MaxAttempts

Init ==
  /\ control \in {"form", "fix"}
  /\ head = 1
  /\ posts = [p \in Posts |-> NoPost] /\ waiting = 0
  /\ key = 0 /\ asking = 0
  /\ requests = [k \in Posts |-> 0] /\ runs = [n \in Posts |-> 0]
  /\ view = "loading" /\ shown = NoFix /\ candidate = FALSE
  /\ calls = {"load"} /\ timer = FALSE /\ late = {}
  /\ job = "none" /\ reference = FALSE /\ attempt = 0

-----------------------------------------------------------------------------
(* The form.                                                                *)

Push ==
  /\ head < MaxHead
  /\ head' = head + 1
  /\ UNCHANGED <<apiVars, waiting, key, asking>>

(* submitReview: the key of a request that was not answered is used again.    *)
Submit(p) ==
  LET reused == IF key = 0 THEN p ELSE key
      asked == IF asking = 0 THEN p ELSE asking
  IN
  /\ waiting = 0
  /\ posts[p].pc = "none" /\ \A q \in 1..(p - 1) : posts[q].pc # "none"
  /\ waiting' = p /\ key' = reused /\ asking' = asked
  /\ posts' = [posts EXCEPT ![p] =
                 [pc |-> "sent", key |-> reused, asking |-> asked, head |-> 0]]
  /\ UNCHANGED <<head, requests, runs>>

(* Another number is typed in, which a form that waits does not allow. *)
Edit ==
  /\ waiting = 0
  /\ key' = 0 /\ asking' = 0
  /\ UNCHANGED <<head, apiVars, waiting>>

Leave ==
  /\ waiting' = 0 /\ key' = 0 /\ asking' = 0
  /\ UNCHANGED <<head, apiVars>>

(* Mutant: every answer but a success drops the key. *)
ReusedNever(status) == FALSE

(* shouldReuseManualReviewRequestId *)
Reused(status) == status >= 500

(* The page is told a status.  From 500 on, it tells the user to try again      *)
(* safely; otherwise what was asked for was refused.                         *)
Told(status) ==
  /\ waiting' = 0
  /\ key' = IF Reused(status) THEN key ELSE 0
  /\ asking' = IF status >= 500 THEN asking ELSE 0

(* 202 with a body that can be read. *)
Accepted == waiting' = 0 /\ key' = 0 /\ asking' = 0

(* No answer, one that cannot be read, or the proxy's 502: the key is kept. *)
Unconfirmed == waiting' = 0 /\ UNCHANGED <<key, asking>>

(* What the API answers to p reaches the page if the page waits for it. *)
Answer(p, told) == IF waiting = p THEN told \/ Unconfirmed ELSE UNCHANGED <<waiting, key, asking>>

(* The proxy gives up, or the browser; the API goes on if it was reached. *)
GiveUp ==
  /\ waiting # 0
  /\ posts' \in {posts, [posts EXCEPT ![waiting].pc = "done"]}
  /\ Unconfirmed
  /\ UNCHANGED <<head, requests, runs>>

(* No session, no access to the repository, or no valid key. *)
Refuse(p) ==
  /\ posts[p].pc = "sent"
  /\ posts' = [posts EXCEPT ![p].pc = "done"]
  /\ \E status \in {400, 401, 403} : Answer(p, Told(status))
  /\ UNCHANGED <<head, requests, runs>>

(* The repository is found, and GitHub is asked for the pull request. *)
ReadHead(p) ==
  /\ posts[p].pc = "sent"
  /\ posts' = [posts EXCEPT ![p] =
                 [pc |-> "read", key |-> posts[p].key, asking |-> posts[p].asking, head |-> head]]
  /\ UNCHANGED <<head, waiting, key, requests, asking, runs>>

(* Anything on the way throws, which Fastify answers with 500. *)
ApiFails(p) ==
  /\ posts[p].pc \in {"sent", "read"}
  /\ posts' = [posts EXCEPT ![p].pc = "done"]
  /\ Answer(p, Told(500))
  /\ UNCHANGED <<head, requests, runs>>

(* claimManualReviewRequest *)
New(k) == requests[k] = 0

(* The transaction, in which the key is new, or known for the same head.  A     *)
(* key that is known for another head fails the request.                     *)
QueueManualReview(p) ==
  LET k == posts[p].key
      n == posts[p].asking
  IN
  /\ posts[p].pc = "read"
  /\ New(k) \/ requests[k] = posts[p].head
  /\ posts' = [posts EXCEPT ![p].pc = "done"]
  /\ IF New(k)
     THEN /\ requests' = [requests EXCEPT ![k] = posts[p].head]
          /\ runs' = [runs EXCEPT ![n] = @ + 1]
     ELSE UNCHANGED <<requests, runs>>
  /\ Answer(p, Accepted)
  /\ UNCHANGED head

-----------------------------------------------------------------------------
(* The stored fix, and what becomes of it without the page.                  *)

(* listPatchFixes, for the finding. *)
Stored == IF job = "none" THEN NoFix ELSE [status |-> job, reference |-> reference]

Keeps(status) == job' = status /\ UNCHANGED <<reference, attempt>>

(* A comment command proposes a fix. *)
ProposedElsewhere ==
  /\ job = "none"
  /\ Keeps("awaiting_approval")
  /\ UNCHANGED <<pageVars, late>>

(* Only a fix whose suggestion is recorded is claimed. *)
Claim ==
  /\ job \in Active /\ reference /\ attempt < MaxAttempts
  /\ job' = "reproving" /\ attempt' = attempt + 1
  /\ UNCHANGED <<reference, pageVars, late>>

Finish ==
  /\ job = "reproving"
  /\ \E status \in {"queued", "resolved", "unresolved", "inconclusive", "failed"} :
       /\ status = "queued" => attempt < MaxAttempts
       /\ Keeps(status)
  /\ UNCHANGED <<pageVars, late>>

(* What a write does at the API.  Any write may be refused besides. *)
Refused == UNCHANGED storeVars

Generated == IF job = "none" THEN Keeps("awaiting_approval") ELSE UNCHANGED storeVars

Published ==
  /\ job \notin {"none", "rejected"}
  /\ reference' = TRUE
  /\ UNCHANGED <<job, attempt>>

(* decidePatchFixProposal *)
Approved ==
  \/ job = "awaiting_approval" /\ Keeps("queued")
  \/ job = "failed" /\ reference /\ attempt < MaxAttempts /\ Keeps("queued")
  \/ job \in Active \cup {"resolved", "unresolved", "inconclusive"} /\ UNCHANGED storeVars

Rejected ==
  \/ job = "awaiting_approval" /\ ~reference /\ Keeps("rejected")
  \/ job = "rejected" /\ UNCHANGED storeVars

Effect(write) ==
  CASE write = "generate" -> Generated
    [] write = "publish" -> Published
    [] write = "approve" -> Approved
    [] write = "reject" -> Rejected

WriteOf(c) == IF c = "resume" THEN "approve" ELSE c

(* There may be several requests of a kind that nobody waits for. *)
LateEffect(write) ==
  /\ write \in late
  /\ Effect(write) \/ Refused
  /\ late' \in {late, late \ {write}}
  /\ UNCHANGED pageVars

-----------------------------------------------------------------------------
(* The fix controls.                                                        *)

(* The page is loaded again, or is left for another one and comes back.  What  *)
(* it had sent goes on at the API; if it was only left, submitPatchDecision    *)
(* goes on as well.                                                         *)
Open ==
  /\ view' = "loading" /\ shown' = NoFix /\ candidate' = FALSE
  /\ calls' = {"load"} /\ timer' = FALSE
  /\ \E submissions \in SUBSET {"submission" : c \in calls \cap {"publish"}} :
       late' = late \cup {WriteOf(c) : c \in calls \ {"load", "poll"}} \cup submissions
  /\ UNCHANGED storeVars

(* The effect that polls depends on the status that is shown: it is cleaned up *)
(* and set up again when that changes.                                      *)
Show(fix, others, again) ==
  /\ shown' = fix
  /\ IF fix.status = shown.status
     THEN calls' = others /\ timer' = again
     ELSE calls' = others \ {"poll"} /\ timer' = (fix.status \in Active)

(* load() succeeds, after the page was opened or something was decided. *)
Loaded ==
  /\ "load" \in calls
  /\ Show(Stored, calls \ {"load"}, timer)
  /\ view' = "ready"
  /\ UNCHANGED <<candidate, late, storeVars>>

PollFires ==
  /\ timer
  /\ timer' = FALSE /\ calls' = calls \cup {"poll"}
  /\ UNCHANGED <<view, shown, candidate, late, storeVars>>

Polled ==
  /\ "poll" \in calls
  /\ Show(Stored, calls \ {"poll"}, Stored.status \in Active)
  /\ view' = "ready"
  /\ UNCHANGED <<candidate, late, storeVars>>

(* Mutant: the poll that fails is the last one. *)
ScheduledNoMore == FALSE

(* schedule() in the catch clause of the poll. *)
Scheduled == TRUE

PollFails ==
  /\ "poll" \in calls
  /\ calls' = calls \ {"poll"} /\ timer' = Scheduled
  /\ view' = "ready"
  /\ UNCHANGED <<shown, candidate, late, storeVars>>

(* A button is pressed.  Bound: one request of a kind at a time. *)
Press(c, busy) ==
  /\ c \notin calls
  /\ calls' = calls \cup {c} /\ view' = busy
  /\ UNCHANGED <<shown, timer, late, storeVars>>

Resumable ==
  /\ ~candidate
  /\ shown.reference /\ shown.status \in {"awaiting_approval", "failed"}

Generate ==
  /\ view \notin {"generating", "loading"}
  /\ ~candidate /\ ~Resumable
  /\ shown.status \in {"none", "awaiting_approval", "failed"}
  /\ Press("generate", "generating")
  /\ candidate' = FALSE

Approve ==
  /\ candidate /\ view # "deciding"
  /\ Press("publish", "deciding")
  /\ UNCHANGED candidate

(* Not offered once the fix was approved. *)
Reject ==
  /\ candidate /\ view # "deciding"
  /\ shown.status \in {"awaiting_approval", "rejected"}
  /\ Press("reject", "deciding")
  /\ UNCHANGED candidate

Resume ==
  /\ Resumable /\ view # "deciding"
  /\ Press("resume", "deciding")
  /\ UNCHANGED candidate

(* A call fails for the page: an answer that is no success, or none.  A write   *)
(* was refused, or has had its effect, or is left at the API.                *)
CallFails(c) ==
  /\ c \in calls \ {"poll"}
  /\ calls' = calls \ {c} /\ view' = "ready"
  /\ \/ Refused /\ UNCHANGED late
     \/ c # "load" /\ Effect(WriteOf(c)) /\ UNCHANGED late
     \/ c # "load" /\ Refused /\ late' = late \cup {WriteOf(c)}
  /\ UNCHANGED <<shown, candidate, timer>>

(* parsePatchProposalResponse takes a proposal that waits for a decision, or   *)
(* one whose approved fix has failed.                                       *)
Generates ==
  /\ "generate" \in calls
  /\ Generated
  /\ IF Stored'.status \in {"awaiting_approval", "failed"}
     THEN candidate' = TRUE /\ Show(Stored', calls \ {"generate"}, timer)
     ELSE calls' = calls \ {"generate"} /\ UNCHANGED <<candidate, shown, timer>>
  /\ view' = "ready"
  /\ UNCHANGED late

(* Mutant: the approval does not wait for the publication. *)
PublishedOrNot == Published \/ Refused

(* submitPatchDecision publishes first, and then approves. *)
PublishedFirst == Published

Publishes ==
  /\ "publish" \in calls
  /\ PublishedFirst
  /\ calls' = (calls \ {"publish"}) \cup {"approve"}
  /\ UNCHANGED <<view, shown, candidate, timer, late>>

(* The same of a page that was left. *)
LatePublishes ==
  /\ "submission" \in late
  /\ PublishedFirst
  /\ \E going \in SUBSET {"submission"} :
       late' = (late \ {"submission"}) \cup going \cup {"approve"}
  /\ UNCHANGED pageVars

(* The decision is stored, and the page loads what has come of it. *)
Decides(c) ==
  /\ c \in calls \cap {"approve", "reject", "resume"}
  /\ Effect(WriteOf(c))
  /\ calls' = (calls \ {c}) \cup {"load"}
  /\ candidate' = (candidate /\ c = "resume")
  /\ UNCHANGED <<view, shown, timer, late>>

-----------------------------------------------------------------------------
FormNext ==
  \/ Push \/ Edit \/ Leave \/ GiveUp
  \/ \E p \in Posts :
       Submit(p) \/ Refuse(p) \/ ReadHead(p) \/ ApiFails(p) \/ QueueManualReview(p)

FixNext ==
  \/ ProposedElsewhere \/ Claim \/ Finish \/ \E write \in Writes : LateEffect(write)
  \/ Open \/ Loaded \/ PollFires \/ Polled \/ PollFails
  \/ Generate \/ Approve \/ Reject \/ Resume
  \/ Generates \/ Publishes \/ LatePublishes \/ \E c \in Calls : CallFails(c) \/ Decides(c)

Next ==
  /\ \/ control = "form" /\ FormNext /\ UNCHANGED fixVars
     \/ control = "fix" /\ FixNext /\ UNCHANGED formVars
  /\ UNCHANGED control

Spec == Init /\ [][Next]_vars

(* Timers fire, and a page that goes on asking is answered some day. *)
Fairness ==
  /\ WF_vars(control = "fix" /\ PollFires /\ UNCHANGED <<control, formVars>>)
  /\ SF_vars(control = "fix" /\ Polled /\ UNCHANGED <<control, formVars>>)

FairSpec == Spec /\ Fairness

-----------------------------------------------------------------------------
(* Properties.                                                              *)

(* "Try again safely": as long as the form says so, and whatever became of the *)
(* requests it has no answer to, another one queues no second review          *)
(* (shouldReuseManualReviewRequestId, claimManualReviewRequest).             *)
OneReviewPerAsking == \A n \in Posts : runs[n] <= 1

(* A fix that is queued can be claimed: its suggestion is recorded.  The API   *)
(* approves without asking for that, the claim and the sweep ask for it; what *)
(* keeps a fix from being queued for ever is the order in which a page        *)
(* publishes and approves, and what it offers to resume.                     *)
ApprovedIsPublished == job \in Active => reference

(* A page that shows a fix at work shows that it has ended, although polls     *)
(* fail and the status changes under them, unless it is opened again.        *)
FixIsFollowed ==
  shown.status \in Active /\ job \in Ended
    ~> shown.status \notin Active \/ job \notin Ended
=============================================================================
