-------------------------- MODULE PatchPublication --------------------------
(***************************************************************************)
(* The publication of one patch proposal as a suggestion, a review comment   *)
(* on GitHub, while people decide the proposal and its run is replaced.      *)
(*                                                                         *)
(* GitHub has no idempotency key for review comments.  A request therefore   *)
(* leases the proposal in PostgreSQL, looks for a comment with the           *)
(* proposal's marker, creates one if there is none, and records it.  Between *)
(* any two calls the API process may die, the lease may run out, the head of *)
(* the pull request may move, and the proposal may be decided or withdrawn.  *)
(* The comments carry the patch hash, so the text they suggest is left out.  *)
(***************************************************************************)
CONSTANTS
  Requests,       \* publish requests, by the random UUID each one leases under
  NoRequest       \* publication_lease_owner IS NULL, no comment

ASSUME PatchPublicationAssumption == NoRequest \notin Requests

VARIABLES
  \* GitHub
  ghCurrent,      \* the head of the pull request is the proposal's head
  comments,       \* review comments with the marker, by the request that made them
  unknown,        \* creations that failed at the client and may yet succeed
  doomed,         \* comments whose deletion failed there and may yet succeed
  \* PostgreSQL
  prCurrent,      \* pull_requests.head_sha is the proposal's head
  run,            \* review_runs.status of the proposal's run
  approval,       \* approval_status
  stale,          \* stale_at IS NOT NULL
  reference,      \* github_reference
  owner,          \* publication_lease_owner
  lease,          \* publication_lease_expires_at
  \* API processes
  publishers,     \* what each request is at
  \* history
  strays          \* requests that outlived their lease, or whose creation or
                  \* deletion came late

proposal == <<approval, stale, reference>>
vars == <<ghCurrent, comments, unknown, doomed, prCurrent, run, proposal, owner, lease,
          publishers, strays>>

Publishing == {"load", "check", "find", "create", "recover", "confirm",
               "delete", "record"}

Publisher ==
  [pc : {"new", "release", "done"} \cup Publishing,
   found : Requests \cup {NoRequest}, created : BOOLEAN]

(* Types, and the checks of migrations 010 and 016: the two lease columns are *)
(* set together, and a rejected proposal has no reference.                   *)
TypeOK ==
  /\ ghCurrent \in BOOLEAN /\ prCurrent \in BOOLEAN
  /\ comments \subseteq Requests /\ unknown \subseteq Requests
  /\ doomed \subseteq Requests \cup {NoRequest}
  /\ run \in {"awaiting_human", "superseded", "cancelled"}
  /\ approval \in {"pending", "approved", "rejected"}
  /\ stale \in BOOLEAN
  /\ reference \in Requests \cup {NoRequest}
  /\ owner \in Requests \cup {NoRequest}
  /\ lease \in {"none", "live", "expired"}
  /\ owner = NoRequest <=> lease = "none"
  /\ approval = "rejected" => reference = NoRequest
  /\ publishers \in [Requests -> Publisher]
  /\ strays \subseteq Requests

(* A step that knows of no suggestion. *)
Step(pc) == [pc |-> pc, found |-> NoRequest, created |-> FALSE]

(* createPatchProposal accepts the recorded head of a run that awaits a      *)
(* human; GitHub's head may have moved by then.                              *)
Init ==
  /\ ghCurrent \in BOOLEAN /\ prCurrent = TRUE
  /\ comments = {} /\ unknown = {} /\ doomed = {}
  /\ run = "awaiting_human"
  /\ approval = "pending" /\ stale = FALSE /\ reference = NoRequest
  /\ owner = NoRequest /\ lease = "none"
  /\ publishers = [q \in Requests |-> Step("new")]
  /\ strays = {}

At(q, pc) == publishers[q].pc = pc
Goto(q, pc) == publishers' = [publishers EXCEPT ![q] = Step(pc)]
Keep(q, pc) == publishers' = [publishers EXCEPT ![q].pc = pc]

-----------------------------------------------------------------------------
(* The pull request and the decisions of its people.                         *)

(* A push, or a force push back to the proposal's head. *)
Push ==
  /\ ghCurrent' = ~ghCurrent
  /\ UNCHANGED <<comments, unknown, doomed, prCurrent, run, proposal, owner, lease,
                 publishers, strays>>

(* queueGitHubReviewRun for any head: the proposal's run is superseded. *)
Supersede ==
  /\ prCurrent' \in BOOLEAN
  /\ run' = IF run = "awaiting_human" THEN "superseded" ELSE run
  /\ stale' = (stale \/ run = "awaiting_human")
  /\ UNCHANGED <<ghCurrent, comments, unknown, doomed, approval, reference, owner, lease,
                 publishers, strays>>

(* cancelReviewRun *)
Cancel ==
  /\ run = "awaiting_human"
  /\ run' = "cancelled"
  /\ stale' = TRUE
  /\ UNCHANGED <<ghCurrent, comments, unknown, doomed, prCurrent, approval, reference,
                 owner, lease, publishers, strays>>

(* publicationIsStale, and the same condition of a decision. *)
IsStale == stale \/ ~prCurrent \/ run = "superseded"

MarkStale ==
  /\ stale' = TRUE
  /\ UNCHANGED <<ghCurrent, comments, unknown, doomed, prCurrent, run, approval, reference,
                 owner, lease, strays>>

(* Mutant: a proposal with a suggestion can be rejected. *)
DecidableAlways(decision) == approval = "pending" /\ run = "awaiting_human"

(* The gates of decidePatchProposal after the stale one; deciding the same   *)
(* again changes nothing.                                                    *)
Decidable(decision) ==
  /\ run = "awaiting_human"
  /\ decision = "rejected" => reference = NoRequest
  /\ approval = "pending"

Decide(decision) ==
  /\ ~IsStale
  /\ Decidable(decision)
  /\ approval' = decision
  /\ UNCHANGED <<ghCurrent, comments, unknown, doomed, prCurrent, run, stale, reference,
                 owner, lease, publishers, strays>>

DecideStale ==
  /\ IsStale
  /\ MarkStale
  /\ UNCHANGED publishers

-----------------------------------------------------------------------------
(* preparePatchSuggestionPublication, one transaction.                       *)

(* publicationConflict *)
Conflict == approval = "rejected" \/ run = "cancelled"

(* Mutant: another request's live lease is taken over. *)
LeaseTaken(q) == TRUE

LeaseFree(q) == owner \in {NoRequest, q} \/ lease = "expired"

PrepareReady(q) ==
  /\ At(q, "new")
  /\ ~Conflict /\ ~IsStale
  /\ reference = NoRequest
  /\ LeaseFree(q)
  /\ owner' = q /\ lease' = "live"
  /\ Goto(q, "load")
  /\ UNCHANGED <<ghCurrent, comments, unknown, doomed, prCurrent, run, proposal, strays>>

PrepareStale(q) ==
  /\ At(q, "new")
  /\ ~Conflict /\ IsStale
  /\ MarkStale
  /\ Goto(q, "done")

(* 'conflict', 'published' or 'busy'; or 'denied', to a user who lost access *)
(* to the repository at any time.                                            *)
PrepareRefused(q) ==
  /\ At(q, "new")
  /\ Goto(q, "done")
  /\ UNCHANGED <<ghCurrent, comments, unknown, doomed, prCurrent, run, proposal, owner,
                 lease, strays>>

-----------------------------------------------------------------------------
(* Between prepare and record, on GitHub.                                    *)
github == <<ghCurrent, comments, unknown, doomed>>
database == <<prCurrent, run, proposal, owner, lease>>

(* currentHead, read three times: to load the file, before the search and    *)
(* after the comment exists.                                                 *)
HeadUnchanged(q) ==
  /\ ghCurrent
  /\ \/ At(q, "load") /\ Goto(q, "check")
     \/ At(q, "check") /\ Goto(q, "find")
     \/ At(q, "confirm") /\ Keep(q, "record")
  /\ UNCHANGED <<github, database, strays>>

(* Mutant: a suggestion that was found is deleted as well. *)
AfterMoveAlways(q) == "delete"

(* Only a suggestion that this request created is deleted. *)
AfterMove(q) == IF publishers[q].created THEN "delete" ELSE "release"

HeadMoved(q) ==
  /\ ~ghCurrent
  /\ \/ publishers[q].pc \in {"load", "check"} /\ Goto(q, "release")
     \/ At(q, "confirm") /\ Keep(q, AfterMove(q))
  /\ UNCHANGED <<github, database, strays>>

Confirm(q, c, created) ==
  publishers' = [publishers EXCEPT
                   ![q] = [pc |-> "confirm", found |-> c, created |-> created]]

(* findExistingSuggestion *)
Find(q) ==
  /\ At(q, "find")
  /\ IF comments = {} THEN Goto(q, "create")
                      ELSE \E c \in comments : Confirm(q, c, FALSE)
  /\ UNCHANGED <<github, database, strays>>

(* createSuggestion: the comment is made, and its answer read or not. *)
Create(q) ==
  /\ At(q, "create")
  /\ comments' = comments \cup {q}
  /\ Confirm(q, q, TRUE) \/ Goto(q, "release")
  /\ UNCHANGED <<ghCurrent, unknown, doomed, database, strays>>

(* The request failed: the comment may appear now, later or never. *)
CreateFails(q) ==
  /\ At(q, "create")
  /\ unknown' = unknown \cup {q}
  /\ Goto(q, "recover")
  /\ UNCHANGED <<ghCurrent, comments, doomed, database, strays>>

Land(q) ==
  /\ q \in unknown
  /\ comments' = comments \cup {q}
  /\ unknown' = unknown \ {q}
  /\ strays' = IF At(q, "recover") THEN strays ELSE strays \cup {q}
  /\ UNCHANGED <<ghCurrent, doomed, database, publishers>>

(* Once more findExistingSuggestion; nothing found rethrows the error. *)
Recover(q) ==
  /\ At(q, "recover")
  /\ IF comments = {} THEN Goto(q, "release")
                      ELSE \E c \in comments : Confirm(q, c, FALSE)
  /\ UNCHANGED <<github, database, strays>>

Delete(q) ==
  /\ At(q, "delete")
  /\ comments' = comments \ {publishers[q].found}
  /\ Goto(q, "release")
  /\ UNCHANGED <<ghCurrent, unknown, doomed, database, strays>>

(* The request failed: the comment may disappear later or never, and others  *)
(* may have found it by then.                                                *)
DeleteFails(q) ==
  /\ At(q, "delete")
  /\ doomed' = doomed \cup {publishers[q].found}
  /\ Goto(q, "release")
  /\ UNCHANGED <<ghCurrent, comments, unknown, database, strays>>

DeleteLands(c) ==
  /\ comments' = comments \ {c}
  /\ doomed' = doomed \ {c}
  /\ strays' = strays \cup {c}
  /\ UNCHANGED <<ghCurrent, unknown, database, publishers>>

-----------------------------------------------------------------------------
(* recordPatchSuggestionPublication and releasePatchSuggestionPublication.   *)

(* Mutant: the lease is not compared. *)
RecordableByAny(q) == ~Conflict /\ reference = NoRequest

(* The owner is compared, not the expiry of its lease. *)
Recordable(q) == ~Conflict /\ reference = NoRequest /\ owner = q

Record(q) ==
  /\ At(q, "record")
  /\ Recordable(q)
  /\ reference' = publishers[q].found
  /\ stale' = (stale \/ IsStale)
  /\ owner' = NoRequest /\ lease' = "none"
  /\ Goto(q, "release")
  /\ UNCHANGED <<github, prCurrent, run, approval, strays>>

RecordRefused(q) ==
  /\ At(q, "record")
  /\ ~Recordable(q)
  /\ Goto(q, "release")
  /\ UNCHANGED <<github, database, strays>>

Release(q) ==
  /\ At(q, "release")
  /\ IF owner = q THEN owner' = NoRequest /\ lease' = "none"
                  ELSE UNCHANGED <<owner, lease>>
  /\ Goto(q, "done")
  /\ UNCHANGED <<github, prCurrent, run, proposal, strays>>

-----------------------------------------------------------------------------
(* Failures.                                                                *)

(* An unreadable answer of GitHub, a file or marker that does not match, a   *)
(* deletion that GitHub refuses, a database error, lost access: the catch    *)
(* clause releases the lease.                                                *)
StepFails(q) ==
  /\ publishers[q].pc \in Publishing \ {"create"}
  /\ Goto(q, "release")
  /\ UNCHANGED <<github, database, strays>>

(* The process dies, or the release fails as well: the lease remains. *)
Abandon(q) ==
  /\ publishers[q].pc \in ({"release"} \cup Publishing) \ {"create"}
  /\ Goto(q, "done")
  /\ UNCHANGED <<github, database, strays>>

LeaseExpires ==
  /\ lease = "live"
  /\ lease' = "expired"
  /\ strays' = IF publishers[owner].pc \in Publishing
               THEN strays \cup {owner} ELSE strays
  /\ UNCHANGED <<github, prCurrent, run, proposal, owner, publishers>>

-----------------------------------------------------------------------------
Prepare(q) == PrepareReady(q) \/ PrepareStale(q) \/ PrepareRefused(q)

Next ==
  \/ Push \/ Supersede \/ Cancel
  \/ \E decision \in {"approved", "rejected"} : Decide(decision)
  \/ DecideStale
  \/ \E q \in Requests :
       \/ Prepare(q)
       \/ HeadUnchanged(q) \/ HeadMoved(q)
       \/ Find(q) \/ Create(q) \/ CreateFails(q) \/ Land(q) \/ Recover(q)
       \/ Delete(q) \/ DeleteFails(q)
       \/ Record(q) \/ RecordRefused(q) \/ Release(q)
       \/ StepFails(q) \/ Abandon(q)
  \/ \E c \in comments \cap doomed : DeleteLands(c)
  \/ LeaseExpires

Spec == Init /\ [][Next]_vars

-----------------------------------------------------------------------------
(* Properties.                                                              *)

(* GitHub shows at most one suggestion for the proposal, besides those of    *)
(* requests that outlived their lease or whose creation was reported as      *)
(* failed and came true after they looked for it: the lease and the marker   *)
(* together stand in for the idempotency key that GitHub lacks.              *)
OneSuggestion == \A c, d \in comments \ strays : c = d

(* The suggestion that the proposal records is on GitHub: nobody deletes it  *)
(* after it was recorded, except a request that had outlived its lease, or   *)
(* whose deletion was reported as failed and came true later.                *)
ReferenceIsPosted ==
  reference \notin strays \cup {NoRequest} => reference \in comments

(* A request deletes only the comment it created itself, when the head moved *)
(* under it; never one that an earlier request left behind.  A deletion that *)
(* takes effect later was sent by the comment's creator as well.             *)
DeletesOnlyOwn ==
  [][\A c \in (comments \ comments') \cup doomed' :
       At(c, "delete") \/ c \in doomed]_vars

Life == INSTANCE ProposalLife WITH References <- Requests, NoReference <- NoRequest

(* However requests interleave and die, the proposal is decided once, never  *)
(* when it is stale, is bound to one suggestion for good, and a rejected one *)
(* is never bound to a suggestion.                                           *)
ImplementsProposalLife == Life!Spec

(* The dashboard tells who rejected a proposal that nothing was published,   *)
(* and the README that nothing is published before it is approved.           *)
RejectedIsUnpublished == approval = "rejected" => comments = {}
=============================================================================
