--------------------------- MODULE PatchPreparation ---------------------------
(***************************************************************************)
(* The patch of one verified finding: asked of a model by dashboard pages    *)
(* and by handlers of comment commands, kept as a proposal by its hash only, *)
(* published as a suggestion, and read back from it to be proved again.      *)
(*                                                                         *)
(* No lease keeps preparers apart.  What they share is the record of the      *)
(* model's answer, which the second answer to the same question has to equal,*)
(* and the proposal's row.  The text of a patch is only in the page that      *)
(* asked for it and in the comment on GitHub, which people can edit.         *)
(*                                                                         *)
(* The leases of publication, command and fix job are in PatchPublication,   *)
(* CommentCommand and PatchFix: here each is a step.                        *)
(***************************************************************************)
EXTENDS PatchText, FiniteSets

CONSTANTS
  Pages,            \* dashboard pages that show the finding
  Commands,         \* attempts at a comment command that asks for a fix
  Sources,          \* file, finding and budget
  Answers,          \* what the model may answer
  Blocks,           \* what people may edit a suggestion into
  NoPatch

Preparers == Pages \cup Commands

Patches(source) ==
  {Candidate(HeadLines(source.file), answer, answer.text) :
     answer \in {a \in Answers : WellFormed(a) /\ Acceptable(source, a)}}

ASSUME PatchPreparationAssumption ==
  /\ Pages \cap Commands = {}
  /\ \A a \in Answers : a.text \in Seq(Seq(STRING)) /\ a.text # <<>>
  /\ \A s \in Sources :
       /\ s.file.lines \in Seq(Seq(STRING))
       /\ s.finding \in [first : Nat \ {0}, last : Nat]
       /\ s.finding.first <= s.finding.last
       /\ s.tokens \in Nat /\ s.limit \in Nat
       /\ NoPatch \notin Patches(s)

VARIABLES
  source,
  ghCurrent,        \* GitHub's head is the head of the run
  eligible,         \* the run awaits a human and is of the recorded head
  invocation,       \* model_invocations, for this finding and head
  \* patch_proposals, by their hash
  proposals, approved, rejected,
  comments,         \* the suggestion of a proposal
  preparers,        \* what each preparer is at
  page,             \* the candidate that a page holds
  proofs            \* how the jobs of approved proposals ended

repository == <<source, ghCurrent, eligible>>
rows == <<proposals, approved, rejected>>
vars == <<repository, invocation, rows, comments, preparers, page, proofs>>

NoAnswer == [status |-> "none", answer |-> NoPatch]
Invocation(status, answer) == [status |-> status, answer |-> answer]
Step(pc, answer) == [pc |-> pc, answer |-> answer]
Idle == Step("idle", NoPatch)

TypeOK ==
  /\ source \in Sources /\ ghCurrent \in BOOLEAN /\ eligible \in BOOLEAN
  /\ invocation \in
       [status : {"none", "failed"}, answer : {NoPatch}]
         \cup [status : {"succeeded"}, answer : Answers]
  /\ proposals \subseteq Patches(source)
  /\ approved \subseteq proposals /\ rejected \subseteq proposals
  /\ comments \subseteq
       [patch : proposals, block : Blocks \cup {Block(p.text) : p \in proposals},
        edited : BOOLEAN]
  /\ preparers \in
       [Preparers -> [pc : {"idle", "reading", "asking"}, answer : {NoPatch}]
                       \cup [pc : {"accepting", "creating"}, answer : Answers]]
  /\ page \in [Pages -> proposals \cup {NoPatch}]
  /\ \A r \in proofs : r.patch \in approved /\ r.end \in {"stale", "changed", "failed", "applied"}

Init ==
  /\ source \in Sources
  /\ ghCurrent = TRUE /\ eligible = TRUE
  /\ invocation = NoAnswer
  /\ proposals = {} /\ approved = {} /\ rejected = {}
  /\ comments = {}
  /\ preparers = [p \in Preparers |-> Idle]
  /\ page = [p \in Pages |-> NoPatch]
  /\ proofs = {}

-----------------------------------------------------------------------------
(* The pull request. *)

Push ==
  /\ ghCurrent' = ~ghCurrent
  /\ UNCHANGED <<source, eligible, invocation, rows, comments, preparers, page, proofs>>

(* The run is superseded or cancelled, or its head is no longer the recorded *)
(* one.                                                                     *)
Withdraw ==
  /\ eligible
  /\ eligible' = FALSE
  /\ UNCHANGED <<source, ghCurrent, invocation, rows, comments, preparers, page, proofs>>

-----------------------------------------------------------------------------
(* A preparer.                                                              *)
At(p, pc) == preparers[p].pc = pc
Goto(p, pc, answer) == preparers' = [preparers EXCEPT ![p] = Step(pc, answer)]
Stop(p) == preparers' = [preparers EXCEPT ![p] = Idle]

(* loadVerifiedPatchFixSource; the page forgets what it held.                *)
LoadSource(p) ==
  /\ At(p, "idle")
  /\ eligible
  /\ Goto(p, "reading", NoPatch)
  /\ page' = [q \in Pages |-> IF q = p THEN NoPatch ELSE page[q]]
  /\ UNCHANGED <<repository, invocation, rows, comments, proofs>>

(* loadHeadFile *)
ReadHead(p) ==
  /\ At(p, "reading")
  /\ ghCurrent
  /\ Goto(p, "asking", NoPatch)
  /\ UNCHANGED <<repository, invocation, rows, comments, page, proofs>>

(* Mutant: the answer is recorded whatever was recorded before. *)
AgreesAlways(answer) == TRUE

(* The condition of the upsert of recordModelInvocation. *)
Agrees(answer) == invocation.status = "succeeded" => invocation.answer = answer

(* The model answers, and the answer is recorded before it is looked at.      *)
Ask(p) ==
  /\ At(p, "asking")
  /\ Window(source) # NoWindow
  /\ \E answer \in Answers :
       /\ WellFormed(answer) /\ Agrees(answer)
       /\ invocation' = IF invocation.status = "succeeded" THEN invocation
                        ELSE Invocation("succeeded", answer)
       /\ Goto(p, "accepting", answer)
  /\ UNCHANGED <<repository, rows, comments, page, proofs>>

(* The request fails or its answer is malformed, and this is recorded. *)
AskFails(p) ==
  /\ At(p, "asking")
  /\ Window(source) # NoWindow
  /\ invocation' = IF invocation.status = "succeeded" THEN invocation
                   ELSE Invocation("failed", NoPatch)
  /\ Stop(p)
  /\ UNCHANGED <<repository, rows, comments, page, proofs>>

Accept(p) ==
  /\ At(p, "accepting")
  /\ Acceptable(source, preparers[p].answer)
  /\ Goto(p, "creating", preparers[p].answer)
  /\ UNCHANGED <<repository, invocation, rows, comments, page, proofs>>

(* createPatchFixProposal, or ...ForCommentCommand, which drops the text.    *)
(* A proposal that exists is returned even if its run was withdrawn.         *)
Create(p) ==
  LET answer == preparers[p].answer
      patch == Candidate(HeadLines(source.file), answer, answer.text)
  IN
  /\ At(p, "creating")
  /\ eligible \/ patch \in proposals
  /\ proposals' = proposals \cup {patch}
  /\ Stop(p)
  /\ \/ page' = [q \in Pages |-> IF q = p THEN patch ELSE page[q]]
     \/ UNCHANGED page
  /\ UNCHANGED <<repository, invocation, approved, rejected, comments, proofs>>

(* A check that refuses, a call that fails, or the end of the process.        *)
Fail(p) ==
  /\ ~At(p, "idle")
  /\ Stop(p)
  /\ UNCHANGED <<repository, invocation, rows, comments, page, proofs>>

-----------------------------------------------------------------------------
(* Decision and publication.                                                *)

Comment(patch) == {c \in comments : c.patch = patch}

(* prepareApprovedPatchSuggestion and publish; GitHub refuses a comment on     *)
(* lines that the pull request does not show.                               *)
Publish(p) ==
  LET patch == page[p] IN
  /\ patch \notin rejected \cup {NoPatch}
  /\ eligible /\ ghCurrent
  /\ Matches(HeadLines(source.file), patch)
  /\ Comment(patch) = {}
  /\ comments' = comments \cup
       {[patch |-> patch, block |-> Block(patch.text), edited |-> FALSE]}
  /\ UNCHANGED <<repository, invocation, rows, preparers, page, proofs>>

(* submitPatchDecision, or submitStoredPatchDecision of a reloaded page. *)
Approve(patch) ==
  /\ patch \in proposals \ (approved \cup rejected)
  /\ eligible
  /\ approved' = approved \cup {patch}
  /\ UNCHANGED <<repository, invocation, proposals, rejected, comments, preparers,
                 page, proofs>>

Reject(patch) ==
  /\ patch \in proposals \ (approved \cup rejected)
  /\ eligible
  /\ Comment(patch) = {}
  /\ rejected' = rejected \cup {patch}
  /\ UNCHANGED <<repository, invocation, proposals, approved, comments, preparers,
                 page, proofs>>

(* Somebody with write access edits the comment, its suggestion or all of it. *)
Edit(c, block) ==
  /\ comments' = (comments \ {c}) \cup
       {[patch |-> c.patch, block |-> block, edited |-> TRUE]}
  /\ UNCHANGED <<repository, invocation, rows, preparers, page, proofs>>

-----------------------------------------------------------------------------
(* The job of an approved proposal.                                         *)

Ended(patch, end, lines) ==
  proofs' = proofs \cup {[patch |-> patch, end |-> end, lines |-> lines]}

(* Mixed line endings are not rewritten, and the lines must be those of the    *)
(* candidate.                                                               *)
Appliable(file, patch) == ~file.mixed /\ Matches(WorkspaceLines(file), patch)

(* The comment that the stored reference names, as it is now: what it may have *)
(* said when it was published.                                              *)
ReadBack(c) == Restored(HeadLines(source.file), c.patch, c.block)

(* The suggestion is read back, checked against the approved hash, and applied *)
(* to a workspace.  One that cannot be applied is tried until the last attempt.*)
Reprove(c) ==
  LET file == source.file
      restored == ReadBack(c)
  IN
  /\ c.patch \in approved
  /\ \A r \in proofs : r.patch # c.patch
  /\ eligible
  /\ \/ ~ghCurrent /\ Ended(c.patch, "stale", <<>>)
     \/ ghCurrent /\ restored = {} /\ Ended(c.patch, "changed", <<>>)
     \/ \E patch \in restored :
          /\ ghCurrent
          /\ IF Appliable(file, patch)
             THEN Ended(c.patch, "applied", Applied(WorkspaceLines(file), patch))
             ELSE Ended(c.patch, "failed", <<>>)
  /\ UNCHANGED <<repository, invocation, rows, comments, preparers, page>>

-----------------------------------------------------------------------------
Prepare(p) ==
  \/ LoadSource(p) \/ ReadHead(p) \/ Ask(p) \/ AskFails(p)
  \/ Accept(p) \/ Create(p) \/ Fail(p)

Next ==
  \/ Push \/ Withdraw
  \/ \E p \in Preparers : Prepare(p)
  \/ \E p \in Pages : Publish(p)
  \/ \E patch \in proposals : Approve(patch) \/ Reject(patch)
  \/ \E c \in comments : Reprove(c) \/ \E block \in Blocks : Edit(c, block)

Spec == Init /\ [][Next]_vars

-----------------------------------------------------------------------------
(* Properties.                                                              *)

(* However many pages and commands ask for a fix of a finding, fail, crash    *)
(* and ask again, and whatever the model answers each time, people are asked  *)
(* to decide one patch: nothing but the record of the first answer sees to it.*)
OnePatchPerFinding == \A c, d \in proposals : c = d

(* What is proved again is what the page showed to whoever published it, and   *)
(* what GitHub will commit, even if the comment was edited since: the hash    *)
(* travels with the proposal, the text only through the comment.  (The two    *)
(* differ for a patch that deletes lines or replaces them by a blank one.)   *)
ProvedIsWhatIsSuggested ==
  \A r \in proofs :
    r.end = "applied" /\ Block(r.patch.text) # <<Blank>> =>
      r.lines = Suggested(WorkspaceLines(source.file), r.patch)

(* A suggestion that nobody has edited is recognized, whatever its text: the   *)
(* final newline that the block does not show is found again.               *)
UneditedIsRecognized ==
  \A r \in proofs :
    r.end = "changed" => \E c \in comments : c.patch = r.patch /\ c.edited

(* The model sees all of the finding and as much around it as fits: what was   *)
(* dropped last would not fit, and it is not asked only if the finding is not  *)
(* in the file or alone leaves its answer no room.                           *)
WindowIsWhole ==
  LET lines == HeadLines(source.file)
      finding == source.finding
      window == Window(source)
      Fits(a, b) == PromptSize(lines, a, b) + OutputTokens(source) <= source.tokens
      all == [first |-> Greatest(1, finding.first - Margin),
              last |-> Least(Len(lines), finding.last + Margin)]
  IN
  IF window = NoWindow
  THEN \/ finding.last > Len(lines)
       \/ OutputTokens(source) < MinOutput
       \/ ~Fits(finding.first, finding.last)
  ELSE /\ all.first <= window.first /\ window.first <= finding.first
       /\ finding.last <= window.last /\ window.last <= all.last
       /\ Fits(window.first, window.last)
       /\ \/ window = all
          \/ window.first > all.first /\ ~Fits(window.first - 1, window.last)
          \/ window.last < all.last /\ ~Fits(window.first, window.last + 1)
=============================================================================
