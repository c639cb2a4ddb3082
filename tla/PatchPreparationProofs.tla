------------------------ MODULE PatchPreparationProofs ------------------------
(***************************************************************************)
(* What holds of PatchPreparation for any pages, commands, files, budgets and *)
(* answers.  The argument: the first answer that is recorded is never         *)
(* replaced, so all that pass the record work with that one; a comment that    *)
(* nobody edited holds the text that was proposed, which is one of its        *)
(* readings; and only the reading with the approved hash is applied.  And of   *)
(* the window that the model is shown: every line that is dropped is outside   *)
(* the finding and dropped because the window with it was too large.          *)
(***************************************************************************)
EXTENDS PatchPreparation, WellFoundedInduction, TLAPS

Lines == HeadLines(source.file)
PatchOf(answer) == Candidate(Lines, answer, answer.text)

(* A preparer that got past the record works with the recorded answer, ...    *)
Recorded(p) ==
  preparers[p].pc \in {"accepting", "creating"} =>
    /\ invocation = Invocation("succeeded", preparers[p].answer)
    /\ WellFormed(preparers[p].answer)

Accepted(p) ==
  preparers[p].pc = "creating" => Acceptable(source, preparers[p].answer)

(* ... and every proposal is made of it.                                     *)
Stems ==
  proposals # {} =>
    invocation.status = "succeeded" /\ proposals = {PatchOf(invocation.answer)}

Untouched == \A c \in comments : ~c.edited => c.block = Block(c.patch.text)

Faithful ==
  \A r \in proofs :
    r.end = "applied" => r.lines = Applied(WorkspaceLines(source.file), r.patch)

Records == (\A p \in Preparers : Recorded(p) /\ Accepted(p)) /\ Stems
Inv == TypeOK /\ Records /\ Untouched /\ Faithful /\ UneditedIsRecognized

-----------------------------------------------------------------------------
(* A text is one of the readings of its block.                              *)
LEMMA TextIsRead ==
  ASSUME NEW text, text \in Seq(Seq(STRING)), text # <<>>
  PROVE  text \in Readings(Block(text))
<1>1. CASE EndsBlank(text)
  <2>1. Len(text) > 1 /\ text[Len(text)] = Blank
    BY <1>1 DEF EndsBlank
  <2>2. Block(text) = SubSeq(text, 1, Len(text) - 1)
    BY <1>1 DEF Block, WithoutLast
  <2>3. Len(Block(text)) = Len(text) - 1 /\ Block(text) \in Seq(Seq(STRING))
    BY <2>1, <2>2
  <2>4. Append(Block(text), Blank) = text
    BY <2>1, <2>2, <2>3
  <2>5. Block(text) # Unreadable
    BY <2>1, <2>3 DEF Unreadable
  <2> QED
    BY <2>4, <2>5 DEF Readings
<1>2. CASE ~EndsBlank(text)
  BY <1>2 DEF Block, WithoutLast, Readings, Unreadable
<1> QED
  BY <1>1, <1>2

(* A patch is restored from any block that it is a reading of.               *)
LEMMA PatchIsRestored ==
  ASSUME NEW s, NEW patch \in Patches(s)
  PROVE  patch \in Restored(HeadLines(s.file), patch, Block(patch.text))
<1>1. PICK a \in Answers :
        Acceptable(s, a) /\ patch = Candidate(HeadLines(s.file), a, a.text)
  BY DEF Patches
<1> DEFINE lines == HeadLines(s.file)
<1>2. /\ patch.first = a.first /\ patch.last = a.last /\ patch.text = a.text
      /\ patch.original = Original(lines, a)
  BY <1>1 DEF Candidate
<1>3. Original(lines, patch) = Original(lines, a)
  BY <1>2 DEF Original
<1>4. patch = Candidate(lines, patch, patch.text)
  BY <1>1, <1>2, <1>3 DEF Candidate
<1>5. patch.text # patch.original
  BY <1>1, <1>2 DEF Acceptable
<1>6. patch.text \in Readings(Block(patch.text))
  BY <1>2, TextIsRead, PatchPreparationAssumption
<1> HIDE DEF lines
<1> QED
  BY <1>4, <1>5, <1>6 DEF Restored, lines

LEMMA RestoredIsThePatch ==
  ASSUME NEW lines, NEW patch, NEW block, NEW c \in Restored(lines, patch, block)
  PROVE  c = patch
  BY DEF Restored

(* The file that is proved is the file as GitHub would change it.            *)
LEMMA AppliedIsSuggested ==
  ASSUME NEW lines, NEW patch, Block(patch.text) # <<Blank>>
  PROVE  Applied(lines, patch) = Suggested(lines, patch)
  BY DEF Applied, Suggested, Block

-----------------------------------------------------------------------------
(* Types. *)

Unanswered == [pc : {"idle", "reading", "asking"}, answer : {NoPatch}]
Answered == [pc : {"accepting", "creating"}, answer : Answers]
CommentType ==
  [patch : proposals, block : Blocks \cup {Block(p.text) : p \in proposals},
   edited : BOOLEAN]
ProofsType ==
  \A r \in proofs : r.patch \in approved /\ r.end \in {"stale", "changed", "failed", "applied"}

LEMMA StepType ==
  /\ \A pc \in {"idle", "reading", "asking"} :
       Step(pc, NoPatch) \in Unanswered /\ Step(pc, NoPatch).pc = pc
  /\ \A pc \in {"accepting", "creating"} : \A a \in Answers :
       /\ Step(pc, a) \in Answered
       /\ Step(pc, a).pc = pc /\ Step(pc, a).answer = a
  /\ Idle = Step("idle", NoPatch)
  BY DEF Step, Unanswered, Answered, Idle

LEMMA PreparersType ==
  ASSUME TypeOK
  PROVE  preparers \in [Preparers -> Unanswered \cup Answered]
  BY DEF TypeOK, Unanswered, Answered

LEMMA AnswerType ==
  ASSUME TypeOK, NEW p \in Preparers, preparers[p].pc \in {"accepting", "creating"}
  PROVE  preparers[p].answer \in Answers
<1>1. preparers[p] \in Unanswered \cup Answered
  BY PreparersType
<1> QED
  BY <1>1 DEF Unanswered, Answered

LEMMA InvocationType ==
  /\ \A a \in Answers :
       /\ Invocation("succeeded", a) \in [status : {"succeeded"}, answer : Answers]
       /\ Invocation("succeeded", a).status = "succeeded"
       /\ Invocation("succeeded", a).answer = a
  /\ Invocation("failed", NoPatch) \in [status : {"none", "failed"}, answer : {NoPatch}]
  /\ Invocation("failed", NoPatch).status = "failed"
  /\ NoAnswer \in [status : {"none", "failed"}, answer : {NoPatch}]
  /\ NoAnswer.status = "none"
  BY DEF Invocation, NoAnswer

(* More proposals leave what is known of comments and pages as it is.        *)
LEMMA MoreProposals ==
  ASSUME TypeOK, proposals \subseteq proposals', UNCHANGED comments
  PROVE  /\ comments' \subseteq CommentType'
         /\ approved \subseteq proposals' /\ rejected \subseteq proposals'
         /\ page \in [Pages -> proposals' \cup {NoPatch}]
<1>1. CommentType \subseteq CommentType'
  BY DEF CommentType
<1>2. comments \subseteq CommentType
  BY DEF TypeOK, CommentType
<1>3. page \in [Pages -> proposals' \cup {NoPatch}]
  BY DEF TypeOK
<1> QED
  BY <1>1, <1>2, <1>3 DEF TypeOK

LEMMA InitInv == Init => Inv
<1> SUFFICES ASSUME Init PROVE Inv
  OBVIOUS
<1>1. \A p \in Preparers : preparers[p] = Idle
  BY DEF Init
<1>2. Idle \in Unanswered /\ Idle.pc = "idle"
  BY StepType
<1>3. preparers \in [Preparers -> Unanswered \cup Answered]
  BY <1>2 DEF Init
<1>4. TypeOK
  BY <1>3, InvocationType DEF Init, TypeOK, Unanswered, Answered
<1>5. Records
  BY <1>1, <1>2 DEF Init, Records, Recorded, Accepted, Stems
<1> QED
  BY <1>4, <1>5 DEF Init, Inv, Untouched, Faithful, UneditedIsRecognized

-----------------------------------------------------------------------------
(* A preparer that starts, goes on to ask, or stops.                         *)
LEMMA Moves ==
  ASSUME Inv, NEW p \in Preparers, NEW s \in Unanswered,
         preparers' = [preparers EXCEPT ![p] = s],
         UNCHANGED <<source, invocation, proposals>>
  PROVE  /\ preparers' \in [Preparers -> Unanswered \cup Answered]
         /\ Records'
<1>1. preparers \in [Preparers -> Unanswered \cup Answered]
  BY PreparersType DEF Inv
<1>2. s.pc \notin {"accepting", "creating"}
  BY DEF Unanswered
<1>3. preparers' \in [Preparers -> Unanswered \cup Answered]
  BY <1>1
<1>4. ASSUME NEW q \in Preparers PROVE Recorded(q)' /\ Accepted(q)'
  <2>1. CASE q = p
    BY <1>1, <1>2, <2>1 DEF Recorded, Accepted
  <2>2. CASE q # p
    BY <1>1, <2>2 DEF Inv, Records, Recorded, Accepted
  <2> QED
    BY <2>1, <2>2
<1>5. Stems'
  BY DEF Inv, Records, Stems, PatchOf, Lines
<1> QED
  BY <1>3, <1>4, <1>5 DEF Records

(* What was published, edited and proved stays as it was.                     *)
LEMMA HistoryStays ==
  ASSUME Inv, UNCHANGED <<source, comments, proofs>>
  PROVE  Untouched' /\ Faithful' /\ UneditedIsRecognized'
  BY DEF Inv, Untouched, Faithful, UneditedIsRecognized

LEMMA RecordsStay ==
  ASSUME Inv, UNCHANGED <<source, invocation, proposals, preparers>>
  PROVE  Records'
  BY DEF Inv, Records, Recorded, Accepted, Stems, PatchOf, Lines

LEMMA RepositoryInv == ASSUME Inv, Push \/ Withdraw PROVE Inv'
<1>1. /\ UNCHANGED <<source, invocation, proposals, approved, rejected, comments,
                     preparers, page, proofs>>
      /\ ghCurrent' \in BOOLEAN /\ eligible' \in BOOLEAN
  BY DEF Push, Withdraw, rows, Inv, TypeOK
<1>2. TypeOK'
  BY <1>1 DEF Inv, TypeOK
<1> QED
  BY <1>1, <1>2, HistoryStays, RecordsStay DEF Inv

LEMMA UnansweredInv ==
  ASSUME Inv, NEW p \in Preparers, LoadSource(p) \/ ReadHead(p) \/ Fail(p)
  PROVE  Inv'
<1>1. \E pc \in {"idle", "reading", "asking"} :
        preparers' = [preparers EXCEPT ![p] = Step(pc, NoPatch)]
  BY StepType DEF LoadSource, ReadHead, Fail, Goto, Stop
<1>2. UNCHANGED <<source, ghCurrent, eligible, invocation, proposals, approved,
                  rejected, comments, proofs>>
  BY DEF LoadSource, ReadHead, Fail, repository, rows
<1>3. preparers' \in [Preparers -> Unanswered \cup Answered] /\ Records'
  BY <1>1, <1>2, StepType, Moves
<1>4. page' \in [Pages -> proposals \cup {NoPatch}]
  BY DEF LoadSource, ReadHead, Fail, Inv, TypeOK
<1>5. TypeOK'
  BY <1>2, <1>3, <1>4 DEF Inv, TypeOK, Unanswered, Answered
<1> QED
  BY <1>2, <1>3, <1>5, HistoryStays DEF Inv

-----------------------------------------------------------------------------
(* The record.                                                              *)

LEMMA SucceededIs ==
  ASSUME TypeOK, invocation.status = "succeeded"
  PROVE  /\ invocation.answer \in Answers
         /\ invocation = Invocation("succeeded", invocation.answer)
<1>1. invocation \in [status : {"succeeded"}, answer : Answers]
  BY DEF TypeOK
<1> QED
  BY <1>1 DEF Invocation

(* A record that succeeded is kept, so those that work with it may go on.     *)
LEMMA RecordKept ==
  ASSUME Inv, NEW q \in Preparers, preparers'[q] = preparers[q],
         UNCHANGED source, invocation.status = "succeeded" => invocation' = invocation
  PROVE  Recorded(q)' /\ Accepted(q)'
<1>1. Recorded(q) /\ Accepted(q)
  BY DEF Inv, Records
<1>2. preparers[q].pc \in {"accepting", "creating"} => invocation.status = "succeeded"
  BY <1>1 DEF Recorded, Invocation
<1> QED
  BY <1>1, <1>2 DEF Recorded, Accepted

LEMMA StemsKept ==
  ASSUME Inv, UNCHANGED <<source, proposals>>,
         invocation.status = "succeeded" => invocation' = invocation
  PROVE  Stems'
  BY DEF Inv, Records, Stems, PatchOf, Lines

LEMMA AskInv == ASSUME Inv, NEW p \in Preparers, Ask(p) PROVE Inv'
<1>1. PICK answer \in Answers :
        /\ WellFormed(answer) /\ Agrees(answer)
        /\ invocation' = IF invocation.status = "succeeded" THEN invocation
                         ELSE Invocation("succeeded", answer)
        /\ Goto(p, "accepting", answer)
  BY DEF Ask
<1>2. UNCHANGED <<source, ghCurrent, eligible, proposals, approved, rejected,
                  comments, page, proofs>>
  BY DEF Ask, repository, rows
<1>3. invocation' = Invocation("succeeded", answer)
  BY <1>1, SucceededIs DEF Inv, Agrees
<1>4. /\ Step("accepting", answer) \in Answered
      /\ Step("accepting", answer).pc = "accepting"
      /\ Step("accepting", answer).answer = answer
  BY StepType
<1>5. preparers' = [preparers EXCEPT ![p] = Step("accepting", answer)]
  BY <1>1 DEF Goto
<1>6. preparers \in [Preparers -> Unanswered \cup Answered]
  BY PreparersType DEF Inv
<1>7. preparers' \in [Preparers -> Unanswered \cup Answered]
  BY <1>4, <1>5, <1>6
<1>8. ASSUME NEW q \in Preparers PROVE Recorded(q)' /\ Accepted(q)'
  <2>1. CASE q = p
    BY <1>1, <1>3, <1>4, <1>5, <1>6, <2>1 DEF Recorded, Accepted
  <2>2. CASE q # p
    BY <1>1, <1>2, <1>5, <1>6, <2>2, RecordKept
  <2> QED
    BY <2>1, <2>2
<1>9. Stems'
  BY <1>1, <1>2, StemsKept
<1>10. invocation' \in [status : {"succeeded"}, answer : Answers]
  BY <1>3, InvocationType
<1>11. TypeOK'
  BY <1>2, <1>7, <1>10 DEF Inv, TypeOK, Unanswered, Answered
<1> QED
  BY <1>2, <1>8, <1>9, <1>11, HistoryStays DEF Inv, Records

LEMMA AskFailsInv == ASSUME Inv, NEW p \in Preparers, AskFails(p) PROVE Inv'
<1>1. UNCHANGED <<source, ghCurrent, eligible, proposals, approved, rejected,
                  comments, page, proofs>>
  BY DEF AskFails, repository, rows
<1>2. invocation.status = "succeeded" => invocation' = invocation
  BY DEF AskFails
<1>3. invocation' \in {invocation, Invocation("failed", NoPatch)}
  BY DEF AskFails
<1>4. preparers' = [preparers EXCEPT ![p] = Idle] /\ Idle \in Unanswered /\ Idle.pc = "idle"
  BY StepType DEF AskFails, Stop
<1>5. preparers \in [Preparers -> Unanswered \cup Answered]
  BY PreparersType DEF Inv
<1>6. preparers' \in [Preparers -> Unanswered \cup Answered]
  BY <1>4, <1>5
<1>7. ASSUME NEW q \in Preparers PROVE Recorded(q)' /\ Accepted(q)'
  <2>1. CASE q = p
    BY <1>4, <1>5, <2>1 DEF Recorded, Accepted
  <2>2. CASE q # p
    BY <1>1, <1>2, <1>4, <1>5, <2>2, RecordKept
  <2> QED
    BY <2>1, <2>2
<1>8. Stems'
  BY <1>1, <1>2, StemsKept
<1>9. TypeOK'
  BY <1>1, <1>3, <1>6, InvocationType DEF Inv, TypeOK, Unanswered, Answered
<1> QED
  BY <1>1, <1>7, <1>8, <1>9, HistoryStays DEF Inv, Records

LEMMA AcceptInv == ASSUME Inv, NEW p \in Preparers, Accept(p) PROVE Inv'
<1> DEFINE answer == preparers[p].answer
<1>1. UNCHANGED <<source, ghCurrent, eligible, invocation, proposals, approved,
                  rejected, comments, page, proofs>>
  BY DEF Accept, repository, rows
<1>2. preparers[p].pc = "accepting" /\ Acceptable(source, answer)
  BY DEF Accept, At
<1>3. answer \in Answers
  BY <1>2, AnswerType DEF Inv
<1>4. /\ Step("creating", answer) \in Answered
      /\ Step("creating", answer).pc = "creating"
      /\ Step("creating", answer).answer = answer
  BY <1>3, StepType
<1>5. preparers' = [preparers EXCEPT ![p] = Step("creating", answer)]
  BY DEF Accept, Goto
<1>6. preparers \in [Preparers -> Unanswered \cup Answered]
  BY PreparersType DEF Inv
<1>7. preparers' \in [Preparers -> Unanswered \cup Answered]
  BY <1>4, <1>5, <1>6
<1>8. ASSUME NEW q \in Preparers PROVE Recorded(q)' /\ Accepted(q)'
  <2>1. CASE q = p
    <3>1. preparers'[q].pc = "creating" /\ preparers'[q].answer = answer
      BY <1>4, <1>5, <1>6, <2>1
    <3>2. Recorded(p)
      BY DEF Inv, Records
    <3> QED
      BY <1>1, <1>2, <3>1, <3>2 DEF Recorded, Accepted
  <2>2. CASE q # p
    BY <1>1, <1>5, <1>6, <2>2, RecordKept
  <2> QED
    BY <2>1, <2>2
<1>9. Stems'
  BY <1>1, StemsKept
<1>10. TypeOK'
  BY <1>1, <1>7 DEF Inv, TypeOK, Unanswered, Answered
<1> QED
  BY <1>1, <1>8, <1>9, <1>10, HistoryStays DEF Inv, Records

LEMMA CreateInv == ASSUME Inv, NEW p \in Preparers, Create(p) PROVE Inv'
<1> DEFINE answer == preparers[p].answer
           patch == PatchOf(answer)
<1>1. UNCHANGED <<source, ghCurrent, eligible, invocation, approved, rejected,
                  comments, proofs>>
  BY DEF Create, repository
<1>2. preparers[p].pc = "creating"
  BY DEF Create, At
<1>3. answer \in Answers /\ WellFormed(answer) /\ Acceptable(source, answer)
  BY <1>2, AnswerType DEF Inv, Records, Recorded, Accepted
<1>4. invocation.status = "succeeded" /\ invocation.answer = answer
  BY <1>2 DEF Inv, Records, Recorded, Invocation
<1>5. patch \in Patches(source)
  BY <1>3 DEF Patches, PatchOf, Lines
<1>6. proposals' = proposals \cup {patch}
  BY DEF Create, PatchOf, Lines
<1>7. page' \in {page, [q \in Pages |-> IF q = p THEN patch ELSE page[q]]}
  BY DEF Create, PatchOf, Lines
<1> HIDE DEF patch
<1>8. preparers' = [preparers EXCEPT ![p] = Idle] /\ Idle \in Unanswered /\ Idle.pc = "idle"
  BY StepType DEF Create, Stop
<1>9. preparers \in [Preparers -> Unanswered \cup Answered]
  BY PreparersType DEF Inv
<1>10. preparers' \in [Preparers -> Unanswered \cup Answered]
  BY <1>8, <1>9
<1>11. ASSUME NEW q \in Preparers PROVE Recorded(q)' /\ Accepted(q)'
  <2>1. CASE q = p
    BY <1>8, <1>9, <2>1 DEF Recorded, Accepted
  <2>2. CASE q # p
    BY <1>1, <1>8, <1>9, <2>2, RecordKept
  <2> QED
    BY <2>1, <2>2
<1>12. Stems'
  <2>1. proposals' = {PatchOf(invocation.answer)}
    BY <1>4, <1>6 DEF Inv, Records, Stems, patch
  <2> QED
    BY <1>1, <1>4, <2>1 DEF Stems, PatchOf, Lines
<1>13. /\ comments' \subseteq CommentType'
       /\ approved \subseteq proposals' /\ rejected \subseteq proposals'
       /\ page \in [Pages -> proposals' \cup {NoPatch}]
  BY <1>1, <1>6, MoreProposals DEF Inv
<1>14. page' \in [Pages -> proposals' \cup {NoPatch}]
  BY <1>6, <1>7, <1>13
<1>15. TypeOK'
  BY <1>1, <1>5, <1>6, <1>10, <1>13, <1>14
  DEF Inv, TypeOK, Unanswered, Answered, CommentType
<1> QED
  BY <1>1, <1>11, <1>12, <1>15, HistoryStays DEF Inv, Records

-----------------------------------------------------------------------------
(* Decisions, and the comment.                                              *)

LEMMA CommentFields ==
  ASSUME NEW patch, NEW block, NEW edited
  PROVE  LET c == [patch |-> patch, block |-> block, edited |-> edited]
         IN c.patch = patch /\ c.block = block /\ c.edited = edited
  OBVIOUS

LEMMA DecideInv ==
  ASSUME Inv, NEW patch \in proposals, Approve(patch) \/ Reject(patch) PROVE Inv'
<1>1. UNCHANGED <<source, ghCurrent, eligible, invocation, proposals, comments,
                  preparers, page, proofs>>
  BY DEF Approve, Reject, repository
<1>2. approved \subseteq approved' /\ approved' \subseteq proposals
      /\ rejected' \subseteq proposals
  BY DEF Approve, Reject, Inv, TypeOK
<1>3. TypeOK'
  BY <1>1, <1>2 DEF Inv, TypeOK
<1> QED
  BY <1>1, <1>3, HistoryStays, RecordsStay DEF Inv

LEMMA PublishInv == ASSUME Inv, NEW p \in Pages, Publish(p) PROVE Inv'
<1> DEFINE patch == page[p]
           new == [patch |-> patch, block |-> Block(patch.text), edited |-> FALSE]
<1>1. UNCHANGED <<source, ghCurrent, eligible, invocation, proposals, approved,
                  rejected, preparers, page, proofs>>
  BY DEF Publish, repository, rows
<1>2. comments' = comments \cup {new}
  BY DEF Publish
<1>3. patch \in proposals
  BY DEF Publish, Inv, TypeOK
<1>4. new \in CommentType
  BY <1>3 DEF CommentType
<1>5. comments' \subseteq CommentType
  BY <1>2, <1>4 DEF Inv, TypeOK, CommentType
<1>6. TypeOK'
  BY <1>1, <1>5 DEF Inv, TypeOK, CommentType
<1>7. new.block = Block(new.patch.text)
  OBVIOUS
<1> HIDE DEF new
<1>8. Untouched' /\ Faithful' /\ UneditedIsRecognized'
  BY <1>1, <1>2, <1>7 DEF Inv, Untouched, Faithful, UneditedIsRecognized
<1> QED
  BY <1>1, <1>6, <1>8, RecordsStay DEF Inv

LEMMA EditInv ==
  ASSUME Inv, NEW c \in comments, NEW block \in Blocks, Edit(c, block) PROVE Inv'
<1> DEFINE new == [patch |-> c.patch, block |-> block, edited |-> TRUE]
<1>1. UNCHANGED <<source, ghCurrent, eligible, invocation, proposals, approved,
                  rejected, preparers, page, proofs>>
  BY DEF Edit, repository, rows
<1>2. comments' = (comments \ {c}) \cup {new}
  BY DEF Edit
<1>3. c \in CommentType
  BY DEF Inv, TypeOK, CommentType
<1>4. new \in CommentType
  BY <1>3 DEF CommentType
<1>5. comments' \subseteq CommentType
  BY <1>2, <1>4 DEF Inv, TypeOK, CommentType
<1>6. TypeOK'
  BY <1>1, <1>5 DEF Inv, TypeOK, CommentType
<1>7. new.patch = c.patch /\ new.edited
  OBVIOUS
<1> HIDE DEF new
<1>8. Untouched' /\ Faithful'
  BY <1>1, <1>2, <1>7 DEF Inv, Untouched, Faithful
<1>9. UneditedIsRecognized'
  <2> SUFFICES ASSUME NEW r \in proofs, r.end = "changed"
               PROVE  \E d \in comments' : d.patch = r.patch /\ d.edited
    BY <1>1 DEF UneditedIsRecognized
  <2>1. PICK d \in comments : d.patch = r.patch /\ d.edited
    BY DEF Inv, UneditedIsRecognized
  <2> QED
    BY <1>2, <1>7, <2>1
<1> QED
  BY <1>1, <1>6, <1>8, <1>9, RecordsStay DEF Inv

-----------------------------------------------------------------------------
(* The job. *)

(* What the job of a comment may come to.                                    *)
LEMMA ReproveEnds ==
  ASSUME Inv, NEW c \in comments, Reprove(c)
  PROVE  \E end \in {"stale", "changed", "failed", "applied"} : \E lines :
           /\ proofs' = proofs \cup {[patch |-> c.patch, end |-> end, lines |-> lines]}
           /\ end = "changed" => c.edited
           /\ end = "applied" => lines = Applied(WorkspaceLines(source.file), c.patch)
<1>1. CASE Ended(c.patch, "stale", <<>>)
  BY <1>1 DEF Ended
<1>2. CASE ReadBack(c) = {} /\ Ended(c.patch, "changed", <<>>)
  <2>1. c.patch \in Patches(source) /\ c.edited \in BOOLEAN
    BY DEF Inv, TypeOK
  <2>2. c.block = Block(c.patch.text) => c.patch \in ReadBack(c)
    BY <2>1, PatchIsRestored DEF ReadBack
  <2>3. c.edited
    BY <1>2, <2>1, <2>2 DEF Inv, Untouched
  <2> QED
    BY <1>2, <2>3 DEF Ended
<1>3. CASE \E patch \in ReadBack(c) :
             IF Appliable(source.file, patch)
             THEN Ended(c.patch, "applied", Applied(WorkspaceLines(source.file), patch))
             ELSE Ended(c.patch, "failed", <<>>)
  <2>1. PICK patch \in ReadBack(c) :
             IF Appliable(source.file, patch)
             THEN Ended(c.patch, "applied", Applied(WorkspaceLines(source.file), patch))
             ELSE Ended(c.patch, "failed", <<>>)
    BY <1>3
  <2>2. patch = c.patch
    BY <2>1, RestoredIsThePatch DEF ReadBack
  <2> QED
    BY <2>1, <2>2 DEF Ended
<1> QED
  BY <1>1, <1>2, <1>3 DEF Reprove

LEMMA ReproveInv == ASSUME Inv, NEW c \in comments, Reprove(c) PROVE Inv'
<1> DEFINE Ends(end, lines) ==
             /\ proofs' = proofs \cup {[patch |-> c.patch, end |-> end, lines |-> lines]}
             /\ end = "changed" => c.edited
             /\ end = "applied" => lines = Applied(WorkspaceLines(source.file), c.patch)
<1>0. PICK end \in {"stale", "changed", "failed", "applied"} : \E lines : Ends(end, lines)
  BY ReproveEnds
<1>1. PICK lines : Ends(end, lines)
  BY <1>0
<1> DEFINE new == [patch |-> c.patch, end |-> end, lines |-> lines]
<1>2. new.patch = c.patch /\ new.end = end /\ new.lines = lines
  OBVIOUS
<1>3. proofs' = proofs \cup {new}
  BY <1>1
<1> HIDE DEF new
<1>4. UNCHANGED <<source, ghCurrent, eligible, invocation, proposals, approved,
                  rejected, comments, preparers, page>>
  BY DEF Reprove, repository, rows
<1>5. c.patch \in approved
  BY DEF Reprove
<1>6. TypeOK'
  BY <1>2, <1>3, <1>4, <1>5 DEF Inv, TypeOK
<1>7. Untouched'
  BY <1>4 DEF Inv, Untouched
<1>8. Faithful'
  BY <1>1, <1>2, <1>3, <1>4 DEF Inv, Faithful
<1>9. UneditedIsRecognized'
  BY <1>1, <1>2, <1>3, <1>4 DEF Inv, UneditedIsRecognized
<1> QED
  BY <1>4, <1>6, <1>7, <1>8, <1>9, RecordsStay DEF Inv

-----------------------------------------------------------------------------
LEMMA NextInv == Inv /\ [Next]_vars => Inv'
<1> SUFFICES ASSUME Inv, [Next]_vars PROVE Inv'
  OBVIOUS
<1>1. CASE Push \/ Withdraw
  BY <1>1, RepositoryInv
<1>2. ASSUME NEW p \in Preparers, Prepare(p) PROVE Inv'
  BY <1>2, UnansweredInv, AskInv, AskFailsInv, AcceptInv, CreateInv DEF Prepare
<1>3. ASSUME NEW p \in Pages, Publish(p) PROVE Inv'
  BY <1>3, PublishInv
<1>4. ASSUME NEW patch \in proposals, Approve(patch) \/ Reject(patch) PROVE Inv'
  BY <1>4, DecideInv
<1>5. ASSUME NEW c \in comments, Reprove(c) \/ \E block \in Blocks : Edit(c, block)
      PROVE  Inv'
  BY <1>5, ReproveInv, EditInv
<1>6. CASE UNCHANGED vars
  <2>1. UNCHANGED <<source, ghCurrent, eligible, invocation, proposals, approved,
                    rejected, comments, preparers, page, proofs>>
    BY <1>6 DEF vars, repository, rows
  <2>2. TypeOK'
    BY <2>1 DEF Inv, TypeOK
  <2> QED
    BY <2>1, <2>2, HistoryStays, RecordsStay DEF Inv
<1> QED
  BY <1>1, <1>2, <1>3, <1>4, <1>5, <1>6 DEF Next

LEMMA InvHolds == Spec => []Inv
  BY InitInv, NextInv, PTL DEF Spec

(* Types, for any pages, commands, files and answers.                        *)
THEOREM TypeCorrect == Spec => []TypeOK
<1>1. Inv => TypeOK
  BY DEF Inv
<1> QED
  BY InvHolds, <1>1, PTL

(* The upsert of recordModelInvocation is enough for people to be asked to     *)
(* decide one patch of a finding, whoever asks for it, fails and asks again.  *)
THEOREM OnePatch == Spec => []OnePatchPerFinding
<1>1. Inv => OnePatchPerFinding
  BY DEF Inv, Records, Stems, OnePatchPerFinding
<1> QED
  BY InvHolds, <1>1, PTL

(* The file that a job proves is the one that GitHub's button would make, of   *)
(* the patch that was shown, whatever became of the comment.                 *)
THEOREM ProofIsOfSuggestion == Spec => []ProvedIsWhatIsSuggested
<1>1. Inv => ProvedIsWhatIsSuggested
  BY AppliedIsSuggested DEF Inv, Faithful, ProvedIsWhatIsSuggested
<1> QED
  BY InvHolds, <1>1, PTL

(* Only an edit makes a job take a suggestion for a changed one.              *)
THEOREM OnlyEditsChange == Spec => []UneditedIsRecognized
<1>1. Inv => UneditedIsRecognized
  BY DEF Inv
<1> QED
  BY InvHolds, <1>1, PTL

-----------------------------------------------------------------------------
(* The window.  Its definition and the size of a prompt are recursive, and     *)
(* are what they say because every recursive call is on a smaller argument:    *)
(* the proofs are by induction, on sets of numbers.                           *)
Below == {p \in Nat \X Nat : p[1] < p[2]}

LEMMA Smallest ==
  ASSUME NEW T \in SUBSET Nat, T # {}
  PROVE  \E n \in T : \A m \in T : n <= m
<1>1. Below = OpToRel(<, Nat)
  BY Zenon DEF OpToRel, Below
<1>2. IsWellFoundedOn(Below, Nat)
  BY <1>1, NatLessThanWellFounded
<1>3. PICK n \in T : \A m \in T : ~(<<m, n>> \in Below)
  BY <1>2, WFMin
<1>4. ASSUME NEW m \in T PROVE n <= m
  <2>1. ~(<<m, n>> \in Below) /\ <<m, n>> \in Nat \X Nat
    BY <1>3
  <2>2. ~(m < n)
    BY <2>1 DEF Below
  <2> QED
    BY <2>2
<1> QED
  BY <1>4

LEMMA Induction ==
  ASSUME NEW T, 0 \in T, \A n \in Nat : n \in T => n + 1 \in T
  PROVE  \A n \in Nat : n \in T
<1> SUFFICES ASSUME Nat \ T # {} PROVE FALSE
  OBVIOUS
<1>1. PICK n \in Nat \ T : \A m \in Nat \ T : n <= m
  BY Smallest
<1>2. n # 0 /\ n - 1 \in Nat
  BY <1>1
<1>3. n - 1 \in T
  BY <1>1, <1>2
<1> QED
  BY <1>1, <1>2, <1>3

(* The size of a prompt. *)
Texts == Seq(Seq(STRING))

SizeStep(lines, a, f, i) ==
  IF i < a THEN PromptBytes ELSE f[i - 1] + LineBytes(lines[i])

Sizes(lines, a, n, f) == f = [i \in 0..n |-> SizeStep(lines, a, f, i)]

LEMMA SizesExist ==
  ASSUME NEW lines \in Texts, NEW a \in Nat \ {0}
  PROVE  \A n \in Nat : \E f : Sizes(lines, a, n, f)
<1> DEFINE T == {n \in Nat : \E f : Sizes(lines, a, n, f)}
<1>1. 0 \in T
  <2> DEFINE f == [i \in 0..0 |-> PromptBytes]
  <2>1. \A i \in 0..0 : SizeStep(lines, a, f, i) = PromptBytes
    BY DEF SizeStep
  <2>2. Sizes(lines, a, 0, f)
    BY <2>1 DEF Sizes
  <2> QED
    BY <2>2
<1>2. ASSUME NEW n \in Nat, n \in T PROVE n + 1 \in T
  <2>1. PICK f : Sizes(lines, a, n, f)
    BY <1>2
  <2> DEFINE g == [i \in 0..(n + 1) |-> IF i <= n THEN f[i] ELSE SizeStep(lines, a, f, i)]
  <2>2. ASSUME NEW i \in 0..(n + 1) PROVE g[i] = SizeStep(lines, a, g, i)
    <3>1. i < a \/ (i - 1 \in 0..n /\ g[i - 1] = f[i - 1])
      BY <1>2, <2>2
    <3>2. SizeStep(lines, a, g, i) = SizeStep(lines, a, f, i)
      BY <3>1 DEF SizeStep
    <3>3. i <= n => f[i] = SizeStep(lines, a, f, i)
      BY <1>2, <2>1, <2>2 DEF Sizes
    <3> QED
      BY <2>2, <3>2, <3>3
  <2>3. Sizes(lines, a, n + 1, g)
    BY <2>2 DEF Sizes
  <2> QED
    BY <2>3
<1> HIDE DEF T
<1>3. \A n \in Nat : n \in T
  BY <1>1, <1>2, Induction
<1> QED
  BY <1>3 DEF T

LEMMA SizesAreNumbers ==
  ASSUME NEW lines \in Texts, NEW a \in Nat \ {0},
         NEW f, Sizes(lines, a, Len(lines), f)
  PROVE  \A i \in 0..Len(lines) : f[i] \in Nat
<1> DEFINE T == {i \in Nat : i <= Len(lines) => f[i] \in Nat}
<1>0. Len(lines) \in Nat /\ PromptBytes \in Nat
      /\ \A i \in 1..Len(lines) : LineBytes(lines[i]) \in Nat
  BY PatchTextAssumption DEF Texts, LineBytes
<1>1. 0 \in T
  BY <1>0 DEF Sizes, SizeStep
<1>2. ASSUME NEW i \in Nat, i \in T PROVE i + 1 \in T
  <2> SUFFICES ASSUME i + 1 <= Len(lines) PROVE f[i + 1] \in Nat
    OBVIOUS
  <2>1. i + 1 \in 0..Len(lines) /\ i + 1 \in 1..Len(lines) /\ f[i] \in Nat /\ (i + 1) - 1 = i
    BY <1>0, <1>2
  <2>2. f[i + 1] = SizeStep(lines, a, f, i + 1)
    BY <2>1 DEF Sizes
  <2> QED
    BY <1>0, <2>1, <2>2 DEF SizeStep
<1> HIDE DEF T
<1>3. \A i \in Nat : i \in T
  BY <1>1, <1>2, Induction
<1> QED
  BY <1>0, <1>3 DEF T

(* A prompt has a size.                                                      *)
LEMMA PromptSizeType ==
  ASSUME NEW lines \in Texts, NEW a \in Nat \ {0}, NEW b \in 0..Len(lines)
  PROVE  PromptSize(lines, a, b) \in Nat
<1> DEFINE size == CHOOSE f : f = [i \in 0..Len(lines) |-> SizeStep(lines, a, f, i)]
<1>1. PromptSize(lines, a, b) = size[b]
  BY DEF PromptSize, SizeStep
<1>2. Len(lines) \in Nat
  BY DEF Texts
<1>3. \E f : f = [i \in 0..Len(lines) |-> SizeStep(lines, a, f, i)]
  BY <1>2, SizesExist DEF Sizes
<1>4. Sizes(lines, a, Len(lines), size)
  BY <1>3 DEF Sizes
<1> HIDE DEF size
<1> QED
  BY <1>1, <1>4, SizesAreNumbers

-----------------------------------------------------------------------------
(* The windows that the loop of buildPatchPrompt may come to.                *)
LinesOf(s) == HeadLines(s.file)
Windows(s) == [first : 1..s.finding.first, last : s.finding.last..Len(LinesOf(s))]
Whole(s) == [first |-> Greatest(1, s.finding.first - Margin),
             last |-> Least(Len(LinesOf(s)), s.finding.last + Margin)]
Small(s, w) == PromptSize(LinesOf(s), w.first, w.last) <= InputBudget(s)
Excess(s, w) == (s.finding.first - w.first) + (w.last - s.finding.last)

FitStep(s, f, w) ==
  IF Small(s, w) THEN w
  ELSE IF w = s.finding THEN NoWindow
  ELSE f[Narrower(LinesOf(s), w, s.finding)]

Within(s, n) == {w \in Windows(s) : Excess(s, w) <= n}
Fitting(s, n, f) == f = [w \in Within(s, n) |-> FitStep(s, f, w)]

LEMMA WindowIsFit ==
  ASSUME NEW s
  PROVE  Window(s) =
           IF s.finding.last > Len(LinesOf(s)) \/ OutputTokens(s) < MinOutput THEN NoWindow
           ELSE (CHOOSE f : f = [w \in Windows(s) |-> FitStep(s, f, w)])[Whole(s)]
  BY DEF Window, LinesOf, Windows, FitStep, Small, Whole

InFile(s) == s \in Sources /\ s.finding.last <= Len(LinesOf(s))

LEMMA InFileFacts ==
  ASSUME NEW s, InFile(s)
  PROVE  /\ LinesOf(s) \in Texts /\ Len(LinesOf(s)) \in Nat
         /\ s.finding \in Windows(s) /\ Excess(s, s.finding) = 0
         /\ s.finding.first \in Nat \ {0} /\ s.finding.last \in Nat
         /\ s.finding.first <= s.finding.last
<1>1. /\ LinesOf(s) \in Texts
      /\ s.finding \in [first : Nat \ {0}, last : Nat]
      /\ s.finding.first <= s.finding.last /\ s.finding.last <= Len(LinesOf(s))
  BY PatchPreparationAssumption DEF InFile, LinesOf, HeadLines, Texts
<1>2. Len(LinesOf(s)) \in Nat
  BY <1>1 DEF Texts
<1> QED
  BY <1>1, <1>2 DEF Windows, Excess

(* A line is dropped only outside the finding. *)
LEMMA NarrowerIsCloser ==
  ASSUME NEW s, InFile(s), NEW w \in Windows(s)
  PROVE  LET v == Narrower(LinesOf(s), w, s.finding) IN
         /\ Excess(s, w) \in Nat
         /\ w # s.finding =>
              /\ v \in Windows(s) /\ Excess(s, v) = Excess(s, w) - 1
              /\ \/ v.first = w.first + 1 /\ v.last = w.last
                 \/ v.first = w.first /\ v.last = w.last - 1
         /\ Excess(s, w) = 0 => w = s.finding
<1> DEFINE v == Narrower(LinesOf(s), w, s.finding)
           drop == DropFirst(LinesOf(s), w, s.finding)
<1>0. /\ w.first \in Nat \ {0} /\ w.last \in Nat
      /\ s.finding.first \in Nat \ {0} /\ s.finding.last \in Nat
      /\ w.first <= s.finding.first /\ s.finding.last <= w.last
      /\ w.last <= Len(LinesOf(s)) /\ Len(LinesOf(s)) \in Nat
  BY InFileFacts DEF Windows
<1>1. w.first = s.finding.first /\ w.last = s.finding.last => w = s.finding
  BY InFileFacts DEF Windows
<1>2. /\ Excess(s, w) \in Nat
      /\ Excess(s, w) = 0 => w = s.finding
  BY <1>0, <1>1 DEF Excess
<1>3. /\ (s.finding.first - (w.first + 1)) + (w.last - s.finding.last) = Excess(s, w) - 1
      /\ (s.finding.first - w.first) + ((w.last - 1) - s.finding.last) = Excess(s, w) - 1
  <2> DEFINE p == w.first
             q == w.last
             f == s.finding.first
             l == s.finding.last
  <2>1. p \in Nat /\ q \in Nat /\ f \in Nat /\ l \in Nat
    BY <1>0
  <2>2. Excess(s, w) = (f - p) + (q - l)
    BY DEF Excess
  <2> HIDE DEF p, q, f, l
  <2>3. /\ (f - (p + 1)) + (q - l) = Excess(s, w) - 1
        /\ (f - p) + ((q - 1) - l) = Excess(s, w) - 1
    BY <2>1, <2>2
  <2> QED
    BY <2>3 DEF p, q, f, l
<1>4. CASE drop
  <2>1. w.first < s.finding.first
    BY <1>4 DEF DropFirst
  <2>2. v = [w EXCEPT !.first = w.first + 1]
    BY <1>4 DEF Narrower
  <2>3. v = [first |-> w.first + 1, last |-> w.last]
    BY <1>0, <2>2 DEF Windows
  <2> HIDE DEF v
  <2>4. v.first = w.first + 1 /\ v.last = w.last
    BY <2>3
  <2>5. w.first + 1 \in 1..s.finding.first /\ w.last \in s.finding.last..Len(LinesOf(s))
    BY <1>0, <2>1
  <2>6. v \in Windows(s)
    BY <2>3, <2>5 DEF Windows
  <2>7. Excess(s, v) = Excess(s, w) - 1
    BY <1>3, <2>4 DEF Excess
  <2> QED
    BY <1>2, <2>4, <2>6, <2>7 DEF v
<1>5. CASE ~drop
  <2>1. v = [w EXCEPT !.last = w.last - 1]
    BY <1>5 DEF Narrower
  <2>2. v = [first |-> w.first, last |-> w.last - 1]
    BY <1>0, <2>1 DEF Windows
  <2>3. w # s.finding => s.finding.last < w.last
    BY <1>0, <1>1, <1>5 DEF DropFirst
  <2> HIDE DEF v
  <2>4. v.first = w.first /\ v.last = w.last - 1
    BY <2>2
  <2>5. w # s.finding => v \in Windows(s)
    BY <1>0, <2>2, <2>3 DEF Windows
  <2>6. Excess(s, v) = Excess(s, w) - 1
    BY <1>3, <2>4 DEF Excess
  <2> QED
    BY <1>2, <2>4, <2>5, <2>6 DEF v
<1> QED
  BY <1>4, <1>5

LEMMA FittingExists ==
  ASSUME NEW s, InFile(s)
  PROVE  \A n \in Nat : \E f : Fitting(s, n, f)
<1> DEFINE T == {n \in Nat : \E f : Fitting(s, n, f)}
<1>1. 0 \in T
  <2> DEFINE f == [w \in Within(s, 0) |-> IF Small(s, w) THEN w ELSE NoWindow]
  <2>1. \A w \in Within(s, 0) : w = s.finding
    BY NarrowerIsCloser DEF Within
  <2>2. \A w \in Within(s, 0) : FitStep(s, f, w) = IF Small(s, w) THEN w ELSE NoWindow
    BY <2>1 DEF FitStep
  <2>3. Fitting(s, 0, f)
    BY <2>2 DEF Fitting
  <2> QED
    BY <2>3
<1>2. ASSUME NEW n \in Nat, n \in T PROVE n + 1 \in T
  <2>1. PICK f : Fitting(s, n, f)
    BY <1>2
  <2> DEFINE g == [w \in Within(s, n + 1) |->
                     IF w \in Within(s, n) THEN f[w] ELSE FitStep(s, f, w)]
  <2>2. ASSUME NEW w \in Within(s, n + 1) PROVE g[w] = FitStep(s, g, w)
    <3> DEFINE v == Narrower(LinesOf(s), w, s.finding)
    <3>1. w \in Windows(s) /\ Excess(s, w) <= n + 1
      BY DEF Within
    <3>2. w # s.finding => v \in Within(s, n) /\ v \in Within(s, n + 1)
      BY <3>1, NarrowerIsCloser DEF Within
    <3>3. FitStep(s, g, w) = FitStep(s, f, w)
      BY <3>2 DEF FitStep
    <3>4. w \in Within(s, n) => f[w] = FitStep(s, f, w)
      BY <2>1 DEF Fitting
    <3> QED
      BY <3>3, <3>4
  <2>3. Fitting(s, n + 1, g)
    BY <2>2 DEF Fitting
  <2> QED
    BY <2>3
<1> HIDE DEF T
<1>3. \A n \in Nat : n \in T
  BY <1>1, <1>2, Induction
<1> QED
  BY <1>3 DEF T

(* Between the window w and the finding, r is as large as fits: a line more on *)
(* the side that was last narrowed is too much.                              *)
Best(s, w, r) ==
  IF r = NoWindow THEN ~Small(s, s.finding)
  ELSE /\ r \in Windows(s) /\ w.first <= r.first /\ r.last <= w.last
       /\ Small(s, r)
       /\ \/ r = w
          \/ r.first > w.first /\ ~Small(s, [first |-> r.first - 1, last |-> r.last])
          \/ r.last < w.last /\ ~Small(s, [first |-> r.first, last |-> r.last + 1])

LEMMA NarrowerIsBest ==
  ASSUME NEW s, InFile(s), NEW w \in Windows(s), ~Small(s, w), w # s.finding,
         NEW r, Best(s, Narrower(LinesOf(s), w, s.finding), r)
  PROVE  Best(s, w, r)
<1> DEFINE v == Narrower(LinesOf(s), w, s.finding)
<1>1. CASE r = NoWindow
  BY <1>1 DEF Best
<1>2. CASE r # NoWindow
  <2>1. /\ v \in Windows(s)
        /\ \/ v.first = w.first + 1 /\ v.last = w.last
           \/ v.first = w.first /\ v.last = w.last - 1
    BY NarrowerIsCloser
  <2> HIDE DEF v
  <2>2. /\ r \in Windows(s) /\ v.first <= r.first /\ r.last <= v.last
        /\ Small(s, r)
        /\ \/ r = v
           \/ r.first > v.first /\ ~Small(s, [first |-> r.first - 1, last |-> r.last])
           \/ r.last < v.last /\ ~Small(s, [first |-> r.first, last |-> r.last + 1])
    BY <1>2 DEF Best, v
  <2>3. /\ w.first \in Nat /\ w.last \in Nat /\ v.first \in Nat /\ v.last \in Nat
        /\ r.first \in Nat /\ r.last \in Nat
        /\ w = [first |-> w.first, last |-> w.last]
    BY <2>1, <2>2, InFileFacts DEF Windows
  <2>4. CASE r = v
    <3>1. CASE v.first = w.first + 1 /\ v.last = w.last
      <4>1. [first |-> r.first - 1, last |-> r.last] = w
        BY <2>3, <2>4, <3>1
      <4> QED
        BY <1>2, <2>2, <2>3, <2>4, <3>1, <4>1 DEF Best
    <3>2. CASE v.first = w.first /\ v.last = w.last - 1
      <4>1. [first |-> r.first, last |-> r.last + 1] = w
        BY <2>3, <2>4, <3>2
      <4> QED
        BY <1>2, <2>2, <2>3, <2>4, <3>2, <4>1 DEF Best
    <3> QED
      BY <2>1, <3>1, <3>2
  <2>5. CASE r # v
    BY <1>2, <2>1, <2>2, <2>3, <2>5 DEF Best
  <2> QED
    BY <2>4, <2>5
<1> QED
  BY <1>1, <1>2

LEMMA FitIsBest ==
  ASSUME NEW s, InFile(s), NEW f, f = [w \in Windows(s) |-> FitStep(s, f, w)]
  PROVE  \A w \in Windows(s) : Best(s, w, f[w])
<1> DEFINE T == {n \in Nat : \A w \in Windows(s) : Excess(s, w) = n => Best(s, w, f[w])}
<1>0. \A w \in Windows(s) : f[w] = FitStep(s, f, w)
  OBVIOUS
<1>1. ASSUME NEW w \in Windows(s), Small(s, w) PROVE Best(s, w, f[w])
  <2>1. f[w] = w
    BY <1>0, <1>1 DEF FitStep
  <2>2. w # NoWindow /\ w.first \in Nat /\ w.last \in Nat
    BY InFileFacts DEF Windows, NoWindow
  <2> QED
    BY <1>1, <2>1, <2>2 DEF Best
<1>2. ASSUME ~Small(s, s.finding) PROVE Best(s, s.finding, f[s.finding])
  BY <1>0, <1>2, InFileFacts DEF FitStep, Best
<1>3. 0 \in T
  BY <1>1, <1>2, NarrowerIsCloser
<1>4. ASSUME NEW n \in Nat, n \in T PROVE n + 1 \in T
  <2> SUFFICES ASSUME NEW w \in Windows(s), Excess(s, w) = n + 1, ~Small(s, w),
                      w # s.finding
               PROVE  Best(s, w, f[w])
    BY <1>1, <1>2
  <2> DEFINE v == Narrower(LinesOf(s), w, s.finding)
  <2>1. v \in Windows(s) /\ Excess(s, v) = n
    BY NarrowerIsCloser
  <2>2. f[w] = f[v]
    BY <1>0 DEF FitStep
  <2>3. Best(s, v, f[w])
    BY <1>4, <2>1, <2>2
  <2> QED
    BY <2>3, NarrowerIsBest
<1> HIDE DEF T
<1>5. \A n \in Nat : n \in T
  BY <1>3, <1>4, Induction
<1>6. \A w \in Windows(s) : Excess(s, w) \in Nat
  BY NarrowerIsCloser
<1> QED
  BY <1>5, <1>6 DEF T

LEMMA FitExists ==
  ASSUME NEW s, InFile(s)
  PROVE  LET f == CHOOSE g : g = [w \in Windows(s) |-> FitStep(s, g, w)]
         IN f = [w \in Windows(s) |-> FitStep(s, f, w)]
<1> DEFINE n == (s.finding.first - 1) + (Len(LinesOf(s)) - s.finding.last)
<1>1. n \in Nat
  BY InFileFacts DEF InFile
<1>2. ASSUME NEW w \in Windows(s) PROVE Excess(s, w) <= n
  BY InFileFacts DEF Windows, Excess
<1> HIDE DEF n
<1>3. Within(s, n) = Windows(s)
  BY <1>2 DEF Within
<1>4. PICK f : Fitting(s, n, f)
  BY <1>1, FittingExists
<1> QED
  BY <1>3, <1>4 DEF Fitting

LEMMA OutputType ==
  ASSUME NEW s \in Sources
  PROVE  OutputTokens(s) \in Nat /\ s.tokens \in Nat
<1>1. s.tokens \in Nat /\ s.limit \in Nat /\ MaxOutput \in Nat
  BY PatchTextAssumption, PatchPreparationAssumption
<1>2. s.tokens \div 4 \in Nat
  BY <1>1
<1> QED
  BY <1>1, <1>2 DEF OutputTokens, Least

LEMMA WindowHolds == source \in Sources => WindowIsWhole
<1> SUFFICES ASSUME source \in Sources PROVE WindowIsWhole
  OBVIOUS
<1> DEFINE lines == HeadLines(source.file)
           finding == source.finding
           window == Window(source)
           Fits(a, b) == PromptSize(lines, a, b) + OutputTokens(source) <= source.tokens
           all == Whole(source)
<1>1. CASE finding.last > Len(lines) \/ OutputTokens(source) < MinOutput
  BY <1>1, WindowIsFit DEF WindowIsWhole, LinesOf
<1>2. CASE ~(finding.last > Len(lines) \/ OutputTokens(source) < MinOutput)
  <2>1. lines = LinesOf(source) /\ lines \in Texts /\ Len(lines) \in Nat
    BY PatchPreparationAssumption DEF LinesOf, Texts, HeadLines
  <2>2. InFile(source)
    BY <1>2, <2>1, PatchPreparationAssumption DEF InFile
  <2>3. finding \in Windows(source) /\ all \in Windows(source)
    BY <2>1, <2>2, InFileFacts, PatchTextAssumption DEF Windows, Whole, Greatest, Least
  <2>4. Best(source, all, window)
    <3> DEFINE f == CHOOSE g : g = [w \in Windows(source) |-> FitStep(source, g, w)]
    <3>1. window = f[all]
      BY <1>2, <2>1, WindowIsFit
    <3>2. f = [w \in Windows(source) |-> FitStep(source, f, w)]
      BY <2>2, FitExists
    <3> HIDE DEF f
    <3> QED
      BY <2>2, <2>3, <3>1, <3>2, FitIsBest
  <2>5. ASSUME NEW a \in 1..Len(lines), NEW b \in 0..Len(lines)
        PROVE  Small(source, [first |-> a, last |-> b]) <=> Fits(a, b)
    <3>1. PromptSize(lines, a, b) \in Nat
      BY <2>1, PromptSizeType
    <3>2. OutputTokens(source) \in Nat /\ source.tokens \in Nat
      BY OutputType
    <3> QED
      BY <2>1, <3>1, <3>2 DEF Small, InputBudget
  <2>6. ASSUME NEW w \in Windows(source)
        PROVE  /\ w = [first |-> w.first, last |-> w.last]
               /\ w.first \in 1..finding.first /\ finding.last <= w.last
               /\ w.first \in 1..Len(lines) /\ w.last \in 0..Len(lines)
               /\ Small(source, w) <=> Fits(w.first, w.last)
    <3>1. /\ w = [first |-> w.first, last |-> w.last]
          /\ w.first \in 1..finding.first /\ finding.last <= w.last
          /\ w.first \in 1..Len(lines) /\ w.last \in 0..Len(lines)
      BY <2>1, <2>2, InFileFacts DEF Windows, InFile
    <3> QED
      BY <2>5, <3>1
  <2>7. CASE window = NoWindow
    <3>1. ~Fits(finding.first, finding.last)
      BY <2>3, <2>4, <2>6, <2>7 DEF Best
    <3> QED
      BY <2>7, <3>1 DEF WindowIsWhole
  <2>8. CASE window # NoWindow
    <3>1. /\ window \in Windows(source) /\ all.first <= window.first /\ window.last <= all.last
          /\ Small(source, window)
          /\ \/ window = all
             \/ window.first > all.first
                  /\ ~Small(source, [first |-> window.first - 1, last |-> window.last])
             \/ window.last < all.last
                  /\ ~Small(source, [first |-> window.first, last |-> window.last + 1])
      BY <2>4, <2>8 DEF Best
    <3> HIDE DEF window, all, lines
    <3>2. /\ window.first \in 1..finding.first /\ finding.last <= window.last
          /\ window.first \in 1..Len(lines) /\ window.last \in 0..Len(lines)
          /\ all.first \in 1..Len(lines) /\ all.last \in 0..Len(lines)
          /\ Fits(window.first, window.last)
      BY <2>3, <2>6, <3>1
    <3>3. window.first > all.first => window.first - 1 \in 1..Len(lines)
      BY <2>1, <3>2
    <3>4. window.last < all.last => window.last + 1 \in 0..Len(lines)
      BY <2>1, <3>2
    <3>5. \/ window = all
          \/ window.first > all.first /\ ~Fits(window.first - 1, window.last)
          \/ window.last < all.last /\ ~Fits(window.first, window.last + 1)
      BY <2>5, <3>1, <3>2, <3>3, <3>4
    <3>6. window.first <= finding.first
      BY <3>2
    <3> QED
      BY <2>8, <3>1, <3>2, <3>5, <3>6
      DEF WindowIsWhole, window, all, lines, Whole, LinesOf
  <2> QED
    BY <2>7, <2>8
<1> QED
  BY <1>1, <1>2

(* The model sees all of the finding and as much around it as fits, or is not  *)
(* asked: the loop of buildPatchPrompt ends at a window that the budget leaves *)
(* room for and with the line it dropped last does not, for any file, finding *)
(* and budget.                                                              *)
THEOREM WholeWindow == Spec => []WindowIsWhole
<1>1. Inv => source \in Sources
  BY DEF Inv, TypeOK
<1> QED
  BY InvHolds, WindowHolds, <1>1, PTL
=============================================================================
