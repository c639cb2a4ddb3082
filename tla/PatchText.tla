------------------------------ MODULE PatchText ------------------------------
(***************************************************************************)
(* The text of a patch on its way from the model's answer to the file that   *)
(* is proved again: what the model is shown, what is accepted of its answer, *)
(* how a suggestion is written into a comment and read back from it, and how *)
(* the lines of the file are replaced.                                      *)
(*                                                                         *)
(* A line is a sequence of symbols, a text what split('\n') makes of a       *)
(* string: "" is <<Blank>> and "a\n" is <<a, Blank>>.  A hash stands for     *)
(* what is hashed.                                                          *)
(***************************************************************************)
EXTENDS Integers, Sequences

CONSTANTS
  Margin,           \* lines of context on either side of a finding: 60
  MaxSource,        \* lines that a patch may replace: 100
  MaxReplacement,   \* lines of a replacement: 200
  MaxOutput,        \* completion tokens: at most 4096
  MinOutput,        \* and no fewer than 128
  PromptBytes       \* of a prompt without context

ASSUME PatchTextAssumption ==
  /\ Margin \in Nat /\ MaxSource \in Nat \ {0} /\ MaxReplacement \in Nat \ {0}
  /\ MaxOutput \in Nat /\ MinOutput \in Nat \ {0} /\ PromptBytes \in Nat

Blank == <<>>
Mark == "BOM"

Least(a, b) == IF a < b THEN a ELSE b
Greatest(a, b) == IF a > b THEN a ELSE b

-----------------------------------------------------------------------------
(* A file: its lines, whether they end alike, and a byte order mark.         *)

(* As GitHub's answer is decoded: without the mark. *)
HeadLines(file) == file.lines

(* As the workspace is read: with it. *)
WorkspaceLines(file) ==
  IF file.mark THEN [file.lines EXCEPT ![1] = <<Mark>> \o @] ELSE file.lines

Original(lines, range) == SubSeq(lines, range.first, range.last)

-----------------------------------------------------------------------------
(* buildPatchPrompt *)

OutputTokens(source) == Least(Least(MaxOutput, source.tokens \div 4), source.limit)

(* Mutant: the answer is given no room. *)
InputBudgetWhole(source) == source.tokens

InputBudget(source) == source.tokens - OutputTokens(source)

LineBytes(line) == Len(line) + 1

(* The size of the prompt with lines a to b. *)
PromptSize(lines, a, b) ==
  LET size[i \in 0..Len(lines)] ==
        IF i < a THEN PromptBytes ELSE size[i - 1] + LineBytes(lines[i])
  IN size[b]

NoWindow == [first |-> 0, last |-> 0]

(* The longer of the two ends goes first, the finding itself never. *)
DropFirst(lines, w, finding) ==
  /\ w.first < finding.first
  /\ w.last = finding.last \/ Len(lines[w.first]) >= Len(lines[w.last])

Narrower(lines, w, finding) ==
  IF DropFirst(lines, w, finding) THEN [w EXCEPT !.first = @ + 1]
                                  ELSE [w EXCEPT !.last = @ - 1]

(* A finding outside the file, one that is too long alone, and an answer that *)
(* is given too little room are refused.                                     *)
Window(source) ==
  LET lines == HeadLines(source.file)
      finding == source.finding
      fit[w \in [first : 1..finding.first, last : finding.last..Len(lines)]] ==
        IF PromptSize(lines, w.first, w.last) <= InputBudget(source) THEN w
        ELSE IF w = finding THEN NoWindow
        ELSE fit[Narrower(lines, w, finding)]
  IN IF finding.last > Len(lines) \/ OutputTokens(source) < MinOutput THEN NoWindow
     ELSE fit[[first |-> Greatest(1, finding.first - Margin),
               last |-> Least(Len(lines), finding.last + Margin)]]

-----------------------------------------------------------------------------
(* generatePatchCandidate *)

(* The schema of an answer, which the provider's client checks as well. *)
WellFormed(answer) ==
  /\ answer.first <= answer.last
  /\ answer.last - answer.first < MaxSource
  /\ Len(answer.text) <= MaxReplacement

(* What is asked of an answer after it was recorded. *)
Acceptable(source, answer) ==
  LET window == Window(source) IN
  /\ answer.bound
  /\ answer.first >= window.first /\ answer.last <= window.last
  /\ answer.first <= source.finding.last /\ answer.last >= source.finding.first
  /\ answer.text # Original(HeadLines(source.file), answer)

(* Its hash is taken over all of it. *)
Candidate(lines, range, text) ==
  [first |-> range.first, last |-> range.last,
   original |-> Original(lines, range), text |-> text]

(* preparePatchSuggestion: the file still has the lines that are replaced. *)
Matches(lines, patch) ==
  /\ patch.last <= Len(lines)
  /\ Original(lines, patch) = patch.original

-----------------------------------------------------------------------------
(* The suggestion.                                                          *)

EndsBlank(text) == Len(text) > 1 /\ text[Len(text)] = Blank

WithoutLast(text) == IF EndsBlank(text) THEN SubSeq(text, 1, Len(text) - 1) ELSE text

(* buildSuggestionBody: a newline is added before the fence if there is none. *)
Block(text) == WithoutLast(text)

(* Mutant: only the text as it was read. *)
ReadingsAsRead(block) == {block}

(* An edited comment without the marker or the fences of a suggestion.       *)
Unreadable == <<>>

(* Whether the text ended with a newline cannot be read from the block. *)
Readings(block) ==
  IF block = Unreadable THEN {} ELSE {block, Append(block, Blank)}

(* Mutant: the hash is not compared. *)
RestoredUnchecked(lines, patch, block) ==
  {c \in {Candidate(lines, patch, text) : text \in Readings(block)} :
     c.text # c.original}

(* restorePublishedPatchCandidate: the candidates with the approved hash.    *)
Restored(lines, patch, block) ==
  {c \in {Candidate(lines, patch, text) : text \in Readings(block)} :
     c.text # c.original /\ c = patch}

-----------------------------------------------------------------------------
Replaced(lines, range, by) ==
  SubSeq(lines, 1, range.first - 1) \o by \o SubSeq(lines, range.last + 1, Len(lines))

(* applyLineReplacement *)
Applied(lines, patch) ==
  LET text == WithoutLast(patch.text) IN
  Replaced(lines, patch, IF text = <<Blank>> THEN <<>> ELSE text)

(* GitHub's "Commit suggestion". *)
Suggested(lines, patch) == Replaced(lines, patch, Block(patch.text))
=============================================================================
