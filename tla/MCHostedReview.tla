--------------------------- MODULE MCHostedReview ---------------------------
(* One required command; the second finding makes the challenge overflow, and *)
(* the proofs.  The second attempt meets the answers recorded by the first.   *)
EXTENDS HostedReview

MCRequired == {1}

(* A source file, one that the policies watch, one that is not in the budget of *)
(* the diff together with another, a binary, and one that is excluded.         *)
Source(traits, bytes) ==
  [old |-> "regular", new |-> "regular", binary |-> FALSE, traits |-> traits,
   lines |-> 0, included |-> TRUE, bytes |-> bytes]
Plain == Source({}, 1)
Watched == Source({"sensitive"}, 1)
Long == [Source({}, 2) EXCEPT !.lines = 500]
Binary == [Plain EXCEPT !.binary = TRUE, !.new = "absent"]
Excluded == [Watched EXCEPT !.included = FALSE]

MCChanges ==
  {<<>>, <<Plain>>, <<Watched>>, <<Plain, Long>>, <<Binary>>,
   <<Excluded, Plain>>, <<Plain, Plain, Watched>>}
MCGuides ==
  {<<>>, <<[regular |-> TRUE, text |-> TRUE, bytes |-> 1]>>,
   <<[regular |-> FALSE, text |-> TRUE, bytes |-> 1]>>,
   <<[regular |-> TRUE, text |-> TRUE, bytes |-> 3]>>}
MCBudget == [files |-> 2, diff |-> 2, guidance |-> 2]

(* Texts of plain characters; of a line feed, a plain one and an invisible one; *)
(* and of one that UTF-8 has four bytes for.                                 *)
Plainly(n) == [k \in 1..n |-> [raw |-> k, written |-> k]]
Escaped ==
  <<[raw |-> 1, written |-> 2], [raw |-> 2, written |-> 3], [raw |-> 5, written |-> 12]>>
Wide == <<[raw |-> 4, written |-> 4]>>

MCTexts == {Plainly(0), Plainly(1), Plainly(3), Escaped, Wide}
AllPrompts ==
  [metadata : 3..6, tells : BOOLEAN, texts : UNION {[1..n -> MCTexts] : n \in 1..3}]
MCPrompts ==
  {[metadata |-> 3, tells |-> TRUE, texts |-> <<Plainly(1)>>],
   [metadata |-> 4, tells |-> FALSE, texts |-> <<Escaped, Wide>>],
   [metadata |-> 6, tells |-> TRUE, texts |-> <<Plainly(0)>>]}

(* Two commands may be required besides the one that is asked for; one is no    *)
(* command that a proof may run.                                            *)
MCTimeouts == 2..4
MCOutputs == 1..2
AllConfigs ==
  [trusted : {TRUE},
   commands : SUBSET ([digest : Digests, proper : {TRUE}, required : BOOLEAN]
                      \cup [digest : {"other"}, proper : {FALSE}, required : {TRUE}]),
   timeout : Timeouts, output : Outputs]
MCConfigs ==
  {[trusted |-> TRUE, timeout |-> 4, output |-> 2, commands |-> commands] :
     commands \in SUBSET [digest : {"asked", "third"}, proper : {TRUE}, required : {TRUE}]}

MCEntries ==
  {[kind |-> "file", path |-> "a", size |-> 1],
   [kind |-> "executable", path |-> "A", size |-> 1],
   [kind |-> "link", path |-> "a", size |-> 0],
   [kind |-> "file", path |-> "unsafe", size |-> 1]}
MCLimits == [files |-> 2, bytes |-> 2]

(* The algorithms do what their callers rely on.  The riskiest file is taken    *)
(* when others do not fit, and the diff stays within its budget; a prompt that *)
(* is cut fits, one that fits is not cut, and one is refused only if what       *)
(* cannot be cut is too much.                                                *)
ASSUME InputsAssumption ==
  /\ Selected(<<Plain, Plain, Watched>>, 1) = {3}
  /\ \A files \in MCChanges:
       LET chosen == Selected(files, 2) IN
       DiffBytes(files, chosen, 2)[Cardinality(chosen)] <= 2
  /\ \A prompt \in AllPrompts, room \in 0..8:
       Packing(prompt, room) =
         IF Bytes(prompt, Whole(prompt)) <= room THEN "whole"
         ELSE IF /\ Fixed(prompt, TRUE) <= room
                 /\ \E i \in DOMAIN prompt.texts: prompt.texts[i] # <<>>
              THEN "cut" ELSE "refused"
  /\ \A config \in AllConfigs, asked \in Digests, two \in BOOLEAN:
       Bindable(config, asked, two) <=>
         /\ two /\ Known(config.commands, asked)
         /\ \A c \in config.commands: c.proper
=============================================================================
