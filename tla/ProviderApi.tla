----------------------------- MODULE ProviderApi -----------------------------
(***************************************************************************)
(* What the model provider is asked, and what its clients make of what it    *)
(* sends: the choice of a model, the failures of an exchange, and the        *)
(* completions that a stage accepts.                                        *)
(***************************************************************************)
EXTENDS Naturals

(* The requests: a review, the second one of the security specialist, the      *)
(* challenge of their findings by another model, and a patch.                *)
Stages == {"review", "security", "challenge", "patch"}

-----------------------------------------------------------------------------
(* The models.  Two are known to keep to a schema; one is not.              *)
Models == {"preferred", "second", "loose"}
StrictModels == Models \ {"loose"}
Requests == Models \cup {"auto"}
NoModel == "no_model"

SelectModel(active, requested) ==
  IF requested # "auto"
  THEN IF requested \in active \cap StrictModels THEN requested ELSE NoModel
  ELSE IF "preferred" \in active THEN "preferred"
  ELSE IF "second" \in active THEN "second" ELSE NoModel

(* Those that may challenge what the selected one found. *)
OtherModels(active, selected) == (active \cap StrictModels) \ {selected}

-----------------------------------------------------------------------------
(* One exchange.  It ends without a response that can be read, with an HTTP    *)
(* status that refuses the request, or with a completion.                    *)

Failure(code, retryable) == [code |-> code, retryable |-> retryable]

(* classifyProviderError: nothing came in time or at all; or what came is too  *)
(* long or no JSON.                                                         *)
Faults == {"timed_out", "unreachable", "oversized", "garbled"}

FaultFailure(fault) ==
  CASE fault = "timed_out" -> Failure("timeout", TRUE)
    [] fault = "unreachable" -> Failure("network", TRUE)
    [] OTHER -> Failure("invalid_response", FALSE)

(* classifyHttpError; quota: the message of the provider speaks of a quota. *)
Statuses == {400, 401, 403, 404, 408, 422, 429, 500}

HttpFailure(status, quota) ==
  CASE status = 401 -> Failure("authentication", FALSE)
    [] status = 403 -> Failure("permission", FALSE)
    [] status = 404 -> Failure("model_unavailable", FALSE)
    [] status = 408 -> Failure("timeout", TRUE)
    [] status = 422 -> Failure("invalid_response", TRUE)
    [] status = 429 -> IF quota THEN Failure("quota_exhausted", FALSE)
                                ELSE Failure("rate_limited", TRUE)
    [] status >= 500 -> Failure("server", TRUE)
    [] OTHER -> Failure("invalid_request", FALSE)

(* The contents that pass the schema of a review, with findings or without; of *)
(* a challenge, that upholds every finding or not; and of a patch, for the     *)
(* finding, file and lines that were asked about, or for others.              *)
ReviewContents == {"no_findings", "findings"}
ChallengeContents == {"upheld", "doubted"}
PatchContents == {"asked_patch", "other_patch"}

(* The answers a reader makes of them.  plain: no finding, every challenged    *)
(* finding upheld, or the patch that was asked for; notable: all other.       *)
Answers == {"plain", "notable"}
NoAnswer == "none"

Completions ==
  [model : {"asked", "other"}, finish : {"stop", "length"},
   content : ReviewContents \cup ChallengeContents \cup PatchContents
               \cup {"unparsable"}]

Clean(c) == c.model = "asked" /\ c.finish = "stop"

ParsedReview(content) ==
  IF content \notin ReviewContents THEN NoAnswer
  ELSE IF content = "no_findings" THEN "plain" ELSE "notable"

ParsedChallenge(content) ==
  IF content \notin ChallengeContents THEN NoAnswer
  ELSE IF content = "upheld" THEN "plain" ELSE "notable"

ParsedPatch(content) ==
  IF content \notin PatchContents THEN NoAnswer
  ELSE IF content = "asked_patch" THEN "plain" ELSE "notable"

ReviewOnce(c) == IF Clean(c) THEN ParsedReview(c.content) ELSE NoAnswer
ChallengeOnce(c) == IF Clean(c) THEN ParsedChallenge(c.content) ELSE NoAnswer
PatchOnce(c) == IF Clean(c) THEN ParsedPatch(c.content) ELSE NoAnswer

(* The reader of each stage: the specialist answers like the reviewer. *)
ReadAs(stage, c) ==
  CASE stage = "challenge" -> ChallengeOnce(c)
    [] stage = "patch" -> PatchOnce(c)
    [] OTHER -> ReviewOnce(c)
=============================================================================
