---------------------------- MODULE ProviderCall ----------------------------
(***************************************************************************)
(* One structured request to the model provider: requestStructuredWithRetry *)
(* over requestGroqJson, observed by withModelInvocationTelemetry, which     *)
(* keeps one row of model_invocations per review run and stage.              *)
(*                                                                         *)
(* ModelStages are the stages that the caller asks for.                      *)
(***************************************************************************)
EXTENDS ProviderApi

CONSTANTS
  MaxTries,         \* 3 in the source: requests of one call
  ModelStages

VARIABLES
  signal,           \* the AbortSignal of the call has fired
  call,             \* the call, as the worker sees it
  rows              \* response of the model_invocations row of each stage

Call ==
  [pc : {"idle", "requesting", "sleeping", "recording", "done"},
   stage : ModelStages,
   tries : 0..MaxTries,
   answer : Answers \cup {NoAnswer}]

NoCall ==
  [pc |-> "idle", stage |-> CHOOSE s \in ModelStages : TRUE, tries |-> 0, answer |-> NoAnswer]

CallTypeOK ==
  /\ call \in Call
  /\ rows \in [ModelStages -> Answers \cup {NoAnswer}]

At(pc) == call.pc = pc

(* A signal that has fired already cancels the request before it is sent. *)
Ask(stage) ==
  /\ At("idle")
  /\ call' = [NoCall EXCEPT !.pc = IF signal THEN "recording" ELSE "requesting",
                            !.stage = stage]
  /\ UNCHANGED rows

(* What requestGroqJson and the reader of its response may throw. *)
Failures ==
  {FaultFailure(f) : f \in Faults}
    \cup {HttpFailure(s, q) : s \in Statuses, q \in BOOLEAN}
    \cup (IF \E c \in Completions: ReadAs(call.stage, c) = NoAnswer
          THEN {Failure("invalid_response", FALSE)} ELSE {})

-----------------------------------------------------------------------------
(* The loop of requestStructuredWithRetry.                                  *)

(* The response was read before the signal fired, or the signal has not. *)
Answered ==
  /\ At("requesting")
  /\ \E c \in Completions:
       /\ ReadAs(call.stage, c) # NoAnswer
       /\ call' = [call EXCEPT !.pc = "recording", !.answer = ReadAs(call.stage, c)]
  /\ UNCHANGED rows

LastTry == call.tries + 1 >= MaxTries

FailsTransiently ==
  /\ At("requesting")
  /\ ~LastTry
  /\ \E failure \in Failures: failure.retryable
  /\ call' = [call EXCEPT !.pc = "sleeping", !.tries = @ + 1]
  /\ UNCHANGED rows

Fails ==
  /\ At("requesting")
  /\ \E failure \in Failures: ~failure.retryable \/ LastTry
  /\ call' = [call EXCEPT !.pc = "recording"]
  /\ UNCHANGED rows

(* The signal aborts the request and the sleep. *)
Cancelled ==
  /\ call.pc \in {"requesting", "sleeping"}
  /\ signal
  /\ call' = [call EXCEPT !.pc = "recording"]
  /\ UNCHANGED rows

(* The delay is at least the provider's Retry-After, which has no bound. *)
Wakes ==
  /\ At("sleeping") /\ ~signal
  /\ call' = [call EXCEPT !.pc = "requesting"]
  /\ UNCHANGED rows

(* Mutant: the upsert does not compare the answers. *)
AgreesAlways == TRUE

(* The upsert keeps the first answer, and refuses any other one; a failed      *)
(* call leaves the answer of an earlier attempt as it is.                    *)
Agrees ==
  \/ rows[call.stage] = NoAnswer \/ call.answer = NoAnswer
  \/ rows[call.stage] = call.answer

Upserted ==
  IF Agrees /\ rows[call.stage] = NoAnswer
  THEN [rows EXCEPT ![call.stage] = call.answer] ELSE rows

Record ==
  /\ At("recording")
  /\ Agrees
  /\ rows' = Upserted
  /\ call' = [call EXCEPT !.pc = "done"]

(* What was not seen to be recorded is not used.  The upsert is refused, for   *)
(* its answer or because the output of the checks has changed the prompt      *)
(* since an earlier attempt; or it fails; or its confirmation is lost.       *)
RecordFails ==
  /\ At("recording")
  /\ rows' \in {rows, Upserted}
  /\ call' = [call EXCEPT !.pc = "done", !.answer = NoAnswer]

(* The steps that do not wait for the provider longer than the timeout of a   *)
(* request allows.                                                          *)
Progress ==
  Answered \/ FailsTransiently \/ Fails \/ Cancelled \/ Record \/ RecordFails
=============================================================================
