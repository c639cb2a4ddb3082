-------------------------- MODULE ReviewLifecycle --------------------------
(***************************************************************************)
(* What the review runs of a pull request promise, with workers, leases and  *)
(* queues left out.  A new run withdraws whatever was still open.  A run is  *)
(* decided at most once, while it is open and nothing newer was asked for,   *)
(* and its one report is its decision.  A decision that a human has to act   *)
(* on stays open to withdrawal; nothing else about a decided run changes.    *)
(***************************************************************************)
EXTENDS Naturals

CONSTANTS
  Runs,               \* 1..n, in the order of creation
  Results,            \* what a review can come to
  NoResult,           \* no report yet
  Awaits(_)           \* results a human has to act on

VARIABLES
  stage,              \* [Runs -> {"none", "open", "decided", "withdrawn"}]
  report              \* [Runs -> Results \cup {NoResult}]

vars == <<stage, report>>

Init ==
  /\ stage = [r \in Runs |-> "none"]
  /\ report = [r \in Runs |-> NoResult]

CanWithdraw(r) ==
  \/ stage[r] = "open"
  \/ stage[r] = "decided" /\ Awaits(report[r])

Request(r) ==
  /\ stage[r] = "none"
  /\ \A s \in Runs : s < r => stage[s] # "none"
  /\ stage' = [s \in Runs |-> IF s = r THEN "open"
                              ELSE IF CanWithdraw(s) THEN "withdrawn"
                              ELSE stage[s]]
  /\ UNCHANGED report

Decide(r, result) ==
  /\ stage[r] = "open"
  /\ \A s \in Runs : s > r => stage[s] = "none"
  /\ stage' = [stage EXCEPT ![r] = "decided"]
  /\ report' = [report EXCEPT ![r] = result]

Withdraw(r) ==
  /\ CanWithdraw(r)
  /\ stage' = [stage EXCEPT ![r] = "withdrawn"]
  /\ UNCHANGED report

Next ==
  \E r \in Runs :
    \/ Request(r) \/ Withdraw(r)
    \/ \E result \in Results : Decide(r, result)

Spec == Init /\ [][Next]_vars
=============================================================================
