----------------------------- MODULE ProofPlans -----------------------------
(***************************************************************************)
(* The plan of a counterfactual proof: a command of the repository that is   *)
(* run on the base and on the head, what it may spend, and the trees of the   *)
(* two revisions that it is run in.                                         *)
(***************************************************************************)
EXTENDS Naturals, FiniteSets

CONSTANTS
  Digests,          \* of proof commands
  Timeouts, Outputs,        \* what may be configured
  MinTimeout, MaxTimeout,   \* 100 ms and 5 minutes in the source
  MinOutput, MaxOutput,     \* 1 KiB and 1 MiB in the source, per stream
  MinWritable, Writable, MaxWritable,   \* 1, 64 and 256 MiB in the source
  MaxDuration       \* 15 minutes in the source: of a proof with its regressions

(* A configuration of the repository sets no less than a plan must allow. *)
ASSUME ProofPlansAssumption ==
  /\ Timeouts \subseteq Nat /\ Outputs \subseteq Nat
  /\ \A t \in Timeouts: MinTimeout <= t
  /\ \A n \in Outputs: MinOutput <= n
  /\ {MinTimeout, MaxTimeout, MaxDuration} \subseteq Nat
  /\ {MinOutput, MaxOutput, MinWritable, Writable, MaxWritable} \subseteq Nat
  /\ MinTimeout <= MaxTimeout /\ MaxTimeout <= MaxDuration
  /\ MinOutput <= MaxOutput
  /\ MinWritable <= Writable /\ Writable <= MaxWritable

Least(a, b) == IF a <= b THEN a ELSE b

-----------------------------------------------------------------------------
(* A configured command has a digest and is required or not; some are no       *)
(* commands that a proof may run.  The proof runs the one whose digest is      *)
(* asked for, and the other required ones are its regressions.               *)
Command == [digest : Digests, proper : BOOLEAN, required : BOOLEAN]

Config ==
  [trusted : BOOLEAN, commands : SUBSET Command, timeout : Timeouts, output : Outputs]

Known(commands, asked) == \E c \in commands: c.digest = asked

Regressions(commands, asked) ==
  {c.digest : c \in {d \in commands : d.required /\ d.digest # asked}}

Authorized(commands, asked) == {asked} \cup Regressions(commands, asked)

(* The limits of a run, and what the planning budget allows; its deadline is    *)
(* the end of time.                                                         *)
Limited(config) ==
  [timeout |-> Least(config.timeout, MaxTimeout),
   output |-> Least(config.output, MaxOutput),
   writable |-> Writable]

PlanningBudget(config, asked) ==
  LET limits == Limited(config)
      attempts == 1 + Cardinality(Regressions(config.commands, asked))
  IN [attempts |-> attempts,
      attempt |-> limits.timeout,
      total |-> Least(limits.timeout * attempts, MaxDuration),
      output |-> limits.output,
      artifacts |-> limits.writable]

(* A plan, as it is stored: the digest of its command, its limits, the bytes of *)
(* its files.                                                               *)
Plan ==
  [digest : Digests, limits : [timeout : Nat, output : Nat, writable : Nat],
   files : Nat,
   matching : BOOLEAN,      \* the digests of its command and its files
   twoRevisions : BOOLEAN]  \* base and head differ

(* The schema of plans. *)
WellFormed(plan) ==
  /\ plan.twoRevisions
  /\ MinTimeout <= plan.limits.timeout /\ plan.limits.timeout <= MaxTimeout
  /\ MinOutput <= plan.limits.output /\ plan.limits.output <= MaxOutput
  /\ MinWritable <= plan.limits.writable /\ plan.limits.writable <= MaxWritable

Intact(plan) == plan.matching /\ plan.files <= plan.limits.writable

FitsBudget(plan, budget) ==
  /\ budget.attempts >= 1
  /\ budget.total >= MinTimeout /\ budget.attempt >= MinTimeout
  /\ budget.output >= MinOutput /\ budget.artifacts >= MinWritable
  /\ budget.attempt <= budget.total
  /\ plan.limits.timeout <= budget.attempt
  /\ plan.limits.output <= budget.output
  /\ plan.limits.writable <= budget.artifacts /\ plan.files <= budget.artifacts

(* createProofPlan and verifyProofPlan. *)
Admissible(plan, authorized, budget) ==
  /\ WellFormed(plan)
  /\ Intact(plan)
  /\ plan.digest \in authorized
  /\ FitsBudget(plan, budget)

Bound(config, digest, twoRevisions) ==
  [digest |-> digest, limits |-> Limited(config), files |-> 0, matching |-> TRUE,
   twoRevisions |-> twoRevisions]

(* A plan for the command that is asked for, and one for each regression. *)
Bindable(config, asked, twoRevisions) ==
  LET authorized == Authorized(config.commands, asked) IN
  /\ config.trusted
  /\ \A c \in config.commands: c.proper
  /\ Known(config.commands, asked)
  /\ \A digest \in authorized:
       Admissible(Bound(config, digest, twoRevisions), authorized,
                  PlanningBudget(config, asked))

-----------------------------------------------------------------------------
(* The tree of a revision, entry by entry.  A path is refused if some system   *)
(* could not hold it, or if it differs from another one in case only.          *)
Entry ==
  [kind : {"file", "executable", "link", "submodule"},
   path : {"a", "A", "unsafe"},
   size : Nat]

Folded(path) == IF path = "A" THEN "a" ELSE path

SafePath(path) == path # "unsafe"
SafePaths(tree) ==
  /\ \A e \in tree: SafePath(e.path)
  /\ \A e, f \in tree: Folded(e.path) = Folded(f.path) => e.path = f.path

TreeBytes(tree) ==
  LET of[S \in SUBSET tree] ==
        IF S = {} THEN 0
        ELSE LET e == CHOOSE e \in S : TRUE IN e.size + of[S \ {e}]
  IN of[tree]

AdmittedTree(tree, limits) ==
  /\ Cardinality(tree) <= limits.files
  /\ \A e \in tree: e.kind \in {"file", "executable"}
  /\ SafePaths(tree)
  /\ TreeBytes(tree) <= limits.bytes

(* Git sends the blobs in the order they were asked for, and nothing more.    *)
BatchMatches(asked, sent) == sent = asked
=============================================================================
