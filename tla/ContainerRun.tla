---------------------------- MODULE ContainerRun ----------------------------
(***************************************************************************)
(* One repository command in a locked container: executeProofInContainer    *)
(* over executeCommand, with the Docker daemon and the command as the        *)
(* environment.  The docker client is a child process of the worker; what    *)
(* the daemon does is seen by the worker only through the client's exit.     *)
(*                                                                         *)
(* The module that runs commands one after the other instantiates this one: *)
(* it gives signal (the AbortSignal), starts a run, applies Interrupted when *)
(* the signal fires, and collects the outcome.                              *)
(***************************************************************************)
EXTENDS Naturals

VARIABLES
  signal,           \* options.signal is aborted
  exec,             \* the run, as the worker sees it
  container,        \* the container of the run, as the daemon sees it
  directory,        \* .walkz-proof exists in the workspace
  command           \* ghost: how the command in the container really ended

Exits == {"zero", "nonzero", "reserved"}    \* reserved: 125, 126 or 127

Exec ==
  [pc : {"idle", "preparing", "launching", "spawning", "running", "removing",
         "verifying", "done"},
   reason : {"none", "timed_out", "cancelled"},    \* terminationReason
   exit : Exits \cup {"none", "unstartable", "signalled"},
   clean : BOOLEAN]                                \* not cleanupFailed

Containers == {"none", "pending", "created", "running"} \cup Exits
Present == Containers \ {"none", "pending"}

Idle == [pc |-> "idle", reason |-> "none", exit |-> "none", clean |-> TRUE]

RunTypeOK ==
  /\ exec \in Exec
  /\ container \in Containers
  /\ directory \in BOOLEAN
  /\ command \in Exits \cup {"none"}

At(pc) == exec.pc = pc
Goto(pc) == exec' = [exec EXCEPT !.pc = pc]

(* A run begins on a workspace; stale says whether the workspace has a        *)
(* .walkz-proof directory.  A signal that has fired ends it before it does    *)
(* anything.                                                                *)
Start(stale) ==
  /\ At("idle")
  /\ exec' = IF signal THEN [Idle EXCEPT !.pc = "done", !.reason = "cancelled"]
                       ELSE [Idle EXCEPT !.pc = "preparing"]
  /\ directory' = stale
  /\ container' = "none" /\ command' = "none"

Prepare ==
  /\ At("preparing")
  /\ ~directory
  /\ directory' = TRUE
  /\ Goto("launching")
  /\ UNCHANGED <<container, command>>

(* mkdir fails, always when the directory is there, or a proof file cannot be *)
(* written and the directory is removed, or is not.                          *)
PrepareFails ==
  /\ At("preparing")
  /\ directory' \in {directory, TRUE}
  /\ exec' = [exec EXCEPT !.pc = "done", !.exit = "unstartable"]
  /\ UNCHANGED <<container, command>>

(* Where the workspace is: a directory with a path that a mount can name, or   *)
(* a volume and a path within it.                                           *)
Mounts == {"directory", "unsafe_directory", "volume", "outside_volume"}
Mountable(mount) == mount \in {"directory", "volume"}

(* The arguments of docker run are built, or refused. *)
BuildArguments ==
  /\ At("launching")
  /\ \E mount \in Mounts:
       IF Mountable(mount) THEN Goto("spawning")
       ELSE exec' = [exec EXCEPT !.pc = "removing", !.exit = "unstartable"]
  /\ UNCHANGED <<container, directory, command>>

(* A signal that has fired keeps the client from being spawned. *)
SpawnCancelled ==
  /\ At("spawning") /\ signal
  /\ exec' = [exec EXCEPT !.pc = "removing", !.reason = "cancelled"]
  /\ UNCHANGED <<container, directory, command>>

(* A command for the machine of the worker: neither its arguments nor the      *)
(* variables that it inherits or is given may tell a secret or control how it  *)
(* runs, its directory must be in the workspace, and its executable a file.   *)
Specs ==
  [arguments : {"plain", "secret"},
   variable : {"plain", "sensitive_name", "control_name", "secret"},
   directory : {"inside", "outside", "missing"},
   executable : {"file", "directory", "missing"}]

AllowedEnvironment(variable) == variable = "plain"
Contained(place) == place = "inside"
Found(candidate) == candidate = "file"

Preparable(spec) ==
  /\ spec.arguments = "plain"
  /\ Contained(spec.directory)
  /\ AllowedEnvironment(spec.variable)
  /\ Found(spec.executable)

Prepared == {Preparable(spec) : spec \in Specs}

SpawnFails ==
  /\ At("spawning")
  /\ FALSE \in Prepared
  /\ exec' = [exec EXCEPT !.pc = "removing", !.exit = "unstartable"]
  /\ UNCHANGED <<container, directory, command>>

(* A signal that fires while all this is looked up is found after the spawn. *)
Spawn ==
  /\ At("spawning")
  /\ TRUE \in Prepared
  /\ exec' = [exec EXCEPT !.pc = "running",
                          !.reason = IF signal THEN "cancelled" ELSE "none"]
  /\ container' = "pending"
  /\ UNCHANGED <<directory, command>>

(* requestTermination: the first reason stands. *)
TimeLimit ==
  /\ At("running") /\ exec.reason = "none"
  /\ exec' = [exec EXCEPT !.reason = "timed_out"]
  /\ UNCHANGED <<container, directory, command>>

Interrupted ==
  IF At("running") /\ exec.reason = "none"
  THEN [exec EXCEPT !.reason = "cancelled"] ELSE exec

(* The daemon.  A create that was sent is carried out even if the client has  *)
(* been killed; the container is then never started.                         *)
DaemonCreates ==
  /\ container = "pending"
  /\ container' = IF At("running") THEN "running" ELSE "created"
  /\ UNCHANGED <<exec, directory, command>>

CommandExits ==
  /\ container = "running"
  /\ \E e \in Exits: container' = e /\ command' = e
  /\ UNCHANGED <<exec, directory>>

(* The client ends with the command's exit code, ... *)
ClientReports ==
  /\ At("running") /\ container \in Exits
  /\ exec' = [exec EXCEPT !.pc = "removing", !.exit = container]
  /\ UNCHANGED <<container, directory, command>>

(* ... with 125 when the daemon does not create or start the container, ...   *)
DockerFails ==
  /\ At("running") /\ container = "pending"
  /\ container' \in {"none", "created"}
  /\ exec' = [exec EXCEPT !.pc = "removing", !.exit = "reserved"]
  /\ UNCHANGED <<directory, command>>

(* ... or because it was killed, which the daemon does not notice. *)
ClientKilled ==
  /\ At("running") /\ exec.reason # "none"
  /\ exec' = [exec EXCEPT !.pc = "removing", !.exit = "signalled"]
  /\ UNCHANGED <<container, directory, command>>

(* docker container rm --force: its result is not looked at. *)
Remove ==
  /\ At("removing")
  /\ container' \in {container} \cup (IF container \in Present THEN {"none"} ELSE {})
  /\ Goto("verifying")
  /\ UNCHANGED <<directory, command>>

(* Mutant: a container that is listed does not count. *)
ListedAnything(listed) == listed

(* docker container ls must succeed and list nothing; then the directory is   *)
(* removed, which may fail too.                                             *)
Listed(listed) == listed /\ container \notin Present

Verify ==
  /\ At("verifying")
  /\ \E listed, removed \in BOOLEAN:
       /\ directory' = ~removed
       /\ exec' = [exec EXCEPT !.pc = "done", !.clean = Listed(listed) /\ removed]
  /\ UNCHANGED <<container, command>>

(* executeCommand: a termination that was requested comes first. *)
ClientOutcome ==
  IF exec.reason # "none" THEN exec.reason
  ELSE CASE exec.exit = "zero" -> "succeeded"
         [] exec.exit \in {"nonzero", "reserved"} -> "failed"
         [] OTHER -> "spawn_error"

ExecutionOutcome ==
  CASE ClientOutcome = "succeeded" -> "passed"
    [] ClientOutcome = "failed" /\ exec.exit # "reserved" -> "failed"
    [] ClientOutcome \in {"timed_out", "cancelled"} -> ClientOutcome
    [] OTHER -> "infrastructure_error"

(* The outcome of a run that is done. *)
Outcome == IF exec.clean THEN ExecutionOutcome ELSE "infrastructure_error"

RunStep ==
  \/ Prepare \/ PrepareFails \/ BuildArguments
  \/ SpawnCancelled \/ SpawnFails \/ Spawn \/ TimeLimit
  \/ ClientReports \/ DockerFails \/ ClientKilled
  \/ Remove \/ Verify
  \/ DaemonCreates \/ CommandExits

(* What a conclusive outcome says is what the command did, and nothing of the *)
(* run is left on the machine: no container that still runs the command, or   *)
(* waits to be created, and no directory that makes the next run fail.        *)
Conclusive ==
  At("done") /\ Outcome \in {"passed", "failed"} =>
    /\ command = (IF Outcome = "passed" THEN "zero" ELSE "nonzero")
    /\ container = "none"
    /\ ~directory
=============================================================================
