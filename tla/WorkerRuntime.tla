---------------------------- MODULE WorkerRuntime ----------------------------
(***************************************************************************)
(* The life of a worker process: start and close of the hosted runtime, the  *)
(* rounds of durable recovery over the four queues, the timer between them,  *)
(* and the readiness probes of its operations server.                       *)
(*                                                                         *)
(* What a job does, and the leases of its row, are in Outbox, ReviewRun,     *)
(* CommentCommand and PatchFix.  Here an item of work is a row that a sweep   *)
(* lists until its job was done, and a job that only Redis knows of.         *)
(***************************************************************************)
EXTENDS Naturals, FiniteSets

CONSTANTS
  Items,            \* rows with work to do; a lower number is an older row
  QueueOf,          \* the queue of each, by its turn in recoverDurableWork
  Dead,             \* rows that a sweep lists although no job can do them
  Limit,            \* WALKZ_RECOVERY_BATCH
  MaxTrouble        \* bound: outages, failures, signals and crashes together

Queues == 1..4      \* outbox, comment commands, reviews, patch fixes
Dependencies == {"postgres", "redis"}

ASSUME WorkerRuntimeAssumption ==
  /\ Items \subseteq Nat /\ IsFiniteSet(Items)
  /\ QueueOf \in [Items -> Queues]
  /\ Dead \subseteq Items
  /\ Limit \in Nat \ {0} /\ MaxTrouble \in Nat

VARIABLES
  down,             \* dependencies that do not answer
  waiting,          \* rows that the sweeps list
  jobs,             \* items that are in Redis
  start, stop,      \* where start() and close() are
  round,            \* the round of recovery that runs
  timer,            \* recoveryTimer is set
  server,           \* the operations server
  workers,          \* the four BullMQ workers take jobs
  open,             \* the queues and the pool are open
  early,            \* ghost: close() began before start() was over
  probe,            \* the operation that checks of a dependency share
  check,            \* the check that runs
  trouble

durableVars == <<down, waiting, jobs>>
stopVars == <<stop, early>>
resourceVars == <<server, workers, open>>
probeVars == <<probe, check>>
runtimeVars == <<durableVars, start, stopVars, round, timer, resourceVars, probeVars,
          trouble>>

Answers == {"up", "down"}

RuntimeTypeOK ==
  /\ down \subseteq Dependencies
  /\ waiting \subseteq Items /\ jobs \subseteq Items
  /\ start \in {"off", "waiting", "recovering", "binding", "started", "failed"}
  /\ stop \in {"none", "server", "recovery", "workers", "resources", "closed"}
  /\ round \in [by : {"none", "start", "timer"}, at : Queues, listed : BOOLEAN,
                list : SUBSET Items]
  /\ timer \in BOOLEAN /\ workers \in BOOLEAN /\ open \in BOOLEAN
  /\ early \in BOOLEAN
  /\ server \in {"off", "listening"}
  /\ probe \in [Dependencies -> {"none", "asked", "hung"}]
  /\ check \in [Dependencies -> {"none", "asked"} \cup Answers]
  /\ trouble \in 0..MaxTrouble

NoRound == [by |-> "none", at |-> 1, listed |-> FALSE, list |-> {}]
Round(by) == [NoRound EXCEPT !.by = by]
NoProbe == [d \in Dependencies |-> "none"]

RuntimeInit ==
  /\ down = {} /\ waiting = Items /\ jobs = {}
  /\ start = "off" /\ stop = "none" /\ early = FALSE
  /\ round = NoRound /\ timer = FALSE
  /\ server = "off" /\ workers = FALSE /\ open = FALSE
  /\ probe = NoProbe /\ check = NoProbe
  /\ trouble = 0

Alive == start # "off"
Up(d) == d \notin down
Suffer == trouble < MaxTrouble /\ trouble' = trouble + 1

-----------------------------------------------------------------------------
(* The environment: dependencies, and the container of the process.         *)

(* Redis keeps nothing on disk. *)
Outage(d) ==
  /\ Suffer
  /\ Up(d)
  /\ down' = down \cup {d}
  /\ jobs' = IF d = "redis" THEN {} ELSE jobs
  /\ probe' = [probe EXCEPT ![d] = IF @ = "asked" THEN "hung" ELSE @]
  /\ UNCHANGED <<waiting, start, stopVars, round, timer, resourceVars, check>>

Return(d) ==
  /\ ~Up(d)
  /\ down' = down \ {d}
  /\ UNCHANGED <<waiting, jobs, start, stopVars, round, timer, resourceVars,
                 probeVars, trouble>>

(* createHostedWorkerFromEnvironment: workers take jobs from here on. *)
Launch ==
  /\ start = "off"
  /\ start' = "waiting"
  /\ workers' = TRUE /\ open' = TRUE
  /\ UNCHANGED <<durableVars, stopVars, round, timer, server, probeVars, trouble>>

(* What the process had in memory is gone. *)
Gone ==
  /\ start' = "off" /\ stop' = "none" /\ early' = FALSE
  /\ round' = NoRound /\ timer' = FALSE
  /\ server' = "off" /\ workers' = FALSE /\ open' = FALSE
  /\ probe' = NoProbe /\ check' = NoProbe
  /\ UNCHANGED durableVars

ProcessCrash == Alive /\ Suffer /\ Gone

(* Nothing keeps the event loop going: the recovery timer is unref'd, an open  *)
(* server is not.                                                           *)
Exit ==
  /\ stop = "closed" /\ server = "off" /\ round.by = "none"
  /\ start \in {"started", "failed"}
  /\ Gone /\ UNCHANGED trouble

(* A container that does not stop is killed after its grace period. *)
Kill == stop # "none" /\ Gone /\ UNCHANGED trouble

-----------------------------------------------------------------------------
(* start(): wait for the queues, recover once, serve, set the timer.         *)

Connected ==
  /\ start = "waiting" /\ open /\ Up("redis")
  /\ start' = "recovering"
  /\ round' = Round("start")
  /\ UNCHANGED <<durableVars, stopVars, timer, resourceVars, probeVars, trouble>>

(* The rest does not look whether the process is being stopped. *)
Bind ==
  /\ start = "binding"
  /\ start' = "started"
  /\ server' = "listening" /\ timer' = TRUE
  /\ UNCHANGED <<durableVars, stopVars, round, workers, open, probeVars, trouble>>

(* start() rejects, and the process closes what it has opened. *)
StartRejects ==
  /\ start' = "failed"
  /\ IF stop = "none" THEN stop' = "server" /\ early' = FALSE ELSE UNCHANGED stopVars

StartFails ==
  /\ \/ start = "waiting" /\ ~open /\ UNCHANGED trouble
     \/ start \in {"waiting", "binding"} /\ Suffer
  /\ StartRejects
  /\ UNCHANGED <<durableVars, round, timer, resourceVars, probeVars>>

-----------------------------------------------------------------------------
(* A round: list and enqueue, queue by queue.                               *)

(* The listed rows of a queue: the oldest, up to the limit. *)
Recoverable(q) == {i \in waiting : QueueOf[i] = q}

Listed(q) ==
  {i \in Recoverable(q) : Cardinality({j \in Recoverable(q) : j < i}) < Limit}

List ==
  /\ round.by # "none" /\ ~round.listed
  /\ open /\ Up("postgres")
  /\ round' = [round EXCEPT !.listed = TRUE, !.list = Listed(round.at)]
  /\ UNCHANGED <<durableVars, start, stopVars, timer, resourceVars, probeVars, trouble>>

(* A job that is there already is not added again. *)
Enqueued == jobs' = jobs \cup round.list

EnqueueAndGoOn ==
  /\ round.listed /\ round.at < 4
  /\ open /\ Up("redis")
  /\ Enqueued
  /\ round' = [round EXCEPT !.at = @ + 1, !.listed = FALSE, !.list = {}]
  /\ UNCHANGED <<down, waiting, start, stopVars, timer, resourceVars, probeVars,
                 trouble>>

(* Mutant: the next round is only scheduled after one that succeeded. *)
ScheduleAfterSuccess(succeeded) == succeeded /\ stop = "none"

(* Mutant: it is scheduled although the process is being stopped. *)
ScheduleAnyway(succeeded) == TRUE

(* The finally of scheduleRecovery. *)
Schedule(succeeded) == stop = "none"

(* The end of a round goes to start(), or to the promise that close() awaits. *)
RoundOver(succeeded) ==
  /\ round' = NoRound
  /\ IF round.by = "start"
     THEN /\ IF succeeded THEN start' = "binding" /\ UNCHANGED stopVars
                           ELSE StartRejects
          /\ UNCHANGED timer
     ELSE /\ timer' = Schedule(succeeded)
          /\ UNCHANGED <<start, stopVars>>

RoundEnds ==
  /\ round.listed /\ round.at = 4
  /\ open /\ Up("redis")
  /\ Enqueued
  /\ RoundOver(TRUE)
  /\ UNCHANGED <<down, waiting, resourceVars, probeVars, trouble>>

(* The first failure ends the round: PostgreSQL is away, the process has       *)
(* closed its queues, or anything else.  Redis that is away is waited for.    *)
RoundFails ==
  /\ round.by # "none"
  /\ \/ ~open /\ UNCHANGED trouble
     \/ ~round.listed /\ ~Up("postgres") /\ UNCHANGED trouble
     \/ Suffer
  /\ \E some \in SUBSET round.list:
       jobs' = IF open /\ Up("redis") THEN jobs \cup some ELSE jobs
  /\ RoundOver(FALSE)
  /\ UNCHANGED <<down, waiting, resourceVars, probeVars>>

TimerFires ==
  /\ timer
  /\ timer' = FALSE /\ round' = Round("timer")
  /\ UNCHANGED <<durableVars, start, stopVars, resourceVars, probeVars, trouble>>

(* The operator's one-shot reconciliation, a process of its own: the same      *)
(* round, that may end after any of its queues.                              *)
Reconcile ==
  /\ down = {}
  /\ \E last \in Queues: jobs' = jobs \cup UNION {Listed(q) : q \in 1..last}
  /\ UNCHANGED <<down, waiting, start, stopVars, round, timer, resourceVars,
                 probeVars, trouble>>

-----------------------------------------------------------------------------
(* The workers.                                                             *)

Work(i) ==
  /\ workers /\ i \in jobs /\ down = {}
  /\ jobs' = jobs \ {i}
  /\ waiting' = IF i \in Dead THEN waiting ELSE waiting \ {i}
  /\ UNCHANGED <<down, start, stopVars, round, timer, resourceVars, probeVars, trouble>>

(* The last attempt of a job fails, and it is removed. *)
JobFails(i) ==
  /\ workers /\ i \in jobs
  /\ IF Up("postgres") THEN Suffer ELSE UNCHANGED trouble
  /\ jobs' = jobs \ {i}
  /\ UNCHANGED <<down, waiting, start, stopVars, round, timer, resourceVars, probeVars>>

-----------------------------------------------------------------------------
(* close(): no timer, no server, no round, no workers, no connections.       *)

(* The first step of close(), which clears the timer at once. *)
CloseBegins ==
  /\ stop' = "server" /\ early' = (start # "started")
  /\ timer' = FALSE

(* SIGTERM or SIGINT. *)
StopSignal ==
  /\ Alive /\ stop = "none" /\ Suffer
  /\ CloseBegins
  /\ UNCHANGED <<durableVars, start, round, resourceVars, probeVars>>

CloseServer ==
  /\ stop = "server"
  /\ server' = "off" /\ stop' = "recovery"
  /\ UNCHANGED <<durableVars, start, early, round, timer, workers, open, probeVars,
                 trouble>>

(* The round of start() is not the one that close() awaits. *)
RecoverySettled == round.by # "timer"

AwaitRecovery ==
  /\ stop = "recovery" /\ RecoverySettled
  /\ stop' = "workers"
  /\ UNCHANGED <<durableVars, start, early, round, timer, resourceVars, probeVars, trouble>>

CloseWorkers ==
  /\ stop = "workers"
  /\ workers' = FALSE /\ stop' = "resources"
  /\ UNCHANGED <<durableVars, start, early, round, timer, server, open, probeVars, trouble>>

CloseResources ==
  /\ stop = "resources"
  /\ open' = FALSE /\ stop' = "closed"
  /\ UNCHANGED <<durableVars, start, early, round, timer, server, workers, probeVars,
                 trouble>>

-----------------------------------------------------------------------------
(* Readiness: a request joins the check that runs, and a check joins the      *)
(* operation that still runs for a dependency.                               *)

Ask ==
  /\ server = "listening" /\ check = NoProbe
  /\ check' = [d \in Dependencies |-> "asked"]
  /\ probe' = [d \in Dependencies |->
                 IF probe[d] # "none" THEN probe[d]
                 ELSE IF Up(d) THEN "asked" ELSE "hung"]
  /\ UNCHANGED <<durableVars, start, stopVars, round, timer, resourceVars, trouble>>

CheckHears(d, answer) ==
  check' = [check EXCEPT ![d] = IF @ = "asked" THEN answer ELSE @]

(* Mutant: an operation that has failed is kept. *)
ProbeKept(d) == probe[d]

(* coalesceOperation forgets the operation however it ends. *)
ProbeLeft(d) == "none"

ProbeAnswers(d) ==
  /\ probe[d] = "asked"
  /\ probe' = [probe EXCEPT ![d] = "none"]
  /\ CheckHears(d, IF open THEN "up" ELSE "down")
  /\ UNCHANGED <<durableVars, start, stopVars, round, timer, resourceVars, trouble>>

(* An operation that met an outage fails at some time or never, whatever is    *)
(* up then: the client of PostgreSQL is given no limit for a query.           *)
ProbeFails(d) ==
  /\ probe[d] = "hung"
  /\ probe' = [probe EXCEPT ![d] = ProbeLeft(d)]
  /\ CheckHears(d, "down")
  /\ UNCHANGED <<durableVars, start, stopVars, round, timer, resourceVars, trouble>>

(* The check does not wait for it. *)
ProbeTimesOut(d) ==
  /\ probe[d] = "hung" /\ check[d] = "asked"
  /\ CheckHears(d, "down")
  /\ UNCHANGED <<durableVars, start, stopVars, round, timer, resourceVars, probe,
                 trouble>>

CheckReports ==
  /\ \A d \in Dependencies: check[d] \in Answers
  /\ check' = NoProbe
  /\ UNCHANGED <<durableVars, start, stopVars, round, timer, resourceVars, probe,
                 trouble>>

-----------------------------------------------------------------------------
Recover == List \/ EnqueueAndGoOn \/ RoundEnds \/ RoundFails
Start == Connected \/ Bind \/ StartFails
Close == CloseServer \/ AwaitRecovery \/ CloseWorkers \/ CloseResources \/ Exit
Probing(d) == ProbeAnswers(d) \/ ProbeFails(d) \/ ProbeTimesOut(d)

RuntimeNext ==
  \/ Launch \/ Start \/ Recover \/ TimerFires \/ Close \/ Kill
  \/ StopSignal \/ ProcessCrash \/ Reconcile
  \/ \E i \in Items: Work(i) \/ JobFails(i)
  \/ \E d \in Dependencies: Outage(d) \/ Return(d) \/ Probing(d)
  \/ Ask \/ CheckReports

(* Outages end, the container is started again, the process goes on, timers    *)
(* fire, workers take every job some day, probes are asked for, and those     *)
(* that met no outage answer.  An operation that hangs may do so for ever.    *)
RuntimeFairness ==
  /\ \A d \in Dependencies: WF_runtimeVars(Return(d)) /\ WF_runtimeVars(ProbeAnswers(d))
  /\ WF_runtimeVars(Launch) /\ WF_runtimeVars(Start) /\ WF_runtimeVars(Close) /\ WF_runtimeVars(Kill)
  /\ WF_runtimeVars(Recover) /\ WF_runtimeVars(TimerFires)
  /\ \A i \in Items: WF_runtimeVars(Work(i))
  /\ WF_runtimeVars(Ask) /\ WF_runtimeVars(CheckReports)

RuntimeSpec == RuntimeInit /\ [][RuntimeNext]_runtimeVars

FairRuntimeSpec == RuntimeSpec /\ RuntimeFairness

-----------------------------------------------------------------------------
(* A process that was up when it was told to stop leaves nothing that goes on: *)
(* no round of recovery meets closed connections, and once close() is over     *)
(* there is no timer, no server and no round.  (One that is stopped while it   *)
(* starts goes on to serve and to set the timer.)                            *)
StopsWhole ==
  /\ round.by = "timer" /\ ~early => open
  /\ stop = "closed" /\ ~early => ~timer /\ server = "off" /\ round.by = "none"

(* Work that PostgreSQL knows of is done in the end, although jobs are lost    *)
(* with Redis, rounds fail and processes die, as long as the rows that can    *)
(* never be done are fewer than a sweep lists.                               *)
WorkRecovered ==
  \A i \in Items \ Dead:
    Cardinality({j \in Dead : QueueOf[j] = QueueOf[i]}) < Limit =>
      (i \in waiting ~> i \notin waiting)

Ready == \A d \in Dependencies: check[d] = "up"

(* The operations that hang fail some day: what ReadyAgain asks of the clients *)
(* of PostgreSQL and Redis, and the worker does not see to.                   *)
HungOperationsEnd == \A d \in Dependencies: WF_runtimeVars(ProbeFails(d))

(* A worker is ready again when its dependencies are, provided that operations *)
(* do not hang for ever: one that failed, before its check heard of it or     *)
(* after, holds up no later check.                                           *)
ReadyAgain ==
  HungOperationsEnd => []<>(Ready \/ start # "started" \/ stop # "none" \/ down # {})
=============================================================================
