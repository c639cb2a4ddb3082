---------------------------- MODULE WorkerProofs ----------------------------
(***************************************************************************)
(* What holds of a worker: of its process (WorkerRuntime), and of its         *)
(* attempts at a review (HostedReview).  The two share no variable; each has  *)
(* its own specification, invariant and theorems.                           *)
(*                                                                         *)
(* WorkerRuntime, for any rows, limit and number of disturbances: only a      *)
(* process that is up has a timer, a server or a round of its own; close()    *)
(* goes through its steps in order, and a process that was up, or that failed *)
(* to start, before close() began never gets back to the steps of start()     *)
(* that would set the timer or open the server again.                       *)
(*                                                                         *)
(* What a review is made from (ReviewInputs, ProofPlans): which files are      *)
(* taken, how a prompt is cut, and that a plan of a proof fits its budget.     *)
(*                                                                         *)
(* HostedReview, for any commands, findings and bounds, with any changes,     *)
(* guidance, prompts and trees: what a container, a request and each stage    *)
(* leave behind is related to what really happened (the ghosts command, used  *)
(* and reproduced), so that the verdict, which reads the former, can be       *)
(* judged by the latter.                                                    *)
(***************************************************************************)
EXTENDS WorkerRuntime, HostedReview, WellFoundedInduction, FiniteSetTheorems, TLAPS

-----------------------------------------------------------------------------
(* The process.                                                             *)
Closing == {"recovery", "workers", "resources", "closed"}

(* The steps of start(), and what only a process that is up has.            *)
Rising ==
  /\ round.by = "start" <=> start = "recovering"
  /\ timer \/ server = "listening" \/ round.by = "timer" => start = "started"
  /\ start # "off" /\ stop # "closed" => open
  /\ start = "off" => stop = "none"
  /\ round.listed => round.by # "none"

(* What close() has left behind.                                            *)
Falling ==
  ~early =>
    /\ stop # "none" => start \in {"started", "failed"} /\ ~timer
    /\ stop \in Closing => server = "off"
    /\ stop \in Closing \ {"recovery"} => round.by # "timer"

RuntimeInv == RuntimeTypeOK /\ Rising /\ Falling

-----------------------------------------------------------------------------
(* Types.                                                                   *)

Rounds ==
  [by : {"none", "start", "timer"}, at : Queues, listed : BOOLEAN, list : SUBSET Items]

LEMMA NoRoundType == NoRound \in Rounds /\ NoRound.by = "none" /\ ~NoRound.listed
  BY DEF NoRound, Rounds, Queues

LEMMA RoundType ==
  ASSUME NEW b \in {"none", "start", "timer"}
  PROVE  Round(b) \in Rounds /\ Round(b).by = b
<1>1. ASSUME NEW r \in Rounds
      PROVE  [r EXCEPT !.by = b] \in Rounds /\ [r EXCEPT !.by = b].by = b
  BY DEF Rounds
<1> QED
  BY <1>1, NoRoundType DEF Round

LEMMA RoundListed ==
  ASSUME NEW r \in Rounds, NEW list \in SUBSET Items
  PROVE  LET s == [r EXCEPT !.listed = TRUE, !.list = list]
         IN s \in Rounds /\ s.by = r.by
  BY DEF Rounds

LEMMA RoundGoesOn ==
  ASSUME NEW r \in Rounds, r.at < 4
  PROVE  LET s == [r EXCEPT !.at = @ + 1, !.listed = FALSE, !.list = {}]
         IN s \in Rounds /\ s.by = r.by
<1>1. r.at + 1 \in Queues
  BY DEF Rounds, Queues
<1> HIDE DEF Queues
<1> QED
  BY <1>1 DEF Rounds

LEMMA ListedType ==
  ASSUME RuntimeTypeOK, NEW q \in Queues
  PROVE  Listed(q) \subseteq Items
  BY DEF RuntimeTypeOK, Listed, Recoverable

LEMMA SufferType == ASSUME RuntimeTypeOK, Suffer PROVE trouble' \in 0..MaxTrouble
  BY WorkerRuntimeAssumption DEF RuntimeTypeOK, Suffer

LEMMA TypeRound == ASSUME RuntimeTypeOK PROVE round \in Rounds
  BY DEF RuntimeTypeOK, Rounds

-----------------------------------------------------------------------------
LEMMA RuntimeInitInv == RuntimeInit => RuntimeInv
<1> SUFFICES ASSUME RuntimeInit PROVE RuntimeInv
  OBVIOUS
<1>1. NoRound \in Rounds /\ NoRound.by = "none" /\ ~NoRound.listed
  BY NoRoundType
<1>2. 0 \in 0..MaxTrouble
  BY WorkerRuntimeAssumption
<1>3. RuntimeTypeOK
  BY <1>1, <1>2 DEF RuntimeInit, RuntimeTypeOK, Rounds, NoProbe
<1>4. Rising /\ Falling
  BY <1>1 DEF RuntimeInit, Rising, Falling
<1> QED
  BY <1>3, <1>4 DEF RuntimeInv

-----------------------------------------------------------------------------
(* The steps that start(), close() and recovery know nothing of.            *)
LEMMA Elsewhere ==
  ASSUME Rising, Falling, UNCHANGED <<start, stop, early, round, timer, server, open>>
  PROVE  Rising' /\ Falling'
  BY DEF Rising, Falling

LEMMA OutageInv == ASSUME RuntimeInv, NEW d \in Dependencies, Outage(d) PROVE RuntimeInv'
<1>1. trouble' \in 0..MaxTrouble
  BY SufferType DEF RuntimeInv, Outage
<1>2. RuntimeTypeOK'
  BY <1>1 DEF RuntimeInv, RuntimeTypeOK, Outage, stopVars, resourceVars
<1> QED
  BY <1>2, Elsewhere DEF RuntimeInv, Outage, stopVars, resourceVars

LEMMA ReturnInv == ASSUME RuntimeInv, NEW d \in Dependencies, Return(d) PROVE RuntimeInv'
<1>1. RuntimeTypeOK'
  BY DEF RuntimeInv, RuntimeTypeOK, Return, stopVars, resourceVars, probeVars
<1> QED
  BY <1>1, Elsewhere DEF RuntimeInv, Return, stopVars, resourceVars

LEMMA LaunchInv == ASSUME RuntimeInv, Launch PROVE RuntimeInv'
<1>1. RuntimeTypeOK'
  BY DEF RuntimeInv, RuntimeTypeOK, Launch, durableVars, stopVars, probeVars
<1>2. Rising' /\ Falling'
  BY DEF RuntimeInv, Rising, Falling, Launch, stopVars, Closing
<1> QED
  BY <1>1, <1>2 DEF RuntimeInv

LEMMA GoneInv == ASSUME RuntimeInv, Gone, trouble' \in 0..MaxTrouble PROVE RuntimeInv'
<1>1. round' \in Rounds /\ round'.by = "none" /\ ~round'.listed
  BY NoRoundType DEF Gone
<1>2. RuntimeTypeOK'
  BY <1>1 DEF RuntimeInv, RuntimeTypeOK, Gone, durableVars, NoProbe, Rounds
<1>3. Rising' /\ Falling'
  BY <1>1 DEF Rising, Falling, Gone, Closing
<1> QED
  BY <1>2, <1>3 DEF RuntimeInv

LEMMA EndsInv == ASSUME RuntimeInv, ProcessCrash \/ Exit \/ Kill PROVE RuntimeInv'
<1>1. Gone
  BY DEF ProcessCrash, Exit, Kill
<1>2. trouble' \in 0..MaxTrouble
  BY SufferType DEF RuntimeInv, RuntimeTypeOK, ProcessCrash, Exit, Kill
<1> QED
  BY <1>1, <1>2, GoneInv

LEMMA ConnectedInv == ASSUME RuntimeInv, Connected PROVE RuntimeInv'
<1>1. round' \in Rounds /\ round'.by = "start"
  BY RoundType DEF Connected
<1>2. RuntimeTypeOK'
  BY <1>1 DEF RuntimeInv, RuntimeTypeOK, Connected, durableVars, stopVars, resourceVars, probeVars, Rounds
<1>3. Rising' /\ Falling'
  BY <1>1 DEF RuntimeInv, Rising, Falling, Connected, stopVars, resourceVars
<1> QED
  BY <1>2, <1>3 DEF RuntimeInv

LEMMA BindInv == ASSUME RuntimeInv, Bind PROVE RuntimeInv'
<1>1. RuntimeTypeOK'
  BY DEF RuntimeInv, RuntimeTypeOK, Bind, durableVars, stopVars, probeVars
<1>2. Rising' /\ Falling'
  BY DEF RuntimeInv, Rising, Falling, Bind, stopVars, Closing
<1> QED
  BY <1>1, <1>2 DEF RuntimeInv

(* start() gives up, before or after close() began.                         *)
LEMMA RejectionInv ==
  ASSUME RuntimeInv, StartRejects, start \in {"waiting", "recovering", "binding"},
         round'.by = "none", ~round'.listed, UNCHANGED <<timer, server, open>>
  PROVE  Rising' /\ Falling' /\ start' = "failed" /\ early' \in BOOLEAN
         /\ stop' \in {"server", stop}
<1>1. early \in BOOLEAN /\ ~timer /\ server # "listening" /\ server \in {"off", "listening"}
  BY DEF RuntimeInv, RuntimeTypeOK, Rising
<1>2. CASE stop = "none"
  BY <1>1, <1>2 DEF RuntimeInv, Rising, Falling, StartRejects, Closing
<1>3. CASE stop # "none"
  BY <1>1, <1>3 DEF RuntimeInv, Rising, Falling, StartRejects, Closing, stopVars
<1> QED
  BY <1>2, <1>3

LEMMA StartFailsInv == ASSUME RuntimeInv, StartFails PROVE RuntimeInv'
<1>1. start \in {"waiting", "binding"} /\ StartRejects /\ UNCHANGED <<round, timer, server, open>>
  BY DEF StartFails, resourceVars
<1>2. round'.by = "none" /\ ~round'.listed
  BY <1>1 DEF RuntimeInv, RuntimeTypeOK, Rising
<1>3. trouble' \in 0..MaxTrouble
  BY SufferType DEF RuntimeInv, RuntimeTypeOK, StartFails
<1>4. /\ Rising' /\ Falling' /\ start' = "failed" /\ early' \in BOOLEAN
      /\ stop' \in {"server", stop}
  BY <1>1, <1>2, RejectionInv
<1>5. RuntimeTypeOK'
  BY <1>3, <1>4 DEF RuntimeInv, RuntimeTypeOK, StartFails, durableVars, resourceVars, probeVars
<1> QED
  BY <1>4, <1>5 DEF RuntimeInv

-----------------------------------------------------------------------------
(* Rounds.                                                                  *)

LEMMA ListInv == ASSUME RuntimeInv, List PROVE RuntimeInv'
<1>1. round \in Rounds /\ round.at \in Queues
  BY TypeRound DEF RuntimeInv, Rounds
<1>2. Listed(round.at) \in SUBSET Items
  BY <1>1, ListedType DEF RuntimeInv
<1>3. round' \in Rounds /\ round'.by = round.by
  BY <1>1, <1>2, RoundListed DEF List
<1>4. RuntimeTypeOK'
  BY <1>3 DEF RuntimeInv, RuntimeTypeOK, List, durableVars, stopVars, resourceVars, probeVars, Rounds
<1>5. Rising' /\ Falling'
  BY <1>3 DEF RuntimeInv, Rising, Falling, List, stopVars, resourceVars
<1> QED
  BY <1>4, <1>5 DEF RuntimeInv

LEMMA EnqueueInv == ASSUME RuntimeInv, EnqueueAndGoOn PROVE RuntimeInv'
<1>1. round \in Rounds /\ round.list \subseteq Items
  BY TypeRound DEF RuntimeInv, Rounds
<1>2. round' \in Rounds /\ round'.by = round.by
  BY <1>1, RoundGoesOn DEF EnqueueAndGoOn
<1>3. RuntimeTypeOK'
  BY <1>1, <1>2 DEF RuntimeInv, RuntimeTypeOK, EnqueueAndGoOn, Enqueued, stopVars, resourceVars,
     probeVars, Rounds
<1>4. Rising' /\ Falling'
  BY <1>2 DEF RuntimeInv, Rising, Falling, EnqueueAndGoOn, stopVars, resourceVars
<1> QED
  BY <1>3, <1>4 DEF RuntimeInv

(* The end of a round, good or bad: that of start() lets it go on or reject,  *)
(* that of the timer sets the timer again unless close() has begun.          *)
LEMMA RoundOverInv ==
  ASSUME RuntimeInv, NEW succeeded \in BOOLEAN, RoundOver(succeeded), round.by # "none",
         jobs' \subseteq Items, trouble' \in 0..MaxTrouble,
         UNCHANGED <<down, waiting, resourceVars, probeVars>>
  PROVE  RuntimeInv'
<1>1. round' \in Rounds /\ round'.by = "none" /\ ~round'.listed
  BY NoRoundType DEF RoundOver
<1>2. UNCHANGED <<server, workers, open, probe, check>>
  BY DEF resourceVars, probeVars
<1>3. ASSUME round.by = "start"
      PROVE  RuntimeTypeOK' /\ Rising' /\ Falling'
  <2>1. start = "recovering" /\ timer' = timer /\ ~timer
    BY <1>3 DEF RuntimeInv, RuntimeTypeOK, Rising, RoundOver
  <2>2. CASE succeeded
    <3>1. start' = "binding" /\ UNCHANGED <<stop, early>>
      BY <1>3, <2>2 DEF RoundOver, stopVars
    <3>2. RuntimeTypeOK'
      BY <1>1, <1>2, <2>1, <3>1 DEF RuntimeInv, RuntimeTypeOK, Rounds
    <3>3. Rising' /\ Falling'
      BY <1>1, <1>2, <2>1, <3>1 DEF RuntimeInv, Rising, Falling
    <3> QED
      BY <3>2, <3>3
  <2>3. CASE ~succeeded
    <3>1. StartRejects
      BY <1>3, <2>3 DEF RoundOver
    <3>2. /\ Rising' /\ Falling' /\ start' = "failed" /\ early' \in BOOLEAN
          /\ stop' \in {"server", stop}
      BY <1>1, <1>2, <2>1, <3>1, RejectionInv
    <3>3. RuntimeTypeOK'
      BY <1>1, <1>2, <2>1, <3>2 DEF RuntimeInv, RuntimeTypeOK, Rounds
    <3> QED
      BY <3>2, <3>3
  <2> QED
    BY <2>2, <2>3
<1>4. ASSUME round.by = "timer"
      PROVE  RuntimeTypeOK' /\ Rising' /\ Falling'
  <2>1. timer' = (stop = "none") /\ UNCHANGED <<start, stop, early>> /\ start = "started"
    BY <1>4 DEF RuntimeInv, Rising, RoundOver, Schedule, stopVars
  <2>2. RuntimeTypeOK'
    BY <1>1, <1>2, <2>1 DEF RuntimeInv, RuntimeTypeOK, Rounds
  <2>3. Rising' /\ Falling'
    BY <1>1, <1>2, <2>1 DEF RuntimeInv, Rising, Falling
  <2> QED
    BY <2>2, <2>3
<1>5. round.by \in {"start", "timer"}
  BY TypeRound DEF RuntimeInv, Rounds
<1> QED
  BY <1>3, <1>4, <1>5 DEF RuntimeInv

LEMMA RoundEndsInv == ASSUME RuntimeInv, RoundEnds PROVE RuntimeInv'
<1>1. jobs' \subseteq Items /\ trouble' \in 0..MaxTrouble
  BY DEF RuntimeInv, RuntimeTypeOK, RoundEnds, Enqueued
<1>2. /\ RoundOver(TRUE) /\ UNCHANGED <<down, waiting, resourceVars, probeVars>>
      /\ round.by # "none"
  BY DEF RoundEnds, RuntimeInv, Rising
<1> QED
  BY <1>1, <1>2, RoundOverInv

LEMMA RoundFailsInv == ASSUME RuntimeInv, RoundFails PROVE RuntimeInv'
<1>1. jobs' \subseteq Items
  BY DEF RuntimeInv, RuntimeTypeOK, RoundFails
<1>2. trouble' \in 0..MaxTrouble
  BY SufferType DEF RuntimeInv, RuntimeTypeOK, RoundFails
<1>3. /\ RoundOver(FALSE) /\ UNCHANGED <<down, waiting, resourceVars, probeVars>>
      /\ round.by # "none"
  BY DEF RoundFails
<1> QED
  BY <1>1, <1>2, <1>3, RoundOverInv

LEMMA TimerFiresInv == ASSUME RuntimeInv, TimerFires PROVE RuntimeInv'
<1>1. round' \in Rounds /\ round'.by = "timer"
  BY RoundType DEF TimerFires
<1>2. RuntimeTypeOK'
  BY <1>1 DEF RuntimeInv, RuntimeTypeOK, TimerFires, durableVars, stopVars, resourceVars, probeVars, Rounds
<1>3. Rising' /\ Falling'
  BY <1>1 DEF RuntimeInv, Rising, Falling, TimerFires, stopVars, resourceVars, Closing
<1> QED
  BY <1>2, <1>3 DEF RuntimeInv

LEMMA ReconcileInv == ASSUME RuntimeInv, Reconcile PROVE RuntimeInv'
<1>1. \A q \in Queues : Listed(q) \subseteq Items
  BY ListedType DEF RuntimeInv
<1>2. jobs' \subseteq Items
  BY <1>1 DEF RuntimeInv, RuntimeTypeOK, Reconcile, Queues
<1>3. RuntimeTypeOK'
  BY <1>2 DEF RuntimeInv, RuntimeTypeOK, Reconcile, stopVars, resourceVars, probeVars
<1> QED
  BY <1>3, Elsewhere DEF RuntimeInv, Reconcile, stopVars, resourceVars

-----------------------------------------------------------------------------
(* The workers, and close().                                                *)

LEMMA WorkInv == ASSUME RuntimeInv, NEW i \in Items, Work(i) \/ JobFails(i) PROVE RuntimeInv'
<1>1. trouble' \in 0..MaxTrouble
  BY SufferType DEF RuntimeInv, RuntimeTypeOK, Work, JobFails
<1>2. RuntimeTypeOK'
  BY <1>1 DEF RuntimeInv, RuntimeTypeOK, Work, JobFails, stopVars, resourceVars, probeVars
<1> QED
  BY <1>2, Elsewhere DEF RuntimeInv, Work, JobFails, stopVars, resourceVars

LEMMA StopSignalInv == ASSUME RuntimeInv, StopSignal PROVE RuntimeInv'
<1>1. trouble' \in 0..MaxTrouble
  BY SufferType DEF RuntimeInv, StopSignal
<1>2. early' \in BOOLEAN /\ (~early' <=> start = "started")
  BY DEF StopSignal, CloseBegins
<1>3. RuntimeTypeOK'
  BY <1>1, <1>2 DEF RuntimeInv, RuntimeTypeOK, StopSignal, CloseBegins, durableVars, resourceVars, probeVars
<1>4. Rising' /\ Falling'
  BY <1>2 DEF RuntimeInv, Rising, Falling, StopSignal, CloseBegins, Alive, resourceVars, Closing
<1> QED
  BY <1>3, <1>4 DEF RuntimeInv

LEMMA CloseServerInv == ASSUME RuntimeInv, CloseServer PROVE RuntimeInv'
<1>1. RuntimeTypeOK'
  BY DEF RuntimeInv, RuntimeTypeOK, CloseServer, durableVars, probeVars
<1>2. Rising' /\ Falling'
  BY DEF RuntimeInv, Rising, Falling, CloseServer, Closing
<1> QED
  BY <1>1, <1>2 DEF RuntimeInv

LEMMA AwaitRecoveryInv == ASSUME RuntimeInv, AwaitRecovery PROVE RuntimeInv'
<1>1. RuntimeTypeOK'
  BY DEF RuntimeInv, RuntimeTypeOK, AwaitRecovery, durableVars, resourceVars, probeVars
<1>2. Rising' /\ Falling'
  BY DEF RuntimeInv, Rising, Falling, AwaitRecovery, RecoverySettled, resourceVars, Closing
<1> QED
  BY <1>1, <1>2 DEF RuntimeInv

LEMMA CloseWorkersInv == ASSUME RuntimeInv, CloseWorkers PROVE RuntimeInv'
<1>1. RuntimeTypeOK'
  BY DEF RuntimeInv, RuntimeTypeOK, CloseWorkers, durableVars, probeVars
<1>2. Rising' /\ Falling'
  BY DEF RuntimeInv, Rising, Falling, CloseWorkers, Closing
<1> QED
  BY <1>1, <1>2 DEF RuntimeInv

LEMMA CloseResourcesInv == ASSUME RuntimeInv, CloseResources PROVE RuntimeInv'
<1>1. RuntimeTypeOK'
  BY DEF RuntimeInv, RuntimeTypeOK, CloseResources, durableVars, probeVars
<1>2. Rising' /\ Falling'
  BY DEF RuntimeInv, Rising, Falling, CloseResources, Closing
<1> QED
  BY <1>1, <1>2 DEF RuntimeInv

-----------------------------------------------------------------------------
(* Probes. *)

LEMMA CheckHearsType ==
  ASSUME RuntimeTypeOK, NEW d \in Dependencies, NEW answer \in Answers, CheckHears(d, answer)
  PROVE  check' \in [Dependencies -> {"none", "asked"} \cup Answers]
  BY DEF RuntimeTypeOK, CheckHears

LEMMA ProbesInv ==
  ASSUME RuntimeInv,
         Ask \/ CheckReports \/ \E d \in Dependencies : Probing(d)
  PROVE  RuntimeInv'
<1>1. /\ UNCHANGED <<down, waiting, jobs, start, stop, early, round, timer,
                     server, workers, open, trouble>>
  BY DEF Ask, CheckReports, Probing, ProbeAnswers, ProbeFails, ProbeTimesOut, durableVars,
     stopVars, resourceVars
<1>2. /\ probe' \in [Dependencies -> {"none", "asked", "hung"}]
      /\ check' \in [Dependencies -> {"none", "asked"} \cup Answers]
  <2>1. CASE Ask
    BY <2>1 DEF RuntimeInv, RuntimeTypeOK, Ask
  <2>2. CASE CheckReports
    BY <2>2 DEF RuntimeInv, RuntimeTypeOK, CheckReports, NoProbe
  <2>3. ASSUME NEW d \in Dependencies, Probing(d)
        PROVE  /\ probe' \in [Dependencies -> {"none", "asked", "hung"}]
               /\ check' \in [Dependencies -> {"none", "asked"} \cup Answers]
    <3>1. \E answer \in Answers : CheckHears(d, answer)
      BY <2>3 DEF Probing, ProbeAnswers, ProbeFails, ProbeTimesOut, Answers
    <3>2. check' \in [Dependencies -> {"none", "asked"} \cup Answers]
      BY <3>1, CheckHearsType DEF RuntimeInv
    <3>3. probe' \in [Dependencies -> {"none", "asked", "hung"}]
      BY <2>3 DEF RuntimeInv, RuntimeTypeOK, Probing, ProbeAnswers, ProbeFails, ProbeTimesOut, ProbeLeft
    <3> QED
      BY <3>2, <3>3
  <2> QED
    BY <2>1, <2>2, <2>3
<1>3. RuntimeTypeOK'
  BY <1>1, <1>2 DEF RuntimeInv, RuntimeTypeOK
<1> QED
  BY <1>1, <1>3, Elsewhere DEF RuntimeInv

-----------------------------------------------------------------------------
LEMMA RuntimeNextInv == RuntimeInv /\ [RuntimeNext]_runtimeVars => RuntimeInv'
<1> SUFFICES ASSUME RuntimeInv, [RuntimeNext]_runtimeVars PROVE RuntimeInv'
  OBVIOUS
<1>1. CASE Launch \/ Start
  BY <1>1, LaunchInv, ConnectedInv, BindInv, StartFailsInv DEF Start
<1>2. CASE Recover \/ TimerFires
  BY <1>2, ListInv, EnqueueInv, RoundEndsInv, RoundFailsInv, TimerFiresInv DEF Recover
<1>3. CASE Close \/ Kill \/ ProcessCrash
  BY <1>3, CloseServerInv, AwaitRecoveryInv, CloseWorkersInv, CloseResourcesInv, EndsInv
  DEF Close
<1>4. CASE StopSignal \/ Reconcile
  BY <1>4, StopSignalInv, ReconcileInv
<1>5. ASSUME NEW i \in Items, Work(i) \/ JobFails(i) PROVE RuntimeInv'
  BY <1>5, WorkInv
<1>6. ASSUME NEW d \in Dependencies, Outage(d) \/ Return(d) PROVE RuntimeInv'
  BY <1>6, OutageInv, ReturnInv
<1>7. CASE Ask \/ CheckReports \/ \E d \in Dependencies : Probing(d)
  BY <1>7, ProbesInv
<1>8. CASE UNCHANGED runtimeVars
  <2>1. UNCHANGED <<down, waiting, jobs, start, stop, early, round, timer,
                    server, workers, open, probe, check, trouble>>
    BY <1>8 DEF runtimeVars, durableVars, stopVars, resourceVars, probeVars
  <2>2. RuntimeTypeOK'
    BY <2>1 DEF RuntimeInv, RuntimeTypeOK
  <2> QED
    BY <2>1, <2>2, Elsewhere DEF RuntimeInv
<1> QED
  BY <1>1, <1>2, <1>3, <1>4, <1>5, <1>6, <1>7, <1>8 DEF RuntimeNext

(* A process that was up leaves nothing behind.                             *)
LEMMA RuntimeStopsWhole == RuntimeInv => StopsWhole
<1> SUFFICES ASSUME RuntimeInv PROVE StopsWhole
  OBVIOUS
<1>1. round.by \in {"none", "start", "timer"} /\ server \in {"off", "listening"}
  BY DEF RuntimeInv, RuntimeTypeOK
<1>2. stop \in {"none", "server", "closed"} \cup Closing
  BY DEF RuntimeInv, RuntimeTypeOK, Closing
<1>3. round.by = "timer" /\ ~early => open
  BY <1>2 DEF RuntimeInv, Rising, Falling, Closing
<1>4. stop = "closed" /\ ~early => ~timer /\ server = "off" /\ round.by = "none"
  BY <1>1 DEF RuntimeInv, Rising, Falling, Closing
<1> QED
  BY <1>3, <1>4 DEF StopsWhole

LEMMA RuntimeInvHolds == RuntimeSpec => []RuntimeInv
  BY RuntimeInitInv, RuntimeNextInv, PTL DEF RuntimeSpec

(* Types, for any rows, limit and number of disturbances.                   *)
THEOREM RuntimeTypeCorrect == RuntimeSpec => []RuntimeTypeOK
<1>1. RuntimeInv => RuntimeTypeOK
  BY DEF RuntimeInv
<1> QED
  BY RuntimeInvHolds, <1>1, PTL

(* bin.ts awaits close() and then lets the process run out: of a process that *)
(* was up nothing goes on, and no round meets closed connections.            *)
THEOREM NothingGoesOn == RuntimeSpec => []StopsWhole
  BY RuntimeInvHolds, RuntimeStopsWhole, PTL

-----------------------------------------------------------------------------
(* What an attempt is made from: its prompt, the plan of its proof, its files. *)
(* Cutting and summing are recursive functions; that they exist, and what they *)
(* do, is shown by induction, on sets of numbers.                            *)
Below == {p \in Nat \X Nat : p[1] < p[2]}

LEMMA BelowWellFounded == IsWellFoundedOn(Below, Nat)
<1>1. Below = OpToRel(<, Nat)
  BY Zenon DEF OpToRel, Below
<1> QED
  BY <1>1, NatLessThanWellFounded

LEMMA Smallest ==
  ASSUME NEW T \in SUBSET Nat, T # {}
  PROVE  \E n \in T : \A m \in T : n <= m
<1>1. PICK n \in T : \A m \in T : ~(<<m, n>> \in Below)
  BY BelowWellFounded, WFMin
<1>2. ASSUME NEW m \in T PROVE n <= m
  <2>1. ~(<<m, n>> \in Below) /\ <<m, n>> \in Nat \X Nat
    BY <1>1
  <2>2. ~(m < n)
    BY <2>1 DEF Below
  <2> QED
    BY <2>2
<1> QED
  BY <1>2

LEMMA Induction ==
  ASSUME NEW T, 0 \in T, \A n \in Nat : n \in T => n + 1 \in T
  PROVE  \A n \in Nat : n \in T
<1> SUFFICES ASSUME Nat \ T # {} PROVE FALSE
  OBVIOUS
<1>1. PICK n \in Nat \ T : \A m \in Nat \ T : n <= m
  BY Smallest
<1>2. n # 0 /\ n - 1 \in Nat
  BY <1>1
<1>3. n - 1 \in T
  BY <1>1, <1>2
<1> QED
  BY <1>1, <1>2, <1>3


LEMMA MinIn ==
  ASSUME NEW S \in SUBSET Nat, S # {}
  PROVE  Min(S) \in S
  BY Smallest DEF Min

LEMMA Larger ==
  ASSUME NEW a \in Int, NEW b \in Int
  PROVE  Max({a, b}) = IF a <= b THEN b ELSE a
<1> DEFINE m == IF a <= b THEN b ELSE a
<1>1. \E x \in {a, b} : \A y \in {a, b} : x >= y
  <2>1. m \in {a, b} /\ \A y \in {a, b} : m >= y
    OBVIOUS
  <2> QED
    BY <2>1
<1>2. Max({a, b}) \in {a, b} /\ \A y \in {a, b} : Max({a, b}) >= y
  BY <1>1 DEF Max
<1> QED
  BY <1>2

(* A set of numbers below a bound has a largest one. *)
LEMMA MaxIn ==
  ASSUME NEW S \in SUBSET Nat, S # {}, NEW b \in Nat, \A x \in S : x <= b
  PROVE  Max(S) \in S
<1> DEFINE B == {n \in Nat : \A x \in S : x <= n}
<1>1. PICK n \in B : \A m \in B : n <= m
  <2>1. b \in B /\ B \in SUBSET Nat
    OBVIOUS
  <2> HIDE DEF B
  <2> QED BY <2>1, Smallest
<1>2. n \in S
  <2> SUFFICES ASSUME n \notin S PROVE FALSE
    OBVIOUS
  <2>1. PICK x \in S : TRUE
    OBVIOUS
  <2>2. n # 0 /\ n - 1 \in Nat
    BY <1>1, <2>1
  <2>3. \A y \in S : y <= n - 1
    BY <1>1
  <2>4. n - 1 \in B
    BY <2>2, <2>3
  <2> QED BY <1>1, <2>2, <2>4
<1>3. \A y \in S : n >= y
  BY <1>1
<1> QED BY <1>2, <1>3 DEF Max

(* Totals.                                                                  *)
AddStep(f, sum, n) == IF n = 0 THEN 0 ELSE sum[n - 1] + f[n]

LEMMA TotalsExist ==
  ASSUME NEW f
  PROVE  \A n \in Nat : \E s : s = [k \in 0..n |-> AddStep(f, s, k)]
<1> DEFINE Fits(n, s) == s = [k \in 0..n |-> AddStep(f, s, k)]
           T == {n \in Nat : \E s : Fits(n, s)}
<1>1. 0 \in T
  <2> DEFINE s == [k \in 0..0 |-> 0]
  <2>1. \A k \in 0..0 : AddStep(f, s, k) = 0
    BY DEF AddStep
  <2>2. Fits(0, s)
    BY <2>1
  <2> QED BY <2>2
<1>2. ASSUME NEW n \in Nat, n \in T PROVE n + 1 \in T
  <2>1. PICK s : Fits(n, s)
    BY <1>2
  <2> DEFINE d == [k \in 0..(n + 1) |-> IF k <= n THEN s[k] ELSE AddStep(f, s, k)]
  <2>2. ASSUME NEW k \in 0..(n + 1) PROVE d[k] = AddStep(f, d, k)
    <3>1. k = 0 \/ (k - 1 \in 0..n /\ d[k - 1] = s[k - 1])
      BY <1>2, <2>2
    <3>2. AddStep(f, d, k) = AddStep(f, s, k)
      BY <3>1 DEF AddStep
    <3>3. k <= n => s[k] = AddStep(f, s, k)
      BY <1>2, <2>1, <2>2
    <3> QED BY <2>2, <3>2, <3>3
  <2>3. Fits(n + 1, d)
    BY <2>2
  <2> HIDE DEF d, Fits
  <2> QED BY <1>2, <2>3
<1> HIDE DEF T
<1>3. \A n \in Nat : n \in T
  BY <1>1, <1>2, Induction
<1> QED BY <1>3 DEF T

LEMMA TotalSteps ==
  ASSUME NEW f, NEW last \in Nat
  PROVE  \E s : /\ Total(f, last) = s[last] /\ s[0] = 0
                /\ \A n \in 0..last : n + 1 <= last => s[n + 1] = s[n] + f[n + 1]
<1> DEFINE s == CHOOSE t : t = [k \in 0..last |-> AddStep(f, t, k)]
<1>1. Total(f, last) = s[last]
  BY DEF Total, AddStep
<1>2. s = [k \in 0..last |-> AddStep(f, s, k)]
  <2>1. \E t : t = [k \in 0..last |-> AddStep(f, t, k)]
    BY TotalsExist
  <2> QED BY <2>1
<1> HIDE DEF s
<1>3. s[0] = 0
  BY <1>2 DEF AddStep
<1>4. ASSUME NEW n \in 0..last, n + 1 <= last PROVE s[n + 1] = s[n] + f[n + 1]
  <2>1. n + 1 \in 0..last /\ n + 1 # 0 /\ (n + 1) - 1 = n
    BY <1>4
  <2>2. s[n + 1] = AddStep(f, s, n + 1)
    BY <1>2, <2>1
  <2> QED BY <2>1, <2>2 DEF AddStep
<1> QED BY <1>1, <1>3, <1>4

LEMMA TotalType ==
  ASSUME NEW last \in Nat, NEW f, \A k \in 1..last : f[k] \in Nat
  PROVE  /\ Total(f, last) \in Nat
         /\ (\A k \in 1..last : f[k] = 0) => Total(f, last) = 0
<1>1. PICK s : /\ Total(f, last) = s[last] /\ s[0] = 0
               /\ \A n \in 0..last : n + 1 <= last => s[n + 1] = s[n] + f[n + 1]
  BY TotalSteps
<1> DEFINE zeros == \A k \in 1..last : f[k] = 0
           T == {n \in Nat : n <= last => s[n] \in Nat /\ (zeros => s[n] = 0)}
<1>2. 0 \in T
  BY <1>1
<1>3. ASSUME NEW n \in Nat, n \in T PROVE n + 1 \in T
  <2> SUFFICES ASSUME n + 1 <= last PROVE s[n + 1] \in Nat /\ (zeros => s[n + 1] = 0)
    OBVIOUS
  <2>1. n \in 0..last /\ n + 1 \in 1..last /\ s[n] \in Nat /\ (zeros => s[n] = 0)
    BY <1>3
  <2>2. s[n + 1] = s[n] + f[n + 1] /\ f[n + 1] \in Nat /\ (zeros => f[n + 1] = 0)
    BY <1>1, <2>1
  <2> HIDE DEF zeros
  <2> QED BY <2>1, <2>2
<1> HIDE DEF T
<1>4. \A n \in Nat : n \in T
  BY <1>2, <1>3, Induction
<1> QED BY <1>1, <1>4 DEF T

LEMMA TotalDrops ==
  ASSUME NEW last \in Nat, NEW f, NEW g, NEW i \in 1..last,
         \A k \in 1..last : f[k] \in Nat /\ g[k] \in Nat,
         g[i] < f[i], \A k \in 1..last : k # i => g[k] = f[k]
  PROVE  Total(g, last) < Total(f, last)
<1>1. PICK s : /\ Total(f, last) = s[last] /\ s[0] = 0
               /\ \A n \in 0..last : n + 1 <= last => s[n + 1] = s[n] + f[n + 1]
  BY TotalSteps
<1>2. PICK t : /\ Total(g, last) = t[last] /\ t[0] = 0
               /\ \A n \in 0..last : n + 1 <= last => t[n + 1] = t[n] + g[n + 1]
  BY TotalSteps
<1> DEFINE After(n) == /\ s[n] \in Nat /\ t[n] \in Nat
                       /\ n < i => t[n] = s[n]
                       /\ n >= i => t[n] < s[n]
           T == {n \in Nat : n <= last => After(n)}
<1>3. 0 \in T
  BY <1>1, <1>2
<1>4. ASSUME NEW n \in Nat, n \in T PROVE n + 1 \in T
  <2> SUFFICES ASSUME n + 1 <= last PROVE After(n + 1)
    OBVIOUS
  <2>1. n \in 0..last /\ n + 1 \in 1..last /\ After(n)
    BY <1>4
  <2>2. /\ s[n + 1] = s[n] + f[n + 1] /\ t[n + 1] = t[n] + g[n + 1]
        /\ f[n + 1] \in Nat /\ g[n + 1] \in Nat
        /\ n + 1 = i => g[n + 1] < f[n + 1]
        /\ n + 1 # i => g[n + 1] = f[n + 1]
    BY <1>1, <1>2, <2>1
  <2>3. s[n + 1] \in Nat /\ t[n + 1] \in Nat
    BY <2>1, <2>2
  <2>4. CASE n + 1 < i
    BY <2>1, <2>2, <2>3, <2>4
  <2>5. CASE n + 1 = i
    BY <2>1, <2>2, <2>3, <2>5
  <2>6. CASE n + 1 > i
    BY <2>1, <2>2, <2>3, <2>6
  <2> QED BY <2>4, <2>5, <2>6
<1> HIDE DEF T
<1>5. \A n \in Nat : n \in T
  BY <1>3, <1>4, Induction
<1> QED BY <1>1, <1>2, <1>5 DEF T

(* Prompts.                                                                 *)
Sizes == [raw : Nat, written : Nat]

Payloads(prompt) ==
  {p \in [kept : [DOMAIN prompt.texts -> Nat], truncated : BOOLEAN] :
     \A i \in DOMAIN prompt.texts : p.kept[i] <= Len(prompt.texts[i])}

LEMMA FirstType ==
  ASSUME NEW text \in Text, NEW n \in 0..Len(text)
  PROVE  /\ Len(text) \in Nat
         /\ First(text, n) \in Sizes
         /\ First(text, n).raw = 0 <=> n = 0
         /\ n = 0 => First(text, n).written = 0
<1>1. text \in Seq([raw : Nat \ {0}, written : Nat])
  BY DEF Text
<1>2. CASE n = 0
  BY <1>1, <1>2 DEF First, Nothing, Sizes
<1>3. CASE n # 0
  <2> DEFINE S == [raw : Nat \ {0}, written : Nat]
  <2>1. n \in 1..Len(text) /\ text \in Seq(S)
    BY <1>1, <1>3
  <2> HIDE DEF S
  <2>2. text[n] \in S
    BY <2>1
  <2> QED BY <1>1, <1>3, <2>2 DEF First, Sizes, S
<1> QED BY <1>2, <1>3

LEMMA PromptType ==
  ASSUME NEW prompt \in Prompt
  PROVE  /\ prompt.metadata \in Nat \ {0} /\ prompt.tells \in BOOLEAN
         /\ Len(prompt.texts) \in Nat \ {0}
         /\ DOMAIN prompt.texts = 1..Len(prompt.texts)
         /\ \A i \in DOMAIN prompt.texts : prompt.texts[i] \in Text /\ Len(prompt.texts[i]) \in Nat
<1>1. /\ prompt.metadata \in Nat \ {0} /\ prompt.tells \in BOOLEAN
      /\ prompt.texts \in Seq(Text) /\ prompt.texts # <<>>
  BY DEF Prompt
<1>2. \A i \in DOMAIN prompt.texts : prompt.texts[i] \in Text
  BY <1>1
<1>3. \A text \in Text : Len(text) \in Nat
  BY DEF Text
<1> QED BY <1>1, <1>2, <1>3

LEMMA WholeType ==
  ASSUME NEW prompt \in Prompt
  PROVE  Whole(prompt) \in Payloads(prompt) /\ ~Whole(prompt).truncated
  BY PromptType DEF Whole, Payloads

LEMMA RemainingType ==
  ASSUME NEW prompt \in Prompt, NEW p \in Payloads(prompt), NEW i \in DOMAIN prompt.texts
  PROVE  /\ Remaining(prompt, p, i).raw \in Nat /\ Remaining(prompt, p, i).written \in Nat
         /\ Remaining(prompt, p, i).raw = 0 <=> p.kept[i] = 0
         /\ p.kept[i] = 0 => Remaining(prompt, p, i).written = 0
<1>1. prompt.texts[i] \in Text /\ p.kept[i] \in 0..Len(prompt.texts[i])
  BY PromptType DEF Payloads
<1> QED BY <1>1, FirstType DEF Remaining, Sizes

LEMMA FixedType ==
  ASSUME NEW prompt \in Prompt, NEW truncated \in BOOLEAN
  PROVE  /\ Fixed(prompt, truncated) \in Nat
         /\ Fixed(prompt, TRUE) <= Fixed(prompt, truncated)
  BY PromptType DEF Fixed

LEMMA BytesType ==
  ASSUME NEW prompt \in Prompt, NEW p \in Payloads(prompt)
  PROVE  /\ p.truncated \in BOOLEAN
         /\ Bytes(prompt, p) \in Nat /\ Bytes(prompt, p) >= Fixed(prompt, p.truncated)
         /\ (\A i \in DOMAIN prompt.texts : p.kept[i] = 0) =>
              Bytes(prompt, p) = Fixed(prompt, p.truncated)
<1> DEFINE f == [i \in DOMAIN prompt.texts |-> Remaining(prompt, p, i).written]
           last == Len(prompt.texts)
           total == Total(f, last)
           fixed == Fixed(prompt, p.truncated)
<1>1. last \in Nat /\ DOMAIN prompt.texts = 1..last
  BY PromptType
<1>2. \A k \in 1..last : f[k] \in Nat /\ (p.kept[k] = 0 => f[k] = 0)
  BY <1>1, RemainingType
<1> HIDE DEF f, last
<1>3. total \in Nat /\ ((\A k \in 1..last : f[k] = 0) => total = 0)
  BY <1>1, <1>2, TotalType
<1>4. Bytes(prompt, p) = fixed + total
  BY DEF Bytes, f, last
<1>5. p.truncated \in BOOLEAN
  BY DEF Payloads
<1>6. fixed \in Nat
  BY <1>5, FixedType
<1> HIDE DEF total, fixed
<1>7. (\A i \in DOMAIN prompt.texts : p.kept[i] = 0) => total = 0
  BY <1>1, <1>2, <1>3
<1>8. Bytes(prompt, p) \in Nat /\ Bytes(prompt, p) >= fixed /\ (total = 0 => Bytes(prompt, p) = fixed)
  BY <1>3, <1>4, <1>6
<1> QED BY <1>5, <1>7, <1>8 DEF fixed

(* There is a largest text. *)
LEMMA LargestIs ==
  ASSUME NEW prompt \in Prompt, NEW p \in Payloads(prompt)
  PROVE  /\ Largest(prompt, p) \in DOMAIN prompt.texts
         /\ \A j \in DOMAIN prompt.texts :
              Remaining(prompt, p, j).raw <= Remaining(prompt, p, Largest(prompt, p)).raw
<1> DEFINE raw(i) == Remaining(prompt, p, i).raw
           last == Len(prompt.texts)
           T == {n \in Nat : n + 1 <= last =>
                   \E i \in 1..(n + 1) : \A j \in 1..(n + 1) : raw(j) <= raw(i)}
           S == {i \in DOMAIN prompt.texts : \A j \in DOMAIN prompt.texts : raw(j) <= raw(i)}
<1>1. last \in Nat \ {0} /\ DOMAIN prompt.texts = 1..last
  BY PromptType
<1>2. \A i \in 1..last : raw(i) \in Nat
  BY <1>1, RemainingType
<1> HIDE DEF raw, last
<1>3. 0 \in T
  <2>1. 0 + 1 \in 1..(0 + 1) /\ \A j \in 1..(0 + 1) : j = 0 + 1
    OBVIOUS
  <2>2. 1 \in 1..last
    BY <1>1
  <2> QED BY <1>2, <2>1, <2>2
<1>4. ASSUME NEW n \in Nat, n \in T PROVE n + 1 \in T
  <2> SUFFICES ASSUME n + 1 + 1 <= last
               PROVE  \E i \in 1..(n + 1 + 1) : \A j \in 1..(n + 1 + 1) : raw(j) <= raw(i)
    OBVIOUS
  <2>1. PICK i \in 1..(n + 1) : \A j \in 1..(n + 1) : raw(j) <= raw(i)
    BY <1>1, <1>4
  <2>2. /\ i \in 1..last /\ n + 1 + 1 \in 1..last
        /\ \A j \in 1..(n + 1 + 1) : j \in 1..last /\ (j \in 1..(n + 1) \/ j = n + 1 + 1)
    BY <1>1, <1>4, <2>1
  <2>3. CASE raw(n + 1 + 1) <= raw(i)
    BY <2>1, <2>2, <2>3
  <2>4. CASE ~(raw(n + 1 + 1) <= raw(i))
    <3>1. \A j \in 1..(n + 1 + 1) : raw(j) <= raw(n + 1 + 1)
      BY <1>2, <2>1, <2>2, <2>4
    <3> QED BY <1>4, <3>1
  <2> QED BY <2>3, <2>4
<1> HIDE DEF T
<1>5. \A n \in Nat : n \in T
  BY <1>3, <1>4, Induction
<1>6. S # {}
  <2>1. last - 1 \in T /\ last - 1 + 1 = last
    BY <1>1, <1>5
  <2> QED BY <1>1, <2>1 DEF T
<1>7. Largest(prompt, p) = Min(S)
  BY DEF Largest, raw
<1>8. S \in SUBSET Nat
  BY <1>1
<1>9. Min(S) \in S
  BY <1>6, <1>8, MinIn
<1> QED BY <1>7, <1>9 DEF raw

(* A cut makes the largest text shorter, and no other one.                   *)
Measure(prompt, p) == Total(p.kept, Len(prompt.texts))

LEMMA SlicedIs ==
  ASSUME NEW text \in Text, NEW n \in 0..Len(text), NEW room \in Nat
  PROVE  Sliced(text, n, room) \in 0..n /\ First(text, Sliced(text, n, room)).raw <= room
<1> DEFINE S == {m \in 0..n : First(text, m).raw <= room}
<1>1. Len(text) \in Nat /\ First(text, 0).raw = 0
  BY FirstType
<1>2. 0 \in S
  BY <1>1
<1>3. S \in SUBSET Nat /\ n \in Nat /\ \A x \in S : x <= n
  BY <1>1
<1>4. Sliced(text, n, room) = Max(S)
  BY DEF Sliced
<1> HIDE DEF S
<1>5. Max(S) \in S
  BY <1>2, <1>3, MaxIn
<1> QED BY <1>4, <1>5 DEF S

LEMMA CutLoses ==
  ASSUME NEW prompt \in Prompt, NEW p \in Payloads(prompt), NEW excess \in Nat \ {0},
         ~Stuck(prompt, p)
  PROVE  LET q == CutOnce(prompt, p, excess) IN
         /\ q \in Payloads(prompt) /\ q.truncated
         /\ Measure(prompt, q) < Measure(prompt, p)
<1> DEFINE q == CutOnce(prompt, p, excess)
           i == Largest(prompt, p)
           size == Remaining(prompt, p, i).raw
           less == Max({excess, Quarter(size)})
           room == Max({0, size - less})
           n == Sliced(prompt.texts[i], p.kept[i], room)
<1>1. i \in DOMAIN prompt.texts
  BY LargestIs
<1>2. size \in Nat \ {0}
  BY <1>1, RemainingType DEF Stuck
<1>3. less \in Nat \ {0}
  <2>1. Quarter(size) \in Nat
    BY <1>2 DEF Quarter
  <2>2. less = IF excess <= Quarter(size) THEN Quarter(size) ELSE excess
    BY <2>1, Larger
  <2> HIDE DEF less, size
  <2> QED BY <2>1, <2>2
<1>4. room \in Nat /\ room < size
  <2>1. room = IF 0 <= size - less THEN size - less ELSE 0
    BY <1>2, <1>3, Larger
  <2> HIDE DEF room, less, size
  <2> QED BY <1>2, <1>3, <2>1
<1>5. prompt.texts[i] \in Text /\ p.kept[i] \in 0..Len(prompt.texts[i])
  BY <1>1, PromptType DEF Payloads
<1> HIDE DEF room, less
<1>6. n \in 0..p.kept[i] /\ First(prompt.texts[i], n).raw <= room
  BY <1>4, <1>5, SlicedIs
<1>7. n < p.kept[i]
  <2>1. size = First(prompt.texts[i], p.kept[i]).raw
    BY DEF Remaining
  <2>2. n # p.kept[i]
    <3>1. First(prompt.texts[i], n).raw <= room /\ room < size /\ room \in Nat /\ size \in Nat
      BY <1>2, <1>4, <1>6
    <3> QED BY <2>1, <3>1
  <2>3. p.kept[i] \in Nat
    BY <1>1 DEF Payloads
  <2> HIDE DEF n
  <2> QED BY <1>6, <2>2, <2>3
<1>8. q.kept = [p.kept EXCEPT ![i] = n] /\ q.truncated = TRUE
  BY DEF CutOnce, room, less
<1>9. q = [kept |-> q.kept, truncated |-> q.truncated]
  BY DEF CutOnce
<1> HIDE DEF n, size, i, q
<1>10. /\ p.kept \in [DOMAIN prompt.texts -> Nat]
       /\ \A k \in DOMAIN prompt.texts : p.kept[k] <= Len(prompt.texts[k])
  BY DEF Payloads
<1>11. /\ q.kept \in [DOMAIN prompt.texts -> Nat]
       /\ q.kept[i] = n
       /\ \A k \in DOMAIN prompt.texts : k # i => q.kept[k] = p.kept[k]
  BY <1>1, <1>5, <1>6, <1>8, <1>10
<1>12. q \in Payloads(prompt)
  <2>1. \A k \in DOMAIN prompt.texts : q.kept[k] <= Len(prompt.texts[k])
    <3> SUFFICES ASSUME NEW k \in DOMAIN prompt.texts PROVE q.kept[k] <= Len(prompt.texts[k])
      OBVIOUS
    <3>1. CASE k # i
      BY <1>10, <1>11, <3>1
    <3>2. CASE k = i
      <4>1. /\ n \in Nat /\ p.kept[i] \in Nat /\ Len(prompt.texts[i]) \in Nat
            /\ p.kept[i] <= Len(prompt.texts[i])
        BY <1>1, <1>6, <1>10, PromptType
      <4> QED BY <1>7, <1>11, <3>2, <4>1
    <3> QED BY <3>1, <3>2
  <2>2. q \in [kept : [DOMAIN prompt.texts -> Nat], truncated : BOOLEAN]
    BY <1>8, <1>9, <1>11
  <2> QED BY <2>1, <2>2 DEF Payloads
<1>13. Measure(prompt, q) < Measure(prompt, p)
  <2>1. Len(prompt.texts) \in Nat /\ DOMAIN prompt.texts = 1..Len(prompt.texts)
    BY PromptType
  <2> QED BY <1>1, <1>7, <1>10, <1>11, <2>1, TotalDrops DEF Measure
<1> QED BY <1>8, <1>12, <1>13 DEF q

(* The rounds of the loop.                                                  *)
CutStep(prompt, room, cut, n) ==
  IF n = 0 THEN Whole(prompt) ELSE CutAgain(prompt, cut[n - 1], room)

RoundsAllowed(prompt) == Measure(prompt, Whole(prompt))

LEMMA CutsExist ==
  ASSUME NEW prompt, NEW room
  PROVE  \A n \in Nat : \E c : c = [k \in 0..n |-> CutStep(prompt, room, c, k)]
<1> DEFINE Fits(n, c) == c = [k \in 0..n |-> CutStep(prompt, room, c, k)]
           T == {n \in Nat : \E c : Fits(n, c)}
<1>1. 0 \in T
  <2> DEFINE c == [k \in 0..0 |-> Whole(prompt)]
  <2>1. \A k \in 0..0 : CutStep(prompt, room, c, k) = Whole(prompt)
    BY DEF CutStep
  <2>2. Fits(0, c)
    BY <2>1
  <2> QED BY <2>2
<1>2. ASSUME NEW n \in Nat, n \in T PROVE n + 1 \in T
  <2>1. PICK c : Fits(n, c)
    BY <1>2
  <2> DEFINE d == [k \in 0..(n + 1) |-> IF k <= n THEN c[k] ELSE CutStep(prompt, room, c, k)]
  <2>2. ASSUME NEW k \in 0..(n + 1) PROVE d[k] = CutStep(prompt, room, d, k)
    <3>1. k = 0 \/ (k - 1 \in 0..n /\ d[k - 1] = c[k - 1])
      BY <1>2, <2>2
    <3>2. CutStep(prompt, room, d, k) = CutStep(prompt, room, c, k)
      BY <3>1 DEF CutStep
    <3>3. k <= n => c[k] = CutStep(prompt, room, c, k)
      BY <1>2, <2>1, <2>2
    <3> QED BY <2>2, <3>2, <3>3
  <2>3. Fits(n + 1, d)
    BY <2>2
  <2> HIDE DEF d, Fits
  <2> QED BY <1>2, <2>3
<1> HIDE DEF T
<1>3. \A n \in Nat : n \in T
  BY <1>1, <1>2, Induction
<1> QED BY <1>3 DEF T

LEMMA RoundsType ==
  ASSUME NEW prompt \in Prompt
  PROVE  /\ RoundsAllowed(prompt) \in Nat
         /\ \A p \in Payloads(prompt) : Measure(prompt, p) \in Nat
<1> SUFFICES ASSUME NEW p \in Payloads(prompt) PROVE Measure(prompt, p) \in Nat
  BY WholeType DEF RoundsAllowed
<1> DEFINE f == p.kept
           last == Len(prompt.texts)
<1>1. last \in Nat /\ DOMAIN prompt.texts = 1..last
  BY PromptType
<1>2. \A k \in 1..last : f[k] \in Nat
  BY <1>1 DEF Payloads
<1> HIDE DEF f, last
<1>3. Total(f, last) \in Nat
  BY <1>1, <1>2, TotalType
<1> QED BY <1>3 DEF Measure, f, last

LEMMA CutsAreSteps ==
  ASSUME NEW prompt \in Prompt, NEW room \in Nat
  PROVE  /\ DOMAIN Cuts(prompt, room) = 0..RoundsAllowed(prompt)
         /\ Cuts(prompt, room)[0] = Whole(prompt)
         /\ \A n \in 0..RoundsAllowed(prompt) : n + 1 <= RoundsAllowed(prompt) =>
              Cuts(prompt, room)[n + 1] = CutAgain(prompt, Cuts(prompt, room)[n], room)
<1> DEFINE last == RoundsAllowed(prompt)
           cut == CHOOSE c : c = [n \in 0..last |-> CutStep(prompt, room, c, n)]
<1>1. Cuts(prompt, room) = cut
  BY DEF Cuts, CutStep, RoundsAllowed, Measure
<1>2. last \in Nat
  BY RoundsType
<1>3. cut = [n \in 0..last |-> CutStep(prompt, room, cut, n)]
  <2>1. \E c : c = [n \in 0..last |-> CutStep(prompt, room, c, n)]
    BY <1>2, CutsExist
  <2> QED BY <2>1
<1> HIDE DEF cut, last
<1>4. cut[0] = Whole(prompt)
  BY <1>2, <1>3 DEF CutStep
<1>5. ASSUME NEW n \in 0..last, n + 1 <= last PROVE cut[n + 1] = CutAgain(prompt, cut[n], room)
  <2>1. n + 1 \in 0..last /\ n + 1 # 0 /\ (n + 1) - 1 = n
    BY <1>2, <1>5
  <2>2. cut[n + 1] = CutStep(prompt, room, cut, n + 1)
    BY <1>3, <2>1
  <2> QED BY <2>1, <2>2 DEF CutStep
<1> QED BY <1>1, <1>3, <1>4, <1>5 DEF last

(* A prompt is stuck if nothing of its texts remains.                        *)
LEMMA StuckIsEmpty ==
  ASSUME NEW prompt \in Prompt, NEW p \in Payloads(prompt)
  PROVE  Stuck(prompt, p) <=> \A i \in DOMAIN prompt.texts : p.kept[i] = 0
<1> DEFINE raw(i) == Remaining(prompt, p, i).raw
           l == Largest(prompt, p)
<1>1. l \in DOMAIN prompt.texts /\ \A j \in DOMAIN prompt.texts : raw(j) <= raw(l)
  BY LargestIs
<1>2. \A j \in DOMAIN prompt.texts : raw(j) \in Nat /\ (raw(j) = 0 <=> p.kept[j] = 0)
  BY RemainingType
<1>3. Stuck(prompt, p) <=> raw(l) = 0
  BY DEF Stuck
<1> HIDE DEF raw, l
<1> QED BY <1>1, <1>2, <1>3

LEMMA NothingIsStuck ==
  ASSUME NEW prompt \in Prompt, NEW p \in Payloads(prompt), Measure(prompt, p) = 0
  PROVE  Stuck(prompt, p)
<1> SUFFICES ASSUME ~Stuck(prompt, p) PROVE FALSE
  OBVIOUS
<1> DEFINE q == CutOnce(prompt, p, 1)
<1>1. q \in Payloads(prompt) /\ Measure(prompt, q) < Measure(prompt, p)
  BY CutLoses
<1>2. Measure(prompt, q) \in Nat
  BY <1>1, RoundsType
<1> QED BY <1>1, <1>2

(* After n rounds a prompt fits, or nothing is left to cut, or n characters are *)
(* gone.                                                                    *)
LEMMA RoundsAdvance ==
  ASSUME NEW prompt \in Prompt, NEW room \in Nat
  PROVE  \A n \in 0..RoundsAllowed(prompt) :
           LET p == Cuts(prompt, room)[n] IN
           /\ p \in Payloads(prompt)
           /\ p.truncated \/ p = Whole(prompt)
           /\ \/ Bytes(prompt, p) <= room
              \/ Stuck(prompt, p)
              \/ Measure(prompt, p) + n <= RoundsAllowed(prompt)
<1> DEFINE cut == Cuts(prompt, room)
           last == RoundsAllowed(prompt)
           Advanced(p, n) ==
             /\ p \in Payloads(prompt)
             /\ p.truncated \/ p = Whole(prompt)
             /\ \/ Bytes(prompt, p) <= room
                \/ Stuck(prompt, p)
                \/ Measure(prompt, p) + n <= last
           T == {n \in Nat : n <= last => Advanced(cut[n], n)}
<1>1. last \in Nat
  BY RoundsType
<1>2. /\ cut[0] = Whole(prompt)
      /\ \A n \in 0..last : n + 1 <= last => cut[n + 1] = CutAgain(prompt, cut[n], room)
  BY CutsAreSteps
<1>3. 0 \in T
  <2>1. Measure(prompt, cut[0]) + 0 <= last
    BY <1>1, <1>2 DEF RoundsAllowed
  <2>2. cut[0] \in Payloads(prompt)
    BY <1>2, WholeType
  <2> QED BY <1>2, <2>1, <2>2
<1> HIDE DEF cut, last
<1>4. ASSUME NEW n \in Nat, n \in T PROVE n + 1 \in T
  <2> SUFFICES ASSUME n + 1 <= last PROVE Advanced(cut[n + 1], n + 1)
    OBVIOUS
  <2>1. n \in 0..last /\ Advanced(cut[n], n)
    BY <1>1, <1>4
  <2>2. cut[n + 1] = CutAgain(prompt, cut[n], room)
    BY <1>2, <2>1
  <2>3. Bytes(prompt, cut[n]) \in Nat /\ Measure(prompt, cut[n]) \in Nat
    BY <2>1, BytesType, RoundsType
  <2>4. CASE Bytes(prompt, cut[n]) <= room \/ Stuck(prompt, cut[n])
    <3>1. cut[n + 1] = cut[n]
      BY <2>2, <2>4 DEF CutAgain
    <3> QED BY <2>1, <2>4, <3>1
  <2>5. CASE ~(Bytes(prompt, cut[n]) <= room) /\ ~Stuck(prompt, cut[n])
    <3> DEFINE excess == Bytes(prompt, cut[n]) - room
    <3>1. cut[n + 1] = CutOnce(prompt, cut[n], excess)
      BY <2>2, <2>5 DEF CutAgain
    <3>2. excess \in Nat \ {0}
      BY <2>3, <2>5
    <3> HIDE DEF excess
    <3>3. /\ cut[n + 1] \in Payloads(prompt) /\ cut[n + 1].truncated
          /\ Measure(prompt, cut[n + 1]) < Measure(prompt, cut[n])
      BY <2>1, <2>5, <3>1, <3>2, CutLoses
    <3>4. Measure(prompt, cut[n + 1]) \in Nat
      BY <3>3, RoundsType
    <3>5. Measure(prompt, cut[n]) + n <= last
      BY <2>1, <2>5
    <3>6. Measure(prompt, cut[n + 1]) + (n + 1) <= last
      BY <1>1, <2>3, <3>3, <3>4, <3>5
    <3> QED BY <3>3, <3>6
  <2> QED BY <2>4, <2>5
<1> HIDE DEF T
<1>5. \A n \in Nat : n \in T
  BY <1>3, <1>4, Induction
<1>6. \A n \in 0..last : Advanced(cut[n], n)
  BY <1>1, <1>5 DEF T
<1> QED BY <1>6 DEF cut, last

(* serializeWithinBudget: a prompt is cut only if it must be, the rounds end,   *)
(* and it is refused only if what cannot be cut is too much or nothing else     *)
(* is there.                                                                *)
THEOREM PackingIsExact ==
  ASSUME NEW prompt \in Prompt, NEW room \in Nat
  PROVE  Packing(prompt, room) =
           IF Bytes(prompt, Whole(prompt)) <= room THEN "whole"
           ELSE IF /\ Fixed(prompt, TRUE) <= room
                   /\ \E i \in DOMAIN prompt.texts : prompt.texts[i] # <<>>
           THEN "cut"
           ELSE "refused"
<1> DEFINE cut == Cuts(prompt, room)
           last == RoundsAllowed(prompt)
           whole == Whole(prompt)
           bytes(p) == Bytes(prompt, p)
           least == Fixed(prompt, TRUE)
           some == \E i \in DOMAIN prompt.texts : prompt.texts[i] # <<>>
           fits == \E n \in DOMAIN cut : bytes(cut[n]) <= room
<1>1. last \in Nat /\ least \in Nat
  BY FixedType, RoundsType
<1>2. DOMAIN cut = 0..last /\ cut[0] = whole
  BY CutsAreSteps
<1>3. whole \in Payloads(prompt) /\ ~whole.truncated
  BY WholeType
<1>4. \A n \in 0..last :
        /\ cut[n] \in Payloads(prompt)
        /\ cut[n].truncated \/ cut[n] = whole
        /\ bytes(cut[n]) <= room \/ Stuck(prompt, cut[n])
             \/ Measure(prompt, cut[n]) + n <= last
  BY RoundsAdvance
<1>5. \A p \in Payloads(prompt) :
        /\ bytes(p) \in Nat /\ bytes(p) >= least
        /\ Stuck(prompt, p) /\ p.truncated => bytes(p) = least
  <2> SUFFICES ASSUME NEW p \in Payloads(prompt)
               PROVE  /\ bytes(p) \in Nat /\ bytes(p) >= least
                      /\ Stuck(prompt, p) /\ p.truncated => bytes(p) = least
    OBVIOUS
  <2>1. p.truncated \in BOOLEAN /\ bytes(p) \in Nat /\ bytes(p) >= Fixed(prompt, p.truncated)
    BY BytesType
  <2>2. Fixed(prompt, p.truncated) \in Nat /\ least <= Fixed(prompt, p.truncated)
    BY <2>1, FixedType
  <2>3. Stuck(prompt, p) => bytes(p) = Fixed(prompt, p.truncated)
    BY BytesType, StuckIsEmpty
  <2>4. p.truncated => Fixed(prompt, p.truncated) = least
    BY <2>1
  <2> HIDE DEF bytes, least
  <2>5. bytes(p) >= least
    BY <1>1, <2>1, <2>2
  <2> QED BY <2>1, <2>3, <2>4, <2>5
<1>6. some <=> ~Stuck(prompt, whole)
  <2>1. \A i \in DOMAIN prompt.texts : whole.kept[i] = 0 <=> prompt.texts[i] = <<>>
    <3>1. \A i \in DOMAIN prompt.texts : whole.kept[i] = Len(prompt.texts[i])
      BY DEF Whole
    <3>2. \A text \in Text : Len(text) = 0 <=> text = <<>>
      BY DEF Text
    <3> QED BY <3>1, <3>2, PromptType
  <2> QED BY <1>3, <2>1, StuckIsEmpty
<1> HIDE DEF cut, last, whole, bytes, some, least
<1>7. fits <=> bytes(whole) <= room \/ (least <= room /\ some)
  <2>1. CASE bytes(whole) <= room
    BY <1>1, <1>2, <2>1
  <2>2. CASE ~(bytes(whole) <= room) /\ ~(least <= room)
    BY <1>1, <1>2, <1>4, <1>5, <2>2
  <2>3. CASE ~(bytes(whole) <= room) /\ ~some
    <3>1. \A n \in 0..last : cut[n] = whole
      <4> DEFINE T == {n \in Nat : n <= last => cut[n] = whole}
      <4>1. 0 \in T
        BY <1>2
      <4>2. ASSUME NEW n \in Nat, n \in T PROVE n + 1 \in T
        <5> SUFFICES ASSUME n + 1 <= last PROVE cut[n + 1] = whole
          OBVIOUS
        <5>1. n \in 0..last /\ cut[n] = whole
          BY <1>1, <4>2
        <5>2. cut[n + 1] = CutAgain(prompt, cut[n], room)
          BY <5>1, CutsAreSteps DEF cut, last
        <5> QED BY <1>6, <2>3, <5>1, <5>2 DEF CutAgain
      <4> HIDE DEF T
      <4>3. \A n \in Nat : n \in T
        BY <4>1, <4>2, Induction
      <4> QED BY <1>1, <4>3 DEF T
    <3> QED BY <1>2, <2>3, <3>1
  <2>4. CASE ~(bytes(whole) <= room) /\ some /\ least <= room
    <3>1. last \in 0..last
      BY <1>1
    <3>2. cut[last] \in Payloads(prompt) /\ Measure(prompt, cut[last]) \in Nat
      BY <1>4, <3>1, RoundsType
    <3>3. bytes(cut[last]) <= room \/ Stuck(prompt, cut[last])
      <4> SUFFICES ASSUME Measure(prompt, cut[last]) + last <= last, ~Stuck(prompt, cut[last])
                   PROVE  FALSE
        BY <1>4, <3>1
      <4>1. Measure(prompt, cut[last]) = 0
        BY <1>1, <3>2
      <4> QED BY <3>2, <4>1, NothingIsStuck
    <3>4. Stuck(prompt, cut[last]) => bytes(cut[last]) <= room
      <4> SUFFICES ASSUME Stuck(prompt, cut[last]) PROVE bytes(cut[last]) <= room
        OBVIOUS
      <4>1. cut[last].truncated
        BY <1>4, <1>6, <2>4, <3>1
      <4> QED BY <1>1, <1>5, <2>4, <3>2, <4>1
    <3> QED BY <1>2, <2>4, <3>1, <3>3, <3>4
  <2> QED BY <2>1, <2>2, <2>3, <2>4
<1>8. Packing(prompt, room) =
        IF bytes(whole) <= room THEN "whole" ELSE IF fits THEN "cut" ELSE "refused"
  BY DEF Packing, cut, whole, bytes
<1> HIDE DEF fits
<1> QED BY <1>7, <1>8 DEF bytes, whole, some, least

(* A configuration has finitely many commands, and so has its budget.          *)
LEMMA AttemptsType ==
  ASSUME NEW commands \in SUBSET Command, IsFiniteSet(commands), NEW asked
  PROVE  Cardinality(Regressions(commands, asked)) \in Nat
<1> DEFINE S == {d \in commands : d.required /\ d.digest # asked}
           f == [c \in S |-> c.digest]
<1>1. IsFiniteSet(S)
  BY FS_Subset
<1>2. f \in Surjection(S, Regressions(commands, asked))
  BY DEF Surjection, Regressions
<1>3. IsFiniteSet(Regressions(commands, asked))
  BY <1>1, <1>2, FS_Surjection
<1> QED BY <1>3, FS_CardinalityType

(* What PlanningBudget allows is what Limited asks for, and no less than the    *)
(* minimums.                                                                *)
LEMMA OwnBudget ==
  ASSUME NEW config \in Config, NEW attempts \in Nat, attempts >= 1
  PROVE  LET limits == Limited(config)
             total == Least(limits.timeout * attempts, MaxDuration)
         IN /\ limits.timeout \in Nat /\ limits.output \in Nat /\ limits.writable \in Nat
            /\ MinTimeout <= limits.timeout /\ limits.timeout <= MaxTimeout
            /\ MinOutput <= limits.output /\ limits.output <= MaxOutput
            /\ MinWritable <= limits.writable /\ limits.writable <= MaxWritable
            /\ limits.timeout <= total /\ MinTimeout <= total
<1> DEFINE timeout == Least(config.timeout, MaxTimeout)
           output == Least(config.output, MaxOutput)
           all == timeout * attempts
<1>1. config.timeout \in Timeouts /\ config.output \in Outputs
  BY DEF Config
<1>2. /\ config.timeout \in Nat /\ config.output \in Nat
      /\ MinTimeout <= config.timeout /\ MinOutput <= config.output
      /\ MinTimeout \in Nat /\ MaxTimeout \in Nat /\ MaxDuration \in Nat
      /\ MinOutput \in Nat /\ MaxOutput \in Nat
      /\ MinWritable \in Nat /\ Writable \in Nat /\ MaxWritable \in Nat
      /\ MinTimeout <= MaxTimeout /\ MaxTimeout <= MaxDuration /\ MinOutput <= MaxOutput
      /\ MinWritable <= Writable /\ Writable <= MaxWritable
  BY <1>1, ProofPlansAssumption
<1>3. /\ timeout \in Nat /\ MinTimeout <= timeout /\ timeout <= MaxTimeout
      /\ output \in Nat /\ MinOutput <= output /\ output <= MaxOutput
  BY <1>2 DEF Least
<1> HIDE DEF timeout, output
<1>4. all \in Nat /\ timeout <= all
  <2>1. PICK r \in Nat : attempts = 1 + r
    <3>1. attempts - 1 \in Nat /\ attempts = 1 + (attempts - 1)
      OBVIOUS
    <3> QED BY <3>1
  <2>2. timeout * attempts = timeout + timeout * r /\ timeout * r \in Nat
    BY <1>3, <2>1
  <2> HIDE DEF timeout
  <2> QED BY <1>3, <2>2
<1> HIDE DEF all
<1>5. timeout <= Least(all, MaxDuration) /\ MinTimeout <= Least(all, MaxDuration)
  BY <1>2, <1>3, <1>4 DEF Least
<1>6. /\ Limited(config).timeout = timeout /\ Limited(config).output = output
      /\ Limited(config).writable = Writable
  BY DEF Limited, timeout, output
<1> QED BY <1>2, <1>3, <1>5, <1>6 DEF all

(* bindPatchProofToRepositoryCommand: the plans made for a command of a trusted  *)
(* configuration and for its regressions are never refused for their limits,      *)
(* digests or budget, whatever times and outputs are configured and however      *)
(* many commands there are.                                                 *)
THEOREM OwnPlanIsAdmitted ==
  ASSUME NEW config \in Config, IsFiniteSet(config.commands),
         NEW asked \in Digests, NEW twoRevisions \in BOOLEAN
  PROVE  Bindable(config, asked, twoRevisions)
           <=> /\ config.trusted /\ twoRevisions
               /\ Known(config.commands, asked)
               /\ \A c \in config.commands : c.proper
<1> DEFINE authorized == Authorized(config.commands, asked)
           budget == PlanningBudget(config, asked)
           limits == Limited(config)
           attempts == 1 + Cardinality(Regressions(config.commands, asked))
<1>1. attempts \in Nat /\ attempts >= 1
  <2>1. Cardinality(Regressions(config.commands, asked)) \in Nat
    BY AttemptsType DEF Config
  <2> QED BY <2>1
<1>2. /\ limits.timeout \in Nat /\ limits.output \in Nat /\ limits.writable \in Nat
      /\ MinTimeout <= limits.timeout /\ limits.timeout <= MaxTimeout
      /\ MinOutput <= limits.output /\ limits.output <= MaxOutput
      /\ MinWritable <= limits.writable /\ limits.writable <= MaxWritable
      /\ limits.timeout <= Least(limits.timeout * attempts, MaxDuration)
      /\ MinTimeout <= Least(limits.timeout * attempts, MaxDuration)
  <2> HIDE DEF attempts
  <2> QED BY <1>1, OwnBudget
<1>3. /\ budget.attempts = attempts /\ budget.attempt = limits.timeout
      /\ budget.total = Least(limits.timeout * attempts, MaxDuration)
      /\ budget.output = limits.output /\ budget.artifacts = limits.writable
  BY DEF PlanningBudget
<1>4. ASSUME NEW digest \in authorized
      PROVE  Admissible(Bound(config, digest, twoRevisions), authorized, budget)
               <=> twoRevisions
  <2> DEFINE own == Bound(config, digest, twoRevisions)
  <2>1. /\ own.digest = digest /\ own.limits = limits /\ own.files = 0
        /\ own.matching = TRUE /\ own.twoRevisions = twoRevisions
    BY DEF Bound
  <2> HIDE DEF own, limits, budget, attempts
  <2>2. 0 <= limits.writable
    BY <1>2
  <2>3. FitsBudget(own, budget)
    <3>1. MinWritable \in Nat /\ MinOutput \in Nat /\ MinTimeout \in Nat
      BY ProofPlansAssumption
    <3> QED BY <1>1, <1>2, <1>3, <2>1, <2>2, <3>1 DEF FitsBudget
  <2>4. WellFormed(own) <=> twoRevisions
    BY <1>2, <2>1 DEF WellFormed
  <2>5. Intact(own)
    BY <2>1, <2>2 DEF Intact
  <2> QED BY <1>4, <2>1, <2>3, <2>4, <2>5 DEF Admissible, own
<1>5. asked \in authorized
  BY DEF Authorized
<1>6. Bindable(config, asked, twoRevisions)
        <=> /\ config.trusted
            /\ \A c \in config.commands : c.proper
            /\ Known(config.commands, asked)
            /\ \A digest \in authorized :
                 Admissible(Bound(config, digest, twoRevisions), authorized, budget)
  BY DEF Bindable
<1> HIDE DEF authorized, budget
<1> QED BY <1>4, <1>5, <1>6

LEMMA Smaller ==
  ASSUME NEW a \in Int, NEW b \in Int
  PROVE  Min({a, b}) \in Int
<1> DEFINE m == IF a <= b THEN a ELSE b
<1>1. m \in {a, b} /\ \A y \in {a, b} : m <= y
  OBVIOUS
<1>2. Min({a, b}) \in {a, b}
  BY <1>1 DEF Min
<1> QED
  BY <1>2

(* Sums of finite sets, by induction on the size of their subsets.           *)
SumStep(f, s) == IF s = {} THEN 0 ELSE LET x == CHOOSE y \in s : TRUE IN x + f[s \ {x}]

UpTo(S, n) == {s \in SUBSET S : Cardinality(s) <= n}

LEMMA SubsetsShrink ==
  ASSUME NEW S, IsFiniteSet(S), NEW s \in SUBSET S, s # {}, NEW n \in Nat, Cardinality(s) <= n + 1
  PROVE  LET x == CHOOSE y \in s : TRUE IN x \in s /\ s \ {x} \in UpTo(S, n)
<1> DEFINE x == CHOOSE y \in s : TRUE
<1>1. x \in s
  OBVIOUS
<1>2. IsFiniteSet(s) /\ Cardinality(s) \in Nat
  BY FS_Subset, FS_CardinalityType
<1> HIDE DEF x
<1>3. Cardinality(s \ {x}) = Cardinality(s) - 1
  BY <1>1, <1>2, FS_RemoveElement
<1>4. s \ {x} \in UpTo(S, n)
  BY <1>2, <1>3 DEF UpTo
<1> QED
  BY <1>1, <1>4 DEF x

LEMMA SumsExist ==
  ASSUME NEW S, IsFiniteSet(S)
  PROVE  \A n \in Nat : \E f : f = [s \in UpTo(S, n) |-> SumStep(f, s)]
<1> DEFINE Sums(n, f) == f = [s \in UpTo(S, n) |-> SumStep(f, s)]
           T == {n \in Nat : \E f : Sums(n, f)}
<1>0. \A s \in SUBSET S : IsFiniteSet(s) /\ Cardinality(s) \in Nat
  BY FS_Subset, FS_CardinalityType
<1>1. 0 \in T
  <2> DEFINE f == [s \in UpTo(S, 0) |-> 0]
  <2>1. ASSUME NEW s \in UpTo(S, 0) PROVE SumStep(f, s) = 0
    <3>1. s = {}
      BY <1>0, FS_EmptySet DEF UpTo
    <3> QED
      BY <3>1 DEF SumStep
  <2>2. Sums(0, f)
    BY <2>1
  <2> HIDE DEF f, Sums
  <2> QED
    BY <2>2
<1>2. ASSUME NEW n \in Nat, n \in T PROVE n + 1 \in T
  <2>1. PICK f : Sums(n, f)
    BY <1>2
  <2> DEFINE g == [s \in UpTo(S, n + 1) |-> IF Cardinality(s) <= n THEN f[s] ELSE SumStep(f, s)]
  <2>2. ASSUME NEW s \in UpTo(S, n + 1) PROVE g[s] = SumStep(g, s)
    <3> DEFINE x == CHOOSE y \in s : TRUE
    <3>1. s \in SUBSET S /\ Cardinality(s) \in Nat /\ Cardinality(s) <= n + 1
      BY <1>0 DEF UpTo
    <3>2. s # {} => s \ {x} \in UpTo(S, n)
      BY <3>1, SubsetsShrink
    <3>3. \A r \in UpTo(S, n) : r \in UpTo(S, n + 1) /\ g[r] = f[r]
      BY <1>0 DEF UpTo
    <3> HIDE DEF g
    <3>4. s # {} => g[s \ {x}] = f[s \ {x}]
      BY <3>2, <3>3
    <3> HIDE DEF x
    <3>5. SumStep(g, s) = SumStep(f, s)
      BY <3>4 DEF SumStep, x
    <3>6. Cardinality(s) <= n => f[s] = SumStep(f, s)
      BY <2>1, <3>1 DEF UpTo
    <3>7. g[s] = IF Cardinality(s) <= n THEN f[s] ELSE SumStep(f, s)
      BY DEF g
    <3> QED
      BY <3>5, <3>6, <3>7
  <2>3. Sums(n + 1, g)
    BY <2>2
  <2> HIDE DEF g, Sums
  <2> QED
    BY <1>2, <2>3
<1> HIDE DEF T
<1>3. \A n \in Nat : n \in T
  BY <1>1, <1>2, Induction
<1> QED
  BY <1>3 DEF T

LEMMA SumType ==
  ASSUME NEW S, IsFiniteSet(S), S \subseteq Nat
  PROVE  SumSet(S) \in Nat
<1> DEFINE f == CHOOSE f : f = [s \in SUBSET S |-> SumStep(f, s)]
           T == {n \in Nat : \A s \in UpTo(S, n) : f[s] \in Nat}
<1>0. Cardinality(S) \in Nat /\ \A s \in SUBSET S : IsFiniteSet(s) /\ Cardinality(s) \in Nat
        /\ Cardinality(s) <= Cardinality(S)
  BY FS_Subset, FS_CardinalityType
<1>1. SumSet(S) = f[S]
  BY DEF SumSet, FoldSet, MapThenFoldSet, SumStep
<1>2. UpTo(S, Cardinality(S)) = SUBSET S
  BY <1>0 DEF UpTo
<1>3. \E h : h = [s \in SUBSET S |-> SumStep(h, s)]
  <2>1. PICK h : h = [s \in UpTo(S, Cardinality(S)) |-> SumStep(h, s)]
    BY <1>0, SumsExist
  <2>2. h = [s \in SUBSET S |-> SumStep(h, s)]
    BY <1>2, <2>1, Zenon
  <2> QED
    BY <2>2
<1>4. f = [s \in SUBSET S |-> SumStep(f, s)]
  BY <1>3
<1> HIDE DEF f
<1>5. \A s \in SUBSET S : f[s] = SumStep(f, s)
  BY <1>4
<1>6. 0 \in T
  <2>1. ASSUME NEW s \in UpTo(S, 0) PROVE f[s] \in Nat
    <3>1. s = {} /\ s \in SUBSET S
      BY <1>0, FS_EmptySet DEF UpTo
    <3>2. f[s] = SumStep(f, s)
      BY <1>5, <3>1
    <3>3. SumStep(f, s) = 0
      BY <3>1 DEF SumStep
    <3> QED
      BY <3>2, <3>3
  <2> QED
    BY <2>1
<1>7. ASSUME NEW n \in Nat, n \in T PROVE n + 1 \in T
  <2>1. ASSUME NEW s \in UpTo(S, n + 1) PROVE f[s] \in Nat
    <3> DEFINE x == CHOOSE y \in s : TRUE
    <3>1. s \in SUBSET S /\ Cardinality(s) <= n + 1
      BY DEF UpTo
    <3>2. s # {} => x \in s /\ s \ {x} \in UpTo(S, n)
      BY <3>1, SubsetsShrink
    <3>3. s # {} => x \in Nat /\ f[s \ {x}] \in Nat
      BY <1>7, <3>1, <3>2
    <3> HIDE DEF x
    <3>4. SumStep(f, s) \in Nat
      BY <3>3 DEF SumStep, x
    <3> QED
      BY <1>5, <3>1, <3>4
  <2> QED
    BY <2>1
<1> HIDE DEF T
<1>8. \A n \in Nat : n \in T
  BY <1>6, <1>7, Induction
<1>9. Cardinality(S) \in T
  BY <1>0, <1>8
<1> QED
  BY <1>0, <1>1, <1>2, <1>9 DEF T

LEMMA RiskType == ASSUME NEW file \in ChangedFile PROVE Risk(file) \in Int
<1> DEFINE weights == {Weight(t) : t \in file.traits \ {"test"}}
           raised == 10 + SumSet(weights)
                  + (IF Structural(file) THEN 10 ELSE 0)
                  + (IF FileKind(file) # "text" THEN 20 ELSE 0)
                  + (CASE file.lines = 500 -> 20 [] file.lines = 100 -> 10 [] OTHER -> 0)
           score == IF "test" \in file.traits THEN raised - 10 ELSE raised
<1>1. weights \in SUBSET Nat /\ \A w \in weights : w <= 35
  BY DEF ChangedFile, Traits, Weight
<1> HIDE DEF weights
<1>2. IsFiniteSet(weights)
  BY <1>1, FS_BoundedSetOfNaturals
<1>3. SumSet(weights) \in Nat
  BY <1>1, <1>2, SumType
<1>4. raised \in Int
  BY <1>3
<1> HIDE DEF raised
<1>5. Min({100, score}) \in Int
  BY <1>4, Smaller
<1> QED
  BY <1>5 DEF Risk, raised, weights

(* Ahead is a strict total order of the files that are included. *)
LEMMA AheadIsAnOrder ==
  ASSUME NEW files \in Seq(ChangedFile), NEW i \in DOMAIN files, NEW j \in DOMAIN files,
         NEW k \in DOMAIN files
  PROVE  /\ ~Ahead(files, i, i)
         /\ i # j => Ahead(files, i, j) \/ Ahead(files, j, i)
         /\ Ahead(files, k, j) /\ Ahead(files, j, i) => Ahead(files, k, i)
<1>1. DOMAIN files = 1..Len(files) /\ Len(files) \in Nat
      /\ files[i] \in ChangedFile /\ files[j] \in ChangedFile /\ files[k] \in ChangedFile
  OBVIOUS
<1>2. Risk(files[i]) \in Int /\ Risk(files[j]) \in Int /\ Risk(files[k]) \in Int
  BY <1>1, RiskType
<1>3. i \in Int /\ j \in Int /\ k \in Int
  BY <1>1
<1> QED
  BY <1>2, <1>3 DEF Ahead

LEMMA IncludedType ==
  ASSUME NEW files \in Seq(ChangedFile)
  PROVE  Included(files) \subseteq DOMAIN files /\ IsFiniteSet(Included(files))
<1>1. DOMAIN files = 1..Len(files) /\ Len(files) \in Nat
  OBVIOUS
<1>2. IsFiniteSet(1..Len(files))
  BY <1>1, FS_Interval
<1>3. Included(files) \subseteq 1..Len(files)
  BY <1>1 DEF Included
<1> QED
  BY <1>1, <1>2, <1>3, FS_Subset

(* Who is ahead has the lower rank, so no two files share one. *)
LEMMA RankRises ==
  ASSUME NEW files \in Seq(ChangedFile), NEW i \in Included(files)
  PROVE  /\ Rank(files, i) \in 1..Cardinality(Included(files))
         /\ \A j \in Included(files) : Ahead(files, j, i) => Rank(files, j) < Rank(files, i)
<1> DEFINE before(k) == {j \in Included(files) : Ahead(files, j, k)}
<1>1. /\ IsFiniteSet(Included(files)) /\ Cardinality(Included(files)) \in Nat
      /\ Included(files) \subseteq DOMAIN files
  BY IncludedType, FS_CardinalityType
<1>2. \A k \in Included(files) : /\ Rank(files, k) = 1 + Cardinality(before(k))
                                 /\ IsFiniteSet(before(k)) /\ Cardinality(before(k)) \in Nat
  <2> SUFFICES ASSUME NEW k \in Included(files)
               PROVE  /\ Rank(files, k) = 1 + Cardinality(before(k))
                      /\ IsFiniteSet(before(k)) /\ Cardinality(before(k)) \in Nat
    OBVIOUS
  <2>1. before(k) \in SUBSET Included(files)
    OBVIOUS
  <2>2. IsFiniteSet(before(k))
    BY <1>1, <2>1, FS_Subset
  <2>3. Cardinality(before(k)) \in Nat
    BY <2>2, FS_CardinalityType
  <2> QED
    BY <2>2, <2>3 DEF Rank
<1>3. Cardinality(before(i)) + 1 <= Cardinality(Included(files))
  <2>1. before(i) \in SUBSET (Included(files) \ {i})
    BY <1>1, AheadIsAnOrder
  <2>2. /\ IsFiniteSet(Included(files) \ {i})
        /\ Cardinality(Included(files) \ {i}) = Cardinality(Included(files)) - 1
    BY <1>1, FS_RemoveElement
  <2>3. Cardinality(before(i)) <= Cardinality(Included(files) \ {i})
    BY <2>1, <2>2, FS_Subset
  <2>4. Cardinality(before(i)) \in Nat /\ Cardinality(Included(files)) \in Nat
    BY <1>1, <1>2
  <2> HIDE DEF before
  <2> QED
    BY <2>2, <2>3, <2>4
<1>4. ASSUME NEW j \in Included(files), Ahead(files, j, i)
      PROVE  Cardinality(before(j)) < Cardinality(before(i))
  <2>1. j \in before(i)
    BY <1>4
  <2>2. before(j) \in SUBSET (before(i) \ {j})
    BY <1>1, <1>4, AheadIsAnOrder
  <2> HIDE DEF before
  <2>3. /\ IsFiniteSet(before(i) \ {j})
        /\ Cardinality(before(i) \ {j}) = Cardinality(before(i)) - 1
    BY <1>2, <2>1, FS_RemoveElement
  <2>4. Cardinality(before(j)) <= Cardinality(before(i) \ {j})
    BY <2>2, <2>3, FS_Subset
  <2> QED
    BY <1>2, <2>3, <2>4
<1> HIDE DEF before
<1> QED
  BY <1>1, <1>2, <1>3, <1>4

(* collectReviewContext: the file budget is kept and used up, and no file that  *)
(* is left out is riskier than one that is taken.                             *)
THEOREM RiskiestAreTaken ==
  ASSUME NEW files \in Seq(ChangedFile), NEW fileBudget \in Nat
  PROVE  LET taken == Selected(files, fileBudget) IN
         /\ \A i \in taken, j \in Included(files) \ taken : Ahead(files, i, j)
         /\ Cardinality(taken) <= fileBudget
         /\ taken = Included(files) \/ Cardinality(taken) = fileBudget
<1> DEFINE all == Included(files)
           count == Cardinality(all)
           taken == Selected(files, fileBudget)
           rank == [i \in all |-> Rank(files, i)]
           kept == [i \in taken |-> Rank(files, i)]
<1>1. all \subseteq DOMAIN files /\ IsFiniteSet(all) /\ count \in Nat
  BY IncludedType, FS_CardinalityType
<1>2. taken \subseteq all /\ \A i \in all : i \in taken <=> Rank(files, i) <= fileBudget
  BY DEF Selected
<1>3. \A i \in all : Rank(files, i) \in 1..count
  BY RankRises
<1>4. \A i, j \in all : Ahead(files, j, i) => Rank(files, j) < Rank(files, i)
  BY RankRises
<1>5. \A i, j \in all : i # j => Ahead(files, i, j) \/ Ahead(files, j, i)
  BY <1>1, AheadIsAnOrder
<1>6. \A i, j \in all : i # j => Rank(files, i) # Rank(files, j)
  BY <1>1, <1>3, <1>4, <1>5
<1> HIDE DEF all, count, taken
<1>7. \A i \in taken, j \in all \ taken : Ahead(files, i, j)
  <2> SUFFICES ASSUME NEW i \in taken, NEW j \in all \ taken, ~Ahead(files, i, j)
               PROVE  FALSE
    OBVIOUS
  <2>1. Ahead(files, j, i)
    BY <1>2, <1>5
  <2>2. Rank(files, j) < Rank(files, i) /\ Rank(files, i) <= fileBudget
        /\ ~(Rank(files, j) <= fileBudget)
    BY <1>2, <1>4, <2>1
  <2>3. Rank(files, j) \in Int /\ Rank(files, i) \in Int
    BY <1>1, <1>2, <1>3
  <2> QED
    BY <2>2, <2>3
<1>8. \A n \in Nat : IsFiniteSet(1..n) /\ Cardinality(1..n) = n
  BY FS_Interval
<1>9. kept \in Injection(taken, 1..fileBudget)
  <2>1. \A i \in taken : kept[i] \in 1..fileBudget
    BY <1>1, <1>2, <1>3
  <2>2. \A i, j \in taken : kept[i] = kept[j] => i = j
    BY <1>2, <1>6
  <2> QED
    BY <2>1, <2>2 DEF Injection, IsInjective
<1>10. /\ Cardinality(taken) <= fileBudget
       /\ kept \in Surjection(taken, 1..fileBudget) => Cardinality(taken) = fileBudget
  BY <1>8, <1>9, FS_Injection
<1>11. ASSUME taken # all PROVE kept \in Surjection(taken, 1..fileBudget)
  <2>1. rank \in Injection(all, 1..count)
    BY <1>3, <1>6 DEF Injection, IsInjective
  <2>2. rank \in Surjection(all, 1..count)
    BY <1>1, <1>8, <2>1, FS_Injection DEF count
  <2>3. PICK j \in all : ~(Rank(files, j) <= fileBudget)
    BY <1>2, <1>11
  <2>4. fileBudget < count
    BY <1>1, <1>3, <2>3
  <2>5. ASSUME NEW n \in 1..fileBudget PROVE \E i \in taken : kept[i] = n
    <3>1. n \in 1..count /\ n <= fileBudget
      BY <1>1, <2>4
    <3>2. PICK i \in all : rank[i] = n
      BY <2>2, <3>1 DEF Surjection
    <3>3. i \in taken
      BY <1>2, <3>1, <3>2
    <3> QED
      BY <3>2, <3>3
  <2>6. kept \in [taken -> 1..fileBudget]
    BY <1>9 DEF Injection
  <2> QED
    BY <2>5, <2>6 DEF Surjection
<1> QED
  BY <1>7, <1>10, <1>11 DEF all, taken

-----------------------------------------------------------------------------
(* An attempt at a review.  Types, part by part.                             *)
Stages == PipelineStages \cup {"idle", "checkout", "proof", "finishing"}
Checkings ==
  [next : 1..NumCommands + 1,
   outcome : [Commands -> Outcomes \cup {"none"}],
   end : [Commands -> Sandbox!Exits \cup {"none"}]]
Reviews ==
  [context : {"complete", "incomplete", "error"},
   checks : {"complete", "incomplete", "error"},
   provider : Steps, security : Steps, challenger : Steps,
   empty : BOOLEAN, sensitive : BOOLEAN, others : BOOLEAN, human : BOOLEAN]
Reported == [Findings -> [life : Lives, support : SUBSET Commands]]
Uses == [ModelStages -> Provider!Answers \cup {"none", "unasked"}]
Provings ==
  [at : 0..NumFindings, picked : BOOLEAN, left : SUBSET Commands,
   tries : 0..MaxProofs, requested : BOOLEAN, incomplete : BOOLEAN,
   step : {"none", "trees", "base", "head", "leaving"},
   base : Runs \cup {NoRun}, head : Runs \cup {NoRun}]

Typed ==
  /\ plan \in {"none", "untrusted", "trusted"}
  /\ attempt \in 0..MaxAttempts /\ stage \in Stages
  /\ aborted \in BOOLEAN /\ deadline \in BOOLEAN
  /\ checks \in Checkings /\ review \in Reviews /\ findings \in Reported
  /\ used \in Uses /\ proof \in Provings /\ reproduced \subseteq Findings
  /\ blocking \subseteq {"SUPPORTED", "VERIFIED"}
  /\ verdict \in Verdicts \cup {"none"} /\ result \in Verdicts \cup {"none"}
  /\ Sandbox!RunTypeOK
  /\ Provider!CallTypeOK

LEMMA TypedIsTypeOK == Typed <=> TypeOK
  BY DEF Typed, TypeOK, Stages, Checkings, Reviews, Reported, Uses, Provings

-----------------------------------------------------------------------------
(* One run in a container.                                                  *)
Exited == {"zero", "nonzero"}

(* The command's end is where the container is, the client reports no other,  *)
(* and a run that is called clean has left nothing.                          *)
CleanRun ==
  /\ container \in {"pending", "created", "running"} => command = "none"
  /\ container \in Sandbox!Exits => command = container
  /\ exec.pc \in {"idle", "preparing", "launching", "spawning"} =>
       container = "none" /\ command = "none"
  /\ exec.pc \in {"idle", "preparing", "launching", "spawning", "running"} =>
       exec.exit = "none"
  /\ exec.exit \in Exited => command = exec.exit /\ container \in {exec.exit, "none"}
  /\ exec.pc = "done" /\ exec.clean /\ exec.exit \in Exited =>
       container = "none" /\ ~directory

LEMMA IdleRun ==
  /\ Sandbox!Idle \in Sandbox!Exec
  /\ Sandbox!Idle.pc = "idle" /\ Sandbox!Idle.exit = "none"
  BY DEF Sandbox!Idle, Sandbox!Exec

LEMMA StartClean ==
  ASSUME Sandbox!RunTypeOK, NEW d \in BOOLEAN, Sandbox!Start(d)
  PROVE  Sandbox!RunTypeOK' /\ CleanRun' /\ exec.pc = "idle"
<1>1. /\ exec'.pc \in {"done", "preparing"} /\ exec'.exit = "none"
      /\ exec' \in Sandbox!Exec
  BY DEF Sandbox!Start, Sandbox!Idle, Sandbox!Exec
<1>2. container' = "none" /\ command' = "none" /\ directory' \in BOOLEAN /\ exec.pc = "idle"
  BY DEF Sandbox!Start, Sandbox!At
<1> QED
  BY <1>1, <1>2 DEF CleanRun, Sandbox!RunTypeOK, Sandbox!Containers, Sandbox!Exits, Exited

LEMMA InterruptedClean ==
  ASSUME Sandbox!RunTypeOK, CleanRun, exec' = Sandbox!Interrupted,
         UNCHANGED <<container, directory, command>>
  PROVE  Sandbox!RunTypeOK' /\ CleanRun' /\ exec'.pc = exec.pc
<1>1. /\ exec' \in Sandbox!Exec /\ exec'.pc = exec.pc /\ exec'.exit = exec.exit
      /\ exec'.clean = exec.clean
  BY DEF Sandbox!Interrupted, Sandbox!RunTypeOK, Sandbox!Exec
<1> QED
  BY <1>1 DEF CleanRun, Sandbox!RunTypeOK

LEMMA RunStepClean ==
  ASSUME Sandbox!RunTypeOK, CleanRun, Sandbox!RunStep
  PROVE  Sandbox!RunTypeOK' /\ CleanRun' /\ exec.pc # "idle" /\ exec'.pc # "idle"
<1> USE DEF Sandbox!RunTypeOK, CleanRun, Sandbox!Exits, Sandbox!Containers, Exited,
            Sandbox!At, Sandbox!Goto
<1>1. CASE Sandbox!Prepare \/ Sandbox!PrepareFails
  BY <1>1 DEF Sandbox!Prepare, Sandbox!PrepareFails, Sandbox!Exec
<1>2. CASE Sandbox!BuildArguments
  BY <1>2 DEF Sandbox!BuildArguments, Sandbox!Exec
<1>3. CASE Sandbox!SpawnCancelled \/ Sandbox!SpawnFails
  BY <1>3 DEF Sandbox!SpawnCancelled, Sandbox!SpawnFails, Sandbox!Exec
<1>4. CASE Sandbox!Spawn \/ Sandbox!TimeLimit
  BY <1>4 DEF Sandbox!Spawn, Sandbox!TimeLimit, Sandbox!Exec
<1>5. CASE Sandbox!ClientReports
  BY <1>5 DEF Sandbox!ClientReports, Sandbox!Exec
<1>6. CASE Sandbox!DockerFails \/ Sandbox!ClientKilled
  BY <1>6 DEF Sandbox!DockerFails, Sandbox!ClientKilled, Sandbox!Exec
<1>7. CASE Sandbox!Remove
  BY <1>7 DEF Sandbox!Remove, Sandbox!Exec, Sandbox!Present
<1>8. CASE Sandbox!Verify
  BY <1>8 DEF Sandbox!Verify, Sandbox!Listed, Sandbox!Exec, Sandbox!Present
<1>9. CASE Sandbox!DaemonCreates
  BY <1>9 DEF Sandbox!DaemonCreates, Sandbox!Exec
<1>10. CASE Sandbox!CommandExits
  BY <1>10 DEF Sandbox!CommandExits, Sandbox!Exec
<1> QED
  BY <1>1, <1>2, <1>3, <1>4, <1>5, <1>6, <1>7, <1>8, <1>9, <1>10 DEF Sandbox!RunStep

(* What an outcome tells. *)
LEMMA OutcomeTells ==
  ASSUME Sandbox!RunTypeOK, CleanRun
  PROVE  /\ Sandbox!Outcome \in Outcomes
         /\ Sandbox!Outcome = "passed" => exec.exit = "zero" /\ exec.clean
         /\ Sandbox!Outcome = "failed" => exec.exit = "nonzero" /\ exec.clean
  BY DEF Sandbox!RunTypeOK, Sandbox!Exec, Sandbox!Outcome, Sandbox!ExecutionOutcome,
         Sandbox!ClientOutcome, Outcomes, Sandbox!Exits

LEMMA CleanIsConclusive ==
  ASSUME Sandbox!RunTypeOK, CleanRun
  PROVE  Sandbox!Conclusive
  BY OutcomeTells DEF CleanRun, Sandbox!Conclusive, Sandbox!At, Exited

-----------------------------------------------------------------------------
(* One request to a model.                                                  *)

(* An answer that is to be used is the one in the row. *)
CallTold ==
  call.pc = "done" /\ call.answer \in Provider!Answers => rows[call.stage] = call.answer

LEMMA NoCallType ==
  /\ Provider!NoCall \in Provider!Call
  /\ Provider!NoCall.pc = "idle"
<1>1. (CHOOSE s \in ModelStages : TRUE) \in ModelStages
  BY DEF ModelStages
<1>2. 0 \in 0..MaxTries
  BY HostedReviewAssumption
<1> QED
  BY <1>1, <1>2 DEF Provider!NoCall, Provider!Call

LEMMA AskCall ==
  ASSUME Provider!CallTypeOK, NEW s \in ModelStages, Provider!Ask(s)
  PROVE  /\ Provider!CallTypeOK'
         /\ call.pc = "idle" /\ call'.pc # "done" /\ call'.stage = s /\ rows' = rows
<1>1. call' = [Provider!NoCall EXCEPT !.pc = IF Signal THEN "recording" ELSE "requesting",
                                      !.stage = s]
  BY DEF Provider!Ask
<1>2. call' \in Provider!Call /\ call'.pc # "done" /\ call'.stage = s
  BY <1>1, NoCallType DEF Provider!Call
<1> QED
  BY <1>2 DEF Provider!CallTypeOK, Provider!Ask, Provider!At

LEMMA ReadAsType ==
  ASSUME NEW s \in ModelStages, NEW c \in Provider!Completions
  PROVE  Provider!ReadAs(s, c) \in Provider!Answers \cup {Provider!NoAnswer}
  BY DEF Provider!ReadAs, Provider!ReviewOnce, Provider!ChallengeOnce, Provider!PatchOnce,
         Provider!ParsedReview, Provider!ParsedChallenge, Provider!ParsedPatch,
         Provider!Answers, Provider!NoAnswer

(* The upsert fills an empty row, and never replaces an answer.              *)
LEMMA UpsertKeeps ==
  ASSUME Provider!CallTypeOK
  PROVE  /\ Provider!Upserted \in [ModelStages -> Provider!Answers \cup {Provider!NoAnswer}]
         /\ \A s \in ModelStages :
              rows[s] \in Provider!Answers => Provider!Upserted[s] = rows[s]
         /\ Provider!Agrees /\ call.answer \in Provider!Answers =>
              Provider!Upserted[call.stage] = call.answer
  BY DEF Provider!CallTypeOK, Provider!Call, Provider!Upserted, Provider!Agrees,
         Provider!Answers, Provider!NoAnswer

LEMMA CallSteps ==
  ASSUME Provider!CallTypeOK, Provider!Progress \/ Provider!Wakes
  PROVE  /\ Provider!CallTypeOK'
         /\ call.pc # "idle" /\ call'.pc # "idle" /\ call'.stage = call.stage
         /\ CallTold'
         /\ \A s \in ModelStages : rows[s] \in Provider!Answers => rows'[s] = rows[s]
<1> USE DEF Provider!CallTypeOK, Provider!At, CallTold
<1>1. CASE Provider!Answered
  BY <1>1, ReadAsType DEF Provider!Answered, Provider!Call
<1>2. CASE Provider!FailsTransiently
  <2>1. call.tries + 1 \in 0..MaxTries
    BY <1>2, HostedReviewAssumption DEF Provider!FailsTransiently, Provider!LastTry, Provider!Call
  <2> QED
    BY <1>2, <2>1 DEF Provider!FailsTransiently, Provider!Call
<1>3. CASE Provider!Fails \/ Provider!Cancelled \/ Provider!Wakes
  BY <1>3 DEF Provider!Fails, Provider!Cancelled, Provider!Wakes, Provider!Call
<1>4. CASE Provider!Record
  BY <1>4, UpsertKeeps DEF Provider!Record, Provider!Call
<1>5. CASE Provider!RecordFails
  <2>1. call'.answer \notin Provider!Answers /\ call' \in Provider!Call
    BY <1>5 DEF Provider!RecordFails, Provider!Call, Provider!NoAnswer, Provider!Answers
  <2> QED
    BY <1>5, <2>1, UpsertKeeps DEF Provider!RecordFails, Provider!Call
<1> QED
  BY <1>1, <1>2, <1>3, <1>4, <1>5 DEF Provider!Progress

-----------------------------------------------------------------------------
(* The invariant, part by part.                                             *)
Early == {"idle", "checkout", "references", "context", "checks"}

(* A run is there while a command is next.                                  *)
RunInv ==
  /\ CleanRun
  /\ exec.pc # "idle" => stage = "checks" /\ checks.next <= NumCommands

(* What the checks say is how their commands ended; all that came before the  *)
(* next one have an outcome.                                                *)
ChecksInv ==
  /\ \A c \in Commands :
       /\ checks.outcome[c] = "passed" => checks.end[c] = "zero"
       /\ checks.outcome[c] = "failed" => checks.end[c] = "nonzero"
       /\ c < checks.next => checks.outcome[c] # "none"
  /\ review.checks = "complete" => stage \notin Early /\ CheckStatus = "complete"

(* A call belongs to the stage that asked.                                  *)
CallInv ==
  /\ call.pc # "idle" => stage \in ModelStages /\ call.stage = stage
  /\ CallTold
  /\ RecordedAnswersDecide

(* The stages that lie behind: a model that was asked in vain has left its step *)
(* incomplete, and no stage comes before an answer of the one it follows.     *)
StagesInv ==
  /\ used["review"] = "none" => review.provider = "incomplete"
  /\ used["security"] = "none" => review.security = "incomplete"
  /\ used["challenge"] = "none" => review.challenger = "incomplete"
  /\ used["challenge"] = "notable" => review.human
  /\ stage \in {"security", "challenge"} => used["review"] \in Provider!Answers
  /\ stage = "challenge" /\ review.sensitive => used["security"] \in Provider!Answers
  /\ stage = "proof" /\ review.checks = "complete" /\ ~review.empty =>
       /\ used["review"] \in Provider!Answers \/ review.provider = "incomplete"
       /\ review.sensitive =>
            \/ used["security"] \in Provider!Answers
            \/ "incomplete" \in {review.provider, review.security}

(* Findings rest on failed checks, and a verified one was reproduced; one that *)
(* was reproduced is verified, or its proof has left a gap.                   *)
FindingsInv ==
  /\ stage \in Early => \A f \in Findings : findings[f].support = {}
  /\ \A f \in Findings : findings[f].support \subseteq FailedChecks
  /\ \A f \in Findings : findings[f].life = "verified" => f \in reproduced
  /\ stage \notin {"proof", "finishing"} => reproduced = {}
  /\ stage = "proof" =>
       \A f \in reproduced : findings[f].life = "verified" \/ proof.incomplete
  /\ proof.picked => proof.at \in Findings /\ proof.requested
  /\ proof.incomplete => proof.requested

VerdictInv ==
  /\ verdict # "none" => stage = "finishing"
  /\ ShipsOverNoGap
  /\ FixRestsOnEvidence

ReviewInv ==
  Typed /\ RunInv /\ ChecksInv /\ CallInv /\ StagesInv /\ FindingsInv /\ VerdictInv

-----------------------------------------------------------------------------
LEMMA StageNames ==
  /\ Early \subseteq Stages /\ ModelStages \subseteq Stages
  /\ Early \cap ModelStages = {}
  /\ {"access", "proof", "finishing"} \cap (Early \cup ModelStages) = {}
  /\ {"access", "proof", "finishing"} \subseteq Stages
  BY DEF Early, Stages, PipelineStages, ContextStages, ModelStages

(* What an attempt begins with. *)
LEMMA Empty ==
  /\ NoChecks \in Checkings /\ NoReview \in Reviews /\ NoFindings \in Reported
  /\ Unasked \in Uses /\ NoProof \in Provings
  /\ NoReview.checks = "incomplete"
  /\ \A c \in Commands : NoChecks.outcome[c] = "none"
  /\ \A c \in Commands : ~(c < NoChecks.next)
  /\ \A s \in ModelStages : Unasked[s] = "unasked"
  /\ \A f \in Findings : NoFindings[f].support = {} /\ NoFindings[f].life = "absent"
  /\ ~NoProof.picked /\ ~NoProof.incomplete
<1>1. NoChecks \in Checkings
  BY HostedReviewAssumption DEF NoChecks, Checkings
<1>2. NoReview \in Reviews /\ NoReview.checks = "incomplete"
  BY DEF NoReview, Reviews, Steps
<1>3. NoFindings \in Reported
  BY DEF NoFindings, Reported, Lives
<1>4. Unasked \in Uses
  BY DEF Unasked, Uses
<1>5. 0 \in 0..NumFindings /\ 0 \in 0..MaxProofs
  BY HostedReviewAssumption
<1>6. NoProof \in Provings
  BY <1>5 DEF NoProof, Provings
<1>7. \A c \in Commands : NoChecks.outcome[c] = "none" /\ ~(c < NoChecks.next)
  BY HostedReviewAssumption DEF NoChecks, Commands
<1> QED
  BY <1>1, <1>2, <1>3, <1>4, <1>6, <1>7 DEF Unasked, NoFindings, NoProof

(* Of the memory of an attempt that has not begun, or is over. *)
Blank ==
  /\ checks = NoChecks /\ review = NoReview /\ findings = NoFindings
  /\ used = Unasked /\ proof = NoProof /\ reproduced = {}
  /\ verdict = "none" /\ blocking = {}
  /\ exec = Sandbox!Idle /\ container = "none" /\ directory = FALSE /\ command = "none"
  /\ call = Provider!NoCall
  /\ aborted = FALSE /\ deadline = FALSE /\ stage = "idle"

(* The rows that outlive it. *)
Kept ==
  /\ plan \in {"none", "untrusted", "trusted"} /\ attempt \in 0..MaxAttempts
  /\ result \in Verdicts \cup {"none"}
  /\ rows \in [ModelStages -> Provider!Answers \cup {Provider!NoAnswer}]

LEMMA BlankInv == Blank /\ Kept => ReviewInv
<1> SUFFICES ASSUME Blank, Kept PROVE ReviewInv
  OBVIOUS
<1> USE DEF Blank, Kept
<1>1. Typed
  BY Empty, IdleRun, NoCallType, StageNames
  DEF Typed, Early, Verdicts, Sandbox!RunTypeOK, Sandbox!Containers, Provider!CallTypeOK
<1>2. RunInv
  BY IdleRun DEF RunInv, CleanRun, Sandbox!Exits, Exited
<1>3. ChecksInv
  BY Empty DEF ChecksInv
<1>4. CallInv
  BY Empty, NoCallType DEF CallInv, CallTold, RecordedAnswersDecide, Provider!Answers
<1>5. StagesInv
  BY Empty DEF StagesInv, ModelStages
<1>6. FindingsInv
  BY Empty DEF FindingsInv
<1>7. VerdictInv
  BY DEF VerdictInv, ShipsOverNoGap, FixRestsOnEvidence
<1> QED
  BY <1>1, <1>2, <1>3, <1>4, <1>5, <1>6, <1>7 DEF ReviewInv

LEMMA InitReview == Init => ReviewInv
<1> SUFFICES ASSUME Init PROVE ReviewInv
  OBVIOUS
<1>1. Blank
  BY DEF Init, Blank
<1>2. 0 \in 0..MaxAttempts
  BY HostedReviewAssumption
<1> QED
  BY <1>1, <1>2, BlankInv DEF Init, Kept, Provider!NoAnswer

-----------------------------------------------------------------------------
(* Steps that leave a part alone.                                           *)

LEMMA RunStays ==
  ASSUME RunInv, UNCHANGED runVars,
         stage # "checks" \/ exec.pc = "idle" \/ UNCHANGED <<stage, checks>>
  PROVE  RunInv'
  BY DEF RunInv, CleanRun, runVars

LEMMA ChecksStay ==
  ASSUME ChecksInv, UNCHANGED <<plan, checks>>, review'.checks = review.checks,
         stage \in Early \/ stage' \notin Early
  PROVE  ChecksInv'
<1>1. CheckStatus' = CheckStatus
  BY DEF CheckStatus
<1> QED
  BY <1>1 DEF ChecksInv

LEMMA CallStays ==
  ASSUME CallInv, UNCHANGED <<callVars, used>>,
         stage \notin ModelStages \/ call.pc = "idle" \/ stage' = stage
  PROVE  CallInv'
  BY DEF CallInv, CallTold, RecordedAnswersDecide, callVars

LEMMA FindingsStay ==
  ASSUME FindingsInv, UNCHANGED <<checks, findings, reproduced, proof>>,
         stage \in Early \/ stage' \notin Early,
         stage \notin {"proof", "finishing"} \/ stage' = stage
  PROVE  FindingsInv'
  BY DEF FindingsInv, FailedChecks

LEMMA NoVerdict ==
  ASSUME VerdictInv, stage # "finishing", verdict' = verdict
  PROVE  VerdictInv'
  BY DEF VerdictInv, ShipsOverNoGap, FixRestsOnEvidence

LEMMA VerdictStays ==
  ASSUME VerdictInv, UNCHANGED <<plan, stage, workVars>>
  PROVE  VerdictInv'
  BY DEF VerdictInv, ShipsOverNoGap, FixRestsOnEvidence, workVars
-----------------------------------------------------------------------------
(* The attempt.                                                             *)

LEMMA ClaimKeeps == ASSUME ReviewInv, Claim PROVE ReviewInv'
<1> USE DEF Claim, workVars, callVars, runVars, signalVars
<1>1. Typed'
  BY HostedReviewAssumption
  DEF ReviewInv, Typed, Stages, Sandbox!RunTypeOK, Provider!CallTypeOK
<1>2. RunInv'
  BY RunStays DEF ReviewInv
<1>3. ChecksInv'
  BY ChecksStay, StageNames DEF ReviewInv, Early
<1>4. CallInv'
  BY CallStays, StageNames DEF ReviewInv, Early
<1>5. StagesInv'
  BY DEF ReviewInv, StagesInv
<1>6. FindingsInv'
  BY FindingsStay DEF ReviewInv, Early
<1>7. VerdictInv'
  BY NoVerdict DEF ReviewInv
<1> QED
  BY <1>1, <1>2, <1>3, <1>4, <1>5, <1>6, <1>7 DEF ReviewInv

LEMMA LeaveKeeps ==
  ASSUME ReviewInv, Leave, result' \in Verdicts \cup {"none"} PROVE ReviewInv'
<1>1. Blank'
  BY DEF Leave, Blank
<1>2. Kept'
  BY DEF Leave, Kept, ReviewInv, Typed, Provider!CallTypeOK
<1> QED
  BY <1>1, <1>2, BlankInv, PTL

LEMMA EndKeeps ==
  ASSUME ReviewInv, Crash \/ Complete \/ GiveBack PROVE ReviewInv'
<1>1. Leave
  BY DEF Crash, Complete, GiveBack, Abandon
<1>2. result' \in Verdicts \cup {"none"}
  BY DEF ReviewInv, Typed, Crash, Complete, GiveBack, Abandon, Verdicts
<1> QED
  BY <1>1, <1>2, LeaveKeeps

LEMMA SignalKeeps ==
  ASSUME ReviewInv, LeaseLost \/ DeadlinePasses PROVE ReviewInv'
<1>1. /\ exec' = Sandbox!Interrupted
      /\ UNCHANGED <<outcomeVars, stage, workVars, container, directory, command, callVars>>
      /\ aborted' \in BOOLEAN /\ deadline' \in BOOLEAN
  BY DEF LeaseLost, DeadlinePasses, ReviewInv, Typed
<1>2. Sandbox!RunTypeOK' /\ CleanRun' /\ exec'.pc = exec.pc
  BY <1>1, InterruptedClean DEF ReviewInv, RunInv, Typed
<1> USE <1>1 DEF workVars, outcomeVars, callVars
<1>3. Typed'
  BY <1>2 DEF ReviewInv, Typed, Provider!CallTypeOK
<1>4. RunInv'
  BY <1>2 DEF ReviewInv, RunInv
<1>5. ChecksInv'
  BY ChecksStay DEF ReviewInv
<1>6. CallInv'
  BY CallStays DEF ReviewInv
<1>7. StagesInv'
  BY DEF ReviewInv, StagesInv
<1>8. FindingsInv'
  BY FindingsStay DEF ReviewInv
<1>9. VerdictInv'
  BY VerdictStays DEF ReviewInv
<1> QED
  BY <1>3, <1>4, <1>5, <1>6, <1>7, <1>8, <1>9 DEF ReviewInv
-----------------------------------------------------------------------------
(* Stages that only hand over to the next, and failures.                     *)

LEMMA EnterKeeps ==
  ASSUME ReviewInv, UNCHANGED <<outcomeVars, aborted, checks, review, findings, used,
                                proof, reproduced, blocking, runVars, callVars>>,
         NEW s \in Stages, Enter(s), stage \notin {"proof", "finishing"},
         stage # "checks" \/ exec.pc = "idle",
         stage \notin ModelStages \/ call.pc = "idle",
         stage \in Early \/ s \notin Early,
         verdict' \in Verdicts \cup {"none"}
  PROVE  /\ StagesInv' /\ VerdictInv' => ReviewInv'
         /\ s \notin {"proof", "security", "challenge"} => StagesInv'
<1> USE DEF Enter, outcomeVars, callVars, runVars
<1>1. Typed'
  BY DEF ReviewInv, Typed, Sandbox!RunTypeOK, Provider!CallTypeOK
<1>2. RunInv'
  BY RunStays DEF ReviewInv
<1>3. ChecksInv'
  BY ChecksStay DEF ReviewInv
<1>4. CallInv'
  BY CallStays DEF ReviewInv
<1>5. FindingsInv'
  BY FindingsStay DEF ReviewInv
<1>6. s \notin {"proof", "security", "challenge"} => StagesInv'
  BY DEF ReviewInv, StagesInv
<1> QED
  BY <1>1, <1>2, <1>3, <1>4, <1>5, <1>6 DEF ReviewInv

LEMMA HandOverKeeps ==
  ASSUME ReviewInv, CheckedOut \/ ResolveReferences PROVE ReviewInv'
<1>1. PICK s \in {"references", "context"} :
        /\ Enter(s) /\ stage \in {"checkout", "references"}
        /\ UNCHANGED <<outcomeVars, aborted, workVars, runVars, callVars>>
  BY DEF CheckedOut, ResolveReferences
<1>2. s \in Early /\ stage \in Early \ {"checks"} /\ verdict' \in Verdicts \cup {"none"}
  BY <1>1 DEF Early, ReviewInv, Typed, workVars
<1>3. VerdictInv'
  BY <1>1, NoVerdict DEF ReviewInv, workVars
<1> QED
  BY <1>1, <1>2, <1>3, EnterKeeps, StageNames DEF workVars

LEMMA SkipKeeps ==
  ASSUME ReviewInv, ReviewSkipped \/ SecuritySkipped \/ ChallengeSkipped
  PROVE  ReviewInv'
<1>1. PICK s \in {"proof", "challenge"} :
        /\ Enter(s) /\ stage \in {"access", "security", "challenge"}
        /\ stage \in ModelStages => call.pc = "idle"
        /\ UNCHANGED <<outcomeVars, aborted, workVars, runVars, callVars>>
  BY DEF ReviewSkipped, SecuritySkipped, ChallengeSkipped, Provider!At, ModelStages
<1>2. s \notin Early /\ s \in Stages /\ verdict' \in Verdicts \cup {"none"}
  BY <1>1 DEF Early, Stages, PipelineStages, ReviewInv, Typed, workVars
<1>3. VerdictInv'
  BY <1>1, NoVerdict DEF ReviewInv, workVars
<1>4. StagesInv'
  BY DEF ReviewSkipped, SecuritySkipped, ChallengeSkipped, ReviewInv, StagesInv,
         workVars, Enter
<1> QED
  BY <1>1, <1>2, <1>3, <1>4, EnterKeeps, StageNames DEF workVars

LEMMA FailureKeeps ==
  ASSUME ReviewInv, StageFails \/ ContextFails \/ ChecksThrow PROVE ReviewInv'
<1>1. /\ Enter("finishing") /\ verdict' \in {"ERROR", "INCONCLUSIVE"}
      /\ stage \in Early /\ (stage = "checks" => exec.pc = "idle")
      /\ UNCHANGED <<outcomeVars, aborted, checks, review, findings, used,
                     proof, reproduced, blocking, runVars, callVars>>
  BY DEF StageFails, ContextFails, ChecksThrow, Conclude, Early, ContextStages, Sandbox!At
<1>2. verdict' \in Verdicts \cup {"none"}
  BY <1>1 DEF Verdicts
<1>3. VerdictInv'
  BY <1>1 DEF VerdictInv, ShipsOverNoGap, FixRestsOnEvidence, Enter
<1>4. /\ "finishing" \in Stages /\ stage \notin {"proof", "finishing"}
      /\ stage \notin ModelStages
  BY <1>1, StageNames
<1>5. StagesInv'
  BY <1>1, <1>2, <1>4, EnterKeeps
<1> QED
  BY <1>1, <1>2, <1>3, <1>4, <1>5, EnterKeeps

-----------------------------------------------------------------------------
(* The diff and the checks.                                                 *)

LEMMA CollectKeeps == ASSUME ReviewInv, CollectContext PROVE ReviewInv'
<1>1. PICK view \in Views :
        review' = [review EXCEPT !.context = IF view.whole THEN @ ELSE "incomplete",
                                 !.empty = view.empty, !.sensitive = view.sensitive]
  BY DEF CollectContext
<1>2. view.empty \in BOOLEAN /\ view.sensitive \in BOOLEAN
  <2> DEFINE seen(files, documents) == Context(files, documents, Budget)
  <2>1. PICK files \in Changes, documents \in Guides, packs \in SUBSET Packs :
          view = [whole |-> seen(files, documents).complete,
                  empty |-> seen(files, documents).empty,
                  sensitive |-> RequiresSpecialist(seen(files, documents), packs)]
    BY DEF Views
  <2>2. seen(files, documents).empty \in BOOLEAN
    BY DEF Context
  <2> QED
    BY <2>1, <2>2 DEF RequiresSpecialist
<1>3. review' \in Reviews /\ review'.checks = review.checks /\ review'.human = review.human
      /\ review'.provider = review.provider /\ review'.security = review.security
      /\ review'.challenger = review.challenger
  BY <1>1, <1>2 DEF ReviewInv, Typed, Reviews
<1>4. /\ stage = "context" /\ stage' = "checks"
      /\ UNCHANGED <<outcomeVars, aborted, checks, findings, used, proof, reproduced,
                     verdict, blocking, runVars, callVars>>
      /\ deadline' \in BOOLEAN
  BY DEF CollectContext, Enter, ReviewInv, Typed
<1>5. stage \in Early /\ stage' \in Stages /\ stage \notin ModelStages
  BY <1>4, StageNames DEF Early
<1> USE <1>3, <1>4, <1>5 DEF outcomeVars, callVars, runVars
<1>6. Typed'
  BY DEF ReviewInv, Typed, Sandbox!RunTypeOK, Provider!CallTypeOK
<1>7. RunInv'
  BY RunStays DEF ReviewInv
<1>8. ChecksInv'
  BY ChecksStay DEF ReviewInv
<1>9. CallInv'
  BY CallStays DEF ReviewInv
<1>10. StagesInv'
  BY DEF ReviewInv, StagesInv
<1>11. FindingsInv'
  BY FindingsStay DEF ReviewInv
<1>12. VerdictInv'
  BY NoVerdict DEF ReviewInv
<1> QED
  BY <1>6, <1>7, <1>8, <1>9, <1>10, <1>11, <1>12 DEF ReviewInv

LEMMA RunKeeps == ASSUME ReviewInv, RunCheck \/ RunContainer PROVE ReviewInv'
<1>1. /\ stage = "checks" /\ checks.next <= NumCommands
      /\ Sandbox!RunTypeOK' /\ CleanRun'
  <2>1. CASE RunCheck
    <3>1. Sandbox!Start(directory) /\ stage = "checks" /\ Running
      BY <2>1 DEF RunCheck
    <3>2. directory \in BOOLEAN /\ Sandbox!RunTypeOK
      BY DEF ReviewInv, Typed, Sandbox!RunTypeOK
    <3> QED
      BY <3>1, <3>2, StartClean DEF Running
  <2>2. CASE RunContainer
    BY <2>2, RunStepClean DEF RunContainer, ReviewInv, RunInv, Typed
  <2> QED
    BY <2>1, <2>2
<1>2. UNCHANGED <<outcomeVars, stage, signalVars, workVars, callVars>>
  BY DEF RunCheck, RunContainer
<1> USE <1>1, <1>2 DEF outcomeVars, signalVars, workVars, callVars
<1>3. Typed'
  BY DEF ReviewInv, Typed, Provider!CallTypeOK
<1>4. RunInv'
  BY DEF RunInv
<1>5. ChecksInv'
  BY ChecksStay DEF ReviewInv
<1>6. CallInv'
  BY CallStays DEF ReviewInv
<1>7. StagesInv'
  BY DEF ReviewInv, StagesInv
<1>8. FindingsInv'
  BY FindingsStay DEF ReviewInv
<1>9. VerdictInv'
  BY VerdictStays DEF ReviewInv
<1> QED
  BY <1>3, <1>4, <1>5, <1>6, <1>7, <1>8, <1>9 DEF ReviewInv

LEMMA CheckEndsKeeps == ASSUME ReviewInv, CheckEnds PROVE ReviewInv'
<1>1. /\ stage = "checks" /\ exec.pc = "done" /\ checks.next <= NumCommands
      /\ checks.next \in Commands /\ stage \in Early /\ stage \notin ModelStages
  BY StageNames, HostedReviewAssumption
  DEF CheckEnds, Sandbox!At, ReviewInv, RunInv, Typed, Checkings, Commands, Early
<1> DEFINE ended == IF Sandbox!Outcome \in {"passed", "failed"} THEN command ELSE "none"
<1>2. /\ checks' = [next |-> checks.next + 1,
                    outcome |-> [checks.outcome EXCEPT ![checks.next] = Sandbox!Outcome],
                    end |-> [checks.end EXCEPT ![checks.next] = ended]]
      /\ exec' = Sandbox!Idle /\ container' = "none" /\ command' = "none"
      /\ UNCHANGED <<outcomeVars, stage, signalVars, review, findings, used, proof,
                     reproduced, verdict, blocking, directory, callVars>>
  BY DEF CheckEnds
<1>3. /\ Sandbox!Outcome \in Outcomes /\ ended \in Sandbox!Exits \cup {"none"}
      /\ Sandbox!Outcome = "passed" => ended = "zero"
      /\ Sandbox!Outcome = "failed" => ended = "nonzero"
  BY OutcomeTells
  DEF ReviewInv, Typed, RunInv, CleanRun, Sandbox!RunTypeOK, Sandbox!Exits, Exited
<1>4. /\ checks'.next = checks.next + 1
      /\ checks'.outcome[checks.next] = Sandbox!Outcome /\ checks'.end[checks.next] = ended
      /\ \A c \in Commands : c # checks.next =>
           checks'.outcome[c] = checks.outcome[c] /\ checks'.end[c] = checks.end[c]
      /\ checks' \in Checkings
  BY <1>1, <1>2, <1>3, HostedReviewAssumption
  DEF ReviewInv, Typed, Checkings, Commands
<1> HIDE DEF ended
<1> USE <1>1 DEF outcomeVars, signalVars, callVars
<1>5. Typed'
  BY <1>2, <1>4, IdleRun
  DEF ReviewInv, Typed, Provider!CallTypeOK, Sandbox!RunTypeOK, Sandbox!Containers
<1>6. RunInv'
  BY <1>2, IdleRun DEF RunInv, CleanRun, Exited, Sandbox!Exits
<1>7. \A c \in Commands : c < checks'.next => c < checks.next \/ c = checks.next
  BY <1>4, HostedReviewAssumption DEF ReviewInv, Typed, Checkings, Commands
<1>8. ChecksInv'
  BY <1>2, <1>3, <1>4, <1>7 DEF ReviewInv, ChecksInv, Outcomes
<1>9. CallInv'
  BY <1>2, CallStays DEF ReviewInv
<1>10. StagesInv'
  BY <1>2 DEF ReviewInv, StagesInv
<1>11. FindingsInv'
  BY <1>2 DEF ReviewInv, FindingsInv
<1>12. VerdictInv'
  BY <1>2, NoVerdict DEF ReviewInv
<1> QED
  BY <1>5, <1>6, <1>8, <1>9, <1>10, <1>11, <1>12 DEF ReviewInv

LEMMA StatusType == CheckStatus \in {"complete", "incomplete", "error"}
  BY DEF CheckStatus

LEMMA ChecksEndKeeps == ASSUME ReviewInv, ChecksEnd PROVE ReviewInv'
<1>1. /\ stage = "checks" /\ exec.pc = "idle"
      /\ review' = [review EXCEPT !.checks = CheckStatus]
      /\ stage' = IF CheckStatus = "complete" THEN "access" ELSE "proof"
      /\ deadline' \in BOOLEAN /\ directory' = FALSE
      /\ UNCHANGED <<outcomeVars, aborted, checks, findings, used, proof, reproduced,
                     verdict, blocking, exec, container, command, callVars>>
  BY DEF ChecksEnd, Enter, Sandbox!At, ReviewInv, Typed
<1>2. /\ stage \in Early /\ stage \notin ModelStages
      /\ stage' \in {"access", "proof"} /\ stage' \in Stages
      /\ stage' \notin Early
  BY <1>1, StageNames DEF Early
<1>3. /\ review' \in Reviews /\ review'.checks = CheckStatus
      /\ review'.human = review.human /\ review'.provider = review.provider
      /\ review'.security = review.security /\ review'.challenger = review.challenger
  BY <1>1, StatusType DEF ReviewInv, Typed, Reviews
<1>4. CheckStatus' = CheckStatus
  BY <1>1 DEF CheckStatus, outcomeVars
<1> USE <1>1, <1>2, <1>3 DEF outcomeVars, callVars
<1>5. Typed'
  BY DEF ReviewInv, Typed, Sandbox!RunTypeOK, Provider!CallTypeOK
<1>6. RunInv'
  BY DEF ReviewInv, RunInv, CleanRun
<1>7. ChecksInv'
  BY <1>4 DEF ReviewInv, ChecksInv
<1>8. CallInv'
  BY CallStays DEF ReviewInv
<1>9. StagesInv'
  BY DEF ReviewInv, StagesInv
<1>10. FindingsInv'
  BY FindingsStay DEF ReviewInv
<1>11. VerdictInv'
  BY NoVerdict DEF ReviewInv
<1> QED
  BY <1>5, <1>6, <1>7, <1>8, <1>9, <1>10, <1>11 DEF ReviewInv

-----------------------------------------------------------------------------
(* The model stages.                                                        *)
Consulting == {"access"} \cup ModelStages

LEMMA ConsultingNames ==
  /\ Consulting \cup {"proof"} \subseteq Stages
  /\ (Consulting \cup {"proof"}) \cap Early = {}
  /\ Consulting \cap {"proof", "finishing", "checks"} = {}
  BY StageNames DEF Consulting, Early, ModelStages

(* What no step of a model stage can break. *)
LEMMA ModelStepKeeps ==
  ASSUME ReviewInv,
         UNCHANGED <<outcomeVars, aborted, checks, proof, reproduced, verdict, blocking,
                     runVars>>,
         stage \in Consulting, stage' \in Consulting \cup {"proof"}, deadline' \in BOOLEAN,
         review' \in Reviews, review'.checks = review.checks,
         used' \in Uses, findings' \in Reported,
         \A f \in Findings :
           /\ findings'[f].support \subseteq FailedChecks
           /\ findings'[f].life = "verified" => findings[f].life = "verified",
         Provider!CallTypeOK', CallInv', StagesInv'
  PROVE  ReviewInv'
<1> USE DEF outcomeVars, runVars
<1>1. /\ stage \notin Early /\ stage' \notin Early /\ stage' \in Stages
      /\ stage \notin {"proof", "finishing", "checks"} /\ stage' # "finishing"
  BY ConsultingNames
<1>2. Typed'
  BY <1>1 DEF ReviewInv, Typed, Sandbox!RunTypeOK
<1>3. RunInv'
  BY <1>1, RunStays DEF ReviewInv
<1>4. ChecksInv'
  BY <1>1, ChecksStay DEF ReviewInv
<1>5. FindingsInv'
  <2>1. FailedChecks' = FailedChecks
    BY DEF FailedChecks
  <2> QED
    BY <1>1, <2>1 DEF ReviewInv, FindingsInv
<1>6. VerdictInv'
  BY <1>1, NoVerdict DEF ReviewInv
<1> QED
  BY <1>2, <1>3, <1>4, <1>5, <1>6 DEF ReviewInv

LEMMA FindingsAlike ==
  ASSUME ReviewInv, findings' = findings
  PROVE  /\ findings' \in Reported
         /\ \A f \in Findings :
              /\ findings'[f].support \subseteq FailedChecks
              /\ findings'[f].life = "verified" => findings[f].life = "verified"
  BY DEF ReviewInv, Typed, FindingsInv

LEMMA AnswersAre ==
  /\ "notable" \in Provider!Answers /\ "none" \notin Provider!Answers
  /\ "unasked" \notin Provider!Answers
  BY DEF Provider!Answers

LEMMA UnavailableKeeps ==
  ASSUME ReviewInv, ReviewUnavailable \/ SecurityUnavailable \/ ChallengeUnavailable
  PROVE  ReviewInv'
<1>1. PICK s \in ModelStages, step \in {"provider", "security", "challenger"} :
        /\ StageUnavailable(s, step)
        /\ \/ s = "review" /\ step = "provider" /\ stage = "access"
           \/ s = "security" /\ step = "security" /\ stage = "security"
           \/ s = "challenge" /\ step = "challenger" /\ stage = "challenge"
        /\ stage # "access" => call.pc = "idle"
  BY DEF ReviewUnavailable, SecurityUnavailable, ChallengeUnavailable, ModelStages, Provider!At
<1>2. stage \in Consulting /\ stage' = "proof" /\ (stage = "access" => stage \notin ModelStages)
  BY <1>1, StageNames DEF Consulting, ModelStages, StageUnavailable, Enter
<1>3. /\ used' = [used EXCEPT ![s] = "none"] /\ used' \in Uses
      /\ used'[s] = "none" /\ \A other \in ModelStages \ {s} : used'[other] = used[other]
  BY <1>1 DEF StageUnavailable, ReviewInv, Typed, Uses
<1>4. /\ review' \in Reviews /\ review'.checks = review.checks
      /\ review'.human = review.human /\ review'.empty = review.empty
      /\ review'.sensitive = review.sensitive
      /\ s = "review" => review'.provider = "incomplete"
      /\ s # "review" => review'.provider = review.provider
      /\ s = "security" => review'.security = "incomplete"
      /\ s # "security" => review'.security = review.security
      /\ s = "challenge" => review'.challenger = "incomplete"
      /\ s # "challenge" => review'.challenger = review.challenger
  <2>1. review \in Reviews /\ review' = [review EXCEPT ![step] = "incomplete"]
    BY <1>1 DEF StageUnavailable, ReviewInv, Typed
  <2>2. CASE s = "review"
    BY <1>1, <2>1, <2>2 DEF Reviews, Steps
  <2>3. CASE s = "security"
    BY <1>1, <2>1, <2>3 DEF Reviews, Steps
  <2>4. CASE s = "challenge"
    BY <1>1, <2>1, <2>4 DEF Reviews, Steps
  <2> QED
    BY <1>1, <2>2, <2>3, <2>4
<1>5. CallInv' /\ Provider!CallTypeOK'
  <2>1. UNCHANGED <<call, rows>> /\ (stage \in ModelStages => call.pc = "idle")
    BY <1>1, <1>2 DEF StageUnavailable, callVars
  <2> QED
    BY <1>3, <2>1, AnswersAre
    DEF ReviewInv, Typed, CallInv, CallTold, RecordedAnswersDecide, Provider!CallTypeOK
<1>6. StagesInv'
  BY <1>1, <1>2, <1>3, <1>4 DEF ReviewInv, StagesInv, ModelStages
<1>7. deadline' \in BOOLEAN
  BY <1>1 DEF StageUnavailable, Enter, ReviewInv, Typed
<1> QED
  BY <1>1, <1>2, <1>3, <1>4, <1>5, <1>6, <1>7, ModelStepKeeps, FindingsAlike
  DEF StageUnavailable

LEMMA AskKeeps ==
  ASSUME ReviewInv, AskReview \/ AskSecurity \/ AskChallenge PROVE ReviewInv'
<1>1. PICK s \in ModelStages, others \in BOOLEAN :
        /\ AskModel(s, others)
        /\ \/ s = "review" /\ stage = "access"
           \/ s # "review" /\ stage = s
  <2>1. CASE AskReview
    BY <2>1 DEF AskReview, Selections, ModelStages
  <2>2. CASE AskSecurity \/ AskChallenge
    BY <2>2 DEF AskSecurity, AskChallenge, ModelStages, ReviewInv, Typed, Reviews
  <2> QED
    BY <2>1, <2>2
<1>2. stage \in Consulting /\ stage' = s /\ stage' \in Consulting
  BY <1>1 DEF Consulting, AskModel, Enter
<1>3. PICK packing \in Packed :
        review' = [review EXCEPT !.context = Cut(packing), !.others = others]
  BY <1>1 DEF AskModel
<1>4. /\ review' \in Reviews /\ review'.checks = review.checks
      /\ review'.human = review.human /\ review'.provider = review.provider
      /\ review'.security = review.security /\ review'.challenger = review.challenger
      /\ review'.sensitive = review.sensitive
  BY <1>3 DEF ReviewInv, Typed, Reviews, Cut
<1>5. Provider!Ask(s)
  BY <1>1 DEF AskModel
<1>6. CallInv' /\ Provider!CallTypeOK'
  BY <1>1, <1>2, <1>5, AskCall
  DEF ReviewInv, Typed, CallInv, CallTold, RecordedAnswersDecide, AskModel
<1>7. StagesInv'
  BY <1>1, <1>2, <1>4 DEF ReviewInv, StagesInv, ModelStages, AskModel
<1>8. deadline' \in BOOLEAN /\ used' \in Uses
  BY <1>1 DEF AskModel, Enter, ReviewInv, Typed
<1> QED
  BY <1>1, <1>2, <1>4, <1>6, <1>7, <1>8, ModelStepKeeps, FindingsAlike DEF AskModel

(* An answer that holds is the one in the row of its stage. *)
LEMMA HeardTells ==
  ASSUME ReviewInv, NEW s \in ModelStages, NEW holds \in BOOLEAN, Heard(s, holds)
  PROVE  /\ stage = s /\ stage \in Consulting
         /\ used' \in Uses /\ \A other \in ModelStages \ {s} : used'[other] = used[other]
         /\ used'[s] = IF holds THEN call.answer ELSE "none"
         /\ holds => call.answer \in Provider!Answers
         /\ Provider!CallTypeOK' /\ CallInv'
<1>1. /\ stage = s /\ call.pc = "done" /\ call.stage = s
      /\ used' = [used EXCEPT ![s] = IF holds THEN call.answer ELSE "none"]
      /\ call' = Provider!NoCall /\ rows' = rows
  BY DEF Heard, Provider!At, ReviewInv, CallInv
<1>2. holds => call.answer \in Provider!Answers
  BY DEF Heard, ReviewInv, Typed, Provider!CallTypeOK, Provider!Call
<1>3. /\ used' \in Uses /\ used'[s] = (IF holds THEN call.answer ELSE "none")
      /\ \A other \in ModelStages \ {s} : used'[other] = used[other]
  BY <1>1, <1>2 DEF ReviewInv, Typed, Uses
<1>4. Provider!CallTypeOK'
  BY <1>1, NoCallType DEF ReviewInv, Typed, Provider!CallTypeOK
<1>5. holds => rows[s] = call.answer
  BY <1>1, <1>2 DEF ReviewInv, CallInv, CallTold
<1>6. RecordedAnswersDecide'
  BY <1>1, <1>3, <1>5, AnswersAre DEF ReviewInv, CallInv, RecordedAnswersDecide
<1>7. CallInv'
  BY <1>1, <1>6, NoCallType DEF CallInv, CallTold
<1> QED
  BY <1>1, <1>2, <1>3, <1>4, <1>7 DEF Consulting

LEMMA ReportAdds ==
  ASSUME ReviewInv, Report
  PROVE  /\ findings' \in Reported
         /\ \A f \in Findings :
              /\ findings'[f].support \subseteq FailedChecks
              /\ findings'[f].life = "verified" => findings[f].life = "verified"
<1>1. PICK new \in SUBSET {f \in Findings: findings[f].life = "absent"} :
      \E support \in [new -> SUBSET FailedChecks]:
        findings' = [f \in Findings |->
          IF f \notin new THEN findings[f]
          ELSE [life |-> IF support[f] # {} THEN "supported" ELSE "high",
                support |-> support[f]]]
  BY DEF Report
<1>2. PICK support \in [new -> SUBSET FailedChecks] :
        findings' = [f \in Findings |->
          IF f \notin new THEN findings[f]
          ELSE [life |-> IF support[f] # {} THEN "supported" ELSE "high",
                support |-> support[f]]]
  BY <1>1
<1>3. FailedChecks \subseteq Commands
  BY DEF FailedChecks
<1>4. ASSUME NEW f \in Findings
      PROVE  /\ findings'[f] \in [life : Lives, support : SUBSET Commands]
             /\ findings'[f].support \subseteq FailedChecks
             /\ findings'[f].life = "verified" => findings[f].life = "verified"
  <2>1. CASE f \notin new
    <3>1. findings'[f] = findings[f]
      BY <1>2, <2>1
    <3>2. /\ findings[f] \in [life : Lives, support : SUBSET Commands]
          /\ findings[f].support \subseteq FailedChecks
      BY DEF ReviewInv, Typed, FindingsInv, Reported
    <3> QED
      BY <3>1, <3>2
  <2>2. CASE f \in new
    <3>1. support[f] \in SUBSET FailedChecks
      BY <2>2
    <3>2. findings'[f] = [life |-> IF support[f] # {} THEN "supported" ELSE "high",
                          support |-> support[f]]
      BY <1>2, <2>2
    <3> QED
      BY <1>3, <3>1, <3>2 DEF Lives
  <2> QED
    BY <2>1, <2>2
<1> QED
  BY <1>2, <1>4 DEF Reported

LEMMA PlacedType == Placed \subseteq BOOLEAN
  BY DEF Placed, LocationHolds

LEMMA ReviewHeardKeeps == ASSUME ReviewInv, ReviewHeard PROVE ReviewInv'
<1>1. PICK holds \in Placed :
        /\ Heard("review", holds)
        /\ review' = [review EXCEPT !.provider = IF holds THEN "complete" ELSE "incomplete"]
        /\ IF call.answer = "notable" THEN Report ELSE UNCHANGED findings
        /\ Enter(IF holds THEN "security" ELSE "proof")
  BY DEF ReviewHeard
<1>2. holds \in BOOLEAN /\ "review" \in ModelStages
  BY PlacedType DEF ModelStages
<1>3. /\ review' \in Reviews /\ review'.checks = review.checks
      /\ review'.human = review.human /\ review'.security = review.security
      /\ review'.provider = IF holds THEN "complete" ELSE "incomplete"
      /\ review'.challenger = review.challenger /\ review'.sensitive = review.sensitive
      /\ review'.empty = review.empty
  BY <1>1 DEF ReviewInv, Typed, Reviews, Steps
<1>4. /\ findings' \in Reported
      /\ \A f \in Findings :
           /\ findings'[f].support \subseteq FailedChecks
           /\ findings'[f].life = "verified" => findings[f].life = "verified"
  BY <1>1, ReportAdds, FindingsAlike
<1>5. StagesInv'
  BY <1>1, <1>2, <1>3, HeardTells, AnswersAre DEF ReviewInv, StagesInv, ModelStages, Enter
<1>6. stage' \in Consulting \cup {"proof"} /\ deadline' \in BOOLEAN
  BY <1>1, <1>2 DEF Enter, Consulting, ModelStages, ReviewInv, Typed
<1> QED
  BY <1>1, <1>2, <1>3, <1>4, <1>5, <1>6, HeardTells, ModelStepKeeps DEF Heard

LEMMA SecurityHeardKeeps == ASSUME ReviewInv, SecurityHeard PROVE ReviewInv'
<1>1. PICK holds \in Placed :
        /\ Heard("security", holds)
        /\ review' = [review EXCEPT !.security = IF holds THEN "complete" ELSE "incomplete"]
        /\ IF holds /\ call.answer = "notable" THEN Report ELSE UNCHANGED findings
        /\ Enter(IF holds THEN "challenge" ELSE "proof")
  BY DEF SecurityHeard
<1>2. holds \in BOOLEAN /\ "security" \in ModelStages
  BY PlacedType DEF ModelStages
<1>3. /\ review' \in Reviews /\ review'.checks = review.checks
      /\ review'.human = review.human /\ review'.provider = review.provider
      /\ review'.security = IF holds THEN "complete" ELSE "incomplete"
      /\ review'.challenger = review.challenger /\ review'.sensitive = review.sensitive
      /\ review'.empty = review.empty
  BY <1>1 DEF ReviewInv, Typed, Reviews, Steps
<1>4. /\ findings' \in Reported
      /\ \A f \in Findings :
           /\ findings'[f].support \subseteq FailedChecks
           /\ findings'[f].life = "verified" => findings[f].life = "verified"
  BY <1>1, ReportAdds, FindingsAlike
<1>5. StagesInv'
  BY <1>1, <1>2, <1>3, HeardTells, AnswersAre DEF ReviewInv, StagesInv, ModelStages, Enter
<1>6. stage' \in Consulting \cup {"proof"} /\ deadline' \in BOOLEAN
  BY <1>1, <1>2 DEF Enter, Consulting, ModelStages, ReviewInv, Typed
<1> QED
  BY <1>1, <1>2, <1>3, <1>4, <1>5, <1>6, HeardTells, ModelStepKeeps DEF Heard

LEMMA ChallengeHeardKeeps == ASSUME ReviewInv, ChallengeHeard PROVE ReviewInv'
<1>1. PICK holds \in BOOLEAN, asked \in Candidates :
        /\ Heard("challenge", holds)
        /\ review' = [review EXCEPT
             !.challenger = IF holds /\ Cardinality(LikelyBlockers) <= MaxChallenged
                            THEN "complete" ELSE "incomplete",
             !.human = holds /\ call.answer = "notable"]
        /\ findings' = [f \in Findings |->
             IF holds /\ f \in asked THEN [findings[f] EXCEPT !.life = "challenged"]
             ELSE findings[f]]
        /\ Enter("proof")
  BY DEF ChallengeHeard
<1>2. "challenge" \in ModelStages
  BY DEF ModelStages
<1>3. /\ review' \in Reviews /\ review'.checks = review.checks
      /\ review'.human = (holds /\ call.answer = "notable")
      /\ review'.security = review.security /\ review'.provider = review.provider
      /\ ~holds => review'.challenger = "incomplete"
      /\ review'.sensitive = review.sensitive /\ review'.empty = review.empty
  <2> DEFINE step == IF holds /\ Cardinality(LikelyBlockers) <= MaxChallenged
                     THEN "complete" ELSE "incomplete"
  <2>1. step \in Steps /\ (~holds => step = "incomplete")
    BY DEF Steps
  <2>2. review' = [review EXCEPT !.challenger = step,
                                 !.human = holds /\ call.answer = "notable"]
    BY <1>1
  <2> HIDE DEF step
  <2> QED
    BY <2>1, <2>2 DEF ReviewInv, Typed, Reviews
<1>4. /\ findings' \in Reported
      /\ \A f \in Findings :
           /\ findings'[f].support \subseteq FailedChecks
           /\ findings'[f].life = "verified" => findings[f].life = "verified"
  BY <1>1 DEF ReviewInv, Typed, FindingsInv, Reported, Lives
<1>5. StagesInv'
  BY <1>1, <1>2, <1>3, HeardTells, AnswersAre DEF ReviewInv, StagesInv, ModelStages, Enter
<1>6. stage' \in Consulting \cup {"proof"} /\ deadline' \in BOOLEAN
  BY <1>1 DEF Enter, ReviewInv, Typed
<1> QED
  BY <1>1, <1>2, <1>3, <1>4, <1>5, <1>6, HeardTells, ModelStepKeeps DEF Heard

LEMMA CallKeeps ==
  ASSUME ReviewInv, CallProvider \/ ProviderWakes PROVE ReviewInv'
<1>1. /\ stage \in ModelStages /\ (Provider!Progress \/ Provider!Wakes)
      /\ UNCHANGED <<outcomeVars, stage, signalVars, workVars, runVars>>
  BY DEF CallProvider, ProviderWakes
<1>2. /\ Provider!CallTypeOK' /\ call.pc # "idle" /\ call'.stage = call.stage
      /\ CallTold'
      /\ \A s \in ModelStages : rows[s] \in Provider!Answers => rows'[s] = rows[s]
  BY <1>1, CallSteps DEF ReviewInv, Typed
<1>3. CallInv'
  BY <1>1, <1>2 DEF ReviewInv, CallInv, RecordedAnswersDecide, workVars
<1>4. StagesInv'
  BY <1>1 DEF ReviewInv, StagesInv, workVars
<1>5. /\ stage \in Consulting /\ deadline' \in BOOLEAN
      /\ review' \in Reviews /\ used' \in Uses
  BY <1>1 DEF ReviewInv, Typed, Consulting, signalVars, workVars
<1> QED
  BY <1>1, <1>2, <1>3, <1>4, <1>5, ModelStepKeeps, FindingsAlike DEF workVars, signalVars

-----------------------------------------------------------------------------
(* The proof of the findings.                                               *)
LEMMA ProofStepKeeps ==
  ASSUME ReviewInv, stage = "proof",
         UNCHANGED <<outcomeVars, stage, signalVars, checks, review, used, verdict,
                     blocking, runVars, callVars>>,
         proof' \in Provings, findings' \in Reported, reproduced' \subseteq Findings,
         FindingsInv'
  PROVE  ReviewInv'
<1> USE DEF outcomeVars, signalVars, runVars, callVars
<1>1. Typed'
  BY DEF ReviewInv, Typed, Sandbox!RunTypeOK, Provider!CallTypeOK
<1>2. RunInv'
  BY RunStays DEF ReviewInv
<1>3. ChecksInv'
  <2>1. stage \notin Early
    BY StageNames
  <2> QED
    BY <2>1, ChecksStay DEF ReviewInv
<1>4. CallInv'
  BY CallStays DEF ReviewInv
<1>5. StagesInv'
  BY DEF ReviewInv, StagesInv
<1>6. VerdictInv'
  BY NoVerdict DEF ReviewInv
<1> QED
  BY <1>1, <1>2, <1>3, <1>4, <1>5, <1>6 DEF ReviewInv

(* Steps that only get on with the proof of a finding. *)
LEMMA ProofMoveKeeps ==
  ASSUME ReviewInv, stage = "proof",
         UNCHANGED <<outcomeVars, stage, signalVars, checks, review, findings, used,
                     reproduced, verdict, blocking, runVars, callVars>>,
         proof' \in Provings,
         proof'.picked => proof'.at \in Findings /\ proof'.requested,
         proof'.incomplete => proof'.requested,
         proof.incomplete => proof'.incomplete
  PROVE  ReviewInv'
<1>1. stage \notin Early
  BY StageNames
<1>2. findings \in Reported /\ reproduced \subseteq Findings
  BY DEF ReviewInv, Typed
<1>3. FindingsInv'
  BY <1>1 DEF ReviewInv, FindingsInv, FailedChecks
<1> QED
  BY <1>2, <1>3, ProofStepKeeps

LEMMA PickKeeps == ASSUME ReviewInv, PickFinding PROVE ReviewInv'
<1> DEFINE least == Min(Unproved)
<1>1. least \in Findings
  <2>1. Unproved \in SUBSET Nat /\ Unproved # {} /\ Unproved \subseteq Findings
    BY HostedReviewAssumption DEF Unproved, Findings, PickFinding
  <2> QED
    BY <2>1, MinIn
<1>2. /\ stage = "proof" /\ proof \in Provings /\ findings \in Reported
      /\ proof' = [proof EXCEPT !.at = least, !.picked = TRUE, !.requested = TRUE,
                                !.left = findings[least].support]
  BY DEF PickFinding, ReviewInv, Typed
<1>3. least \in 0..NumFindings /\ findings[least].support \subseteq Commands
  BY <1>1, <1>2, HostedReviewAssumption DEF Findings, Reported
<1> HIDE DEF least
<1>4. /\ proof' \in Provings /\ proof'.at = least /\ proof'.picked /\ proof'.requested
      /\ proof'.incomplete = proof.incomplete
  BY <1>2, <1>3 DEF Provings
<1> QED
  BY <1>1, <1>2, <1>4, ProofMoveKeeps DEF PickFinding

(* How a proof may go on, once its finding is picked. *)
LEMMA ProofForms ==
  ASSUME ReviewInv, proof.picked
  PROVE  /\ proof \in Provings /\ proof.at \in Findings /\ proof.requested
         /\ NoPair \in Provings /\ NoPair.at = proof.at /\ NoPair.left = proof.left
         /\ NoPair.requested /\ NoPair.incomplete = proof.incomplete
         /\ NoPair.picked = proof.picked
         /\ Left \in Provings /\ Left.requested /\ ~Left.picked
         /\ Left.incomplete = proof.incomplete
         /\ GivenUp \in Provings /\ GivenUp.requested /\ ~GivenUp.picked
         /\ GivenUp.incomplete /\ GivenUp.tries = proof.tries
<1>1. proof \in Provings /\ proof.at \in Findings /\ proof.requested
  BY DEF ReviewInv, Typed, FindingsInv
<1>2. /\ NoPair \in Provings /\ NoPair.at = proof.at /\ NoPair.left = proof.left
      /\ NoPair.requested = proof.requested /\ NoPair.incomplete = proof.incomplete
      /\ NoPair.picked = proof.picked /\ NoPair.tries = proof.tries
  BY <1>1 DEF NoPair, Provings
<1>3. /\ Left \in Provings /\ Left.requested = proof.requested /\ ~Left.picked
      /\ Left.incomplete = proof.incomplete /\ Left.tries = proof.tries
  BY <1>2 DEF Left, Provings
<1>4. /\ GivenUp \in Provings /\ GivenUp.requested = proof.requested /\ ~GivenUp.picked
      /\ GivenUp.incomplete /\ GivenUp.tries = proof.tries
  BY <1>3 DEF GivenUp, Provings
<1> QED
  BY <1>1, <1>2, <1>3, <1>4

LEMMA LeaveFindingKeeps == ASSUME ReviewInv, LeaveFinding PROVE ReviewInv'
<1>1. stage = "proof" /\ proof.picked /\ proof' \in {Left, GivenUp}
  BY DEF LeaveFinding
<1> QED
  BY <1>1, ProofForms, ProofMoveKeeps DEF LeaveFinding

LEMMA BindKeeps == ASSUME ReviewInv, BindProof PROVE ReviewInv'
<1>1. /\ stage = "proof" /\ proof.picked
      /\ \/ proof' = [proof EXCEPT !.tries = @ + 1, !.step = "trees"]
         \/ proof' = [GivenUp EXCEPT !.tries = @ + 1]
  BY DEF BindProof, Proving
<1>2. proof.tries + 1 \in 0..MaxProofs
  BY HostedReviewAssumption DEF BindProof, ProofsLeft, ReviewInv, Typed, Provings
<1>3. /\ proof' \in Provings /\ proof'.requested /\ (proof'.picked => proof'.at = proof.at)
      /\ (proof.incomplete => proof'.incomplete)
  <2>1. CASE proof' = [proof EXCEPT !.tries = @ + 1, !.step = "trees"]
    BY <1>1, <1>2, <2>1, ProofForms DEF Provings
  <2>2. CASE proof' = [GivenUp EXCEPT !.tries = @ + 1]
    <3>1. /\ GivenUp \in Provings /\ GivenUp.requested /\ ~GivenUp.picked
          /\ GivenUp.incomplete /\ GivenUp.tries + 1 \in 0..MaxProofs
      BY <1>1, <1>2, ProofForms
    <3> QED
      BY <2>2, <3>1 DEF Provings
  <2> QED
    BY <1>1, <2>1, <2>2
<1> QED
  BY <1>1, <1>3, ProofForms, ProofMoveKeeps DEF BindProof

LEMMA ContainerRunsType == ContainerRuns \subseteq Runs \cup {NoRun}
  BY DEF ContainerRuns

LEMMA PairKeeps == ASSUME ReviewInv, MakeTrees \/ RunBase \/ RunHead PROVE ReviewInv'
<1>1. /\ stage = "proof" /\ proof.picked
      /\ UNCHANGED <<outcomeVars, stage, signalVars, checks, review, findings, used,
                     reproduced, verdict, blocking, runVars, callVars>>
  BY DEF MakeTrees, RunBase, RunHead, Proving
<1>2. proof \in Provings
  BY DEF ReviewInv, Typed
<1>3. /\ proof' \in Provings /\ (proof' = GivenUp \/ proof'.requested)
      /\ (proof' = GivenUp \/ proof'.at = proof.at)
      /\ (proof' = GivenUp \/ proof'.incomplete = proof.incomplete)
  <2>1. CASE MakeTrees
    <3>1. proof' = [proof EXCEPT !.step = "base"] \/ proof' = GivenUp
      BY <2>1 DEF MakeTrees
    <3> QED
      BY <1>1, <3>1, ProofForms DEF Provings
  <2>2. CASE RunBase
    <3>1. PICK r \in Runs \cup {NoRun} : proof' = [proof EXCEPT !.step = "head", !.base = r]
      BY <2>2, ContainerRunsType DEF RunBase
    <3> QED
      BY <1>1, <3>1, ProofForms DEF Provings
  <2>3. CASE RunHead
    <3>1. PICK r \in Runs \cup {NoRun} : proof' = [proof EXCEPT !.step = "leaving", !.head = r]
      BY <2>3, ContainerRunsType DEF RunHead
    <3> QED
      BY <1>1, <3>1, ProofForms DEF Provings
  <2> QED
    BY <2>1, <2>2, <2>3
<1> QED
  BY <1>1, <1>3, ProofForms, ProofMoveKeeps

LEMMA AssessKeeps == ASSUME ReviewInv, AssessPair PROVE ReviewInv'
<1>1. /\ stage = "proof" /\ proof.picked
      /\ UNCHANGED <<outcomeVars, stage, signalVars, checks, review, used, verdict,
                     blocking, runVars, callVars>>
  BY DEF AssessPair, Proving
<1> DEFINE base == proof.base
           head == proof.head
           assessed(removed) ==
             removed /\ ~aborted /\ Assessable(base.outcome, head.outcome)
           verified(removed) == assessed(removed) /\ Shows(base.outcome, head.outcome)
<1>2. PICK removed \in BOOLEAN :
        /\ proof' = IF ~assessed(removed) THEN GivenUp
                    ELSE IF verified(removed) THEN Left
                    ELSE [NoPair EXCEPT !.left = @ \ {Min(@)}]
        /\ findings' = IF verified(removed)
                       THEN [findings EXCEPT ![proof.at].life = "verified"]
                       ELSE findings
        /\ reproduced' = IF base.end = "zero" /\ head.end = "nonzero"
                         THEN reproduced \cup {proof.at} ELSE reproduced
  BY DEF AssessPair
<1>3. /\ base \in Runs \cup {NoRun} /\ head \in Runs \cup {NoRun}
      /\ findings \in Reported /\ reproduced \subseteq Findings /\ proof.at \in Findings
  BY <1>1, ProofForms DEF ReviewInv, Typed, Provings
<1>4. /\ verified(removed) => base.end = "zero" /\ head.end = "nonzero"
      /\ assessed(removed) /\ base.end = "zero" /\ head.end = "nonzero" => verified(removed)
  BY <1>3 DEF Runs, NoRun, Assessable, Shows
<1>5. /\ proof' \in Provings /\ proof'.requested
      /\ proof'.picked => proof'.at = proof.at
      /\ proof.incomplete => proof'.incomplete
      /\ ~assessed(removed) => proof'.incomplete
  <2>1. [NoPair EXCEPT !.left = @ \ {Min(@)}] =
          [NoPair EXCEPT !.left = NoPair.left \ {Min(NoPair.left)}]
    BY Zenon
  <2> DEFINE rest == NoPair.left \ {Min(NoPair.left)}
  <2>2. rest \subseteq Commands
    BY <1>1, ProofForms DEF Provings
  <2>3. proof' \in {GivenUp, Left, [NoPair EXCEPT !.left = rest]}
    BY <1>2, <2>1
  <2> HIDE DEF rest
  <2>4. /\ [NoPair EXCEPT !.left = rest] \in Provings
        /\ [NoPair EXCEPT !.left = rest].requested
        /\ [NoPair EXCEPT !.left = rest].at = proof.at
        /\ [NoPair EXCEPT !.left = rest].incomplete = proof.incomplete
    BY <1>1, <2>2, ProofForms DEF Provings
  <2>5. ~assessed(removed) => proof' = GivenUp
    BY <1>2
  <2> HIDE DEF assessed
  <2> QED
    BY <1>1, <2>3, <2>4, <2>5, ProofForms
<1> HIDE DEF assessed, verified
<1>6. /\ findings' \in Reported
      /\ \A f \in Findings :
           /\ findings'[f].support = findings[f].support
           /\ findings'[f].life = IF verified(removed) /\ f = proof.at
                                  THEN "verified" ELSE findings[f].life
  BY <1>2, <1>3 DEF Reported, Lives
<1>7. /\ reproduced' \subseteq Findings /\ reproduced \subseteq reproduced'
      /\ verified(removed) => proof.at \in reproduced'
      /\ \A f \in reproduced' \ reproduced :
           f = proof.at /\ (verified(removed) \/ ~assessed(removed))
  BY <1>2, <1>3, <1>4
<1>8. FindingsInv'
  <2>1. stage' \notin Early /\ stage' = "proof" /\ FailedChecks' = FailedChecks
    BY <1>1, StageNames DEF FailedChecks
  <2>2. \A f \in Findings :
          /\ findings'[f].support \subseteq FailedChecks
          /\ findings'[f].life = "verified" => f \in reproduced'
    BY <1>6, <1>7 DEF ReviewInv, FindingsInv
  <2>3. \A f \in reproduced' : findings'[f].life = "verified" \/ proof'.incomplete
    <3> TAKE f \in reproduced'
    <3>1. f \in Findings
      BY <1>7
    <3>2. CASE f \in reproduced
      BY <1>1, <1>5, <1>6, <3>1, <3>2 DEF ReviewInv, FindingsInv
    <3>3. CASE f = proof.at /\ (verified(removed) \/ ~assessed(removed))
      BY <1>5, <1>6, <3>1, <3>3
    <3> QED
      BY <1>7, <3>2, <3>3
  <2>4. proof'.picked => proof'.at \in Findings
    BY <1>3, <1>5
  <2> QED
    BY <1>5, <2>1, <2>2, <2>3, <2>4 DEF FindingsInv
<1> QED
  BY <1>1, <1>5, <1>6, <1>7, <1>8, ProofStepKeeps

-----------------------------------------------------------------------------
(* The verdict.                                                             *)
LEMMA ModelStatusTells ==
  ASSUME review \in Reviews, ModelStatus # "incomplete"
  PROVE  "incomplete" \notin {review.provider, review.security, review.challenger}
  BY DEF ModelStatus

(* Complete checks, and none that is required has failed. *)
LEMMA CompleteChecks ==
  ASSUME ReviewInv, CheckStatus = "complete", ~RequiredFailed
  PROVE  /\ Required = {} \/ plan # "untrusted"
         /\ plan = "trusted" => \A c \in Required : checks.end[c] = "zero"
<1>1. Required = {} \/ plan # "untrusted"
  BY DEF CheckStatus
<1>2. ASSUME plan = "trusted", NEW c \in Required PROVE checks.end[c] = "zero"
  <2>1. c \in Commands /\ checks \in Checkings
    BY HostedReviewAssumption DEF ReviewInv, Typed
  <2> DEFINE required == {checks.outcome[k] : k \in Required}
  <2>2. /\ "infrastructure_error" \notin required
        /\ ~(checks.next <= NumCommands) /\ required \cap {"timed_out", "cancelled"} = {}
    BY <1>2 DEF CheckStatus
  <2>3. checks.outcome[c] \in required
    OBVIOUS
  <2>4. checks.outcome[c] \notin {"infrastructure_error", "timed_out", "cancelled"}
    BY <2>2, <2>3
  <2> HIDE DEF required
  <2>5. c < checks.next
    BY <2>1, <2>2, HostedReviewAssumption DEF Checkings, Commands
  <2>6. checks.outcome[c] \in Outcomes \ {"failed"}
    BY <2>1, <2>5 DEF ReviewInv, ChecksInv, Checkings, RequiredFailed
  <2>7. checks.outcome[c] = "passed"
    BY <2>4, <2>6 DEF Outcomes
  <2> QED
    BY <2>1, <2>7 DEF ReviewInv, ChecksInv
<1> QED
  BY <1>1, <1>2

LEMMA ShipTells ==
  ASSUME ReviewInv, stage = "proof", "VERIFIED" \in blocking', NEW proofStatus,
         proof.incomplete => proofStatus = "incomplete",
         Adjudicate(blocking', proofStatus) = "SHIP",
         verdict' = "SHIP", UNCHANGED <<plan, checks, review, findings, used, reproduced>>
  PROVE  ShipsOverNoGap'
<1>1. review \in Reviews
  BY DEF ReviewInv, Typed
<1>2. /\ "error" \notin {review.context, review.checks}
      /\ Levels \cap blocking' = {}
      /\ "incomplete" \notin {review.context, review.checks, ModelStatus, proofStatus}
      /\ ~(RequiredFailed \/ review.human)
  BY DEF Adjudicate
<1>3. review.context = "complete" /\ review.checks = "complete"
  BY <1>1, <1>2 DEF Reviews
<1>4. "incomplete" \notin {review.provider, review.security, review.challenger}
  BY <1>1, <1>2, ModelStatusTells
<1>5. CheckStatus = "complete"
  BY <1>3 DEF ReviewInv, ChecksInv
<1>6. reproduced = {}
  <2> SUFFICES ASSUME NEW f \in reproduced PROVE FALSE
    OBVIOUS
  <2>1. f \in Findings /\ (findings[f].life = "verified" \/ proof.incomplete)
    BY DEF ReviewInv, Typed, FindingsInv
  <2>2. findings[f].life = "verified"
    BY <1>2, <2>1
  <2>3. "VERIFIED" \in Levels
    BY <2>1, <2>2 DEF Levels
  <2> QED
    BY <1>2, <2>3
<1>7. /\ ~review.empty => used["review"] \in Provider!Answers
      /\ ~review.empty /\ review.sensitive => used["security"] \in Provider!Answers
      /\ \A s \in ModelStages : used[s] # "none"
      /\ used["challenge"] # "notable"
  BY <1>2, <1>3, <1>4 DEF ReviewInv, StagesInv, ModelStages
<1>8. /\ Required = {} \/ plan # "untrusted"
      /\ plan = "trusted" => \A c \in Required : checks.end[c] = "zero"
  BY <1>2, <1>5, CompleteChecks
<1> QED
  BY <1>3, <1>6, <1>7, <1>8 DEF ShipsOverNoGap

LEMMA FixTells ==
  ASSUME ReviewInv, NEW proofStatus, Adjudicate(blocking', proofStatus) = "FIX",
         UNCHANGED <<checks, findings, reproduced>>
  PROVE  FixRestsOnEvidence'
<1>1. PICK level \in Levels : level \in blocking'
  BY DEF Adjudicate
<1>2. CASE level = "VERIFIED"
  <2>1. PICK f \in Findings : findings[f].life = "verified"
    BY <1>1, <1>2 DEF Levels
  <2>2. f \in reproduced
    BY <2>1 DEF ReviewInv, FindingsInv
  <2> QED
    BY <2>2 DEF FixRestsOnEvidence
<1>3. CASE level # "VERIFIED"
  <2>1. level = "SUPPORTED" /\ \E f \in Findings : Supported(f)
    BY <1>1, <1>3 DEF Levels
  <2>2. PICK f \in Findings : \E k \in findings[f].support : TRUE
    BY <2>1 DEF Supported
  <2> PICK c \in findings[f].support : TRUE
    BY <2>2
  <2>3. c \in FailedChecks
    BY DEF ReviewInv, FindingsInv
  <2>4. checks.end[c] = "nonzero"
    BY <2>3 DEF FailedChecks, ReviewInv, ChecksInv
  <2> QED
    BY <1>1, <2>1, <2>4 DEF FixRestsOnEvidence
<1> QED
  BY <1>2, <1>3

LEMMA AdjudicateType ==
  ASSUME NEW levels, NEW proofStatus PROVE Adjudicate(levels, proofStatus) \in Verdicts
  BY DEF Adjudicate, Verdicts

LEMMA VerdictKeeps == ASSUME ReviewInv, ProofEnds PROVE ReviewInv'
<1> DEFINE status == IF ~proof.requested THEN "not_requested"
                     ELSE IF proof.incomplete THEN "incomplete" ELSE "complete"
<1>1. /\ stage = "proof" /\ stage' = "finishing" /\ deadline' \in BOOLEAN
      /\ blocking' \in {{"VERIFIED"}, {"SUPPORTED", "VERIFIED"}}
      /\ verdict' = Adjudicate(blocking', status)
      /\ proof' = NoProof
      /\ UNCHANGED <<outcomeVars, aborted, checks, review, findings, used,
                     reproduced, runVars, callVars>>
  BY DEF ProofEnds, Conclude, Enter, ReviewInv, Typed
<1>2. proof.incomplete => status = "incomplete"
  BY DEF ReviewInv, FindingsInv
<1> HIDE DEF status
<1>3. /\ stage \notin Early /\ stage' \notin Early /\ stage' \in Stages
      /\ stage \notin ModelStages
  BY <1>1, StageNames
<1>4. /\ verdict' \in Verdicts /\ "VERIFIED" \in blocking'
      /\ blocking' \subseteq {"SUPPORTED", "VERIFIED"}
  BY <1>1, AdjudicateType
<1> USE <1>1 DEF outcomeVars, runVars, callVars
<1>5. Typed'
  BY <1>3, <1>4, Empty DEF ReviewInv, Typed, Sandbox!RunTypeOK, Provider!CallTypeOK
<1>6. RunInv'
  BY RunStays DEF ReviewInv
<1>7. ChecksInv'
  BY <1>3, ChecksStay DEF ReviewInv
<1>8. CallInv'
  BY <1>3, CallStays DEF ReviewInv
<1>9. StagesInv'
  BY DEF ReviewInv, StagesInv
<1>10. FindingsInv'
  BY <1>3, Empty DEF ReviewInv, FindingsInv, FailedChecks
<1>11. ShipsOverNoGap'
  <2>1. CASE verdict' = "SHIP"
    BY <1>2, <1>4, <2>1, ShipTells
  <2>2. CASE verdict' # "SHIP"
    BY <2>2 DEF ShipsOverNoGap
  <2> QED
    BY <2>1, <2>2
<1>12. FixRestsOnEvidence'
  <2>1. CASE verdict' = "FIX"
    BY <2>1, FixTells
  <2>2. CASE verdict' # "FIX"
    BY <2>2 DEF FixRestsOnEvidence
  <2> QED
    BY <2>1, <2>2
<1> QED
  BY <1>5, <1>6, <1>7, <1>8, <1>9, <1>10, <1>11, <1>12 DEF ReviewInv, VerdictInv

-----------------------------------------------------------------------------
LEMMA NextReview == ReviewInv /\ [Next]_vars => ReviewInv'
<1> SUFFICES ASSUME ReviewInv, [Next]_vars PROVE ReviewInv'
  OBVIOUS
<1>1. CASE Claim
  BY <1>1, ClaimKeeps
<1>2. CASE LeaseLost \/ DeadlinePasses
  BY <1>2, SignalKeeps
<1>3. CASE Crash \/ Complete \/ GiveBack
  BY <1>3, EndKeeps
<1>4. CASE CheckedOut \/ ResolveReferences
  BY <1>4, HandOverKeeps
<1>5. CASE StageFails \/ ContextFails \/ ChecksThrow
  BY <1>5, FailureKeeps
<1>6. CASE CollectContext
  BY <1>6, CollectKeeps
<1>7. CASE RunCheck \/ RunContainer
  BY <1>7, RunKeeps
<1>8. CASE CheckEnds
  BY <1>8, CheckEndsKeeps
<1>9. CASE ChecksEnd
  BY <1>9, ChecksEndKeeps
<1>10. CASE ReviewSkipped \/ SecuritySkipped \/ ChallengeSkipped
  BY <1>10, SkipKeeps
<1>11. CASE ReviewUnavailable \/ SecurityUnavailable \/ ChallengeUnavailable
  BY <1>11, UnavailableKeeps
<1>12. CASE AskReview \/ AskSecurity \/ AskChallenge
  BY <1>12, AskKeeps
<1>13. CASE ReviewHeard
  BY <1>13, ReviewHeardKeeps
<1>14. CASE SecurityHeard
  BY <1>14, SecurityHeardKeeps
<1>15. CASE ChallengeHeard
  BY <1>15, ChallengeHeardKeeps
<1>16. CASE CallProvider \/ ProviderWakes
  BY <1>16, CallKeeps
<1>17. CASE PickFinding
  BY <1>17, PickKeeps
<1>18. CASE LeaveFinding
  BY <1>18, LeaveFindingKeeps
<1>19. CASE BindProof
  BY <1>19, BindKeeps
<1>20. CASE MakeTrees \/ RunBase \/ RunHead
  BY <1>20, PairKeeps
<1>21. CASE AssessPair
  BY <1>21, AssessKeeps
<1>22. CASE ProofEnds
  BY <1>22, VerdictKeeps
<1>23. CASE UNCHANGED vars
  <2> USE <1>23 DEF vars, outcomeVars, signalVars, workVars, runVars, callVars
  <2>1. Typed'
    BY DEF ReviewInv, Typed, Sandbox!RunTypeOK, Provider!CallTypeOK
  <2>2. RunInv' /\ ChecksInv' /\ CallInv'
    BY RunStays, ChecksStay, CallStays DEF ReviewInv
  <2>3. StagesInv'
    BY DEF ReviewInv, StagesInv
  <2>4. FindingsInv' /\ VerdictInv'
    BY FindingsStay, VerdictStays DEF ReviewInv
  <2> QED
    BY <2>1, <2>2, <2>3, <2>4 DEF ReviewInv
<1> QED
  BY <1>1, <1>2, <1>3, <1>4, <1>5, <1>6, <1>7, <1>8, <1>9, <1>10, <1>11, <1>12, <1>13,
     <1>14, <1>15, <1>16, <1>17, <1>18, <1>19, <1>20, <1>21, <1>22, <1>23
  DEF Next, Handle

LEMMA ReviewInvHolds == Spec => []ReviewInv
  BY InitReview, NextReview, PTL DEF Spec

-----------------------------------------------------------------------------
(* Types, for any commands, findings and bounds.                            *)
THEOREM ReviewTypeCorrect == Spec => []TypeOK
<1>1. ReviewInv => TypeOK
  BY TypedIsTypeOK DEF ReviewInv
<1> QED
  BY ReviewInvHolds, <1>1, PTL

(* executeProofInContainer, against a client that dies before its container:   *)
(* a command called passed or failed really ended so, and left neither a       *)
(* container nor a proof directory behind.                                  *)
THEOREM RunsAreConclusive == Spec => []ConclusiveRunIsClean
<1>1. ReviewInv => ConclusiveRunIsClean
  BY CleanIsConclusive DEF ReviewInv, Typed, RunInv, ConclusiveRunIsClean
<1> QED
  BY ReviewInvHolds, <1>1, PTL

(* adjudicateProofedResult: SHIP is never concluded over a gap, whatever stage *)
(* failed, was skipped or cut, and whenever the lease or the deadline passed.  *)
THEOREM NoGapIsShipped == Spec => []ShipsOverNoGap
<1>1. ReviewInv => ShipsOverNoGap
  BY DEF ReviewInv, VerdictInv
<1> QED
  BY ReviewInvHolds, <1>1, PTL

(* FIX is never concluded on the model's word alone.                        *)
THEOREM FixHasEvidence == Spec => []FixRestsOnEvidence
<1>1. ReviewInv => FixRestsOnEvidence
  BY DEF ReviewInv, VerdictInv
<1> QED
  BY ReviewInvHolds, <1>1, PTL

(* observeRequest and recordModelInvocation: what an attempt goes by is what   *)
(* the row says, also after attempts that died in the middle.                *)
THEOREM AnswersAreRecorded == Spec => []RecordedAnswersDecide
<1>1. ReviewInv => RecordedAnswersDecide
  BY DEF ReviewInv, CallInv
<1> QED
  BY ReviewInvHolds, <1>1, PTL
=============================================================================
