--------------------------- MODULE ReviewRunProofs ---------------------------
(***************************************************************************)
(* What holds of ReviewRun for any number of workers, runs, requests and     *)
(* pushes.  The argument: queueing a run replaces everything that was open,  *)
(* and only the worker of the latest claim owns a run.                       *)
(***************************************************************************)
EXTENDS ReviewRun, TLAPS

-----------------------------------------------------------------------------
(* Handlers.                                                                *)
PCs == {"idle", "running", "lost", "finishing", "completing"}

LEMMA IdleIsHandler == Idle \in Handler /\ Idle.pc = "idle"
  BY DEF Idle, Handler, NoRun

LEMMA HandlerSteps ==
  ASSUME NEW d \in Handler
  PROVE  /\ \A pc \in PCs : [d EXCEPT !.pc = pc] \in Handler
         /\ \A pc \in PCs, result \in Results :
              [d EXCEPT !.pc = pc, !.result = result] \in Handler
  BY DEF Handler, PCs

LEMMA FlagSteps ==
  ASSUME NEW d \in Handler, NEW b \in BOOLEAN
  PROVE  /\ [d EXCEPT !.locked = b] \in Handler
         /\ [d EXCEPT !.latest = b] \in Handler
         /\ [d EXCEPT !.latest = b].latest = b
  BY DEF Handler

(* A handler at work has a run, and a result once it finished. *)
AtWork ==
  \A w \in Workers :
    /\ handlers[w].pc # "idle" => handlers[w].run \in Runs
    /\ handlers[w].pc \in {"finishing", "completing"} => handlers[w].result \in Results

Typed == TypeOK /\ AtWork

LEMMA InitTyped == Init => Typed
<1> SUFFICES ASSUME Init PROVE Typed
  OBVIOUS
<1>1. TypeOK
  BY IdleIsHandler, ReviewRunAssumption DEF Init, TypeOK, Statuses, Runs
<1>2. AtWork
  BY IdleIsHandler DEF Init, AtWork
<1> QED
  BY <1>1, <1>2 DEF Typed

(* Each step leaves a handler idle, lets it go on with its run, or starts it. *)
Carries(w) ==
  /\ handlers'[w].run = handlers[w].run
  /\ handlers'[w].pc = handlers[w].pc
  /\ handlers'[w].result = handlers[w].result

LEMMA ClaimHandlers ==
  ASSUME Typed, NEW w \in Workers, NEW r \in Runs, Claim(w, r)
  PROVE  /\ handlers' \in [Workers -> Handler]
         /\ handlers'[w].run = r /\ handlers'[w].pc = "running" /\ handlers'[w].latest
         /\ \A v \in Workers \ {w} :
              /\ Carries(v)
              /\ handlers[v].run # r => handlers'[v].latest = handlers[v].latest
<1> USE DEF Typed, TypeOK
<1> DEFINE started == [pc |-> "running", run |-> r, result |-> NoResult,
                       latest |-> TRUE, locked |-> TRUE]
<1>1. handlers' = [v \in Workers |->
         IF v = w THEN started
         ELSE [handlers[v] EXCEPT !.latest = @ /\ handlers[v].run # r]]
  BY DEF Claim
<1>2. started \in Handler
  BY DEF Handler
<1>3. handlers'[w] = started
  BY <1>1
<1>4. ASSUME NEW v \in Workers \ {w}
      PROVE  /\ handlers'[v] \in Handler /\ Carries(v)
             /\ handlers[v].run # r => handlers'[v].latest = handlers[v].latest
  <2>1. handlers[v] \in Handler /\ handlers[v].latest \in BOOLEAN
    BY DEF Handler
  <2> DEFINE b == handlers[v].latest /\ handlers[v].run # r
  <2>2. handlers'[v] = [handlers[v] EXCEPT !.latest = b]
    BY <1>1
  <2>3. b \in BOOLEAN /\ (handlers[v].run # r => b = handlers[v].latest)
    BY <2>1
  <2> HIDE DEF b
  <2>4. handlers'[v] \in Handler
    <3>1. [handlers[v] EXCEPT !.latest = b] \in Handler
      BY <2>1, <2>3, FlagSteps
    <3> QED
      BY <2>2, <3>1
  <2>5. Carries(v) /\ handlers'[v].latest = b
    BY <2>1, <2>2 DEF Carries, Handler
  <2> QED
    BY <2>3, <2>4, <2>5
<1> QED
  BY <1>1, <1>2, <1>3, <1>4

(* A step of one handler that keeps its run. *)
LEMMA MoveHandler ==
  ASSUME Typed, NEW w \in Workers, NEW pc \in PCs,
         handlers' = [handlers EXCEPT ![w].pc = pc]
  PROVE  /\ handlers' \in [Workers -> Handler]
         /\ handlers'[w].pc = pc
         /\ handlers'[w].run = handlers[w].run
         /\ handlers'[w].result = handlers[w].result
         /\ handlers'[w].latest = handlers[w].latest
         /\ \A v \in Workers \ {w} : handlers'[v] = handlers[v]
<1> USE DEF Typed, TypeOK
<1>1. handlers[w] \in Handler
  OBVIOUS
<1>2. handlers'[w] = [handlers[w] EXCEPT !.pc = pc]
  OBVIOUS
<1>3. handlers'[w] \in Handler
  BY <1>1, <1>2, HandlerSteps
<1> QED
  BY <1>1, <1>2, <1>3 DEF Handler

LEMMA FinishHandler ==
  ASSUME Typed, NEW w \in Workers, FinishReview(w)
  PROVE  /\ handlers' \in [Workers -> Handler]
         /\ handlers'[w].pc = "finishing"
         /\ handlers'[w].run = handlers[w].run
         /\ handlers'[w].result \in Results
         /\ handlers'[w].latest = handlers[w].latest
         /\ \A v \in Workers \ {w} : handlers'[v] = handlers[v]
<1> USE DEF Typed, TypeOK
<1>1. PICK result \in Results : handlers' = [handlers EXCEPT
        ![w] = [@ EXCEPT !.pc = "finishing", !.result = result]]
  BY DEF FinishReview
<1>2. handlers[w] \in Handler
  OBVIOUS
<1>3. handlers'[w] = [handlers[w] EXCEPT !.pc = "finishing", !.result = result]
  BY <1>1
<1>4. handlers'[w] \in Handler
  <2>1. [handlers[w] EXCEPT !.pc = "finishing", !.result = result] \in Handler
    BY <1>2, HandlerSteps DEF PCs
  <2> QED
    BY <1>3, <2>1
<1>5. /\ handlers'[w].pc = "finishing" /\ handlers'[w].result = result
      /\ handlers'[w].run = handlers[w].run /\ handlers'[w].latest = handlers[w].latest
  BY <1>2, <1>3 DEF Handler
<1>6. \A v \in Workers \ {w} : handlers'[v] = handlers[v]
  BY <1>1
<1>7. handlers' \in [Workers -> Handler]
  <2>1. handlers' = [v \in Workers |-> handlers'[v]]
    BY <1>1
  <2> QED
    BY <1>4, <1>6, <2>1
<1> QED
  BY <1>5, <1>6, <1>7

LEMMA StopHandler ==
  ASSUME Typed, NEW w \in Workers, handlers' = [handlers EXCEPT ![w] = Idle]
  PROVE  /\ handlers' \in [Workers -> Handler]
         /\ handlers'[w].pc = "idle"
         /\ \A v \in Workers \ {w} : handlers'[v] = handlers[v]
  BY IdleIsHandler DEF Typed, TypeOK

LEMMA UnlockHandlers ==
  ASSUME Typed, (\E r \in Runs : Stall(r)) \/ LoseQueue
  PROVE  /\ handlers' \in [Workers -> Handler]
         /\ \A w \in Workers : Carries(w) /\ handlers'[w].latest = handlers[w].latest
<1> USE DEF Typed, TypeOK
<1>1. \A w \in Workers : \E b \in BOOLEAN : handlers'[w] = [handlers[w] EXCEPT !.locked = b]
  <2>1. ASSUME NEW r \in Runs, Stall(r), NEW w \in Workers
        PROVE  \E b \in BOOLEAN : handlers'[w] = [handlers[w] EXCEPT !.locked = b]
    <3>1. handlers[w].locked \in BOOLEAN
      BY DEF Handler
    <3>2. handlers'[w] = [handlers[w] EXCEPT !.locked = @ /\ handlers[w].run # r]
      BY <2>1 DEF Stall
    <3> QED
      BY <3>1, <3>2
  <2>2. ASSUME LoseQueue, NEW w \in Workers
        PROVE  \E b \in BOOLEAN : handlers'[w] = [handlers[w] EXCEPT !.locked = b]
    BY <2>2 DEF LoseQueue
  <2> QED
    BY <2>1, <2>2
<1>2. ASSUME NEW w \in Workers
      PROVE  /\ handlers'[w] \in Handler /\ Carries(w)
             /\ handlers'[w].latest = handlers[w].latest
  <2>1. PICK b \in BOOLEAN : handlers'[w] = [handlers[w] EXCEPT !.locked = b]
    BY <1>1
  <2>2. handlers[w] \in Handler
    OBVIOUS
  <2>3. handlers'[w] \in Handler
    <3>1. [handlers[w] EXCEPT !.locked = b] \in Handler
      BY <2>2, FlagSteps
    <3> QED
      BY <2>1, <3>1
  <2> QED
    BY <2>1, <2>2, <2>3 DEF Carries, Handler
<1>3. handlers' = [w \in Workers |-> handlers'[w]]
  BY DEF Stall, LoseQueue
<1> QED
  BY <1>2, <1>3

-----------------------------------------------------------------------------
(* Typing.                                                                  *)
LEMMA QueueRunTyped ==
  ASSUME Typed, NEW h \in 1..MaxHead, NEW o \in Origins, QueueRun(h, o)
  PROVE  /\ nruns + 1 \in Runs
         /\ prHead' \in 0..MaxHead /\ nruns' \in 0..MaxRuns
         /\ head' \in [Runs -> 0..MaxHead] /\ origin' \in [Runs -> Origins \cup {<<>>}]
         /\ status' \in [Runs -> Statuses]
         /\ proposal' \in [Runs -> {"none", "fresh", "stale"}]
         /\ UNCHANGED <<owner, lease, reports, jobs, handlers>>
<1> USE DEF Typed, TypeOK
<1>1. nruns + 1 \in Runs /\ nruns' = nruns + 1 /\ prHead' = h
  BY DEF QueueRun
<1>2. 1..MaxHead \subseteq 0..MaxHead /\ nruns' \in 0..MaxRuns
  BY <1>1, ReviewRunAssumption DEF Runs
<1>3. head' \in [Runs -> 0..MaxHead]
  BY <1>2 DEF QueueRun
<1>4. origin' \in [Runs -> Origins \cup {<<>>}]
  BY DEF QueueRun
<1>5. status' \in [Runs -> Statuses]
  BY DEF QueueRun, Statuses
<1>6. proposal' \in [Runs -> {"none", "fresh", "stale"}]
  BY DEF QueueRun, Withdrawn
<1> QED
  BY <1>1, <1>2, <1>3, <1>4, <1>5, <1>6 DEF QueueRun

LEMMA EndJobTyped ==
  ASSUME Typed, NEW w \in Workers, NEW outcome \in {"absent", "waiting"}, EndJob(w, outcome)
  PROVE  jobs' \in [Runs -> {"absent", "waiting", "active"}]
  BY DEF Typed, TypeOK, EndJob

LEMMA LeaseTyped ==
  ASSUME Typed, NEW w \in Workers, NEW r \in Runs, Lease(w, r)
  PROVE  /\ status' \in [Runs -> Statuses]
         /\ owner' \in [Runs -> Workers \cup {NoWorker}]
         /\ lease' \in [Runs -> {"none", "live", "expired"}]
         /\ UNCHANGED <<intake, reports, proposal>>
  BY DEF Typed, TypeOK, Lease, Statuses

LEMMA IntakeTyped == Typed /\ Intake => Typed'
<1> SUFFICES ASSUME Typed, Intake PROVE TypeOK' /\ AtWork'
  BY DEF Typed
<1>0. TypeOK /\ AtWork
  BY DEF Typed
<1>1. CASE Push
  <2>1. ghHead' \in 1..MaxHead
    BY <1>0, <1>1, ReviewRunAssumption DEF Push, TypeOK
  <2> QED
    BY <1>0, <1>1, <2>1 DEF Push, TypeOK, AtWork
<1>2. ASSUME NEW d \in 1..MaxHead, AcceptWebhook(d) PROVE TypeOK' /\ AtWork'
  <2>1. QueueRun(d, <<"delivery", d>>) /\ UNCHANGED <<ghHead, reads, requests>>
    BY <1>2 DEF AcceptWebhook
  <2>2. <<"delivery", d>> \in Origins
    BY DEF Origins
  <2>3. deliveries' \subseteq 1..MaxHead
    BY <1>0, <1>2 DEF AcceptWebhook, TypeOK
  <2> QED
    BY <1>0, <2>1, <2>2, <2>3, QueueRunTyped DEF TypeOK, AtWork
<1>3. ASSUME NEW d \in 1..MaxHead, IgnoreWebhook(d) PROVE TypeOK' /\ AtWork'
  BY <1>0, <1>3 DEF IgnoreWebhook, TypeOK, AtWork
<1>4. ASSUME NEW q \in Requests, ReadPullRequest(q) PROVE TypeOK' /\ AtWork'
  <2>1. reads' \in [Requests -> SUBSET (1..MaxHead)]
    BY <1>0, <1>4 DEF ReadPullRequest, TypeOK
  <2> QED
    BY <1>0, <1>4, <2>1 DEF ReadPullRequest, TypeOK, AtWork
<1>5. ASSUME NEW q \in Requests, NEW h \in 1..MaxHead, QueueManualReview(q, h)
      PROVE  TypeOK' /\ AtWork'
  <2>1. QueueRun(h, <<"request", q>>) /\ UNCHANGED <<ghHead, deliveries>>
    BY <1>5 DEF QueueManualReview
  <2>2. <<"request", q>> \in Origins
    BY DEF Origins
  <2>3. reads' \in [Requests -> SUBSET (1..MaxHead)]
    BY <1>0, <1>5 DEF QueueManualReview, TypeOK
  <2>4. requests' \in [Requests -> 0..MaxHead]
    <3>1. h \in 0..MaxHead
      BY ReviewRunAssumption
    <3> QED
      BY <1>0, <1>5, <3>1 DEF QueueManualReview, TypeOK
  <2> QED
    BY <1>0, <2>1, <2>2, <2>3, <2>4, QueueRunTyped DEF TypeOK, AtWork
<1>6. ASSUME NEW q \in Requests, NEW h \in 1..MaxHead, DropManualReview(q, h)
      PROVE  TypeOK' /\ AtWork'
  <2>1. reads' \in [Requests -> SUBSET (1..MaxHead)]
    BY <1>0, <1>6 DEF DropManualReview, TypeOK
  <2> QED
    BY <1>0, <1>6, <2>1 DEF DropManualReview, TypeOK, AtWork
<1> QED
  BY <1>1, <1>2, <1>3, <1>4, <1>5, <1>6 DEF Intake

LEMMA ControlTyped == Typed /\ Control => Typed'
<1> SUFFICES ASSUME Typed, Control PROVE TypeOK' /\ AtWork'
  BY DEF Typed
<1>0. TypeOK /\ AtWork
  BY DEF Typed
<1>1. ASSUME NEW r \in Runs, CancelRun(r) PROVE TypeOK' /\ AtWork'
  <2>1. status' \in [Runs -> Statuses]
    BY <1>0, <1>1 DEF CancelRun, TypeOK, Statuses
  <2>2. proposal' \in [Runs -> {"none", "fresh", "stale"}]
    BY <1>0, <1>1 DEF CancelRun, Withdrawn, TypeOK
  <2>3. UNCHANGED <<intake, owner, lease, reports, jobs, handlers>>
    BY <1>1 DEF CancelRun
  <2> QED
    BY <1>0, <2>1, <2>2, <2>3 DEF intake, TypeOK, AtWork
<1>2. ASSUME NEW r \in Runs, CreateProposal(r) PROVE TypeOK' /\ AtWork'
  BY <1>0, <1>2 DEF CreateProposal, intake, TypeOK, AtWork
<1>3. ASSUME NEW r \in Runs, Enqueue(r) PROVE TypeOK' /\ AtWork'
  BY <1>0, <1>3 DEF Enqueue, intake, TypeOK, AtWork
<1> QED
  BY <1>1, <1>2, <1>3 DEF Control

(* A handler stops: it threw, stored a result or died. *)
LEMMA StopTyped ==
  ASSUME Typed, NEW w \in Workers, handlers' = [handlers EXCEPT ![w] = Idle],
         UNCHANGED intake,
         status' \in [Runs -> Statuses], owner' \in [Runs -> Workers \cup {NoWorker}],
         lease' \in [Runs -> {"none", "live", "expired"}],
         reports' \in [Runs -> Seq(Results)],
         jobs' \in [Runs -> {"absent", "waiting", "active"}],
         UNCHANGED proposal
  PROVE  TypeOK' /\ AtWork'
<1>1. TypeOK'
  BY StopHandler DEF Typed, TypeOK, intake
<1>2. AtWork'
  BY StopHandler DEF Typed, AtWork
<1> QED
  BY <1>1, <1>2

LEMMA ThrowTyped ==
  ASSUME Typed, NEW w \in Workers, Throw(w)
  PROVE  TypeOK' /\ AtWork'
<1>1. /\ handlers' = [handlers EXCEPT ![w] = Idle]
      /\ UNCHANGED <<intake, status, owner, lease, reports, proposal>>
  BY DEF Throw
<1>2. jobs' \in [Runs -> {"absent", "waiting", "active"}]
  BY EndJobTyped DEF Throw, AfterFailure
<1>3. /\ status \in [Runs -> Statuses] /\ owner \in [Runs -> Workers \cup {NoWorker}]
      /\ lease \in [Runs -> {"none", "live", "expired"}]
      /\ reports \in [Runs -> Seq(Results)]
  BY DEF Typed, TypeOK
<1> QED
  BY <1>1, <1>2, <1>3, StopTyped

LEMMA TerminalStatusDecided ==
  ASSUME NEW result \in Results
  PROVE  TerminalStatus(result) \in Decided
  BY DEF TerminalStatus, Decided

LEMMA HandleTyped ==
  ASSUME Typed, NEW w \in Workers, Handle(w)
  PROVE  TypeOK' /\ AtWork'
<1>0. TypeOK /\ AtWork
  BY DEF Typed
<1>1. ASSUME NEW r \in Runs, Claim(w, r) PROVE TypeOK' /\ AtWork'
  <2>1. Lease(w, r)
    BY <1>1 DEF Claim
  <2>2. jobs' \in [Runs -> {"absent", "waiting", "active"}]
    BY <1>0, <1>1 DEF Claim, TypeOK
  <2>3. TypeOK'
    BY <1>0, <1>1, <2>1, <2>2, LeaseTyped, ClaimHandlers DEF intake, TypeOK
  <2>4. AtWork'
    BY <1>0, <1>1, ClaimHandlers DEF AtWork, Carries
  <2> QED
    BY <2>3, <2>4
<1>2. ASSUME NEW r \in Runs, ClaimUnreadable(w, r) PROVE TypeOK' /\ AtWork'
  <2>1. Lease(w, r) /\ UNCHANGED handlers
    BY <1>2 DEF ClaimUnreadable
  <2>2. jobs' \in [Runs -> {"absent", "waiting", "active"}]
    BY <1>0, <1>2 DEF ClaimUnreadable, AfterFailure, TypeOK
  <2> QED
    BY <1>0, <2>1, <2>2, LeaseTyped DEF intake, TypeOK, AtWork
<1>3. ASSUME NEW r \in Runs, Skip(w, r) PROVE TypeOK' /\ AtWork'
  BY <1>0, <1>3 DEF Skip, intake, TypeOK, AtWork
<1>4. ASSUME Heartbeat(w) PROVE TypeOK' /\ AtWork'
  <2>1. UNCHANGED <<intake, status, owner, reports, proposal, jobs>>
    BY <1>4 DEF Heartbeat
  <2>2. lease' \in [Runs -> {"none", "live", "expired"}]
    BY <1>0, <1>4 DEF Heartbeat, TypeOK
  <2>3. handlers' = handlers \/ handlers' = [handlers EXCEPT ![w].pc = "lost"]
    BY <1>4 DEF Heartbeat
  <2>4. CASE handlers' = handlers
    BY <1>0, <2>1, <2>2, <2>4 DEF intake, TypeOK, AtWork
  <2>5. CASE handlers' = [handlers EXCEPT ![w].pc = "lost"]
    <3>1. handlers[w].pc # "idle"
      BY <1>4 DEF Heartbeat
    <3>2. TypeOK'
      BY <1>0, <2>1, <2>2, <2>5, MoveHandler DEF PCs, intake, TypeOK
    <3>3. AtWork'
      BY <1>0, <2>1, <2>5, <3>1, MoveHandler DEF PCs, AtWork
    <3> QED
      BY <3>2, <3>3
  <2> QED
    BY <2>3, <2>4, <2>5
<1>5. ASSUME HeartbeatRefused(w) PROVE TypeOK' /\ AtWork'
  <2>1. /\ handlers' = [handlers EXCEPT ![w].pc = "lost"] /\ handlers[w].pc # "idle"
        /\ UNCHANGED <<intake, status, owner, lease, reports, proposal, jobs>>
    BY <1>5 DEF HeartbeatRefused
  <2>2. TypeOK'
    BY <1>0, <2>1, MoveHandler DEF PCs, intake, TypeOK
  <2>3. AtWork'
    BY <1>0, <2>1, MoveHandler DEF PCs, AtWork
  <2> QED
    BY <2>2, <2>3
<1>6. ASSUME FinishReview(w) PROVE TypeOK' /\ AtWork'
  <2>1. /\ handlers[w].pc # "idle"
        /\ UNCHANGED <<intake, status, owner, lease, reports, proposal, jobs>>
    BY <1>6 DEF FinishReview
  <2>2. TypeOK'
    BY <1>0, <1>6, <2>1, FinishHandler DEF intake, TypeOK
  <2>3. AtWork'
    BY <1>0, <1>6, <2>1, FinishHandler DEF AtWork
  <2> QED
    BY <2>2, <2>3
<1>7. ASSUME FinalRenew(w) PROVE TypeOK' /\ AtWork'
  <2>1. /\ handlers' = [handlers EXCEPT ![w].pc = "completing"]
        /\ handlers[w].pc = "finishing"
        /\ UNCHANGED <<intake, status, owner, reports, proposal, jobs>>
    BY <1>7 DEF FinalRenew
  <2>2. lease' \in [Runs -> {"none", "live", "expired"}]
    BY <1>0, <1>7 DEF FinalRenew, TypeOK
  <2>3. TypeOK'
    BY <1>0, <2>1, <2>2, MoveHandler DEF PCs, intake, TypeOK
  <2>4. AtWork'
    BY <1>0, <2>1, MoveHandler DEF PCs, AtWork
  <2> QED
    BY <2>3, <2>4
<1>8. ASSUME StoreResult(w) PROVE TypeOK' /\ AtWork'
  <2> DEFINE r == handlers[w].run
             result == handlers[w].result
  <2>1. r \in Runs /\ result \in Results
    BY <1>0, <1>8 DEF StoreResult, AtWork
  <2>2. TerminalStatus(result) \in Statuses
    BY <2>1, TerminalStatusDecided DEF Decided, Statuses
  <2>3. /\ status' = [status EXCEPT ![r] = TerminalStatus(result)]
        /\ reports' = [reports EXCEPT ![r] = <<result>>]
        /\ owner' = [owner EXCEPT ![r] = NoWorker]
        /\ lease' = [lease EXCEPT ![r] = "none"]
        /\ handlers' = [handlers EXCEPT ![w] = Idle]
        /\ UNCHANGED <<intake, proposal>>
    BY <1>8 DEF StoreResult
  <2>4. jobs' \in [Runs -> {"absent", "waiting", "active"}]
    BY <1>8, EndJobTyped DEF StoreResult, AfterFailure
  <2>5. <<result>> \in Seq(Results)
    BY <2>1
  <2>6. /\ status' \in [Runs -> Statuses] /\ owner' \in [Runs -> Workers \cup {NoWorker}]
        /\ lease' \in [Runs -> {"none", "live", "expired"}]
        /\ reports' \in [Runs -> Seq(Results)]
    BY <1>0, <2>2, <2>3, <2>5 DEF TypeOK
  <2> QED
    BY <2>3, <2>4, <2>6, StopTyped
<1>9. ASSUME ResultAlreadyStored(w) PROVE TypeOK' /\ AtWork'
  <2>1. /\ handlers' = [handlers EXCEPT ![w] = Idle]
        /\ UNCHANGED <<intake, status, owner, lease, reports, proposal>>
    BY <1>9 DEF ResultAlreadyStored
  <2>2. jobs' \in [Runs -> {"absent", "waiting", "active"}]
    BY <1>9, EndJobTyped DEF ResultAlreadyStored
  <2>3. /\ status \in [Runs -> Statuses] /\ owner \in [Runs -> Workers \cup {NoWorker}]
        /\ lease \in [Runs -> {"none", "live", "expired"}]
        /\ reports \in [Runs -> Seq(Results)]
    BY <1>0 DEF TypeOK
  <2> QED
    BY <2>1, <2>2, <2>3, StopTyped
<1>10. ASSUME Throw(w) PROVE TypeOK' /\ AtWork'
  BY <1>10, ThrowTyped
<1> QED
  BY <1>1, <1>2, <1>3, <1>4, <1>5, <1>6, <1>7, <1>8, <1>9, <1>10
  DEF Handle, ResultRefused, LeaseLost, HandlerFails

LEMMA FaultTyped == Typed /\ Fault => Typed'
<1> SUFFICES ASSUME Typed, Fault PROVE TypeOK' /\ AtWork'
  BY DEF Typed
<1>0. TypeOK /\ AtWork
  BY DEF Typed
<1>1. ASSUME NEW w \in Workers, Crash(w) PROVE TypeOK' /\ AtWork'
  <2>1. /\ handlers' = [handlers EXCEPT ![w] = Idle]
        /\ UNCHANGED <<intake, status, owner, lease, reports, proposal, jobs>>
    BY <1>1 DEF Crash
  <2> QED
    BY <1>0, <2>1, StopHandler DEF intake, TypeOK, AtWork
<1>2. ASSUME (\E r \in Runs : Stall(r)) \/ LoseQueue PROVE TypeOK' /\ AtWork'
  <2>1. jobs' \in [Runs -> {"absent", "waiting", "active"}]
    <3>1. CASE LoseQueue
      BY <3>1 DEF LoseQueue
    <3>2. ASSUME NEW r \in Runs, Stall(r) PROVE jobs' \in [Runs -> {"absent", "waiting", "active"}]
      BY <1>0, <3>2 DEF Stall, AfterFailure, TypeOK
    <3> QED
      BY <1>2, <3>1, <3>2
  <2>2. UNCHANGED <<intake, status, owner, lease, reports, proposal>>
    BY <1>2 DEF Stall, LoseQueue
  <2>3. TypeOK'
    BY <1>0, <1>2, <2>1, <2>2, UnlockHandlers DEF intake, TypeOK
  <2>4. AtWork'
    BY <1>0, <1>2, UnlockHandlers DEF Carries, AtWork
  <2> QED
    BY <2>3, <2>4
<1>3. ASSUME NEW r \in Runs, LeaseExpires(r) PROVE TypeOK' /\ AtWork'
  BY <1>0, <1>3 DEF LeaseExpires, intake, TypeOK, AtWork
<1> QED
  BY <1>1, <1>2, <1>3 DEF Fault

LEMMA NextTyped == Typed /\ [Next]_vars => Typed'
<1>1. ASSUME Typed, UNCHANGED vars PROVE Typed'
  BY <1>1 DEF vars, intake, Typed, TypeOK, AtWork
<1> QED
  BY <1>1, IntakeTyped, ControlTyped, HandleTyped, FaultTyped DEF Next, Typed

LEMMA AlwaysTyped == Spec => []Typed
  BY InitTyped, NextTyped, PTL DEF Spec

(* No action leaves the types: a run has one of the statuses the source      *)
(* sets, a handler one known run and result.                                 *)
THEOREM TypeCorrect == Spec => []TypeOK
<1>1. Typed => TypeOK
  BY DEF Typed
<1> QED
  BY <1>1, AlwaysTyped, PTL

-----------------------------------------------------------------------------
(* The runs.  Few steps change what the invariants of the runs speak of.     *)
runVars == <<prHead, nruns, head, status, reports, proposal>>

Queues(h) == \E o \in Origins : QueueRun(h, o)

LEMMA RunSteps ==
  ASSUME Typed, [Next]_vars
  PROVE  \/ \E h \in 1..MaxHead : Queues(h)
         \/ \E r \in Runs : CancelRun(r) \/ CreateProposal(r)
         \/ \E w \in Workers, r \in Runs : Claimable(r) /\ Lease(w, r)
         \/ \E w \in Workers : StoreResult(w)
         \/ UNCHANGED runVars
<1>1. ASSUME NEW d \in 1..MaxHead, AcceptWebhook(d) PROVE Queues(d)
  BY <1>1 DEF AcceptWebhook, Queues, Origins
<1>2. ASSUME NEW q \in Requests, NEW h \in 1..MaxHead, QueueManualReview(q, h)
      PROVE  Queues(h)
  BY <1>2 DEF QueueManualReview, Queues, Origins
<1>3. ASSUME Intake PROVE UNCHANGED runVars \/ \E h \in 1..MaxHead : Queues(h)
  BY <1>1, <1>2, <1>3 DEF Intake, Push, IgnoreWebhook, ReadPullRequest, DropManualReview,
                          runVars
<1>4. ASSUME NEW r \in Runs, Enqueue(r) \/ Stall(r) \/ LeaseExpires(r)
      PROVE  UNCHANGED runVars
  BY <1>4 DEF Enqueue, Stall, LeaseExpires, intake, runVars
<1>5. ASSUME LoseQueue \/ \E w \in Workers : Crash(w) PROVE UNCHANGED runVars
  BY <1>5 DEF LoseQueue, Crash, intake, runVars
<1>6. ASSUME NEW w \in Workers, NEW r \in Runs, Claim(w, r) \/ ClaimUnreadable(w, r)
      PROVE  Claimable(r) /\ Lease(w, r)
  BY <1>6 DEF Claim, ClaimUnreadable
<1>7. ASSUME NEW w \in Workers, NEW r \in Runs, Skip(w, r) PROVE UNCHANGED runVars
  BY <1>7 DEF Skip, intake, runVars
<1>8. ASSUME NEW w \in Workers,
             \/ Heartbeat(w) \/ HeartbeatRefused(w) \/ FinishReview(w) \/ FinalRenew(w)
             \/ ResultAlreadyStored(w) \/ Throw(w)
      PROVE  UNCHANGED runVars
  BY <1>8 DEF Heartbeat, HeartbeatRefused, FinishReview, FinalRenew, ResultAlreadyStored,
              Throw, intake, runVars
<1>9. ASSUME UNCHANGED vars PROVE UNCHANGED runVars
  BY <1>9 DEF vars, intake, runVars
<1> QED
  BY <1>3, <1>4, <1>5, <1>6, <1>7, <1>8, <1>9
  DEF Next, Control, Handle, Fault, ResultRefused, LeaseLost, HandlerFails

(* Runs are numbered in the order they are queued; the open one is the last. *)
Numbered == \A r \in Runs : status[r] = "none" <=> nruns < r

(* What a run reports agrees with its status. *)
Unreported == \A r \in Runs : status[r] = "none" => reports[r] = <<>>

Settled ==
  Numbered /\ Unreported /\ OpenRunIsCurrent /\ ReportedOnce /\ FreshProposalIsCurrent

LEMMA InitSettled == Init => Settled
  BY ReviewRunAssumption
  DEF Init, Settled, Numbered, Unreported, OpenRunIsCurrent, ReportedOnce,
      FreshProposalIsCurrent, Open, Decided, Runs

LEMMA QueueSettled ==
  ASSUME Typed, Settled, NEW h \in 1..MaxHead, Queues(h)
  PROVE  Settled'
<1> DEFINE new == nruns + 1
           replaced == {r \in Runs : status[r] \in ActiveStatuses}
<1>0. nruns \in 0..MaxRuns /\ status \in [Runs -> Statuses]
      /\ reports \in [Runs -> Seq(Results)]
      /\ proposal \in [Runs -> {"none", "fresh", "stale"}] /\ head \in [Runs -> 0..MaxHead]
  BY DEF Typed, TypeOK
<1>1. /\ new \in Runs /\ nruns' = new /\ prHead' = h
      /\ head' = [head EXCEPT ![new] = h]
      /\ status' = [r \in Runs |-> IF r = new THEN "queued"
                                   ELSE IF r \in replaced THEN "superseded"
                                   ELSE status[r]]
      /\ proposal' = Withdrawn(replaced)
      /\ reports' = reports
  BY DEF Queues, QueueRun
<1>2. status[new] = "none" /\ reports[new] = <<>>
  BY <1>0, <1>1 DEF Settled, Numbered, Unreported, Runs
<1>3. \A r \in Runs \ {new} :
        /\ r \in replaced <=> status[r] \in ActiveStatuses
        /\ status'[r] = IF r \in replaced THEN "superseded" ELSE status[r]
  BY <1>1
<1>4. status'[new] = "queued" /\ head'[new] = h
  BY <1>0, <1>1
<1>5. Numbered'
  BY <1>0, <1>1, <1>2, <1>3, <1>4 DEF Settled, Numbered, Runs, ActiveStatuses
<1>6. Unreported'
  BY <1>1, <1>3, <1>4 DEF Settled, Unreported
<1>7. OpenRunIsCurrent'
  BY <1>1, <1>3, <1>4 DEF OpenRunIsCurrent, Open, ActiveStatuses
<1>8. ReportedOnce'
  BY <1>0, <1>1, <1>2, <1>3, <1>4 DEF Settled, ReportedOnce, Decided
<1>9. FreshProposalIsCurrent'
  <2>1. \A r \in Runs : proposal'[r] = "fresh" => proposal[r] = "fresh" /\ r \notin replaced
    BY <1>0, <1>1 DEF Withdrawn
  <2>2. \A r \in Runs : proposal[r] = "fresh" => r \in replaced
    BY DEF Settled, FreshProposalIsCurrent, ActiveStatuses
  <2> QED
    BY <2>1, <2>2 DEF FreshProposalIsCurrent
<1> QED
  BY <1>5, <1>6, <1>7, <1>8, <1>9 DEF Settled

LEMMA NextSettled == Typed /\ Settled /\ [Next]_vars => Settled'
<1> SUFFICES ASSUME Typed, Settled, [Next]_vars PROVE Settled'
  OBVIOUS
<1>0. /\ status \in [Runs -> Statuses] /\ reports \in [Runs -> Seq(Results)]
      /\ proposal \in [Runs -> {"none", "fresh", "stale"}]
  BY DEF Typed, TypeOK
<1> USE DEF Settled, Numbered, Unreported
<1>1. ASSUME NEW r \in Runs, CancelRun(r) PROVE Settled'
  <2>1. /\ status[r] \in ActiveStatuses /\ status' = [status EXCEPT ![r] = "cancelled"]
        /\ proposal' = Withdrawn({r})
        /\ UNCHANGED <<prHead, nruns, head, reports>>
    BY <1>1 DEF CancelRun, intake
  <2>2. OpenRunIsCurrent'
    BY <1>0, <2>1 DEF OpenRunIsCurrent, Open
  <2>3. ReportedOnce'
    BY <1>0, <2>1 DEF ReportedOnce, Decided
  <2>4. FreshProposalIsCurrent'
    BY <1>0, <2>1 DEF FreshProposalIsCurrent, Withdrawn
  <2>5. Numbered' /\ Unreported'
    BY <1>0, <2>1 DEF ActiveStatuses
  <2> QED
    BY <2>2, <2>3, <2>4, <2>5
<1>2. ASSUME NEW r \in Runs, CreateProposal(r) PROVE Settled'
  <2>1. /\ Eligible(r) /\ proposal' = [proposal EXCEPT ![r] = "fresh"]
        /\ UNCHANGED <<prHead, nruns, head, status, reports>>
    BY <1>2 DEF CreateProposal, intake
  <2>2. FreshProposalIsCurrent'
    BY <1>0, <2>1 DEF FreshProposalIsCurrent, OpenRunIsCurrent, Open, Eligible
  <2> QED
    BY <2>1, <2>2 DEF OpenRunIsCurrent, ReportedOnce
<1>3. ASSUME NEW w \in Workers, NEW r \in Runs, Claimable(r), Lease(w, r) PROVE Settled'
  <2>1. /\ status[r] \in {"queued", "collecting_context"}
        /\ status' = [status EXCEPT ![r] = "collecting_context"]
        /\ UNCHANGED <<prHead, nruns, head, reports, proposal>>
    BY <1>3 DEF Claimable, Lease, intake
  <2>2. OpenRunIsCurrent'
    BY <1>0, <2>1 DEF OpenRunIsCurrent, Open
  <2>3. ReportedOnce'
    BY <1>0, <2>1 DEF ReportedOnce, Decided
  <2>4. FreshProposalIsCurrent'
    BY <1>0, <2>1 DEF FreshProposalIsCurrent
  <2>5. Numbered' /\ Unreported'
    BY <1>0, <2>1
  <2> QED
    BY <2>2, <2>3, <2>4, <2>5
<1>4. ASSUME NEW w \in Workers, StoreResult(w) PROVE Settled'
  <2> DEFINE r == handlers[w].run
             result == handlers[w].result
  <2>1. r \in Runs /\ result \in Results
    BY <1>4 DEF Typed, AtWork, StoreResult
  <2>2. /\ status[r] \in {"queued", "collecting_context"} /\ reports[r] = <<>>
        /\ status' = [status EXCEPT ![r] = TerminalStatus(result)]
        /\ reports' = [reports EXCEPT ![r] = <<result>>]
        /\ UNCHANGED <<prHead, nruns, head, proposal>>
    BY <1>4 DEF StoreResult, MayStore, intake
  <2>3. TerminalStatus(result) \in Decided
    BY <2>1, TerminalStatusDecided
  <2>4. status'[r] = TerminalStatus(result) /\ reports'[r] = <<result>>
    BY <1>0, <2>1, <2>2
  <2>5. \A s \in Runs \ {r} : status'[s] = status[s] /\ reports'[s] = reports[s]
    BY <1>0, <2>2
  <2> HIDE DEF r, result
  <2>6. OpenRunIsCurrent'
    BY <2>1, <2>2, <2>5 DEF OpenRunIsCurrent, Open
  <2>7. ReportedOnce'
    <3>1. Len(<<result>>) = 1 /\ <<result>>[1] = result /\ <<result>> # <<>>
      OBVIOUS
    <3>2. reports'[r][1] = result /\ reports'[r] # <<>> /\ Len(reports'[r]) <= 1
      BY <2>4, <3>1
    <3>3. TerminalStatus(reports'[r][1]) = status'[r]
      BY <2>4, <3>2
    <3>4. status'[r] \notin {"queued", "collecting_context"}
      BY <2>3, <2>4 DEF Decided
    <3> QED
      BY <2>5, <3>2, <3>3, <3>4 DEF ReportedOnce
  <2>8. FreshProposalIsCurrent'
    BY <2>2, <2>5 DEF FreshProposalIsCurrent
  <2>9. Numbered' /\ Unreported'
    BY <2>1, <2>2, <2>3, <2>4, <2>5 DEF Decided
  <2> QED
    BY <2>6, <2>7, <2>8, <2>9
<1>5. ASSUME UNCHANGED runVars PROVE Settled'
  BY <1>5 DEF runVars, OpenRunIsCurrent, ReportedOnce, FreshProposalIsCurrent
<1> QED
  BY <1>1, <1>2, <1>3, <1>4, <1>5, QueueSettled, RunSteps

LEMMA AlwaysSettled == Spec => [](Typed /\ Settled)
  BY InitTyped, InitSettled, NextTyped, NextSettled, PTL DEF Spec

(* Whatever order webhooks and manual requests are accepted in, the one run  *)
(* that is still open is the newest and reviews the head recorded for it.    *)
THEOREM CurrentRun == Spec => []OpenRunIsCurrent
<1>1. Typed /\ Settled => OpenRunIsCurrent
  BY DEF Settled
<1> QED
  BY <1>1, AlwaysSettled, PTL

(* A run is reported once, when it is decided, and its status says what the  *)
(* report says, though its job may run any number of times.                  *)
THEOREM OneReport == Spec => []ReportedOnce
<1>1. Typed /\ Settled => ReportedOnce
  BY DEF Settled
<1> QED
  BY <1>1, AlwaysSettled, PTL

(* A proposal that can still be decided was made from the newest run, which  *)
(* awaits a human, and for the recorded head.                                *)
THEOREM CurrentProposal == Spec => []FreshProposalIsCurrent
<1>1. Typed /\ Settled => FreshProposalIsCurrent
  BY DEF Settled
<1> QED
  BY <1>1, AlwaysSettled, PTL

-----------------------------------------------------------------------------
(* Idempotence of the intake.  A delivery or request that has a run is known.*)
Traced ==
  \A r \in 1..nruns :
    /\ origin[r] \in Origins
    /\ \A d \in 1..MaxHead : origin[r] = <<"delivery", d>> => d \in deliveries
    /\ \A q \in Requests :
         origin[r] = <<"request", q>> => requests[q] = head[r] /\ head[r] # 0

LEMMA IntakeSteps ==
  ASSUME Typed, [Next]_vars
  PROVE  \/ \E d \in 1..MaxHead : AcceptWebhook(d)
         \/ \E q \in Requests, h \in 1..MaxHead : QueueManualReview(q, h)
         \/ UNCHANGED <<nruns, head, origin, requests>> /\ deliveries \subseteq deliveries'
<1> DEFINE Goal ==
      UNCHANGED <<nruns, head, origin, requests>> /\ deliveries \subseteq deliveries'
<1>1. ASSUME UNCHANGED intake PROVE Goal
  BY <1>1 DEF intake
<1>2. ASSUME Control \/ Fault \/ UNCHANGED vars PROVE UNCHANGED intake
  BY <1>2 DEF Control, CancelRun, CreateProposal, Enqueue, Fault, Crash, Stall,
              LoseQueue, LeaseExpires, vars
<1>3. ASSUME NEW w \in Workers, Handle(w) PROVE UNCHANGED intake
  BY <1>3 DEF Handle, Claim, ClaimUnreadable, Lease, Skip, Heartbeat, HeartbeatRefused,
              FinishReview, FinalRenew, StoreResult, ResultAlreadyStored, ResultRefused,
              LeaseLost, HandlerFails, Throw
<1>4. ASSUME Push \/ (\E d \in 1..MaxHead : IgnoreWebhook(d))
             \/ \E q \in Requests :
                  \/ ReadPullRequest(q)
                  \/ \E h \in 1..MaxHead : DropManualReview(q, h)
      PROVE  Goal
  BY <1>4 DEF Push, IgnoreWebhook, ReadPullRequest, DropManualReview
<1> QED
  BY <1>1, <1>2, <1>3, <1>4 DEF Next, Intake

(* A run queued for something that has no run yet keeps both facts. *)
LEMMA QueueTraced ==
  ASSUME Typed, Traced, NoRunQueuedTwice,
         NEW h \in 1..MaxHead, NEW o \in Origins, QueueRun(h, o),
         \A r \in 1..nruns : origin[r] # o,
         \A d \in 1..MaxHead : d \in deliveries \/ o = <<"delivery", d>> => d \in deliveries',
         \A q \in Requests :
           requests'[q] = IF o = <<"request", q>> THEN h ELSE requests[q]
  PROVE  Traced' /\ NoRunQueuedTwice'
<1> DEFINE new == nruns + 1
<1>0. nruns \in 0..MaxRuns /\ h # 0 /\ MaxRuns \in Nat
  BY ReviewRunAssumption DEF Typed, TypeOK
<1>1. /\ new \in Runs /\ nruns' = new
      /\ head' = [head EXCEPT ![new] = h] /\ origin' = [origin EXCEPT ![new] = o]
  BY DEF QueueRun
<1>2. \A r \in 1..nruns' : r \in 1..nruns \/ r = new
  BY <1>0, <1>1
<1>3. \A r \in 1..nruns : r \in Runs /\ r # new
  BY <1>0 DEF Runs
<1>4. /\ origin'[new] = o /\ head'[new] = h
      /\ \A r \in 1..nruns : origin'[r] = origin[r] /\ head'[r] = head[r]
  BY <1>1, <1>3 DEF Typed, TypeOK
<1> HIDE DEF new
<1>5. \A r \in 1..nruns, q \in Requests :
        origin[r] = <<"request", q>> => requests'[q] = requests[q]
  OBVIOUS
<1>6. Traced'
  BY <1>0, <1>2, <1>4, <1>5 DEF Traced
<1>7. ASSUME NEW r \in 1..nruns', NEW s \in 1..nruns', origin'[r] = origin'[s]
      PROVE  r = s
  BY <1>2, <1>4, <1>7 DEF NoRunQueuedTwice
<1>8. ASSUME NEW r \in 1..nruns', NEW q \in Requests, origin'[r] = <<"request", q>>
      PROVE  requests'[q] = head'[r]
  BY <1>6, <1>8 DEF Traced
<1> QED
  BY <1>6, <1>7, <1>8 DEF NoRunQueuedTwice

LEMMA NextTraced ==
  Typed /\ Traced /\ NoRunQueuedTwice /\ [Next]_vars => Traced' /\ NoRunQueuedTwice'
<1> SUFFICES ASSUME Typed, Traced, NoRunQueuedTwice, [Next]_vars
             PROVE  Traced' /\ NoRunQueuedTwice'
  OBVIOUS
<1>0. requests \in [Requests -> 0..MaxHead]
  BY DEF Typed, TypeOK
<1>1. ASSUME NEW d \in 1..MaxHead, AcceptWebhook(d) PROVE Traced' /\ NoRunQueuedTwice'
  <2> DEFINE o == <<"delivery", d>>
  <2>1. /\ QueueRun(d, o) /\ requests' = requests
        /\ d \notin deliveries /\ deliveries' = deliveries \cup {d}
    BY <1>1 DEF AcceptWebhook, NewDelivery
  <2>2. \A r \in 1..nruns : origin[r] # o
    BY <2>1 DEF Traced
  <2>3. o \in Origins
    BY DEF Origins
  <2>4. \A c \in 1..MaxHead : c \in deliveries \/ o = <<"delivery", c>> => c \in deliveries'
    BY <2>1
  <2>5. \A q \in Requests : o # <<"request", q>>
    OBVIOUS
  <2> HIDE DEF o
  <2>6. \A q \in Requests :
          requests'[q] = IF o = <<"request", q>> THEN d ELSE requests[q]
    BY <2>1, <2>5
  <2> QED
    BY <2>1, <2>2, <2>3, <2>4, <2>6, QueueTraced
<1>2. ASSUME NEW q \in Requests, NEW h \in 1..MaxHead, QueueManualReview(q, h)
      PROVE  Traced' /\ NoRunQueuedTwice'
  <2> DEFINE o == <<"request", q>>
  <2>1. /\ QueueRun(h, o) /\ requests[q] = 0
        /\ requests' = [requests EXCEPT ![q] = h] /\ deliveries' = deliveries
    BY <1>2 DEF QueueManualReview
  <2>2. \A r \in 1..nruns : origin[r] # o
    BY <2>1 DEF Traced
  <2>3. o \in Origins
    BY DEF Origins
  <2>4. \A c \in 1..MaxHead : c \in deliveries \/ o = <<"delivery", c>> => c \in deliveries'
    BY <2>1
  <2>5. \A p \in Requests : o = <<"request", p>> <=> p = q
    OBVIOUS
  <2> HIDE DEF o
  <2>6. \A p \in Requests :
          requests'[p] = IF o = <<"request", p>> THEN h ELSE requests[p]
    BY <1>0, <2>1, <2>5
  <2> QED
    BY <2>1, <2>2, <2>3, <2>4, <2>6, QueueTraced
<1>3. ASSUME UNCHANGED <<nruns, head, origin, requests>>, deliveries \subseteq deliveries'
      PROVE  Traced' /\ NoRunQueuedTwice'
  BY <1>3 DEF Traced, NoRunQueuedTwice
<1> QED
  BY <1>1, <1>2, <1>3, IntakeSteps

(* However often a webhook is delivered and a manual review retried, each is *)
(* answered by one run, and the run reviews the head its request asked for.  *)
THEOREM IntakeIsIdempotent == Spec => []NoRunQueuedTwice
<1>1. Init => Traced /\ NoRunQueuedTwice
  BY DEF Init, Traced, NoRunQueuedTwice
<1> QED
  BY <1>1, AlwaysTyped, NextTraced, PTL DEF Spec

-----------------------------------------------------------------------------
(* Fencing.  A claim takes the run from whoever had it, so the worker that   *)
(* owns a run made the latest claim of it.                                   *)
Fenced ==
  \A w \in Workers :
    handlers[w].pc # "idle" /\ owner[handlers[w].run] = w => handlers[w].latest

Follows(w) ==
  \/ handlers'[w].pc = "idle"
  \/ /\ handlers[w].pc # "idle"
     /\ handlers'[w].run = handlers[w].run
     /\ handlers'[w].latest = handlers[w].latest

LEMMA OwnerSteps ==
  ASSUME Typed, [Next]_vars
  PROVE  \/ \E w \in Workers, r \in Runs : Claim(w, r) \/ ClaimUnreadable(w, r)
         \/ \E w \in Workers : StoreResult(w)
         \/ UNCHANGED owner /\ \A w \in Workers : Follows(w)
<1> DEFINE Goal == UNCHANGED owner /\ \A w \in Workers : Follows(w)
<1>1. ASSUME UNCHANGED <<owner, handlers>> PROVE Goal
  BY <1>1 DEF Follows
<1>2. ASSUME NEW w \in Workers, handlers' = [handlers EXCEPT ![w] = Idle], UNCHANGED owner
      PROVE  Goal
  BY <1>2, StopHandler DEF Follows
<1>3. ASSUME NEW w \in Workers, NEW pc \in PCs, handlers[w].pc # "idle",
             handlers' = [handlers EXCEPT ![w].pc = pc], UNCHANGED owner
      PROVE  Goal
  BY <1>3, MoveHandler DEF Follows
<1>4. ASSUME Intake PROVE Goal
  <2>1. UNCHANGED <<owner, handlers>>
    BY <1>4 DEF Intake, Push, AcceptWebhook, IgnoreWebhook, ReadPullRequest,
                QueueManualReview, DropManualReview, QueueRun
  <2> QED
    BY <1>1, <2>1
<1>5. ASSUME Control PROVE Goal
  <2>1. UNCHANGED <<owner, handlers>>
    BY <1>5 DEF Control, CancelRun, CreateProposal, Enqueue
  <2> QED
    BY <1>1, <2>1
<1>6. ASSUME NEW w \in Workers, Handle(w)
      PROVE  \/ \E r \in Runs : Claim(w, r) \/ ClaimUnreadable(w, r)
             \/ StoreResult(w)
             \/ Goal
  <2>1. ASSUME NEW r \in Runs, Skip(w, r) PROVE Goal
    BY <1>1, <2>1 DEF Skip
  <2>2. ASSUME Heartbeat(w) PROVE Goal
    <3>1. /\ handlers[w].pc # "idle" /\ UNCHANGED owner
          /\ handlers' = handlers \/ handlers' = [handlers EXCEPT ![w].pc = "lost"]
      BY <2>2 DEF Heartbeat
    <3> QED
      BY <1>1, <1>3, <3>1 DEF PCs
  <2>3. ASSUME HeartbeatRefused(w) PROVE Goal
    <3>1. /\ handlers[w].pc # "idle" /\ UNCHANGED owner
          /\ handlers' = [handlers EXCEPT ![w].pc = "lost"]
      BY <2>3 DEF HeartbeatRefused
    <3> QED
      BY <1>3, <3>1 DEF PCs
  <2>4. ASSUME FinishReview(w) PROVE Goal
    BY <2>4, FinishHandler DEF FinishReview, Follows
  <2>5. ASSUME FinalRenew(w) PROVE Goal
    <3>1. /\ handlers[w].pc # "idle" /\ UNCHANGED owner
          /\ handlers' = [handlers EXCEPT ![w].pc = "completing"]
      BY <2>5 DEF FinalRenew
    <3> QED
      BY <1>3, <3>1 DEF PCs
  <2>6. ASSUME Throw(w) \/ ResultAlreadyStored(w) PROVE Goal
    <3>1. handlers' = [handlers EXCEPT ![w] = Idle] /\ UNCHANGED owner
      BY <2>6 DEF Throw, ResultAlreadyStored
    <3> QED
      BY <1>2, <3>1
  <2> QED
    BY <1>6, <2>1, <2>2, <2>3, <2>4, <2>5, <2>6
    DEF Handle, ResultRefused, LeaseLost, HandlerFails
<1>7. ASSUME Fault PROVE Goal
  <2>1. ASSUME NEW w \in Workers, Crash(w) PROVE Goal
    BY <1>2, <2>1 DEF Crash
  <2>2. ASSUME (\E r \in Runs : Stall(r)) \/ LoseQueue PROVE Goal
    <3>1. UNCHANGED owner
      BY <2>2 DEF Stall, LoseQueue
    <3> QED
      BY <2>2, <3>1, UnlockHandlers DEF Carries, Follows
  <2>3. ASSUME NEW r \in Runs, LeaseExpires(r) PROVE Goal
    BY <1>1, <2>3 DEF LeaseExpires
  <2> QED
    BY <1>7, <2>1, <2>2, <2>3 DEF Fault
<1>8. ASSUME UNCHANGED vars PROVE Goal
  BY <1>1, <1>8 DEF vars
<1> QED
  BY <1>4, <1>5, <1>6, <1>7, <1>8 DEF Next

LEMMA NextFenced == Typed /\ Fenced /\ [Next]_vars => Fenced'
<1> SUFFICES ASSUME Typed, Fenced, [Next]_vars PROVE Fenced'
  OBVIOUS
<1>0. owner \in [Runs -> Workers \cup {NoWorker}]
  BY DEF Typed, TypeOK
<1>1. ASSUME NEW w \in Workers, NEW r \in Runs, Claim(w, r) PROVE Fenced'
  <2>1. owner' = [owner EXCEPT ![r] = w]
    BY <1>1 DEF Claim, Lease
  <2>2. ASSUME NEW v \in Workers \ {w}, handlers'[v].pc # "idle",
               owner'[handlers'[v].run] = v
        PROVE  handlers'[v].latest
    <3>1. handlers[v].pc # "idle" /\ handlers'[v].run = handlers[v].run
      BY <1>1, <2>2, ClaimHandlers DEF Carries
    <3>2. handlers[v].run # r /\ owner[handlers[v].run] = v
      BY <1>0, <2>1, <2>2, <3>1
    <3> QED
      BY <1>1, <3>1, <3>2, ClaimHandlers DEF Fenced
  <2>3. handlers'[w].latest
    BY <1>1, ClaimHandlers
  <2> QED
    BY <2>2, <2>3 DEF Fenced
<1>2. ASSUME NEW w \in Workers, NEW r \in Runs, ClaimUnreadable(w, r) PROVE Fenced'
  <2>1. /\ handlers[w].pc = "idle" /\ handlers' = handlers
        /\ owner' = [owner EXCEPT ![r] = w]
    BY <1>2 DEF ClaimUnreadable, Lease
  <2> QED
    BY <1>0, <2>1 DEF Fenced
<1>3. ASSUME NEW w \in Workers, StoreResult(w) PROVE Fenced'
  <2>1. /\ handlers' = [handlers EXCEPT ![w] = Idle]
        /\ owner' = [owner EXCEPT ![handlers[w].run] = NoWorker]
    BY <1>3 DEF StoreResult
  <2>2. \A v \in Workers, r \in Runs : owner'[r] = v => owner[r] = v
    BY <1>0, <2>1, ReviewRunAssumption
  <2>3. \A v \in Workers : handlers[v].pc # "idle" => handlers[v].run \in Runs
    BY DEF Typed, AtWork
  <2>4. handlers'[w].pc = "idle" /\ \A v \in Workers \ {w} : handlers'[v] = handlers[v]
    BY <2>1, StopHandler
  <2>5. ASSUME NEW v \in Workers \ {w}, handlers[v].pc # "idle",
               owner'[handlers[v].run] = v
        PROVE  handlers[v].latest
    BY <2>2, <2>3, <2>5 DEF Fenced
  <2> QED
    BY <2>4, <2>5 DEF Fenced
<1>4. ASSUME UNCHANGED owner, \A w \in Workers : Follows(w) PROVE Fenced'
  BY <1>4 DEF Follows, Fenced
<1> QED
  BY <1>1, <1>2, <1>3, <1>4, OwnerSteps

(* No result is stored by a worker once another one claimed the run after    *)
(* it, though renewing and completing compare the worker ID only.            *)
THEOREM LatestClaimReports == Spec => ResultFromLatestClaim
<1> DEFINE A == \A r \in Runs : reports'[r] # reports[r] =>
                  \E w \in Workers : handlers[w].run = r /\ handlers[w].latest
                                    /\ handlers'[w] = Idle
<1>1. Init => Fenced
  BY IdleIsHandler DEF Init, Fenced
<1>2. Typed /\ Fenced /\ [Next]_vars => [A]_vars
  <2> SUFFICES ASSUME Typed, Fenced, [Next]_vars, NEW r \in Runs, reports'[r] # reports[r]
               PROVE  \E w \in Workers : handlers[w].run = r /\ handlers[w].latest
                                        /\ handlers'[w] = Idle
    OBVIOUS
  <2>1. PICK w \in Workers : StoreResult(w)
    BY RunSteps DEF Queues, QueueRun, CancelRun, CreateProposal, Lease, runVars
  <2>2. /\ handlers[w].pc # "idle" /\ owner[handlers[w].run] = w
        /\ reports' = [reports EXCEPT ![handlers[w].run] = <<handlers[w].result>>]
        /\ handlers' = [handlers EXCEPT ![w] = Idle]
    BY <2>1 DEF StoreResult, MayStore
  <2>3. handlers[w].latest /\ handlers'[w] = Idle
    BY <2>2 DEF Fenced, Typed, TypeOK
  <2>4. handlers[w].run = r
    BY <2>2 DEF Typed, TypeOK
  <2> QED
    BY <2>3, <2>4
<1> QED
  BY <1>1, <1>2, AlwaysTyped, NextFenced, PTL DEF Spec, ResultFromLatestClaim

-----------------------------------------------------------------------------
(* Refinement of ReviewLifecycle.                                           *)
LEMMA StageNames ==
  \A s \in Statuses :
    /\ StageName(s) = "none" <=> s = "none"
    /\ StageName(s) = "open" <=> s \in {"queued", "collecting_context"}
    /\ StageName(s) = "decided" <=> s \in Decided
    /\ s \in {"cancelled", "superseded"} => StageName(s) = "withdrawn"
  BY DEF StageName, Decided, Statuses

LEMMA AwaitingHuman ==
  \A result : TerminalStatus(result) = "awaiting_human" <=> AwaitsHuman(result)
  BY DEF TerminalStatus, AwaitsHuman

(* What queueing replaces and cancelling accepts is what can be withdrawn. *)
LEMMA ActiveCanWithdraw ==
  ASSUME Typed, Settled, NEW r \in Runs
  PROVE  status[r] \in ActiveStatuses <=> Lifecycle!CanWithdraw(r)
<1>1. status[r] \in Statuses /\ Stage[r] = StageName(status[r])
  BY DEF Typed, TypeOK, Stage
<1>2. status[r] \in Decided =>
        (status[r] = "awaiting_human" <=> AwaitsHuman(Report[r]))
  BY AwaitingHuman DEF Settled, ReportedOnce, Report
<1>3. status[r] \in ActiveStatuses <=>
        \/ status[r] \in {"queued", "collecting_context"}
        \/ status[r] \in Decided /\ status[r] = "awaiting_human"
  BY DEF ActiveStatuses, Decided
<1> QED
  BY <1>1, <1>2, <1>3, StageNames DEF Lifecycle!CanWithdraw

LEMMA StepOfLifecycle ==
  Typed /\ Settled /\ [Next]_vars => [Lifecycle!Next]_(Lifecycle!vars)
<1> SUFFICES ASSUME Typed, Settled, [Next]_vars
             PROVE  [Lifecycle!Next]_(Lifecycle!vars)
  OBVIOUS
<1>0. /\ status \in [Runs -> Statuses] /\ reports \in [Runs -> Seq(Results)]
      /\ status' \in [Runs -> Statuses] /\ nruns \in 0..MaxRuns
  BY NextTyped DEF Typed, TypeOK
<1>1. /\ \A r \in Runs : Stage[r] = StageName(status[r]) /\ Stage'[r] = StageName(status'[r])
      /\ Stage' = [r \in Runs |-> Stage'[r]] /\ DOMAIN Stage = Runs
  BY DEF Stage
<1>2. reports' = reports => Report' = Report
  BY DEF Report
<1>3. ASSUME NEW h \in 1..MaxHead, Queues(h) PROVE Lifecycle!Next
  <2> DEFINE new == nruns + 1
             replaced == {r \in Runs : status[r] \in ActiveStatuses}
  <2>1. /\ new \in Runs /\ reports' = reports
        /\ status' = [r \in Runs |-> IF r = new THEN "queued"
                                     ELSE IF r \in replaced THEN "superseded"
                                     ELSE status[r]]
    BY <1>3 DEF Queues, QueueRun
  <2>2. Stage[new] = "none" /\ \A s \in Runs : s < new => Stage[s] # "none"
    BY <1>0, <1>1, <2>1, StageNames DEF Settled, Numbered, Runs
  <2>3. \A s \in Runs : Stage'[s] = IF s = new THEN "open"
                                    ELSE IF Lifecycle!CanWithdraw(s) THEN "withdrawn"
                                    ELSE Stage[s]
    <3>1. Stage'[new] = "open"
      BY <1>0, <1>1, <2>1, StageNames
    <3>2. ASSUME NEW s \in Runs, s # new
          PROVE  Stage'[s] = IF Lifecycle!CanWithdraw(s) THEN "withdrawn" ELSE Stage[s]
      <4>1. CASE s \in replaced
        <5>1. status'[s] = "superseded" /\ Lifecycle!CanWithdraw(s)
          BY <2>1, <3>2, <4>1, ActiveCanWithdraw
        <5> QED
          BY <1>0, <1>1, <5>1, StageNames
      <4>2. CASE s \notin replaced
        <5>1. status'[s] = status[s] /\ ~Lifecycle!CanWithdraw(s)
          BY <2>1, <3>2, <4>2, ActiveCanWithdraw
        <5> QED
          BY <1>1, <5>1
      <4> QED
        BY <4>1, <4>2
    <3> QED
      BY <3>1, <3>2
  <2>4. Lifecycle!Request(new)
    BY <1>1, <1>2, <2>1, <2>2, <2>3 DEF Lifecycle!Request
  <2> QED
    BY <2>1, <2>4 DEF Lifecycle!Next
<1>4. ASSUME NEW r \in Runs, CancelRun(r) PROVE Lifecycle!Next
  <2>1. /\ status[r] \in ActiveStatuses /\ status' = [status EXCEPT ![r] = "cancelled"]
        /\ reports' = reports
    BY <1>4 DEF CancelRun
  <2>2. Stage'[r] = "withdrawn" /\ \A s \in Runs \ {r} : Stage'[s] = Stage[s]
    BY <1>0, <1>1, <2>1, StageNames
  <2>3. Stage' = [Stage EXCEPT ![r] = "withdrawn"]
    BY <1>1, <2>2
  <2>4. Lifecycle!Withdraw(r)
    BY <1>2, <2>1, <2>3, ActiveCanWithdraw DEF Lifecycle!Withdraw
  <2> QED
    BY <2>4 DEF Lifecycle!Next
<1>5. ASSUME NEW r \in Runs, CreateProposal(r) PROVE UNCHANGED Lifecycle!vars
  BY <1>2, <1>5 DEF CreateProposal, Stage, Lifecycle!vars
<1>6. ASSUME NEW w \in Workers, NEW r \in Runs, Claimable(r), Lease(w, r)
      PROVE  UNCHANGED Lifecycle!vars
  <2>1. /\ status[r] \in {"queued", "collecting_context"} /\ reports' = reports
        /\ status' = [status EXCEPT ![r] = "collecting_context"]
    BY <1>6 DEF Claimable, Lease
  <2>2. \A s \in Runs : Stage'[s] = Stage[s]
    <3>1. Stage[r] = "open" /\ Stage'[r] = "open"
      BY <1>0, <1>1, <2>1, StageNames
    <3>2. \A s \in Runs \ {r} : Stage'[s] = Stage[s]
      BY <1>0, <1>1, <2>1
    <3> QED
      BY <3>1, <3>2
  <2>3. Stage' = Stage
    <3>1. Stage' = [s \in Runs |-> Stage'[s]] /\ Stage = [s \in Runs |-> Stage[s]]
      BY <1>1 DEF Stage
    <3> QED
      BY <2>2, <3>1
  <2> QED
    BY <1>2, <2>1, <2>3 DEF Lifecycle!vars
<1>7. ASSUME NEW w \in Workers, StoreResult(w) PROVE Lifecycle!Next
  <2> DEFINE r == handlers[w].run
             result == handlers[w].result
  <2>1. r \in Runs /\ result \in Results
    BY <1>7 DEF Typed, AtWork, StoreResult
  <2>2. /\ status[r] \in {"queued", "collecting_context"}
        /\ status' = [status EXCEPT ![r] = TerminalStatus(result)]
        /\ reports' = [reports EXCEPT ![r] = <<result>>]
    BY <1>7 DEF StoreResult, MayStore
  <2> HIDE DEF r, result
  <2>3. TerminalStatus(result) \in Decided /\ TerminalStatus(result) \in Statuses
    BY <2>1, TerminalStatusDecided DEF Decided, Statuses
  <2>4. Stage[r] = "open" /\ Stage'[r] = "decided"
        /\ \A s \in Runs \ {r} : Stage'[s] = Stage[s]
    BY <1>0, <1>1, <2>1, <2>2, <2>3, StageNames
  <2>5. Stage' = [Stage EXCEPT ![r] = "decided"]
    BY <1>1, <2>4
  <2>6. \A s \in Runs : s > r => Stage[s] = "none"
    <3>1. r = nruns
      BY <2>1, <2>2 DEF Settled, OpenRunIsCurrent, Open
    <3>2. \A s \in Runs : s > r => status[s] = "none"
      BY <1>0, <3>1 DEF Settled, Numbered, Runs
    <3> QED
      BY <1>0, <1>1, <3>2, StageNames
  <2>7. Report' = [Report EXCEPT ![r] = result]
    <3>1. <<result>> # <<>> /\ <<result>>[1] = result
      OBVIOUS
    <3> QED
      BY <1>0, <2>1, <2>2, <3>1 DEF Report
  <2>8. Lifecycle!Decide(r, result)
    BY <2>4, <2>5, <2>6, <2>7 DEF Lifecycle!Decide
  <2> QED
    BY <2>1, <2>8 DEF Lifecycle!Next
<1>8. ASSUME UNCHANGED runVars PROVE UNCHANGED Lifecycle!vars
  BY <1>2, <1>8 DEF runVars, Stage, Lifecycle!vars
<1> QED
  BY <1>3, <1>4, <1>5, <1>6, <1>7, <1>8, RunSteps

(* The review runs of the source, with their leases, heartbeats, redelivered *)
(* jobs and crashes, implement the life that their readers rely on.          *)
THEOREM LifecycleRefinement == Spec => ImplementsLifecycle
<1>1. Init => Lifecycle!Init
  BY StageNames DEF Init, Lifecycle!Init, Stage, Report, Statuses
<1> QED
  BY <1>1, AlwaysSettled, StepOfLifecycle, PTL
  DEF Spec, ImplementsLifecycle, Lifecycle!Spec
=============================================================================
