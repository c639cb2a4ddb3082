----------------------------- MODULE OutboxProofs -----------------------------
(***************************************************************************)
(* What holds of Outbox for any number of runs, fixes, commands and workers. *)
(* The argument: what a dispatcher has in hand was claimed with everything   *)
(* before it published, and nothing is ever inserted before a row that       *)
(* exists.                                                                   *)
(***************************************************************************)
EXTENDS Outbox, SequenceTheorems, TLAPS

USE DEF github

(* Events, kinds and aggregates.                                            *)
CheckEvents == Runs \X CheckKinds

LEMMA RunEvents ==
  ASSUME NEW r \in Runs
  PROVE  /\ ReviewQueued(r) \in Events \ FixEvents
         /\ CheckQueued(r) \in (Events \cap CheckEvents) \ FixEvents
         /\ CheckCompleted(r) \in (Events \cap CheckEvents) \ FixEvents
         /\ Aggregate(ReviewQueued(r)) = r
         /\ Aggregate(CheckQueued(r)) = r
         /\ Aggregate(CheckCompleted(r)) = r
         /\ CheckQueued(r) # CheckCompleted(r)
         /\ ReviewQueued(r) # CheckCompleted(r)
         /\ ReviewQueued(r) # CheckQueued(r)
  BY DEF Events, RunKinds, FixEvents, CheckKinds, CheckEvents, Aggregate,
         ReviewQueued, CheckQueued, CheckCompleted

LEMMA CheckEventFacts ==
  /\ CheckEvents \subseteq Events
  /\ \A e \in Events : Kind(e) \in CheckKinds => e \in CheckEvents
  /\ \A e \in CheckEvents :
       /\ Aggregate(e) \in Runs
       /\ e = CheckQueued(Aggregate(e)) \/ e = CheckCompleted(Aggregate(e))
       /\ Kind(e) \in CheckKinds
  BY DEF Events, RunKinds, FixEvents, CommandEvents, Kind, CheckKinds, CheckEvents,
         Aggregate, CheckQueued, CheckCompleted

LEMMA FixIsAlone ==
  \A e \in FixEvents, f \in Events : Aggregate(f) = Aggregate(e) => f = e
  BY OutboxAssumption DEF Events, FixEvents, CommandEvents, Aggregate

(* The dispatchers.                                                         *)
LEMMA IdleIsDispatcher == Idle \in Dispatcher /\ Idle.pc = "idle"
  BY DEF Idle, Dispatcher, PCs

LEMMA DispatcherSteps ==
  ASSUME NEW d \in Dispatcher
  PROVE  /\ [d EXCEPT !.locked = FALSE] \in Dispatcher
         /\ \A pc \in PCs : [d EXCEPT !.pc = pc] \in Dispatcher
         /\ \A pc \in PCs, n \in Nat :
              [d EXCEPT !.pc = pc, !.found = n] \in Dispatcher
  BY DEF Dispatcher

(* A dispatcher at work has an event, and only check events are looked for   *)
(* and written on GitHub.                                                    *)
AtWork ==
  \A w \in Workers :
    /\ disp[w].pc # "idle" => disp[w].event \in Events
    /\ disp[w].pc \in {"find", "write"} => disp[w].event \in CheckEvents

Typed == TypeOK /\ AtWork

LEMMA InitTyped == Init => Typed
<1> SUFFICES ASSUME Init PROVE Typed
  OBVIOUS
<1>1. TypeOK
  BY IdleIsDispatcher, OutboxAssumption DEF Init, TypeOK
<1>2. AtWork
  BY IdleIsDispatcher DEF Init, AtWork
<1> QED
  BY <1>1, <1>2 DEF Typed

(* What a step does to the dispatchers: each one goes on with its event,     *)
(* becomes idle, or has just claimed an event.                               *)
Carries(w) ==
  /\ disp'[w].event = disp[w].event
  /\ disp'[w].pc = disp[w].pc
  /\ disp'[w].found = disp[w].found

LEMMA UnlockCarries ==
  ASSUME Typed, NEW E, Unlock(E)
  PROVE  disp' \in [Workers -> Dispatcher] /\ \A w \in Workers : Carries(w)
<1> USE DEF Typed, TypeOK
<1>1. disp' \in [Workers -> Dispatcher]
  BY DispatcherSteps DEF Unlock
<1>2. \A w \in Workers : Carries(w)
  BY DEF Unlock, Carries, Dispatcher
<1> QED
  BY <1>1, <1>2

LEMMA ClaimDispatch ==
  ASSUME Typed, NEW w \in Workers, NEW e \in Events, Claim(w, e)
  PROVE  /\ disp' \in [Workers -> Dispatcher]
         /\ disp'[w].event = e
         /\ disp'[w].pc \in {"find", "handoff"}
         /\ disp'[w].pc = "find" <=> e \in CheckEvents
         /\ \A v \in Workers \ {w} : disp'[v] = disp[v]
<1> USE DEF Typed, TypeOK
<1>1. disp'[w] = [pc |-> FirstStep(e), event |-> e, found |-> 0, locked |-> TRUE]
  BY DEF Claim
<1>2. FirstStep(e) = IF e \in CheckEvents THEN "find" ELSE "handoff"
  BY CheckEventFacts DEF FirstStep
<1>3. disp'[w] \in Dispatcher
  BY <1>1, <1>2 DEF Dispatcher, PCs
<1> QED
  BY <1>1, <1>2, <1>3 DEF Claim

LEMMA FindCheckDispatch ==
  ASSUME Typed, NEW w \in Workers, FindCheck(w)
  PROVE  LET r == Aggregate(disp[w].event) IN
         /\ disp' \in [Workers -> Dispatcher]
         /\ disp[w].event \in CheckEvents /\ r \in Runs
         /\ disp'[w].event = disp[w].event /\ disp'[w].pc = "write"
         /\ disp'[w].found \in 0..Len(checks[r])
         /\ disp'[w].found = 0 => checks[r] = <<>> \/ r \in crowded
         /\ \A v \in Workers \ {w} : disp'[v] = disp[v]
<1> USE DEF Typed, TypeOK
<1> DEFINE r == Aggregate(disp[w].event)
<1>1. disp[w].event \in CheckEvents /\ r \in Runs
  BY CheckEventFacts DEF FindCheck, AtWork
<1>2. PICK n \in 0..Len(checks[r]) :
        /\ n = 0 => checks[r] = <<>> \/ r \in crowded
        /\ disp' = [disp EXCEPT ![w] = [@ EXCEPT !.pc = "write", !.found = n]]
  BY DEF FindCheck
<1>3. n \in Nat
  BY <1>1
<1>4. disp[w] \in Dispatcher
  OBVIOUS
<1>5. [disp[w] EXCEPT !.pc = "write", !.found = n] \in Dispatcher
  BY <1>3, <1>4, DispatcherSteps DEF PCs
<1>6. disp'[w] = [disp[w] EXCEPT !.pc = "write", !.found = n]
  BY <1>2
<1>7. disp'[w].event = disp[w].event /\ disp'[w].pc = "write" /\ disp'[w].found = n
  BY <1>4, <1>6 DEF Dispatcher
<1> QED
  BY <1>1, <1>2, <1>5, <1>7

LEMMA MarkDispatch ==
  ASSUME Typed, NEW w \in Workers, disp[w].pc # "idle",
         disp' = [disp EXCEPT ![w].pc = "mark"]
  PROVE  /\ disp' \in [Workers -> Dispatcher]
         /\ disp'[w].event = disp[w].event /\ disp'[w].pc = "mark"
         /\ \A v \in Workers \ {w} : disp'[v] = disp[v]
<1> USE DEF Typed, TypeOK
<1>1. disp[w] \in Dispatcher
  OBVIOUS
<1>2. disp'[w] = [disp[w] EXCEPT !.pc = "mark"]
  OBVIOUS
<1>3. disp'[w] \in Dispatcher
  BY <1>1, <1>2, DispatcherSteps DEF PCs
<1> QED
  BY <1>1, <1>2, <1>3 DEF Dispatcher

LEMMA StopDispatch ==
  ASSUME Typed, NEW w \in Workers, disp' = [disp EXCEPT ![w] = Idle]
  PROVE  /\ disp' \in [Workers -> Dispatcher]
         /\ disp'[w].pc = "idle"
         /\ \A v \in Workers \ {w} : disp'[v] = disp[v]
  BY IdleIsDispatcher DEF Typed, TypeOK

-----------------------------------------------------------------------------
(* Typing.                                                                  *)

(* What a write leaves of the check runs of one run. *)
LEMMA WrittenTyped ==
  ASSUME Typed, NEW e \in CheckEvents, NEW n \in Nat
  PROVE  LET r == Aggregate(e) IN
         /\ r \in Runs /\ checks[r] \in Seq({"queued", "completed"})
         /\ CheckStatus(e) \in {"queued", "completed"}
         /\ Written(e, n) \in [Runs -> Seq({"queued", "completed"})]
         /\ Written(e, n)[r] = IF n = 0 THEN Append(checks[r], CheckStatus(e))
                               ELSE [checks[r] EXCEPT ![n] = CheckStatus(e)]
         /\ \A q \in Runs \ {r} : Written(e, n)[q] = checks[q]
<1> USE DEF Typed, TypeOK
<1> DEFINE r == Aggregate(e)
<1>1. r \in Runs
  BY CheckEventFacts
<1>2. checks[r] \in Seq({"queued", "completed"})
  BY <1>1
<1>3. CheckStatus(e) \in {"queued", "completed"}
  BY DEF CheckStatus
<1>4. Append(checks[r], CheckStatus(e)) \in Seq({"queued", "completed"})
  BY <1>2, <1>3
<1>5. [checks[r] EXCEPT ![n] = CheckStatus(e)] \in Seq({"queued", "completed"})
  <2>1. CASE n \in 1..Len(checks[r])
    BY <1>2, <1>3, <2>1, ExceptSeq
  <2>2. CASE n \notin 1..Len(checks[r])
    <3>1. [checks[r] EXCEPT ![n] = CheckStatus(e)] = checks[r]
      BY <1>2, <2>2
    <3> QED
      BY <1>2, <3>1
  <2> QED
    BY <2>1, <2>2
<1> QED
  BY <1>1, <1>2, <1>3, <1>4, <1>5 DEF Written

LEMMA WriteCheckTyped ==
  ASSUME Typed, NEW w \in Workers, disp[w].pc = "write"
  PROVE  /\ disp[w].event \in CheckEvents /\ disp[w].found \in Nat
         /\ Aggregate(disp[w].event) \in Runs
         /\ [event |-> disp[w].event, found |-> disp[w].found] \in Request
<1>1. disp[w].event \in CheckEvents /\ disp[w] \in Dispatcher
  BY DEF Typed, TypeOK, AtWork
<1>2. disp[w].found \in Nat
  BY <1>1 DEF Dispatcher
<1> QED
  BY <1>1, <1>2, CheckEventFacts DEF Request, CheckEvents

LEMMA SentTyped ==
  ASSUME Typed, NEW s \in sent
  PROVE  s.event \in CheckEvents /\ s.found \in Nat /\ Aggregate(s.event) \in Runs
<1>1. s \in Request
  BY DEF Typed, TypeOK
<1>2. s.event \in CheckEvents /\ s.found \in Nat
  BY <1>1 DEF Request, CheckEvents
<1> QED
  BY <1>2, CheckEventFacts

LEMMA EndJobTyped ==
  ASSUME Typed, NEW w \in Workers, NEW status \in {"absent", "waiting"}, EndJob(w, status)
  PROVE  jobs' \in [Events -> {"absent", "waiting", "active"}]
  BY DEF Typed, TypeOK, EndJob

LEMMA InsertTyped ==
  ASSUME Typed,
         createdAt' \in [Events -> Nat], clock' \in Nat,
         published' \subseteq Events, handled' \subseteq Events,
         requeues' \in [Fixes -> 0..MaxRequeues],
         UNCHANGED <<owner, lease, jobs, disp, github, overrun>>
  PROVE  TypeOK' /\ AtWork'
  BY DEF Typed, TypeOK, AtWork

LEMMA RankTyped ==
  ASSUME Typed, NEW e
  PROVE  clock + 1 \in Nat /\ [createdAt EXCEPT ![e] = clock + 1] \in [Events -> Nat]
<1>1. createdAt \in [Events -> Nat] /\ clock + 1 \in Nat
  BY DEF Typed, TypeOK
<1> QED
  BY <1>1

LEMMA NextTyped == Typed /\ [Next]_vars => Typed'
<1> SUFFICES ASSUME Typed, [Next]_vars PROVE TypeOK' /\ AtWork'
  BY DEF Typed
<1>0. TypeOK /\ AtWork
  BY DEF Typed
<1>1. ASSUME NEW r \in Runs, QueueReviewRun(r) PROVE TypeOK' /\ AtWork'
  <2>1. PICK tie \in {1, 2} :
          createdAt' = [createdAt EXCEPT ![ReviewQueued(r)] = clock + tie,
                                         ![CheckQueued(r)] = clock + (3 - tie)]
    BY <1>1 DEF QueueReviewRun
  <2>2. clock + tie \in Nat /\ clock + (3 - tie) \in Nat
    BY <1>0 DEF TypeOK
  <2>3. createdAt' \in [Events -> Nat]
    BY <1>0, <2>1, <2>2 DEF TypeOK
  <2>4. clock' \in Nat /\ published' \subseteq Events /\ handled' \subseteq Events
    BY <1>0, <1>1 DEF QueueReviewRun, TypeOK
  <2>5. requeues' \in [Fixes -> 0..MaxRequeues]
    BY <1>0, <1>1 DEF QueueReviewRun, TypeOK
  <2>6. UNCHANGED <<owner, lease, jobs, disp, github, overrun>>
    BY <1>1 DEF QueueReviewRun
  <2> QED
    BY <2>3, <2>4, <2>5, <2>6, InsertTyped
<1>2. ASSUME NEW r \in Runs, CompleteReviewRun(r) PROVE TypeOK' /\ AtWork'
  <2>1. createdAt' \in [Events -> Nat] /\ clock' \in Nat
    BY <1>2, RankTyped DEF CompleteReviewRun
  <2>2. published' \subseteq Events /\ handled' \subseteq Events
    BY <1>0, <1>2 DEF CompleteReviewRun, TypeOK
  <2>3. requeues' \in [Fixes -> 0..MaxRequeues]
    BY <1>0, <1>2 DEF CompleteReviewRun, TypeOK
  <2>4. UNCHANGED <<owner, lease, jobs, disp, github, overrun>>
    BY <1>2 DEF CompleteReviewRun
  <2> QED
    BY <2>1, <2>2, <2>3, <2>4, InsertTyped
<1>3. ASSUME NEW f \in Fixes, QueuePatchFix(f) PROVE TypeOK' /\ AtWork'
  <2>1. requeues' \in [Fixes -> 0..MaxRequeues]
    BY <1>0, <1>3, OutboxAssumption DEF QueuePatchFix, TypeOK
  <2>2. createdAt' \in [Events -> Nat] /\ clock' \in Nat
    BY <1>3, RankTyped DEF QueuePatchFix
  <2>3. published' \subseteq Events /\ handled' \subseteq Events
    BY <1>0, <1>3 DEF QueuePatchFix, TypeOK
  <2>4. UNCHANGED <<owner, lease, jobs, disp, github, overrun>>
    BY <1>3 DEF QueuePatchFix
  <2> QED
    BY <2>1, <2>2, <2>3, <2>4, InsertTyped
<1>4. ASSUME NEW c \in Commands, QueueCommand(c) PROVE TypeOK' /\ AtWork'
  <2>1. createdAt' \in [Events -> Nat] /\ clock' \in Nat
    BY <1>4, RankTyped DEF QueueCommand
  <2>2. published' \subseteq Events /\ handled' \subseteq Events
    BY <1>0, <1>4 DEF QueueCommand, TypeOK
  <2>3. requeues' \in [Fixes -> 0..MaxRequeues]
    BY <1>0, <1>4 DEF QueueCommand, TypeOK
  <2>4. UNCHANGED <<owner, lease, jobs, disp, github, overrun>>
    BY <1>4 DEF QueueCommand
  <2> QED
    BY <2>1, <2>2, <2>3, <2>4, InsertTyped
<1>5. ASSUME NEW e \in Events, Enqueue(e) \/ (\E w \in Workers : Skip(w, e))
      PROVE  TypeOK' /\ AtWork'
  BY <1>0, <1>5 DEF Enqueue, Skip, rows, TypeOK, AtWork
<1>6. ASSUME NEW w \in Workers, NEW e \in Events, Claim(w, e) PROVE TypeOK' /\ AtWork'
  <2>1. TypeOK'
    BY <1>0, <1>6, ClaimDispatch DEF Claim, TypeOK
  <2>2. AtWork'
    BY <1>0, <1>6, ClaimDispatch DEF AtWork
  <2> QED
    BY <2>1, <2>2
<1>7. ASSUME NEW w \in Workers, HandOff(w) PROVE TypeOK' /\ AtWork'
  <2>1. disp[w].pc # "idle" /\ disp' = [disp EXCEPT ![w].pc = "mark"]
    BY <1>7 DEF HandOff
  <2>2. TypeOK'
    BY <1>0, <1>7, <2>1, MarkDispatch DEF HandOff, rows, TypeOK, AtWork
  <2>3. AtWork'
    BY <1>0, <2>1, MarkDispatch DEF AtWork
  <2> QED
    BY <2>2, <2>3
<1>8. ASSUME NEW w \in Workers, FindCheck(w) PROVE TypeOK' /\ AtWork'
  <2>1. TypeOK'
    BY <1>0, <1>8, FindCheckDispatch DEF FindCheck, rows, TypeOK
  <2>2. AtWork'
    BY <1>0, <1>8, FindCheckDispatch, CheckEventFacts DEF AtWork
  <2> QED
    BY <2>1, <2>2
<1>9. ASSUME NEW w \in Workers, WriteCheck(w) PROVE TypeOK' /\ AtWork'
  <2>1. disp[w].pc # "idle" /\ disp' = [disp EXCEPT ![w].pc = "mark"]
    BY <1>9 DEF WriteCheck
  <2>2. TypeOK'
    BY <1>0, <1>9, <2>1, MarkDispatch, WriteCheckTyped, WrittenTyped
    DEF WriteCheck, rows, TypeOK, AtWork
  <2>3. AtWork'
    BY <1>0, <2>1, MarkDispatch DEF AtWork
  <2> QED
    BY <2>2, <2>3
<1>10. ASSUME NEW w \in Workers, MarkPublished(w) PROVE TypeOK' /\ AtWork'
  <2>1. jobs' \in [Events -> {"absent", "waiting", "active"}]
    BY <1>10, EndJobTyped DEF MarkPublished, AfterFailure
  <2>2. disp[w].event \in Events
    BY <1>0, <1>10 DEF AtWork, MarkPublished
  <2>3. TypeOK'
    BY <1>0, <1>10, <2>1, <2>2, StopDispatch DEF MarkPublished, TypeOK
  <2>4. AtWork'
    BY <1>0, <1>10, StopDispatch DEF MarkPublished, AtWork
  <2> QED
    BY <2>3, <2>4
<1>11. ASSUME NEW w \in Workers, Throw(w) PROVE TypeOK' /\ AtWork'
  <2>1. jobs' \in [Events -> {"absent", "waiting", "active"}]
    BY <1>11, EndJobTyped DEF Throw, AfterFailure
  <2>2. TypeOK'
    BY <1>0, <1>11, <2>1, StopDispatch DEF Throw, rows, TypeOK
  <2>3. AtWork'
    BY <1>0, <1>11, StopDispatch DEF Throw, AtWork
  <2> QED
    BY <2>2, <2>3
<1>12. ASSUME NEW w \in Workers, Crash(w) PROVE TypeOK' /\ AtWork'
  BY <1>0, <1>12, StopDispatch DEF Crash, rows, TypeOK, AtWork
<1>13. ASSUME NEW e \in Events, Stall(e) PROVE TypeOK' /\ AtWork'
  <2>1. Unlock({e}) /\ jobs' \in [Events -> {"absent", "waiting", "active"}]
    BY <1>0, <1>13 DEF Stall, AfterFailure, TypeOK
  <2>2. TypeOK'
    BY <1>0, <1>13, <2>1, UnlockCarries DEF Stall, rows, TypeOK
  <2>3. AtWork'
    BY <1>0, <2>1, UnlockCarries DEF AtWork, Carries
  <2> QED
    BY <2>2, <2>3
<1>14. CASE LoseQueue
  <2>1. TypeOK'
    BY <1>0, <1>14, UnlockCarries DEF LoseQueue, rows, TypeOK
  <2>2. AtWork'
    BY <1>0, <1>14, UnlockCarries DEF LoseQueue, AtWork, Carries
  <2> QED
    BY <2>1, <2>2
<1>15. ASSUME NEW e \in Events, LeaseExpires(e) PROVE TypeOK' /\ AtWork'
  <2>1. Kind(e) \in CheckKinds => Aggregate(e) \in Runs
    BY CheckEventFacts
  <2> QED
    BY <1>0, <1>15, <2>1 DEF LeaseExpires, TypeOK, AtWork
<1>16. ASSUME NEW w \in Workers, AbandonWrite(w) PROVE TypeOK' /\ AtWork'
  <2>1. jobs' \in [Events -> {"absent", "waiting", "active"}]
    BY <1>0, <1>16, EndJobTyped DEF AbandonWrite, AfterFailure, TypeOK
  <2>2. sent' \subseteq Request
    BY <1>0, <1>16, WriteCheckTyped DEF AbandonWrite, TypeOK
  <2>3. TypeOK'
    BY <1>0, <1>16, <2>1, <2>2, StopDispatch DEF AbandonWrite, rows, TypeOK
  <2>4. AtWork'
    BY <1>0, <1>16, StopDispatch DEF AbandonWrite, AtWork
  <2> QED
    BY <2>3, <2>4
<1>17. ASSUME NEW s \in sent, Land(s) PROVE TypeOK' /\ AtWork'
  <2>1. checks' \in [Runs -> Seq({"queued", "completed"})]
    BY <1>17, SentTyped, WrittenTyped DEF Land
  <2> QED
    BY <1>0, <1>17, <2>1 DEF Land, rows, TypeOK, AtWork
<1>18. ASSUME NEW r \in Runs, Crowd(r) PROVE TypeOK' /\ AtWork'
  BY <1>0, <1>18 DEF Crowd, rows, TypeOK, AtWork
<1>19. CASE UNCHANGED vars
  BY <1>0, <1>19 DEF vars, rows, TypeOK, AtWork
<1> QED
  BY <1>1, <1>2, <1>3, <1>4, <1>5, <1>6, <1>7, <1>8, <1>9, <1>10, <1>11, <1>12,
     <1>13, <1>14, <1>15, <1>16, <1>17, <1>18, <1>19
  DEF Next, Produce, Recover, Dispatch, Fault, GitHub, MarkRefused, GitHubRefuses, DispatchFails

LEMMA AlwaysTyped == Spec => []Typed
  BY InitTyped, NextTyped, PTL DEF Spec

(* No action leaves the types: a lease is none, live or expired, a check run *)
(* of GitHub is queued or completed, every dispatcher has one known event.   *)
THEOREM TypeCorrect == Spec => []TypeOK
<1>1. Typed => TypeOK
  BY DEF Typed
<1> QED
  BY <1>1, AlwaysTyped, PTL

-----------------------------------------------------------------------------
(* Ranks.  Rows are inserted after all rows that exist, a run's check events *)
(* in their order, and only rows that exist are worked on.                   *)
Ranked ==
  /\ \A e \in Events : createdAt[e] <= clock
  /\ \A r \in Runs :
       /\ CheckQueued(r) \in Inserted <=> ReviewQueued(r) \in Inserted
       /\ CheckCompleted(r) \in Inserted =>
            /\ CheckQueued(r) \in Inserted
            /\ createdAt[CheckQueued(r)] < createdAt[CheckCompleted(r)]
  /\ published \subseteq Inserted
  /\ handled \subseteq Inserted
  /\ \A w \in Workers : disp[w].pc # "idle" => disp[w].event \in Inserted

(* A transaction that writes the rows S: new ones, or a fix approved again. *)
Inserts(S) ==
  /\ S \subseteq Events /\ S \cap Inserted \subseteq FixEvents
  /\ \A r \in Runs :
       /\ CheckQueued(r) \in S <=> ReviewQueued(r) \in S
       /\ CheckCompleted(r) \in S => CheckQueued(r) \in Inserted \ S
  /\ clock <= clock'
  /\ \A e \in Events \ S : createdAt'[e] = createdAt[e]
  /\ \A e \in S : clock < createdAt'[e] /\ createdAt'[e] <= clock'
  /\ published' = published \ S
  /\ handled' = handled \ S
  /\ UNCHANGED <<owner, lease, disp, github, overrun>>

LEMMA ProduceInserts ==
  ASSUME Typed, Ranked, Produce
  PROVE  \E S : Inserts(S)
<1>0. /\ createdAt \in [Events -> Nat] /\ clock \in Nat
      /\ published \subseteq Inserted /\ handled \subseteq Inserted
  BY DEF Typed, TypeOK, Ranked
<1>1. ASSUME NEW r \in Runs, QueueReviewRun(r) PROVE \E S : Inserts(S)
  <2> DEFINE S == {ReviewQueued(r), CheckQueued(r)}
  <2>1. S \subseteq Events /\ S \cap Inserted = {}
    BY <1>1, RunEvents DEF QueueReviewRun, Ranked
  <2>2. \A q \in Runs : /\ CheckQueued(q) \in S <=> ReviewQueued(q) \in S
                        /\ CheckCompleted(q) \notin S
    BY RunEvents DEF CheckQueued, ReviewQueued, CheckCompleted
  <2>3. PICK tie \in {1, 2} :
          createdAt' = [createdAt EXCEPT ![ReviewQueued(r)] = clock + tie,
                                         ![CheckQueued(r)] = clock + (3 - tie)]
    BY <1>1 DEF QueueReviewRun
  <2>4. clock' = clock + 2
    BY <1>1 DEF QueueReviewRun
  <2>5. \A e \in Events \ S : createdAt'[e] = createdAt[e]
    BY <1>0, <2>3
  <2>6. \A e \in S : clock < createdAt'[e] /\ createdAt'[e] <= clock'
    BY <1>0, <2>1, <2>3, <2>4
  <2>7. published' = published \ S /\ handled' = handled \ S
    BY <1>0, <1>1, <2>1 DEF QueueReviewRun
  <2>8. UNCHANGED <<owner, lease, disp, github, overrun>>
    BY <1>1 DEF QueueReviewRun
  <2>9. Inserts(S)
    BY <1>0, <2>1, <2>2, <2>4, <2>5, <2>6, <2>7, <2>8 DEF Inserts
  <2> QED
    BY <2>9
<1>2. ASSUME NEW r \in Runs, CompleteReviewRun(r) PROVE \E S : Inserts(S)
  <2> DEFINE S == {CheckCompleted(r)}
  <2>1. S \subseteq Events /\ S \cap Inserted = {} /\ CheckQueued(r) \in Inserted
    BY <1>2, RunEvents DEF CompleteReviewRun, Ranked, Inserted
  <2>2. \A q \in Runs : /\ CheckQueued(q) \notin S /\ ReviewQueued(q) \notin S
                        /\ CheckCompleted(q) \in S => q = r
    BY DEF CheckQueued, ReviewQueued, CheckCompleted
  <2>3. /\ createdAt' = [createdAt EXCEPT ![CheckCompleted(r)] = clock + 1]
        /\ clock' = clock + 1
        /\ UNCHANGED <<published, owner, lease, disp, github, handled, overrun>>
    BY <1>2 DEF CompleteReviewRun
  <2>4. published' = published \ S /\ handled' = handled \ S
    BY <1>0, <2>1, <2>3
  <2>5. Inserts(S)
    BY <1>0, <2>1, <2>2, <2>3, <2>4 DEF Inserts
  <2> QED
    BY <2>5
<1>3. ASSUME NEW f \in Fixes, QueuePatchFix(f) PROVE \E S : Inserts(S)
  <2> DEFINE e == <<f, "patch_fix.queued">>
             S == {e}
  <2>1. S \subseteq Events /\ S \subseteq FixEvents
    BY DEF Events, FixEvents
  <2>2. \A q \in Runs : {CheckQueued(q), ReviewQueued(q), CheckCompleted(q)} \cap S = {}
    BY <2>1, RunEvents
  <2>3. /\ createdAt' = [createdAt EXCEPT ![e] = clock + 1]
        /\ clock' = clock + 1
        /\ published' = published \ S /\ handled' = handled \ S
        /\ UNCHANGED <<owner, lease, disp, github, overrun>>
    BY <1>3 DEF QueuePatchFix
  <2>4. /\ \A x \in Events \ S : createdAt'[x] = createdAt[x]
        /\ \A x \in S : clock < createdAt'[x] /\ createdAt'[x] <= clock'
    BY <1>0, <2>1, <2>3
  <2>5. clock <= clock'
    BY <1>0, <2>3
  <2>6. S \cap Inserted \subseteq FixEvents
    BY <2>1
  <2>7. Inserts(S)
    BY <2>1, <2>2, <2>3, <2>4, <2>5, <2>6 DEF Inserts
  <2> QED
    BY <2>7
<1>4. ASSUME NEW c \in Commands, QueueCommand(c) PROVE \E S : Inserts(S)
  <2> DEFINE e == <<c, "github_comment_command.queued">>
             S == {e}
  <2>1. S \subseteq Events /\ S \cap Inserted = {}
    BY <1>4 DEF Events, CommandEvents, QueueCommand
  <2>2. \A q \in Runs : {CheckQueued(q), ReviewQueued(q), CheckCompleted(q)} \cap S = {}
    BY DEF CheckQueued, ReviewQueued, CheckCompleted
  <2>3. /\ createdAt' = [createdAt EXCEPT ![e] = clock + 1]
        /\ clock' = clock + 1
        /\ UNCHANGED <<published, owner, lease, disp, github, handled, overrun>>
    BY <1>4 DEF QueueCommand
  <2>4. published' = published \ S /\ handled' = handled \ S
    BY <1>0, <2>1, <2>3
  <2>5. /\ \A x \in Events \ S : createdAt'[x] = createdAt[x]
        /\ \A x \in S : clock < createdAt'[x] /\ createdAt'[x] <= clock'
    BY <1>0, <2>1, <2>3
  <2>6. clock <= clock'
    BY <1>0, <2>3
  <2>7. Inserts(S)
    BY <2>1, <2>2, <2>3, <2>4, <2>5, <2>6 DEF Inserts
  <2> QED
    BY <2>7
<1> QED
  BY <1>1, <1>2, <1>3, <1>4 DEF Produce

(* Steps that touch no row, no check run and no history: jobs come and go,   *)
(* dispatchers stop, a commit becomes crowded.                               *)
Quiet ==
  /\ UNCHANGED <<createdAt, clock, published, owner, lease, checks, sent, handled,
                 overrun>>
  /\ crowded \subseteq crowded'
  /\ \A w \in Workers : disp'[w].pc = "idle" \/ Carries(w)

(* The kinds of steps the invariants tell apart. *)
LEMMA StepKinds ==
  ASSUME Typed, Ranked, [Next]_vars
  PROVE  \/ \E S : Inserts(S)
         \/ \E w \in Workers, e \in Events : Claim(w, e)
         \/ \E w \in Workers :
              HandOff(w) \/ FindCheck(w) \/ WriteCheck(w) \/ MarkPublished(w)
         \/ \E w \in Workers : AbandonWrite(w)
         \/ \E s \in sent : Land(s)
         \/ \E e \in Events : LeaseExpires(e)
         \/ Quiet
<1>1. CASE Produce
  BY <1>1, ProduceInserts
<1>2. ASSUME NEW e \in Events, Enqueue(e) \/ (\E w \in Workers : Skip(w, e)) PROVE Quiet
  BY <1>2 DEF Enqueue, Skip, rows, Quiet, Carries
<1>3. ASSUME NEW w \in Workers, Throw(w) \/ Crash(w) PROVE Quiet
  BY <1>3, StopDispatch DEF Throw, Crash, rows, Quiet, Carries
<1>4. ASSUME NEW e \in Events, Stall(e) PROVE Quiet
  BY <1>4, UnlockCarries DEF Stall, rows, Quiet
<1>5. CASE LoseQueue
  BY <1>5, UnlockCarries DEF LoseQueue, rows, Quiet
<1>6. ASSUME NEW r \in Runs, Crowd(r) PROVE Quiet
  BY <1>6 DEF Crowd, rows, Quiet, Carries
<1>7. CASE UNCHANGED vars
  BY <1>7 DEF vars, rows, Quiet, Carries
<1> QED
  BY <1>1, <1>2, <1>3, <1>4, <1>5, <1>6, <1>7
  DEF Next, Recover, Dispatch, Fault, GitHub, MarkRefused, GitHubRefuses, DispatchFails

(* Three of them touch check runs or requests. *)
LEMMA CheckSteps ==
  ASSUME Typed, Ranked, [Next]_vars
  PROVE  \/ UNCHANGED <<checks, sent>>
         \/ \E w \in Workers : WriteCheck(w) /\ UNCHANGED sent
         \/ \E w \in Workers : AbandonWrite(w) /\ UNCHANGED checks
         \/ \E s \in sent : Land(s)
  BY StepKinds DEF Inserts, Claim, HandOff, FindCheck, WriteCheck, MarkPublished,
                   AbandonWrite, LeaseExpires, Quiet, rows

(* What a dispatcher has in hand after a step it had before, or just claimed. *)
LEMMA NextDispatch ==
  ASSUME Typed, Ranked, [Next]_vars, NEW w \in Workers, disp'[w].pc # "idle"
  PROVE  \/ disp[w].pc # "idle" /\ disp'[w].event = disp[w].event
         \/ \E e \in Events : Claim(w, e) /\ disp'[w].event = e
<1> DEFINE Goal == \/ disp[w].pc # "idle" /\ disp'[w].event = disp[w].event
                   \/ \E e \in Events : Claim(w, e) /\ disp'[w].event = e
<1>1. ASSUME NEW S, Inserts(S) PROVE Goal
  BY <1>1 DEF Inserts
<1>2. ASSUME NEW v \in Workers, NEW e \in Events, Claim(v, e) PROVE Goal
  BY <1>2, ClaimDispatch
<1>3. ASSUME NEW v \in Workers, HandOff(v) \/ WriteCheck(v) PROVE Goal
  <2>1. disp[v].pc # "idle" /\ disp' = [disp EXCEPT ![v].pc = "mark"]
    BY <1>3 DEF HandOff, WriteCheck
  <2> QED
    BY <2>1, MarkDispatch
<1>4. ASSUME NEW v \in Workers, FindCheck(v) PROVE Goal
  BY <1>4, FindCheckDispatch DEF FindCheck
<1>5. ASSUME NEW v \in Workers, MarkPublished(v) PROVE Goal
  BY <1>5, StopDispatch DEF MarkPublished
<1>6. ASSUME NEW e \in Events, LeaseExpires(e) PROVE Goal
  BY <1>6 DEF LeaseExpires
<1>7. ASSUME NEW v \in Workers, AbandonWrite(v) PROVE Goal
  BY <1>7, StopDispatch DEF AbandonWrite
<1>8. ASSUME NEW s \in sent, Land(s) PROVE Goal
  BY <1>8 DEF Land
<1>9. CASE Quiet
  BY <1>9 DEF Quiet, Carries
<1> QED
  BY <1>1, <1>2, <1>3, <1>4, <1>5, <1>6, <1>7, <1>8, <1>9, StepKinds

(* All kinds but the first leave the ranks alone. *)
LEMMA RanksKept ==
  ASSUME Typed, Ranked, [Next]_vars, ~ \E S : Inserts(S)
  PROVE  UNCHANGED <<createdAt, clock>> /\ published \subseteq published'
  BY StepKinds DEF Claim, HandOff, FindCheck, WriteCheck, MarkPublished, AbandonWrite,
                   Land, LeaseExpires, Quiet, rows

LEMMA EarlierKept ==
  ASSUME Typed, Ranked, [Next]_vars, NEW e \in Inserted
  PROVE  e \in Inserted' /\ Earlier(e)' \subseteq Earlier(e)
<1>0. /\ createdAt \in [Events -> Nat] /\ clock \in Nat
      /\ \A f \in Events : createdAt[f] <= clock
  BY DEF Typed, TypeOK, Ranked
<1>1. ASSUME NEW S, Inserts(S) PROVE e \in Inserted' /\ Earlier(e)' \subseteq Earlier(e)
  <2>0. createdAt' \in [Events -> Nat]
    BY NextTyped DEF Typed, TypeOK
  <2>1. CASE e \in S
    <3>1. e \in FixEvents /\ e \in Events
      BY <1>1, <2>1 DEF Inserts, Inserted
    <3>2. e \in Inserted'
      BY <1>0, <1>1, <2>0, <2>1, <3>1 DEF Inserts, Inserted
    <3>3. \A f \in Events : Aggregate(f) = Aggregate(e) => ~(createdAt'[f] < createdAt'[e])
      BY <2>0, <3>1, FixIsAlone
    <3> QED
      BY <3>2, <3>3 DEF Earlier, Inserted
  <2>2. CASE e \notin S
    <3>1. e \in Events /\ createdAt'[e] = createdAt[e]
      BY <1>1, <2>2 DEF Inserts, Inserted
    <3>2. \A f \in Events : createdAt'[f] < createdAt'[e] => createdAt'[f] = createdAt[f]
      BY <1>0, <1>1, <2>0, <3>1 DEF Inserts
    <3> QED
      BY <3>1, <3>2 DEF Earlier, Inserted
  <2> QED
    BY <2>1, <2>2
<1>2. CASE ~ \E S : Inserts(S)
  BY <1>2, RanksKept DEF Earlier, Inserted
<1> QED
  BY <1>1, <1>2

LEMMA PublishedBeforeKept ==
  ASSUME Typed, Ranked, [Next]_vars, NEW e \in Inserted, Earlier(e) \subseteq published
  PROVE  Earlier(e)' \subseteq published'
<1>0. createdAt \in [Events -> Nat]
  BY DEF Typed, TypeOK
<1>1. ASSUME NEW f \in Earlier(e) PROVE f \notin FixEvents /\ f \in Inserted
  BY <1>0, <1>1, FixIsAlone DEF Earlier, Inserted
<1>2. ASSUME NEW f \in Earlier(e) PROVE f \in published'
  <2>1. ASSUME NEW S, Inserts(S) PROVE f \in published'
    BY <1>1, <1>2, <2>1 DEF Inserts
  <2> QED
    BY <1>2, <2>1, RanksKept
<1> QED
  BY <1>2, EarlierKept

LEMMA InitRanked == Init => Ranked
<1> SUFFICES ASSUME Init PROVE Ranked
  OBVIOUS
<1>1. \A e \in Events : createdAt[e] = 0
  BY DEF Init
<1>2. Inserted = {}
  BY <1>1 DEF Inserted
<1>3. \A w \in Workers : disp[w].pc = "idle"
  BY IdleIsDispatcher DEF Init
<1> QED
  BY <1>1, <1>2, <1>3 DEF Ranked, Init

LEMMA NextRanked == Typed /\ Ranked /\ [Next]_vars => Ranked'
<1> SUFFICES ASSUME Typed, Ranked, [Next]_vars PROVE Ranked'
  OBVIOUS
<1>0. /\ createdAt \in [Events -> Nat] /\ clock \in Nat
      /\ createdAt' \in [Events -> Nat] /\ clock' \in Nat
  BY NextTyped DEF Typed, TypeOK
<1>1. \A e \in Inserted : e \in Inserted'
  BY EarlierKept
<1>2. ASSUME NEW S, Inserts(S) PROVE Ranked'
  <2>1. \A e \in Events : createdAt'[e] <= clock'
    <3>1. \A e \in S : createdAt'[e] <= clock'
      BY <1>2 DEF Inserts
    <3>2. \A e \in Events \ S : createdAt'[e] <= clock'
      BY <1>0, <1>2 DEF Inserts, Ranked
    <3> QED
      BY <3>1, <3>2
  <2>2. Inserted' = Inserted \cup S
    BY <1>0, <1>1, <1>2 DEF Inserts, Inserted
  <2>3. ASSUME NEW r \in Runs
        PROVE  /\ CheckQueued(r) \in Inserted' <=> ReviewQueued(r) \in Inserted'
               /\ CheckCompleted(r) \in Inserted' =>
                    /\ CheckQueued(r) \in Inserted'
                    /\ createdAt'[CheckQueued(r)] < createdAt'[CheckCompleted(r)]
    <3>1. CheckQueued(r) \in Inserted' <=> ReviewQueued(r) \in Inserted'
      BY <1>2, <2>2 DEF Inserts, Ranked
    <3>2. CASE CheckCompleted(r) \in S
      <4>1. CheckQueued(r) \in Inserted \ S
        BY <1>2, <3>2 DEF Inserts
      <4>2. createdAt'[CheckQueued(r)] <= clock /\ clock < createdAt'[CheckCompleted(r)]
        BY <1>2, <3>2, <4>1, RunEvents DEF Inserts, Ranked
      <4> QED
        BY <1>0, <2>2, <3>1, <4>1, <4>2, RunEvents
    <3>3. CASE CheckCompleted(r) \in Inserted \ S
      <4>1. /\ CheckQueued(r) \in Inserted
            /\ createdAt[CheckQueued(r)] < createdAt[CheckCompleted(r)]
        BY <3>3 DEF Ranked
      <4>2. CheckQueued(r) \notin S
        BY <1>2, <4>1, RunEvents DEF Inserts
      <4> QED
        BY <1>2, <2>2, <3>1, <3>3, <4>1, <4>2, RunEvents DEF Inserts
    <3> QED
      BY <2>2, <3>1, <3>2, <3>3
  <2>4. published' \subseteq Inserted' /\ handled' \subseteq Inserted'
    BY <1>2, <2>2 DEF Inserts, Ranked
  <2>5. \A w \in Workers : disp'[w].pc # "idle" => disp'[w].event \in Inserted'
    BY <1>2, <2>2 DEF Inserts, Ranked
  <2> QED
    BY <2>1, <2>3, <2>4, <2>5 DEF Ranked
<1>3. CASE ~ \E S : Inserts(S)
  <2>1. UNCHANGED <<createdAt, clock>> /\ Inserted' = Inserted
    BY <1>3, RanksKept DEF Inserted
  <2>2. \A w \in Workers : disp'[w].pc # "idle" => disp'[w].event \in Inserted
    BY NextDispatch DEF Ranked, Claim, Claimable
  <2>3. published' \subseteq Inserted
    <3>1. published' = published \/ \E w \in Workers : MarkPublished(w)
      BY <1>3, StepKinds DEF Claim, HandOff, FindCheck, WriteCheck, AbandonWrite, Land,
                             LeaseExpires, Quiet, rows
    <3>2. ASSUME NEW w \in Workers, MarkPublished(w) PROVE published' \subseteq Inserted
      BY <3>2 DEF MarkPublished, Ranked
    <3> QED
      BY <3>1, <3>2 DEF Ranked
  <2>4. handled' \subseteq Inserted
    <3>1. \A w \in Workers : HandOff(w) \/ WriteCheck(w) =>
            disp[w].pc # "idle" /\ handled' = handled \cup {disp[w].event}
      <4>1. \A w \in Workers : HandOff(w) =>
              disp[w].pc # "idle" /\ handled' = handled \cup {disp[w].event}
        BY DEF HandOff
      <4>2. \A w \in Workers : WriteCheck(w) =>
              disp[w].pc # "idle" /\ handled' = handled \cup {disp[w].event}
        BY DEF WriteCheck
      <4> QED
        BY <4>1, <4>2
    <3>2. handled' = handled \/ \E w \in Workers : HandOff(w) \/ WriteCheck(w)
      BY <1>3, StepKinds DEF Claim, FindCheck, MarkPublished, AbandonWrite, Land,
                             LeaseExpires, Quiet
    <3>3. CASE handled' = handled
      BY <3>3 DEF Ranked
    <3>4. ASSUME NEW w \in Workers, HandOff(w) \/ WriteCheck(w)
          PROVE  handled' \subseteq Inserted
      BY <3>1, <3>4 DEF Ranked
    <3> QED
      BY <3>2, <3>3, <3>4
  <2> QED
    BY <2>1, <2>2, <2>3, <2>4 DEF Ranked
<1> QED
  BY <1>2, <1>3

-----------------------------------------------------------------------------
(* Order.  Whatever is in hand was claimed with everything earlier published,*)
(* and stays so.                                                             *)
InHandInOrder ==
  \A w \in Workers : disp[w].pc # "idle" => Earlier(disp[w].event) \subseteq published

Ordered == Ranked /\ PublishedInOrder /\ InHandInOrder

LEMMA InitOrdered == Init => Ordered
  BY InitRanked, IdleIsDispatcher DEF Ordered, Init, PublishedInOrder, InHandInOrder

LEMMA NextOrdered == Typed /\ Ordered /\ [Next]_vars => Ordered'
<1> SUFFICES ASSUME Typed, Ordered, [Next]_vars PROVE Ordered'
  OBVIOUS
<1>0. Ranked /\ PublishedInOrder /\ InHandInOrder
  BY DEF Ordered
<1>1. \A e \in Inserted : Earlier(e) \subseteq published => Earlier(e)' \subseteq published'
  BY <1>0, PublishedBeforeKept
<1>2. published \subseteq Inserted
  BY <1>0 DEF Ranked
<1>3. PublishedInOrder'
  <2>1. published' \subseteq published \/ \E w \in Workers : MarkPublished(w)
    BY <1>0, StepKinds DEF Inserts, Claim, HandOff, FindCheck, WriteCheck, AbandonWrite,
                           Land, LeaseExpires, Quiet, rows
  <2>2. ASSUME NEW e \in published PROVE Earlier(e)' \subseteq published'
    BY <1>0, <1>1, <1>2 DEF PublishedInOrder
  <2>3. ASSUME NEW w \in Workers, MarkPublished(w), NEW e \in published'
        PROVE  Earlier(e)' \subseteq published'
    <3>1. CASE e \in published
      BY <2>2, <3>1
    <3>2. CASE e \notin published
      <4>1. e = disp[w].event /\ disp[w].pc # "idle"
        BY <2>3, <3>2 DEF MarkPublished
      <4>2. e \in Inserted /\ Earlier(e) \subseteq published
        BY <1>0, <4>1 DEF Ranked, InHandInOrder
      <4> QED
        BY <1>1, <4>2
    <3> QED
      BY <3>1, <3>2
  <2>4. CASE published' \subseteq published
    BY <2>2, <2>4 DEF PublishedInOrder
  <2>5. CASE \E w \in Workers : MarkPublished(w)
    BY <2>3, <2>5 DEF PublishedInOrder
  <2> QED
    BY <2>1, <2>4, <2>5
<1>4. ASSUME NEW w \in Workers, disp'[w].pc # "idle"
      PROVE  (Earlier(disp[w].event) \subseteq published)'
  <2>1. \A e \in Inserted : Earlier(e) \subseteq published /\ disp'[w].event = e
                             => (Earlier(disp[w].event) \subseteq published)'
    BY <1>1 DEF Earlier
  <2>2. CASE disp[w].pc # "idle" /\ disp'[w].event = disp[w].event
    <3>1. disp[w].event \in Inserted /\ Earlier(disp[w].event) \subseteq published
      BY <1>0, <2>2 DEF Ranked, InHandInOrder
    <3> QED
      BY <2>1, <2>2, <3>1
  <2>3. ASSUME NEW e \in Events, Claim(w, e), disp'[w].event = e
        PROVE  (Earlier(disp[w].event) \subseteq published)'
    <3>1. e \in Inserted /\ Earlier(e) \subseteq published
      BY <2>3 DEF Claim, Claimable
    <3> QED
      BY <2>1, <2>3, <3>1
  <2> QED
    BY <1>0, <1>4, <2>2, <2>3, NextDispatch
<1>5. InHandInOrder'
  BY <1>4 DEF InHandInOrder
<1> QED
  BY <1>0, <1>3, <1>5, NextRanked DEF Ordered

LEMMA AlwaysOrdered == Spec => [](Typed /\ Ordered)
<1>1. Init => Typed /\ Ordered
  BY InitTyped, InitOrdered
<1>2. Typed /\ Ordered /\ [Next]_vars => (Typed /\ Ordered)'
  BY NextTyped, NextOrdered
<1> QED
  BY <1>1, <1>2, PTL DEF Spec

(* Each aggregate's events are marked published in the order they were       *)
(* inserted, whatever crashes, lost leases and duplicate jobs come between   *)
(* claimOutboxEvent and markOutboxEventPublished.                            *)
THEOREM PublicationOrder == Spec => []PublishedInOrder
<1>1. Typed /\ Ordered => PublishedInOrder
  BY DEF Ordered
<1> QED
  BY <1>1, AlwaysOrdered, PTL

-----------------------------------------------------------------------------
(* At least once.                                                           *)
MarksHandled ==
  \A w \in Workers : disp[w].pc = "mark" => disp[w].event \in handled \cup FixEvents

Delivered == PublishedOnlyIfHandled /\ MarksHandled

LEMMA NextDelivered == Typed /\ Ordered /\ Delivered /\ [Next]_vars => Delivered'
<1> SUFFICES ASSUME Typed, Ordered, Delivered, [Next]_vars PROVE Delivered'
  OBVIOUS
<1>0. /\ Ranked /\ PublishedOnlyIfHandled /\ MarksHandled
      /\ published \subseteq Inserted /\ handled \subseteq Inserted
  BY DEF Ordered, Delivered, Ranked
<1> USE DEF PublishedOnlyIfHandled, MarksHandled
<1>1. ASSUME NEW S, Inserts(S) PROVE PublishedOnlyIfHandled' /\ MarksHandled'
  <2>1. handled \ FixEvents \subseteq handled'
    BY <1>0, <1>1 DEF Inserts
  <2> QED
    BY <1>0, <1>1, <2>1 DEF Inserts
<1>2. ASSUME NEW w \in Workers, NEW e \in Events, Claim(w, e)
      PROVE  PublishedOnlyIfHandled' /\ MarksHandled'
  <2>1. UNCHANGED <<published, handled>>
    BY <1>2 DEF Claim
  <2> QED
    BY <1>0, <1>2, <2>1, ClaimDispatch
<1>3. ASSUME NEW w \in Workers, HandOff(w) \/ WriteCheck(w)
      PROVE  PublishedOnlyIfHandled' /\ MarksHandled'
  <2>1. /\ disp[w].pc # "idle" /\ disp' = [disp EXCEPT ![w].pc = "mark"]
        /\ handled' = handled \cup {disp[w].event} /\ published' = published
    <3>1. CASE HandOff(w)
      BY <3>1 DEF HandOff, rows
    <3>2. CASE WriteCheck(w)
      BY <3>2 DEF WriteCheck, rows
    <3> QED
      BY <1>3, <3>1, <3>2
  <2> QED
    BY <1>0, <2>1, MarkDispatch
<1>4. ASSUME NEW w \in Workers, FindCheck(w) PROVE PublishedOnlyIfHandled' /\ MarksHandled'
  <2>1. UNCHANGED <<published, handled>>
    BY <1>4 DEF FindCheck, rows
  <2> QED
    BY <1>0, <1>4, <2>1, FindCheckDispatch
<1>5. ASSUME NEW w \in Workers, MarkPublished(w)
      PROVE  PublishedOnlyIfHandled' /\ MarksHandled'
  <2>1. /\ disp[w].event \in handled \cup FixEvents
        /\ published' = published \cup {disp[w].event} /\ handled' = handled
    BY <1>0, <1>5 DEF MarkPublished
  <2> QED
    BY <1>0, <1>5, <2>1, StopDispatch DEF MarkPublished
<1>6. ASSUME NEW e \in Events, LeaseExpires(e)
      PROVE  PublishedOnlyIfHandled' /\ MarksHandled'
  BY <1>0, <1>6 DEF LeaseExpires
<1>7. ASSUME NEW w \in Workers, AbandonWrite(w)
      PROVE  PublishedOnlyIfHandled' /\ MarksHandled'
  <2>1. UNCHANGED <<published, handled>>
    BY <1>7 DEF AbandonWrite, rows
  <2> QED
    BY <1>0, <1>7, <2>1, StopDispatch DEF AbandonWrite
<1>8. ASSUME NEW s \in sent, Land(s) PROVE PublishedOnlyIfHandled' /\ MarksHandled'
  BY <1>0, <1>8 DEF Land, rows
<1>9. ASSUME Quiet PROVE PublishedOnlyIfHandled' /\ MarksHandled'
  BY <1>0, <1>9 DEF Quiet, Carries
<1> QED
  BY <1>0, <1>1, <1>2, <1>3, <1>4, <1>5, <1>6, <1>7, <1>8, <1>9, StepKinds DEF Delivered

LEMMA AlwaysDelivered == Spec => [](Typed /\ Ordered /\ Delivered)
<1>1. Init => Delivered
  BY IdleIsDispatcher DEF Init, Delivered, PublishedOnlyIfHandled, MarksHandled
<1> QED
  BY <1>1, AlwaysOrdered, NextDelivered, PTL DEF Spec

(* No row but a patch fix approved again is marked published before its      *)
(* handler succeeded: a dispatcher that crashes, throws or loses its lease   *)
(* between handle and markPublished leaves the row to be delivered again.    *)
THEOREM DeliveredAtLeastOnce == Spec => []PublishedOnlyIfHandled
<1>1. Delivered => PublishedOnlyIfHandled
  BY DEF Delivered
<1> QED
  BY <1>1, AlwaysDelivered, PTL

-----------------------------------------------------------------------------
(* Refinement: the transactions of the producers are writes, a handler's     *)
(* last call is the delivery, markOutboxEventPublished the acknowledgement;  *)
(* all other steps are invisible to the writers.                             *)
LEMMA StepKeepsPromise ==
  Typed /\ Ordered /\ Delivered /\ [Next]_vars => [Promise!Next]_(Promise!vars)
<1> SUFFICES ASSUME Typed, Ordered, Delivered, [Next]_vars
             PROVE  [Promise!Next]_(Promise!vars)
  OBVIOUS
<1>0. Ranked /\ InHandInOrder /\ MarksHandled
  BY DEF Ordered, Delivered
<1>1. createdAt \in [Events -> Nat] /\ createdAt' \in [Events -> Nat] /\ clock \in Nat
  BY NextTyped DEF Typed, TypeOK
<1>2. Promise!Written = Inserted
  BY DEF Promise!Written, Inserted
<1>3. \A e : Promise!Earlier(e) = Earlier(e)
  BY <1>2 DEF Promise!Earlier, Earlier
<1>4. ASSUME NEW S, Inserts(S) PROVE Promise!Next
  <2>1. S \in SUBSET Events
    BY <1>4 DEF Inserts
  <2>2. \A e \in S : e \in Inserted => e \in FixEvents
    BY <1>4 DEF Inserts
  <2>3. \A e \in S : createdAt'[e] > 0 /\ \A f \in Inserted : createdAt'[e] > createdAt[f]
    BY <1>0, <1>1, <1>4, <2>1 DEF Inserts, Ranked, Inserted
  <2>4. /\ \A e \in Events \ S : createdAt'[e] = createdAt[e]
        /\ published' = published \ S /\ handled' = handled \ S
    BY <1>4 DEF Inserts
  <2>5. Promise!Write(S)
    BY <1>1, <1>2, <2>2, <2>3, <2>4 DEF Promise!Write
  <2> QED
    BY <2>1, <2>5 DEF Promise!Next
<1>5. ASSUME NEW w \in Workers, HandOff(w) \/ WriteCheck(w) PROVE Promise!Next
  <2>1. /\ disp[w].pc # "idle" /\ handled' = handled \cup {disp[w].event}
        /\ UNCHANGED <<createdAt, published>>
    <3>1. CASE HandOff(w)
      BY <3>1 DEF HandOff, rows
    <3>2. CASE WriteCheck(w)
      BY <3>2 DEF WriteCheck, rows
    <3> QED
      BY <1>5, <3>1, <3>2
  <2>2. disp[w].event \in Events /\ disp[w].event \in Inserted
    BY <1>0, <2>1 DEF Ranked, Inserted
  <2>3. Promise!Deliver(disp[w].event)
    BY <1>0, <1>2, <1>3, <2>1, <2>2 DEF Promise!Deliver, InHandInOrder
  <2> QED
    BY <2>2, <2>3 DEF Promise!Next
<1>6. ASSUME NEW w \in Workers, MarkPublished(w) PROVE Promise!Next
  <2>1. /\ disp[w].pc = "mark" /\ published' = published \cup {disp[w].event}
        /\ UNCHANGED <<createdAt, handled>>
    BY <1>6 DEF MarkPublished
  <2>2. disp[w].event \in Events /\ disp[w].event \in Inserted
    BY <1>0, <2>1 DEF Ranked, Inserted
  <2>3. disp[w].event \in handled \cup FixEvents
    BY <1>0, <2>1 DEF MarksHandled
  <2>4. Promise!Acknowledge(disp[w].event)
    BY <1>0, <1>2, <1>3, <2>1, <2>2, <2>3 DEF Promise!Acknowledge, InHandInOrder
  <2> QED
    BY <2>2, <2>4 DEF Promise!Next
<1>7. ASSUME NEW w \in Workers, NEW e \in Events, Claim(w, e)
      PROVE  UNCHANGED Promise!vars
  BY <1>7 DEF Claim, Promise!vars
<1>8. ASSUME NEW w \in Workers, FindCheck(w) PROVE UNCHANGED Promise!vars
  BY <1>8 DEF FindCheck, rows, Promise!vars
<1>9. ASSUME NEW e \in Events, LeaseExpires(e) PROVE UNCHANGED Promise!vars
  BY <1>9 DEF LeaseExpires, Promise!vars
<1>10. ASSUME NEW w \in Workers, AbandonWrite(w) PROVE UNCHANGED Promise!vars
  BY <1>10 DEF AbandonWrite, rows, Promise!vars
<1>11. ASSUME NEW s \in sent, Land(s) PROVE UNCHANGED Promise!vars
  BY <1>11 DEF Land, rows, Promise!vars
<1>12. ASSUME Quiet PROVE UNCHANGED Promise!vars
  BY <1>12 DEF Quiet, Promise!vars
<1> QED
  BY <1>0, <1>4, <1>5, <1>6, <1>7, <1>8, <1>9, <1>10, <1>11, <1>12, StepKinds

(* The outbox of the source, with its leases, queue and crashes, implements  *)
(* ordered delivery at least once.                                           *)
THEOREM Refinement == Spec => ImplementsOrderedDelivery
<1>1. Init => Promise!Init
  BY DEF Init, Promise!Init
<1> QED
  BY <1>1, AlwaysDelivered, StepKeepsPromise, PTL
  DEF Spec, ImplementsOrderedDelivery, Promise!Spec

-----------------------------------------------------------------------------
(* Check runs.  A run whose dispatchers keep their leases has one of them at  *)
(* most, and what that one has found is what it will write to.               *)
Holding ==
  \A w \in Workers :
    LET e == disp[w].event IN
    /\ disp[w].pc = "handoff" => e \notin CheckEvents
    /\ disp[w].pc # "idle" /\ e \in CheckEvents /\ Aggregate(e) \notin overrun =>
         lease[e] = "live" /\ owner[e] = w

LiveIsOpen == \A e \in published : lease[e] # "live"

(* A request given up keeps its event's lease from everybody until it runs out. *)
SentInOrder ==
  \A s \in sent : s.event \in Inserted /\ Earlier(s.event) \subseteq published

SentHolds ==
  \A s \in sent : Aggregate(s.event) \notin overrun =>
    /\ lease[s.event] = "live"
    /\ \A w \in Workers : disp[w].pc # "idle" => disp[w].event # s.event
    /\ \A q \in sent : q.event = s.event => q = s

Leased == Holding /\ LiveIsOpen /\ SentInOrder /\ SentHolds

LEMMA NextHolding ==
  Typed /\ Ordered /\ Leased /\ [Next]_vars => Holding' /\ LiveIsOpen'
<1> SUFFICES ASSUME Typed, Ordered, Leased, [Next]_vars PROVE Holding' /\ LiveIsOpen'
  OBVIOUS
<1>0. Ranked /\ Holding /\ LiveIsOpen /\ lease \in [Events -> {"none", "live", "expired"}]
      /\ owner \in [Events -> Workers \cup {NoWorker}] /\ published \subseteq Events
  BY DEF Ordered, Leased, Typed, TypeOK
<1> USE DEF Holding, LiveIsOpen
<1>1. ASSUME NEW S, Inserts(S) PROVE Holding' /\ LiveIsOpen'
  BY <1>0, <1>1 DEF Inserts
<1>2. ASSUME NEW w \in Workers, NEW e \in Events, Claim(w, e) PROVE Holding' /\ LiveIsOpen'
  <2>1. /\ lease[e] # "live" /\ e \notin published
        /\ lease' = [lease EXCEPT ![e] = "live"] /\ owner' = [owner EXCEPT ![e] = w]
        /\ UNCHANGED <<published, overrun>>
    BY <1>2 DEF Claim, Claimable, LeaseFree
  <2>2. LiveIsOpen'
    BY <1>0, <2>1
  <2>3. ASSUME NEW v \in Workers \ {w}
        PROVE  /\ disp'[v] = disp[v]
               /\ disp[v].pc # "idle" /\ disp[v].event \in CheckEvents
                    /\ Aggregate(disp[v].event) \notin overrun => disp[v].event # e
    BY <1>0, <1>2, <2>1, ClaimDispatch
  <2>4. Holding'
    BY <1>0, <1>2, <2>1, <2>3, ClaimDispatch, CheckEventFacts
  <2> QED
    BY <2>2, <2>4
<1>3. ASSUME NEW w \in Workers, HandOff(w) \/ FindCheck(w) \/ WriteCheck(w)
      PROVE  Holding' /\ LiveIsOpen'
  <2>1. /\ UNCHANGED <<owner, lease, published, overrun>>
        /\ disp[w].pc # "idle" /\ disp'[w].event = disp[w].event
        /\ disp'[w].pc # "handoff"
        /\ \A v \in Workers \ {w} : disp'[v] = disp[v]
    <3>1. CASE HandOff(w) \/ WriteCheck(w)
      <4>1. /\ disp[w].pc # "idle" /\ disp' = [disp EXCEPT ![w].pc = "mark"]
            /\ UNCHANGED <<owner, lease, published, overrun>>
        BY <3>1 DEF HandOff, WriteCheck, rows
      <4> QED
        BY <4>1, MarkDispatch
    <3>2. CASE FindCheck(w)
      BY <3>2, FindCheckDispatch DEF FindCheck, rows
    <3> QED
      BY <1>3, <3>1, <3>2
  <2> QED
    BY <1>0, <2>1
<1>4. ASSUME NEW w \in Workers, MarkPublished(w) PROVE Holding' /\ LiveIsOpen'
  <2> DEFINE e == disp[w].event
  <2>1. /\ disp'[w].pc = "idle" /\ \A v \in Workers \ {w} : disp'[v] = disp[v]
        /\ owner[e] = w /\ published' = published \cup {e}
        /\ lease' = [lease EXCEPT ![e] = "none"] /\ UNCHANGED <<owner, overrun>>
        /\ e \in Events
    BY <1>4, StopDispatch DEF MarkPublished, Typed, AtWork
  <2>2. LiveIsOpen'
    BY <1>0, <2>1
  <2>3. ASSUME NEW v \in Workers \ {w}, disp[v].pc # "idle", disp[v].event \in CheckEvents,
               Aggregate(disp[v].event) \notin overrun
        PROVE  disp[v].event # e
    BY <1>0, <2>1, <2>3
  <2>4. Holding'
    BY <1>0, <2>1, <2>3, CheckEventFacts
  <2> QED
    BY <2>2, <2>4
<1>5. ASSUME NEW e \in Events, LeaseExpires(e) PROVE Holding' /\ LiveIsOpen'
  <2>1. /\ lease' = [lease EXCEPT ![e] = "expired"] /\ UNCHANGED <<owner, published, disp>>
        /\ overrun \subseteq overrun'
        /\ e \in CheckEvents /\ (\E w \in Workers : disp[w].event = e) =>
             Aggregate(e) \in overrun'
    BY <1>5, CheckEventFacts DEF LeaseExpires, Outstanding
  <2> QED
    BY <1>0, <2>1, CheckEventFacts
<1>6. ASSUME NEW w \in Workers, AbandonWrite(w) PROVE Holding' /\ LiveIsOpen'
  <2>1. UNCHANGED <<owner, lease, published, overrun>>
    BY <1>6 DEF AbandonWrite, rows
  <2> QED
    BY <1>0, <1>6, <2>1, StopDispatch DEF AbandonWrite
<1>7. ASSUME NEW s \in sent, Land(s) PROVE Holding' /\ LiveIsOpen'
  BY <1>0, <1>7 DEF Land, rows
<1>8. ASSUME Quiet PROVE Holding' /\ LiveIsOpen'
  BY <1>0, <1>8 DEF Quiet, Carries
<1> QED
  BY <1>0, <1>1, <1>2, <1>3, <1>4, <1>5, <1>6, <1>7, <1>8, StepKinds

LEMMA NextSentInOrder ==
  Typed /\ Ordered /\ SentInOrder /\ [Next]_vars => SentInOrder'
<1> SUFFICES ASSUME Typed, Ordered, SentInOrder, [Next]_vars, NEW s \in sent'
             PROVE  s.event \in Inserted' /\ Earlier(s.event)' \subseteq published'
  BY DEF SentInOrder, Earlier
<1>0. Ranked /\ InHandInOrder
  BY DEF Ordered
<1>1. s \in sent \/ \E w \in Workers : AbandonWrite(w) /\ s.event = disp[w].event
  <2>1. ASSUME NEW w \in Workers, AbandonWrite(w)
        PROVE  s \in sent \/ s.event = disp[w].event
    BY <2>1 DEF AbandonWrite
  <2>2. ASSUME NEW q \in sent, Land(q) PROVE s \in sent
    BY <2>2 DEF Land
  <2> QED
    BY <1>0, <2>1, <2>2, CheckSteps
<1>2. s.event \in Inserted /\ Earlier(s.event) \subseteq published
  BY <1>0, <1>1 DEF SentInOrder, AbandonWrite, Ranked, InHandInOrder
<1> QED
  BY <1>0, <1>2, EarlierKept, PublishedBeforeKept

LEMMA NextSentHolds == Typed /\ Ordered /\ Leased /\ [Next]_vars => SentHolds'
<1> SUFFICES ASSUME Typed, Ordered, Leased, [Next]_vars PROVE SentHolds'
  OBVIOUS
<1>0. /\ Ranked /\ Holding /\ SentHolds
      /\ lease \in [Events -> {"none", "live", "expired"}]
      /\ \A s \in sent : s.event \in Events /\ Kind(s.event) \in CheckKinds
  BY SentTyped, CheckEventFacts DEF Ordered, Leased, Typed, TypeOK
<1> USE DEF SentHolds
<1>1. ASSUME NEW S, Inserts(S) PROVE SentHolds'
  BY <1>0, <1>1 DEF Inserts
<1>2. ASSUME NEW w \in Workers, NEW e \in Events, Claim(w, e) PROVE SentHolds'
  <2>1. /\ lease[e] # "live" /\ lease' = [lease EXCEPT ![e] = "live"]
        /\ UNCHANGED <<sent, overrun>>
    BY <1>2 DEF Claim, Claimable, LeaseFree
  <2> QED
    BY <1>0, <1>2, <2>1, ClaimDispatch
<1>3. ASSUME NEW w \in Workers, HandOff(w) \/ FindCheck(w) \/ WriteCheck(w)
      PROVE  SentHolds'
  <2>1. UNCHANGED <<lease, sent, overrun>>
    BY <1>3 DEF HandOff, FindCheck, WriteCheck, rows
  <2>2. ASSUME NEW v \in Workers, disp'[v].pc # "idle"
        PROVE  disp[v].pc # "idle" /\ disp'[v].event = disp[v].event
    <3>1. CASE HandOff(w) \/ WriteCheck(w)
      <4>1. disp[w].pc # "idle" /\ disp' = [disp EXCEPT ![w].pc = "mark"]
        BY <3>1 DEF HandOff, WriteCheck
      <4> QED
        BY <2>2, <4>1, MarkDispatch
    <3>2. CASE FindCheck(w)
      BY <2>2, <3>2, FindCheckDispatch DEF FindCheck
    <3> QED
      BY <1>3, <3>1, <3>2
  <2> QED
    BY <1>0, <2>1, <2>2
<1>4. ASSUME NEW w \in Workers, MarkPublished(w) PROVE SentHolds'
  <2>1. /\ disp[w].pc # "idle" /\ disp[w].event \in Events
        /\ lease' = [lease EXCEPT ![disp[w].event] = "none"]
        /\ UNCHANGED <<sent, overrun>>
    BY <1>4 DEF MarkPublished, Typed, AtWork
  <2>2. disp'[w].pc = "idle" /\ \A v \in Workers \ {w} : disp'[v] = disp[v]
    BY <1>4, StopDispatch DEF MarkPublished
  <2> QED
    BY <1>0, <2>1, <2>2
<1>5. ASSUME NEW w \in Workers, AbandonWrite(w) PROVE SentHolds'
  <2> DEFINE e == disp[w].event
             s == [event |-> e, found |-> disp[w].found]
  <2>1. /\ disp[w].pc # "idle" /\ e \in CheckEvents
        /\ sent' = sent \cup {s} /\ s.event = e /\ UNCHANGED <<lease, overrun>>
    BY <1>5, WriteCheckTyped DEF AbandonWrite, rows
  <2>2. disp'[w].pc = "idle" /\ \A v \in Workers \ {w} : disp'[v] = disp[v]
    BY <1>5, StopDispatch DEF AbandonWrite
  <2>3. ASSUME Aggregate(e) \notin overrun
        PROVE  /\ lease[e] = "live"
               /\ \A v \in Workers \ {w} : disp[v].pc # "idle" => disp[v].event # e
               /\ \A q \in sent : q.event # e
    BY <1>0, <2>1, <2>3 DEF Holding
  <2> HIDE DEF e, s
  <2> QED
    BY <1>0, <2>1, <2>2, <2>3
<1>6. ASSUME NEW s \in sent, Land(s) PROVE SentHolds'
  <2>1. sent' \subseteq sent /\ UNCHANGED <<lease, disp, overrun>>
    BY <1>6 DEF Land, rows
  <2> QED
    BY <1>0, <2>1
<1>7. ASSUME NEW e \in Events, LeaseExpires(e) PROVE SentHolds'
  <2>1. /\ lease' = [lease EXCEPT ![e] = "expired"] /\ UNCHANGED <<sent, disp>>
        /\ overrun \subseteq overrun'
        /\ Kind(e) \in CheckKinds /\ (\E s \in sent : s.event = e) =>
             Aggregate(e) \in overrun'
    BY <1>7 DEF LeaseExpires, Outstanding
  <2> QED
    BY <1>0, <2>1
<1>8. ASSUME Quiet PROVE SentHolds'
  BY <1>0, <1>8 DEF Quiet, Carries
<1> QED
  BY <1>0, <1>1, <1>2, <1>3, <1>4, <1>5, <1>6, <1>7, <1>8, StepKinds

LEMMA NextLeased == Typed /\ Ordered /\ Leased /\ [Next]_vars => Leased'
  BY NextHolding, NextSentInOrder, NextSentHolds DEF Leased

(* One event of a run's check has a live lease at a time, and only until the   *)
(* completed one is published.                                               *)
LEMMA OneLive ==
  ASSUME Typed, Ordered, Leased, NEW r \in Runs,
         NEW e \in CheckEvents, Aggregate(e) = r, e \in Inserted,
         Earlier(e) \subseteq published, lease[e] = "live",
         NEW f \in CheckEvents, Aggregate(f) = r, f \in Inserted,
         Earlier(f) \subseteq published, lease[f] = "live"
  PROVE  e = f /\ CheckCompleted(r) \notin published
<1>0. Ranked /\ PublishedInOrder /\ LiveIsOpen
  BY DEF Ordered, Leased
<1>1. e \notin published /\ f \notin published
  BY <1>0 DEF LiveIsOpen
<1>2. {e, f} \subseteq {CheckQueued(r), CheckCompleted(r)}
  BY CheckEventFacts
<1>3. CheckCompleted(r) \in Inserted => CheckQueued(r) \in Earlier(CheckCompleted(r))
  BY <1>0, RunEvents DEF Ranked, Earlier
<1>4. CheckCompleted(r) \in published => CheckQueued(r) \in published
  BY <1>0, <1>3 DEF Ranked, PublishedInOrder
<1> QED
  BY <1>1, <1>2, <1>3, <1>4

LEMMA InHandLive ==
  ASSUME Typed, Ordered, Leased, NEW w \in Workers, disp[w].pc # "idle",
         disp[w].event \in CheckEvents, Aggregate(disp[w].event) \notin overrun
  PROVE  /\ disp[w].event \in Inserted /\ Earlier(disp[w].event) \subseteq published
         /\ lease[disp[w].event] = "live" /\ owner[disp[w].event] = w
  BY DEF Ordered, Leased, Ranked, InHandInOrder, Holding

LEMMA SentLive ==
  ASSUME Typed, Ordered, Leased, NEW s \in sent, Aggregate(s.event) \notin overrun
  PROVE  /\ s.event \in CheckEvents /\ s.event \in Inserted
         /\ Earlier(s.event) \subseteq published /\ lease[s.event] = "live"
  BY SentTyped DEF Leased, SentInOrder, SentHolds

LEMMA OneInHand ==
  ASSUME Typed, Ordered, Leased, NEW r \in Runs \ overrun,
         NEW w \in Workers, disp[w].pc # "idle",
         disp[w].event \in CheckEvents, Aggregate(disp[w].event) = r
  PROVE  /\ CheckCompleted(r) \notin published
         /\ \A v \in Workers :
              disp[v].pc # "idle" /\ disp[v].event \in CheckEvents
                /\ Aggregate(disp[v].event) = r => v = w
         /\ \A s \in sent : Aggregate(s.event) # r
<1>1. CheckCompleted(r) \notin published
  BY InHandLive, OneLive
<1>2. ASSUME NEW v \in Workers, disp[v].pc # "idle", disp[v].event \in CheckEvents,
             Aggregate(disp[v].event) = r
      PROVE  v = w
  <2>1. owner[disp[v].event] = v /\ owner[disp[w].event] = w
    BY <1>2, InHandLive
  <2>2. disp[v].event = disp[w].event
    BY <1>2, InHandLive, OneLive
  <2> QED
    BY <2>1, <2>2
<1>3. ASSUME NEW s \in sent, Aggregate(s.event) = r PROVE FALSE
  <2>1. s.event = disp[w].event
    BY <1>3, InHandLive, SentLive, OneLive
  <2> QED
    BY <1>3, <2>1 DEF Leased, SentHolds
<1> QED
  BY <1>1, <1>2, <1>3

LEMMA OneSent ==
  ASSUME Typed, Ordered, Leased, NEW r \in Runs \ overrun,
         NEW s \in sent, Aggregate(s.event) = r
  PROVE  /\ CheckCompleted(r) \notin published
         /\ \A v \in Workers : disp[v].event \in CheckEvents
              /\ Aggregate(disp[v].event) = r => disp[v].pc = "idle"
         /\ \A q \in sent : Aggregate(q.event) = r => q = s
<1>1. CheckCompleted(r) \notin published
  BY SentLive, OneLive
<1>2. ASSUME NEW q \in sent, Aggregate(q.event) = r PROVE q = s
  <2>1. q.event = s.event
    BY <1>2, SentLive, OneLive
  <2> QED
    BY <2>1 DEF Leased, SentHolds
<1> QED
  BY <1>1, <1>2, OneInHand

Shown ==
  \A r \in Runs \ (overrun \cup crowded) :
    /\ Len(checks[r]) <= 1
    /\ CheckCompleted(r) \in published => checks[r] = <<"completed">>
    /\ \A w \in Workers :
         disp[w].event \in CheckEvents /\ Aggregate(disp[w].event) = r =>
           /\ disp[w].pc = "write" => disp[w].found = Len(checks[r])
           /\ disp[w].pc = "mark" /\ disp[w].event = CheckCompleted(r) =>
                checks[r] = <<"completed">>
    /\ \A s \in sent : Aggregate(s.event) = r => s.found = Len(checks[r])

(* Writing to a list of one check run at most leaves the status written. *)
LEMMA OneEntry ==
  ASSUME NEW S, NEW s \in Seq(S), NEW x \in S
  PROVE  /\ Len(s) = 0 => Append(s, x) = <<x>>
         /\ Len(s) = 1 => [s EXCEPT ![1] = x] = <<x>>
<1>1. ASSUME Len(s) = 0 PROVE Append(s, x) = <<x>>
  <2>1. s = <<>>
    BY <1>1, EmptySeq
  <2> QED
    BY <2>1
<1>2. ASSUME Len(s) = 1 PROVE [s EXCEPT ![1] = x] = <<x>>
  <2> DEFINE t == [s EXCEPT ![1] = x]
  <2>1. t \in Seq(S) /\ Len(t) = 1 /\ t[1] = x
    BY <1>2, ExceptSeq
  <2>2. <<x>> \in Seq(S) /\ Len(<<x>>) = 1 /\ <<x>>[1] = x
    OBVIOUS
  <2> HIDE DEF t
  <2>3. \A i \in 1..Len(t) : t[i] = <<x>>[i]
    BY <2>1, <2>2
  <2>4. t = <<x>>
    BY <2>1, <2>2, <2>3, SeqEqual
  <2> QED
    BY <2>4 DEF t
<1> QED
  BY <1>1, <1>2

LEMMA OneStatus ==
  \A u \in Seq({"queued", "completed"}), x \in {"queued", "completed"} :
    /\ Len(u) = 0 => Append(u, x) = <<x>>
    /\ Len(u) = 1 => [u EXCEPT ![1] = x] = <<x>>
  BY OneEntry

(* Who found what is there replaces it, or creates it. *)
LEMMA WriteShows ==
  ASSUME Typed, NEW e \in CheckEvents, NEW n \in Nat,
         n = Len(checks[Aggregate(e)]), Len(checks[Aggregate(e)]) <= 1
  PROVE  Written(e, n)[Aggregate(e)] = <<CheckStatus(e)>>
<1> DEFINE s == checks[Aggregate(e)]
           x == CheckStatus(e)
<1>1. /\ s \in Seq({"queued", "completed"}) /\ x \in {"queued", "completed"}
      /\ Written(e, n)[Aggregate(e)] = IF n = 0 THEN Append(s, x) ELSE [s EXCEPT ![n] = x]
  BY WrittenTyped
<1>2. n = 0 \/ n = 1
  <2>1. \A m \in Nat : m <= 1 => m = 0 \/ m = 1
    OBVIOUS
  <2>2. n <= 1
    OBVIOUS
  <2> QED
    BY <2>1, <2>2, Zenon
<1>3. n = Len(s)
  BY Zenon
<1> HIDE DEF s, x
<1>4. /\ Len(s) = 0 => Append(s, x) = <<x>>
      /\ Len(s) = 1 => [s EXCEPT ![1] = x] = <<x>>
  BY <1>1, OneStatus, Zenon
<1>5. Written(e, n)[Aggregate(e)] = <<x>>
  <2>1. CASE n = 0
    BY <1>1, <1>3, <1>4, <2>1
  <2>2. CASE n = 1
    BY <1>1, <1>3, <1>4, <2>2
  <2> QED
    BY <1>2, <2>1, <2>2
<1> QED
  BY <1>5 DEF x

(* A write that leaves one check run to show: nobody else has found any. *)
LEMMA ShownByWrite ==
  ASSUME Typed, Shown, NEW e \in CheckEvents, NEW n \in Nat,
         checks' = Written(e, n), published' = published, overrun' = overrun,
         crowded' = crowded, sent' \subseteq sent,
         Aggregate(e) \notin overrun \cup crowded =>
           /\ n = Len(checks[Aggregate(e)])
           /\ CheckCompleted(Aggregate(e)) \notin published
           /\ \A s \in sent' : Aggregate(s.event) # Aggregate(e),
         \A w \in Workers :
           \/ disp'[w] = disp[w] /\ (disp[w].event \in CheckEvents
                /\ Aggregate(disp[w].event) = Aggregate(e)
                /\ Aggregate(e) \notin overrun \cup crowded => disp[w].pc = "idle")
           \/ disp'[w].event = e /\ disp'[w].pc = "mark"
  PROVE  Shown'
<1> DEFINE r == Aggregate(e)
<1>1. r \in Runs /\ \A q \in Runs \ {r} : checks'[q] = checks[q]
  BY WrittenTyped
<1>2. ASSUME r \notin overrun \cup crowded
      PROVE  checks'[r] = <<CheckStatus(e)>> /\ Len(checks'[r]) = 1
  <2>1. Len(checks[r]) <= 1
    BY <1>1, <1>2 DEF Shown
  <2>2. checks'[r] = <<CheckStatus(e)>>
    BY <1>2, <2>1, WriteShows
  <2>3. \A x : Len(<<x>>) = 1
    OBVIOUS
  <2> HIDE DEF r
  <2> QED
    BY <2>2, <2>3
<1>3. e = CheckCompleted(r) => CheckStatus(e) = "completed"
  BY DEF CheckStatus, CheckCompleted, Kind
<1>4. ASSUME NEW q \in Runs \ (overrun \cup crowded), q # r
      PROVE  /\ Len(checks'[q]) <= 1
             /\ CheckCompleted(q) \in published' => checks'[q] = <<"completed">>
             /\ \A v \in Workers :
                  disp'[v].event \in CheckEvents /\ Aggregate(disp'[v].event) = q =>
                    /\ disp'[v].pc = "write" => disp'[v].found = Len(checks'[q])
                    /\ disp'[v].pc = "mark" /\ disp'[v].event = CheckCompleted(q) =>
                         checks'[q] = <<"completed">>
             /\ \A s \in sent' : Aggregate(s.event) = q => s.found = Len(checks'[q])
  BY <1>1, <1>4 DEF Shown
<1>5. ASSUME r \notin overrun \cup crowded
      PROVE  /\ Len(checks'[r]) <= 1
             /\ CheckCompleted(r) \in published' => checks'[r] = <<"completed">>
             /\ \A v \in Workers :
                  disp'[v].event \in CheckEvents /\ Aggregate(disp'[v].event) = r =>
                    /\ disp'[v].pc = "write" => disp'[v].found = Len(checks'[r])
                    /\ disp'[v].pc = "mark" /\ disp'[v].event = CheckCompleted(r) =>
                         checks'[r] = <<"completed">>
             /\ \A s \in sent' : Aggregate(s.event) = r => s.found = Len(checks'[r])
  <2>1. Len(checks'[r]) <= 1 /\ CheckCompleted(r) \notin published'
    <3> HIDE DEF r
    <3>1. Len(checks'[r]) = 1 /\ 1 <= 1
      BY <1>2, <1>5
    <3> QED
      BY <1>5, <3>1 DEF r
  <2> QED
    BY <1>2, <1>3, <1>5, <2>1
<1> HIDE DEF r
<1> QED
  BY <1>1, <1>4, <1>5 DEF Shown

LEMMA NextShown == Typed /\ Ordered /\ Leased /\ Shown /\ [Next]_vars => Shown'
<1> SUFFICES ASSUME Typed, Ordered, Leased, Shown, [Next]_vars PROVE Shown'
  OBVIOUS
<1>0. /\ Ranked /\ Holding /\ published \subseteq Events
      /\ checks \in [Runs -> Seq({"queued", "completed"})]
  BY DEF Ordered, Leased, Typed, TypeOK
<1>1. ASSUME NEW S, Inserts(S) PROVE Shown'
  BY <1>1 DEF Inserts, Shown
<1>2. ASSUME NEW w \in Workers, NEW e \in Events, Claim(w, e) PROVE Shown'
  <2>1. UNCHANGED <<github, published, overrun>>
    BY <1>2 DEF Claim
  <2> QED
    BY <1>2, <2>1, ClaimDispatch DEF Shown
<1>3. ASSUME NEW w \in Workers, HandOff(w) PROVE Shown'
  <2>1. /\ disp[w].pc = "handoff" /\ disp' = [disp EXCEPT ![w].pc = "mark"]
        /\ UNCHANGED <<github, published, overrun>>
    BY <1>3 DEF HandOff, rows
  <2>2. disp'[w].event \notin CheckEvents
    BY <1>0, <2>1, MarkDispatch DEF Holding
  <2> QED
    BY <2>1, <2>2, MarkDispatch DEF Shown
<1>4. ASSUME NEW w \in Workers, FindCheck(w) PROVE Shown'
  <2>1. UNCHANGED <<github, published, overrun>>
    BY <1>4 DEF FindCheck, rows
  <2>2. Aggregate(disp[w].event) \notin overrun \cup crowded =>
          disp'[w].found = Len(checks[Aggregate(disp[w].event)])
    <3> DEFINE r == Aggregate(disp[w].event)
    <3>1. r \in Runs /\ disp'[w].found \in 0..Len(checks[r])
          /\ (disp'[w].found = 0 => checks[r] = <<>> \/ r \in crowded)
      BY <1>4, FindCheckDispatch
    <3>2. checks[r] \in Seq({"queued", "completed"})
      BY <1>0, <3>1
    <3>3. ASSUME r \notin overrun \cup crowded PROVE Len(checks[r]) <= 1
      BY <3>1, <3>3 DEF Shown
    <3>4. checks[r] = <<>> => Len(checks[r]) = 0
      OBVIOUS
    <3>5. Len(checks[r]) \in Nat
      BY <3>2
    <3> HIDE DEF r
    <3>6. r \notin overrun \cup crowded => disp'[w].found = Len(checks[r])
      BY <3>1, <3>3, <3>4, <3>5
    <3> QED
      BY <3>6 DEF r
  <2> QED
    BY <1>4, <2>1, <2>2, FindCheckDispatch DEF Shown
<1>5. ASSUME NEW w \in Workers, WriteCheck(w) PROVE Shown'
  <2> DEFINE e == disp[w].event
             r == Aggregate(e)
             n == disp[w].found
  <2>1. /\ disp[w].pc = "write" /\ disp' = [disp EXCEPT ![w].pc = "mark"]
        /\ checks' = Written(e, n) /\ UNCHANGED <<published, sent, crowded, overrun>>
    BY <1>5 DEF WriteCheck, rows
  <2>2. e \in CheckEvents /\ n \in Nat /\ r \in Runs
    BY <2>1, WriteCheckTyped
  <2>3. r \notin overrun \cup crowded => n = Len(checks[r])
    BY <2>1, <2>2 DEF Shown
  <2>4. /\ disp'[w].event = e /\ disp'[w].pc = "mark"
        /\ \A v \in Workers \ {w} : disp'[v] = disp[v]
    BY <2>1, MarkDispatch
  <2>5. ASSUME r \notin overrun
        PROVE  /\ CheckCompleted(r) \notin published
               /\ \A v \in Workers \ {w} : disp[v].event \in CheckEvents
                    /\ Aggregate(disp[v].event) = r => disp[v].pc = "idle"
               /\ \A s \in sent : Aggregate(s.event) # r
    BY <2>1, <2>2, <2>5, OneInHand
  <2> HIDE DEF e, n
  <2> QED
    BY <2>1, <2>2, <2>3, <2>4, <2>5, ShownByWrite
<1>6. ASSUME NEW s \in sent, Land(s) PROVE Shown'
  <2> DEFINE r == Aggregate(s.event)
  <2>1. /\ checks' = Written(s.event, s.found) /\ sent' = sent \ {s}
        /\ UNCHANGED <<disp, published, crowded, overrun>>
    BY <1>6 DEF Land, rows
  <2>2. s.event \in CheckEvents /\ s.found \in Nat /\ r \in Runs
    BY SentTyped
  <2>3. r \notin overrun \cup crowded => s.found = Len(checks[r])
    BY <2>2 DEF Shown
  <2>4. ASSUME r \notin overrun
        PROVE  /\ CheckCompleted(r) \notin published
               /\ \A v \in Workers : disp[v].event \in CheckEvents
                    /\ Aggregate(disp[v].event) = r => disp[v].pc = "idle"
               /\ \A q \in sent' : Aggregate(q.event) # r
    BY <2>1, <2>2, <2>4, OneSent
  <2> QED
    BY <2>1, <2>2, <2>3, <2>4, ShownByWrite
<1>7. ASSUME NEW w \in Workers, AbandonWrite(w) PROVE Shown'
  <2> DEFINE s == [event |-> disp[w].event, found |-> disp[w].found]
  <2>1. /\ disp[w].pc = "write" /\ sent' = sent \cup {s}
        /\ s.event = disp[w].event /\ s.found = disp[w].found
        /\ UNCHANGED <<checks, published, crowded, overrun>>
    BY <1>7 DEF AbandonWrite, rows
  <2>2. disp'[w].pc = "idle" /\ \A v \in Workers \ {w} : disp'[v] = disp[v]
    BY <1>7, StopDispatch DEF AbandonWrite
  <2>3. disp[w].event \in CheckEvents
    BY <2>1, WriteCheckTyped
  <2> HIDE DEF s
  <2> QED
    BY <2>1, <2>2, <2>3 DEF Shown
<1>8. ASSUME NEW w \in Workers, MarkPublished(w) PROVE Shown'
  <2> DEFINE e == disp[w].event
  <2>1. /\ disp[w].pc = "mark" /\ published' = published \cup {e}
        /\ UNCHANGED <<github, overrun>>
        /\ disp'[w].pc = "idle" /\ \A v \in Workers \ {w} : disp'[v] = disp[v]
    BY <1>8, StopDispatch DEF MarkPublished
  <2>2. ASSUME NEW r \in Runs \ (overrun \cup crowded), e = CheckCompleted(r)
        PROVE  checks[r] = <<"completed">>
    BY <2>1, <2>2, RunEvents DEF Shown
  <2> QED
    BY <2>1, <2>2 DEF Shown
<1>9. ASSUME NEW e \in Events, LeaseExpires(e) PROVE Shown'
  <2>1. UNCHANGED <<github, published, disp>> /\ overrun \subseteq overrun'
    BY <1>9 DEF LeaseExpires
  <2> QED
    BY <2>1 DEF Shown
<1>10. ASSUME Quiet PROVE Shown'
  BY <1>10 DEF Quiet, Carries, Shown
<1> QED
  BY <1>0, <1>1, <1>2, <1>3, <1>4, <1>5, <1>6, <1>7, <1>8, <1>9, <1>10, StepKinds

LEMMA AlwaysShown == Spec => [](Typed /\ Ordered /\ Leased /\ Shown)
<1>1. Init => Leased /\ Shown
  <2> SUFFICES ASSUME Init PROVE Leased /\ Shown
    OBVIOUS
  <2>1. /\ \A w \in Workers : disp[w].pc = "idle" 
        /\ published = {} /\ sent = {} /\ \A r \in Runs : checks[r] = <<>>
    BY IdleIsDispatcher DEF Init
  <2>2. Len(<<>>) = 0
    OBVIOUS
  <2> QED
    BY <2>1, <2>2 DEF Leased, Holding, LiveIsOpen, SentInOrder, SentHolds, Shown
<1> QED
  BY <1>1, AlwaysOrdered, NextLeased, NextShown, PTL DEF Spec

(* While the dispatchers of a run and the requests they gave up keep their     *)
(* leases, and the search sees the run's check, GitHub shows one check run of  *)
(* it at most, completed once the completed event is published: the            *)
(* publisher's find-then-write is safe because the claim's NOT EXISTS clause   *)
(* and its lease leave it no rival.                                          *)
THEOREM ChecksConverge == Spec => []CheckConverges
<1>1. Shown => CheckConverges
  BY DEF Shown, CheckConverges
<1> QED
  BY <1>1, AlwaysShown, PTL

(* A check run is completed by the completed event only, which no worker has   *)
(* in hand before the queued one is published.                               *)
CompletedAfter ==
  \A r \in Runs : \A n \in DOMAIN checks[r] :
    checks[r][n] = "completed" => CheckQueued(r) \in published

(* Whoever may write the completed status has everything earlier published. *)
LEMMA WriteCompletes ==
  ASSUME Typed, Ordered, NEW e \in CheckEvents, NEW n \in Nat,
         e \in Inserted, Earlier(e) \subseteq published,
         NEW r \in Runs, NEW i \in DOMAIN Written(e, n)[r],
         Written(e, n)[r][i] = "completed"
  PROVE  \/ i \in DOMAIN checks[r] /\ checks[r][i] = "completed"
         \/ CheckQueued(r) \in published
<1> DEFINE q == Aggregate(e)
<1>1. /\ q \in Runs /\ checks[q] \in Seq({"queued", "completed"})
      /\ Written(e, n)[q] = IF n = 0 THEN Append(checks[q], CheckStatus(e))
                            ELSE [checks[q] EXCEPT ![n] = CheckStatus(e)]
      /\ \A p \in Runs \ {q} : Written(e, n)[p] = checks[p]
  BY WrittenTyped
<1>2. CASE r # q
  BY <1>1, <1>2
<1>3. CASE r = q /\ CheckStatus(e) = "completed"
  <2>1. e = CheckCompleted(r)
    BY <1>3, CheckEventFacts DEF CheckStatus, CheckQueued, Kind
  <2>2. CheckQueued(r) \in Earlier(e)
    BY <2>1, RunEvents DEF Ordered, Ranked, Earlier
  <2> QED
    BY <2>2
<1>4. CASE r = q /\ CheckStatus(e) # "completed"
  <2> DEFINE s == checks[q]
             x == CheckStatus(e)
             t == Written(e, n)[q]
  <2>1. s \in Seq({"queued", "completed"}) /\ x # "completed"
        /\ t = (IF n = 0 THEN Append(s, x) ELSE [s EXCEPT ![n] = x])
        /\ i \in DOMAIN t /\ t[i] = "completed"
    BY <1>1, <1>4
  <2> HIDE DEF s, x, t
  <2>2. i \in DOMAIN s /\ s[i] = "completed"
    BY <2>1
  <2> QED
    BY <1>4, <2>2 DEF s
<1> QED
  BY <1>2, <1>3, <1>4

LEMMA NextCompletedAfter ==
  Typed /\ Ordered /\ Leased /\ CompletedAfter /\ [Next]_vars => CompletedAfter'
<1> SUFFICES ASSUME Typed, Ordered, Leased, CompletedAfter, [Next]_vars PROVE CompletedAfter'
  OBVIOUS
<1>0. Ranked /\ InHandInOrder /\ SentInOrder
  BY DEF Ordered, Leased
<1>1. ASSUME NEW r \in Runs, CheckQueued(r) \in published
      PROVE  CheckQueued(r) \in published'
  <2>1. ASSUME NEW S, Inserts(S) PROVE CheckQueued(r) \in published'
    BY <1>0, <1>1, <2>1, RunEvents DEF Inserts, Ranked
  <2> QED
    BY <1>0, <1>1, <2>1, RanksKept
<1>2. ASSUME UNCHANGED checks PROVE CompletedAfter'
  BY <1>1, <1>2 DEF CompletedAfter
<1>3. ASSUME NEW e \in CheckEvents, NEW n \in Nat, checks' = Written(e, n),
             e \in Inserted, Earlier(e) \subseteq published
      PROVE  CompletedAfter'
  <2>1. ASSUME NEW r \in Runs, NEW i \in DOMAIN checks'[r], checks'[r][i] = "completed"
        PROVE  CheckQueued(r) \in published
    BY <1>3, <2>1, WriteCompletes DEF CompletedAfter
  <2> QED
    BY <1>1, <2>1 DEF CompletedAfter
<1>4. ASSUME NEW w \in Workers, WriteCheck(w) PROVE CompletedAfter'
  <2>1. disp[w].pc = "write" /\ checks' = Written(disp[w].event, disp[w].found)
    BY <1>4 DEF WriteCheck
  <2>2. disp[w].event \in Inserted /\ Earlier(disp[w].event) \subseteq published
    BY <1>0, <2>1 DEF Ranked, InHandInOrder
  <2> QED
    BY <1>3, <2>1, <2>2, WriteCheckTyped
<1>5. ASSUME NEW s \in sent, Land(s) PROVE CompletedAfter'
  BY <1>0, <1>3, <1>5, SentTyped DEF Land, SentInOrder
<1> QED
  BY <1>0, <1>2, <1>4, <1>5, CheckSteps

LEMMA AlwaysCompletedAfter == Spec => []CompletedAfter
<1>1. Init => CompletedAfter
  BY DEF Init, CompletedAfter
<1> QED
  BY <1>1, AlwaysShown, NextCompletedAfter, PTL DEF Spec

(* A write turns a check run back to queued only if it is of the queued event. *)
LEMMA WriteRegresses ==
  ASSUME Typed, NEW e \in CheckEvents, NEW n \in Nat, checks' = Written(e, n),
         NEW r \in Runs, NEW i \in DOMAIN checks[r],
         checks[r][i] = "completed", checks'[r][i] = "queued"
  PROVE  e = CheckQueued(r)
<1> DEFINE q == Aggregate(e)
<1>1. /\ q \in Runs /\ checks[q] \in Seq({"queued", "completed"})
      /\ Written(e, n)[q] = IF n = 0 THEN Append(checks[q], CheckStatus(e))
                            ELSE [checks[q] EXCEPT ![n] = CheckStatus(e)]
      /\ \A p \in Runs \ {q} : Written(e, n)[p] = checks[p]
  BY WrittenTyped
<1>2. q = r
  <2>1. checks'[r] # checks[r]
    OBVIOUS
  <2> QED
    BY <1>1, <2>1
<1>3. CheckStatus(e) = "queued"
  <2> DEFINE s == checks[q]
             x == CheckStatus(e)
             t == Written(e, n)[q]
  <2>1. /\ s \in Seq({"queued", "completed"}) /\ x \in {"queued", "completed"}
        /\ t = (IF n = 0 THEN Append(s, x) ELSE [s EXCEPT ![n] = x])
        /\ i \in DOMAIN s /\ s[i] = "completed" /\ t[i] = "queued"
    BY <1>1, <1>2 DEF CheckStatus
  <2> HIDE DEF s, x, t
  <2>2. x = "queued"
    BY <2>1
  <2> QED
    BY <2>2 DEF x
<1> QED
  BY <1>2, <1>3, CheckEventFacts DEF CheckStatus, CheckCompleted, Kind

(* A step that turns a completed check run back to queued is the write of a    *)
(* dispatcher of the queued event, or of a request it gave up.  The event is   *)
(* published by then and leased to nobody: either outlived its lease.        *)
LEMMA RegressionIsLate ==
  ASSUME Typed, Ordered, Leased, CompletedAfter, [Next]_vars,
         NEW r \in Runs, NEW n \in DOMAIN checks[r],
         checks[r][n] = "completed", checks'[r][n] = "queued"
  PROVE  LET e == CheckQueued(r) IN
         \/ \E w \in Workers :
              /\ disp[w].event = e /\ disp[w].pc = "write"
              /\ ~(lease[e] = "live" /\ owner[e] = w)
         \/ \E s \in sent \ sent' : s.event = e /\ lease[e] # "live"
<1>0. Ranked /\ LiveIsOpen
  BY DEF Ordered, Leased
<1>1. CheckQueued(r) \in published /\ lease[CheckQueued(r)] # "live"
  BY <1>0 DEF CompletedAfter, LiveIsOpen
<1>2. CASE \E w \in Workers : WriteCheck(w)
  <2>1. PICK w \in Workers : WriteCheck(w)
    BY <1>2
  <2>2. disp[w].pc = "write" /\ checks' = Written(disp[w].event, disp[w].found)
    BY <2>1 DEF WriteCheck
  <2>3. disp[w].event = CheckQueued(r)
    BY <2>2, WriteCheckTyped, WriteRegresses
  <2> QED
    BY <1>1, <2>2, <2>3
<1>3. CASE \E s \in sent : Land(s)
  <2>1. PICK s \in sent : Land(s)
    BY <1>3
  <2>2. sent' = sent \ {s} /\ checks' = Written(s.event, s.found)
    BY <2>1 DEF Land
  <2>3. s.event = CheckQueued(r)
    BY <2>2, SentTyped, WriteRegresses
  <2> QED
    BY <1>1, <2>2, <2>3
<1>4. checks' # checks
  OBVIOUS
<1> QED
  BY <1>0, <1>2, <1>3, <1>4, CheckSteps

(* Only a dispatcher that no longer holds the lease of a run's queued event,   *)
(* or a request given up that outlived it, can regress the run's check.      *)
THEOREM LateDispatchersOnly == Spec => OnlyLateDispatchersRegressChecks
<1> DEFINE Regresses ==
      \A r \in Runs : \A n \in DOMAIN checks[r] :
        LET e == CheckQueued(r) IN
        checks[r][n] = "completed" /\ checks'[r][n] = "queued" =>
          \/ \E w \in Workers :
               /\ disp[w].event = e /\ disp[w].pc = "write"
               /\ ~(lease[e] = "live" /\ owner[e] = w)
          \/ \E s \in sent \ sent' : s.event = e /\ lease[e] # "live"
<1>1. Typed /\ Ordered /\ Leased /\ CompletedAfter /\ [Next]_vars => [Regresses]_vars
  BY RegressionIsLate
<1> QED
  BY <1>1, AlwaysShown, AlwaysCompletedAfter, PTL DEF Spec, OnlyLateDispatchersRegressChecks
=============================================================================
