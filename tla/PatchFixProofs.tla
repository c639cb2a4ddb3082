--------------------------- MODULE PatchFixProofs ---------------------------
(***************************************************************************)
(* What holds of PatchFix for any number of workers and attempts.  The       *)
(* argument: every claim counts the attempt up, so a handler that lost its   *)
(* job works under an attempt of its own, which no other handler records a   *)
(* proof for; and the owner of the job is the handler of the latest attempt, *)
(* if it is at work at all, so to compare the owner is to compare the claim. *)
(***************************************************************************)
EXTENDS PatchFix, TLAPS

PCs == {"idle"} \cup Working \cup Leaving

(* Where a handler may still record a proof, and where it has an outcome. *)
Unrecorded == {"loading", "latest", "proving", "recording"}
Concluded == {"reusing", "recording", "completing"}

Owned == owner # NoWorker <=> status = "reproving"

Unproved == \A a \in Attempts : a > attempt => evidence[a] = "none"

Sound(w) ==
  ~At(w, "idle") =>
    /\ handlers[w].attempt \in 1..attempt
    /\ owner = w => handlers[w].attempt = attempt
    /\ handlers[w].pc \in Unrecorded => evidence[handlers[w].attempt] = "none"
    /\ handlers[w].pc \in Concluded => handlers[w].outcome \in Outcomes

Apart ==
  \A v, w \in Workers :
    v # w /\ ~At(v, "idle") /\ ~At(w, "idle")
      => handlers[v].attempt # handlers[w].attempt

(* The job, and its handlers. *)
JobInv == TypeOK /\ DecisionAgrees /\ Owned /\ Unproved
Inv == JobInv /\ (\A w \in Workers : Sound(w)) /\ Apart

-----------------------------------------------------------------------------
(* A handler that moves on. *)
LEMMA HandlerMoves ==
  ASSUME NEW h \in Handler, NEW pc \in PCs
  PROVE  /\ [h EXCEPT !.pc = pc] \in Handler
         /\ [h EXCEPT !.pc = pc].pc = pc
         /\ [h EXCEPT !.pc = pc].attempt = h.attempt
         /\ [h EXCEPT !.pc = pc].outcome = h.outcome
  BY DEF Handler, PCs

LEMMA IdleIsHandler == Idle \in Handler /\ Idle.pc = "idle"
<1>1. 0 \in 0..MaxAttempts
  BY PatchFixAssumption
<1> QED
  BY <1>1 DEF Idle, Handler

(* What may become of the handler of w in a step that neither claims the job *)
(* nor records a proof.                                                      *)
GoesOn(w, h) ==
  \/ h.pc = "idle"
  \/ /\ ~At(w, "idle")
     /\ h.attempt = handlers[w].attempt
     /\ h.pc \in Unrecorded => handlers[w].pc \in Unrecorded
     /\ h.pc \in Concluded => h.outcome \in Outcomes

LEMMA HandlersGoOn ==
  ASSUME Inv, NEW w \in Workers, NEW h \in Handler, GoesOn(w, h),
         handlers' = [handlers EXCEPT ![w] = h],
         attempt' = attempt, evidence' = evidence, owner' \in {owner, NoWorker}
  PROVE  /\ handlers' \in [Workers -> Handler]
         /\ \A v \in Workers : Sound(v)'
         /\ Apart'
<1>1. handlers \in [Workers -> Handler]
  BY DEF Inv, JobInv, TypeOK
<1>2. /\ handlers' \in [Workers -> Handler]
      /\ handlers'[w] = h
      /\ \A v \in Workers \ {w} : handlers'[v] = handlers[v]
  BY <1>1
<1>3. ASSUME NEW v \in Workers PROVE Sound(v)'
  <2>1. Sound(v) /\ NoWorker # v
    BY PatchFixAssumption DEF Inv
  <2>2. CASE v # w
    BY <1>2, <2>1, <2>2 DEF Sound, At
  <2>3. CASE v = w
    BY <1>2, <2>1, <2>3 DEF Sound, At, GoesOn
  <2> QED
    BY <2>2, <2>3
<1>4. Apart'
  BY <1>2 DEF Inv, Apart, At, GoesOn
<1> QED
  BY <1>2, <1>3, <1>4

LEMMA HandlersStay ==
  ASSUME Inv, handlers' = handlers,
         attempt' = attempt, evidence' = evidence, owner' \in {owner, NoWorker}
  PROVE  (\A v \in Workers : Sound(v)') /\ Apart'
  BY PatchFixAssumption DEF Inv, Sound, Apart, At

(* The worker of a step moves to pc, as far as its work allows it. *)
LEMMA GotoGoesOn ==
  ASSUME Inv, NEW w \in Workers, NEW pc \in PCs, Goto(w, pc), ~At(w, "idle"),
         pc \in Unrecorded => handlers[w].pc \in Unrecorded,
         pc \in Concluded => handlers[w].pc \in Concluded,
         job' = job, evidence' = evidence
  PROVE  /\ handlers' \in [Workers -> Handler]
         /\ \A v \in Workers : Sound(v)'
         /\ Apart'
<1> DEFINE h == [handlers[w] EXCEPT !.pc = pc]
<1>1. handlers \in [Workers -> Handler] /\ handlers[w] \in Handler
  BY DEF Inv, JobInv, TypeOK
<1>2. /\ h \in Handler /\ h.pc = pc
      /\ h.attempt = handlers[w].attempt /\ h.outcome = handlers[w].outcome
  BY <1>1, HandlerMoves
<1>3. handlers' = [handlers EXCEPT ![w] = h]
  BY DEF Goto
<1>4. Sound(w)
  BY DEF Inv
<1>5. attempt' = attempt /\ owner' \in {owner, NoWorker}
  BY DEF job
<1> HIDE DEF h
<1>6. GoesOn(w, h)
  BY <1>2, <1>4 DEF GoesOn, Sound
<1> QED
  BY <1>2, <1>3, <1>5, <1>6, HandlersGoOn

LEMMA LeaveGoesOn ==
  ASSUME Inv, NEW w \in Workers, Leave(w),
         attempt' = attempt, evidence' = evidence, owner' \in {owner, NoWorker}
  PROVE  /\ handlers' \in [Workers -> Handler]
         /\ \A v \in Workers : Sound(v)'
         /\ Apart'
<1>1. GoesOn(w, Idle) /\ Idle \in Handler
  BY IdleIsHandler DEF GoesOn
<1>2. handlers' = [handlers EXCEPT ![w] = Idle]
  BY DEF Leave
<1> QED
  BY <1>1, <1>2, HandlersGoOn

-----------------------------------------------------------------------------
LEMMA InitInv == Init => Inv
<1> SUFFICES ASSUME Init PROVE Inv
  OBVIOUS
<1>1. handlers \in [Workers -> Handler] /\ \A w \in Workers : At(w, "idle")
  BY IdleIsHandler DEF Init, At
<1>2. 0 \in 0..MaxAttempts
  BY PatchFixAssumption
<1>3. TypeOK
  BY <1>1, <1>2 DEF Init, TypeOK, Statuses
<1>4. DecisionAgrees /\ Owned /\ Unproved
  BY DEF Init, DecisionAgrees, Owned, Unproved
<1> QED
  BY <1>1, <1>3, <1>4 DEF Inv, JobInv, Sound, Apart

(* The proposal, and the lease, change under the handlers. *)
LEMMA ProposalKeepsInv ==
  Inv /\ (Publish \/ Withdraw \/ Approve \/ Reject \/ ApproveAgain \/ LeaseExpires)
    => Inv'
<1> SUFFICES ASSUME Inv,
                    Publish \/ Withdraw \/ Approve \/ Reject \/ ApproveAgain
                      \/ LeaseExpires
             PROVE  Inv'
  OBVIOUS
<1> USE DEF Inv, JobInv
<1>1. /\ handlers' = handlers /\ attempt' = attempt /\ evidence' = evidence
      /\ owner' \in {owner, NoWorker}
  BY DEF Publish, Withdraw, Approve, Reject, ApproveAgain, LeaseExpires, job, proposal
<1>2. (\A v \in Workers : Sound(v)') /\ Apart'
  BY <1>1, HandlersStay
<1>3. JobInv'
  <2> USE DEF TypeOK, DecisionAgrees, Owned, Unproved
  <2>1. CASE Publish \/ Withdraw
    BY <2>1 DEF Publish, Withdraw, job
  <2>2. CASE Approve
    BY <2>2 DEF Approve, Statuses
  <2>3. CASE Reject
    BY <2>3 DEF Reject, RejectedStatus, Statuses
  <2>4. CASE ApproveAgain
    BY <2>4 DEF ApproveAgain, Retriable, proposal, Statuses
  <2>5. CASE LeaseExpires
    BY <2>5 DEF LeaseExpires, proposal
  <2> QED
    BY <2>1, <2>2, <2>3, <2>4, <2>5
<1> QED
  BY <1>2, <1>3

(* A claim begins an attempt that nobody worked under before. *)
LEMMA ClaimKeepsInv == ASSUME Inv, NEW w \in Workers, Claim(w) PROVE Inv'
<1> DEFINE h == [pc |-> "loading", attempt |-> NextAttempt,
                 outcome |-> "none", lost |-> FALSE]
<1>1. TypeOK /\ Sound(w) /\ Apart /\ Unproved /\ handlers \in [Workers -> Handler]
  BY DEF Inv, JobInv, TypeOK
<1>2. /\ attempt' = attempt + 1 /\ attempt' \in Attempts /\ attempt \in Nat
      /\ NextAttempt = attempt'
  BY <1>1, PatchFixAssumption DEF Claim, Claimable, NextAttempt, TypeOK, Attempts
<1>3. h \in Handler /\ h.pc = "loading" /\ h.attempt = attempt'
  BY <1>2 DEF Handler, Attempts, Working
<1>4. /\ handlers' \in [Workers -> Handler]
      /\ handlers'[w] = h
      /\ \A v \in Workers \ {w} : handlers'[v] = handlers[v]
  BY <1>1, <1>3 DEF Claim
<1> HIDE DEF h
<1>5. owner' = w /\ evidence' = evidence
  BY DEF Claim
<1>6. ASSUME NEW v \in Workers PROVE Sound(v)'
  <2>1. CASE v # w
    <3>1. Sound(v)
      BY DEF Inv
    <3> QED
      BY <1>2, <1>4, <1>5, <2>1, <3>1 DEF Sound, At
  <2>2. CASE v = w
    <3>1. evidence[attempt'] = "none"
      BY <1>1, <1>2 DEF Unproved
    <3> QED
      BY <1>2, <1>3, <1>4, <1>5, <2>2, <3>1 DEF Sound, At, Concluded, Attempts
  <2> QED
    BY <2>1, <2>2
<1>7. Apart'
  <2>1. \A v \in Workers \ {w} : ~At(v, "idle") => handlers[v].attempt # attempt'
    BY <1>2 DEF Inv, Sound
  <2>2. handlers'[w].attempt = attempt'
    BY <1>3, <1>4
  <2> QED
    BY <1>1, <1>4, <2>1, <2>2 DEF Apart, At
<1>8. JobInv'
  <2>1. status' = "reproving" /\ lease' = "live" /\ UNCHANGED <<proposal, evidence>>
    BY DEF Claim
  <2>2. approval = "approved"
    BY DEF Claim, Claimable
  <2>3. TypeOK'
    BY <1>1, <1>2, <1>4, <1>5, <2>1, PatchFixAssumption
    DEF TypeOK, Statuses, proposal, Attempts
  <2>4. DecisionAgrees' /\ Owned'
    BY <1>5, <2>1, <2>2, PatchFixAssumption DEF DecisionAgrees, Owned, proposal
  <2>5. Unproved'
    BY <1>1, <1>2, <1>5 DEF Unproved, Attempts
  <2> QED
    BY <2>3, <2>4, <2>5 DEF JobInv
<1> QED
  BY <1>6, <1>7, <1>8 DEF Inv

-----------------------------------------------------------------------------
LEMMA JobStays ==
  ASSUME JobInv, UNCHANGED <<proposal, job, evidence>>,
         handlers' \in [Workers -> Handler]
  PROVE  JobInv'
  BY DEF JobInv, TypeOK, DecisionAgrees, Owned, Unproved, proposal, job

(* Steps that move the handler and nothing else. *)
LEMMA GotoKeepsInv ==
  ASSUME Inv, NEW w \in Workers,
         LoadTarget(w) \/ TargetInvalid(w) \/ CandidateChanged(w) \/ Throw(w)
  PROVE  Inv'
<1>1. UNCHANGED <<proposal, job, evidence>>
  BY DEF LoadTarget, TargetInvalid, CandidateChanged, Throw
<1>2. \E to \in PCs :
        /\ Goto(w, to) /\ ~At(w, "idle")
        /\ to \in Unrecorded => handlers[w].pc \in Unrecorded
        /\ to \in Concluded => handlers[w].pc \in Concluded
  <2> USE DEF At, PCs, Unrecorded, Concluded, Working, Leaving
  <2>1. CASE LoadTarget(w)
    BY <2>1 DEF LoadTarget, Binding
  <2>2. CASE TargetInvalid(w)
    BY <2>2 DEF TargetInvalid
  <2>3. CASE CandidateChanged(w)
    BY <2>3 DEF CandidateChanged
  <2>4. CASE Throw(w)
    BY <2>4 DEF Throw, Binding
  <2> QED
    BY <2>1, <2>2, <2>3, <2>4
<1>3. /\ handlers' \in [Workers -> Handler]
      /\ \A v \in Workers : Sound(v)'
      /\ Apart'
  BY <1>1, <1>2, GotoGoesOn
<1> QED
  BY <1>1, <1>3, JobStays DEF Inv

(* Steps that give the handler its outcome. *)
LEMMA OutcomeKeepsInv ==
  ASSUME Inv, NEW w \in Workers, LatestReproof(w) \/ Reprove(w)
  PROVE  Inv'
<1>1. UNCHANGED <<proposal, job, evidence>>
  BY DEF LatestReproof, Reprove
<1>2. /\ attempt' = attempt /\ evidence' = evidence
      /\ owner' \in {owner, NoWorker}
  BY <1>1 DEF job
<1>3. handlers \in [Workers -> Handler] /\ handlers[w] \in Handler
      /\ evidence \in [Attempts -> Outcomes \cup {"none"}]
  BY DEF Inv, JobInv, TypeOK
<1>4. ASSUME NEW pc \in Concluded, NEW o \in Outcomes, GotoWith(w, pc, o),
             ~At(w, "idle"), handlers[w].pc \in Unrecorded
      PROVE  Inv'
  <2> DEFINE h == [handlers[w] EXCEPT !.pc = pc, !.outcome = o]
  <2>1. /\ h \in Handler /\ h.pc = pc /\ h.outcome = o
        /\ h.attempt = handlers[w].attempt
    <3>1. pc \in PCs /\ o \in Outcomes \cup {"none"}
      BY DEF PCs, Concluded, Working, Binding
    <3> QED
      BY <1>3, <3>1 DEF Handler, PCs
  <2>2. handlers' = [handlers EXCEPT ![w] = h]
    BY <1>4 DEF GotoWith
  <2> HIDE DEF h
  <2>3. GoesOn(w, h)
    BY <1>4, <2>1 DEF GoesOn
  <2>4. /\ handlers' \in [Workers -> Handler]
        /\ \A v \in Workers : Sound(v)'
        /\ Apart'
    BY <1>2, <2>1, <2>2, <2>3, HandlersGoOn
  <2> QED
    BY <1>1, <2>4, JobStays DEF Inv
<1>5. CASE Reprove(w)
  <2>1. PICK o \in Outcomes : GotoWith(w, "recording", o)
    BY <1>5 DEF Reprove
  <2> QED
    BY <1>4, <1>5, <2>1 DEF Reprove, At, Concluded, Unrecorded
<1>6. CASE LatestReproof(w) /\ Recorded = {}
  <2>1. Goto(w, "proving") /\ At(w, "latest")
    BY <1>6 DEF LatestReproof
  <2>2. "proving" \in PCs /\ "proving" \notin Concluded
    BY DEF PCs, Working, Concluded
  <2>3. ~At(w, "idle") /\ handlers[w].pc \in Unrecorded
    BY <2>1 DEF At, Unrecorded
  <2>4. /\ handlers' \in [Workers -> Handler]
        /\ \A v \in Workers : Sound(v)'
        /\ Apart'
    BY <1>1, <2>1, <2>2, <2>3, GotoGoesOn
  <2> QED
    BY <1>1, <2>4, JobStays DEF Inv
<1>7. CASE LatestReproof(w) /\ Recorded # {}
  <2>1. PICK a \in Recorded : GotoWith(w, "reusing", evidence[a])
    BY <1>7 DEF LatestReproof
  <2>2. evidence[a] \in Outcomes
    BY <1>3, <2>1 DEF Recorded
  <2> QED
    BY <1>4, <1>7, <2>1, <2>2 DEF LatestReproof, At, Concluded, Unrecorded
<1> QED
  BY <1>5, <1>6, <1>7

(* A heartbeat, answered or not. *)
LEMMA HeartbeatKeepsInv ==
  ASSUME Inv, NEW w \in Workers, Heartbeat(w) \/ HeartbeatFails(w)
  PROVE  Inv'
<1>1. /\ UNCHANGED <<proposal, status, attempt, owner, evidence>>
      /\ \/ Owns(w) /\ lease' = "live" /\ handlers' = handlers
         \/ lease' = lease /\ handlers' = [handlers EXCEPT ![w].lost = TRUE]
      /\ handlers[w].pc \in Working
  BY DEF Heartbeat, HeartbeatFails, job
<1>2. handlers \in [Workers -> Handler] /\ handlers[w] \in Handler
  BY DEF Inv, JobInv, TypeOK
<1>3. CASE Owns(w) /\ lease' = "live" /\ handlers' = handlers
  <2>1. (\A v \in Workers : Sound(v)') /\ Apart'
    BY <1>1, <1>3, HandlersStay
  <2>2. JobInv'
    BY <1>1, <1>3, PatchFixAssumption
    DEF Inv, JobInv, TypeOK, DecisionAgrees, Owned, Unproved, Owns, proposal
  <2> QED
    BY <2>1, <2>2 DEF Inv
<1>4. CASE lease' = lease /\ handlers' = [handlers EXCEPT ![w].lost = TRUE]
  <2> DEFINE h == [handlers[w] EXCEPT !.lost = TRUE]
  <2>1. /\ h \in Handler /\ h.pc = handlers[w].pc
        /\ h.attempt = handlers[w].attempt /\ h.outcome = handlers[w].outcome
    BY <1>2 DEF Handler
  <2>2. handlers' = [handlers EXCEPT ![w] = h]
    BY <1>4
  <2> HIDE DEF h
  <2>3. ~At(w, "idle") /\ Sound(w)
    BY <1>1 DEF At, Working, Binding, Inv
  <2>4. GoesOn(w, h)
    BY <2>1, <2>3 DEF GoesOn, Sound
  <2>5. /\ handlers' \in [Workers -> Handler]
        /\ \A v \in Workers : Sound(v)'
        /\ Apart'
    BY <1>1, <2>1, <2>2, <2>4, HandlersGoOn
  <2>6. UNCHANGED <<proposal, job, evidence>>
    BY <1>1, <1>4 DEF job
  <2> QED
    BY <2>5, <2>6, JobStays DEF Inv
<1> QED
  BY <1>1, <1>3, <1>4

(* Steps with which the handler leaves the job: it ended, or is free, or waits *)
(* for the lease of a dead worker to expire.                                  *)
LEMMA LeaveKeepsInv ==
  ASSUME Inv, NEW w \in Workers,
         Complete(w) \/ Fail(w) \/ Release(w) \/ Crash(w)
  PROVE  Inv'
<1>1. /\ Leave(w) /\ UNCHANGED <<proposal, attempt, evidence>>
      /\ \/ UNCHANGED <<status, owner, lease>>
         \/ /\ Owns(w)
            /\ \E s \in Outcomes \cup {"failed", "queued"} : Free(s)
  <2>1. CASE Complete(w)
    <3>1. handlers[w].outcome \in Outcomes
      <4>1. ~At(w, "idle") /\ handlers[w].pc \in Concluded
        BY <2>1 DEF Complete, At, Concluded
      <4> QED
        BY <4>1 DEF Inv, Sound
    <3> QED
      BY <2>1, <3>1 DEF Complete, Completable
  <2>2. CASE Fail(w)
    BY <2>2 DEF Fail
  <2>3. CASE Release(w)
    BY <2>3 DEF Release
  <2>4. CASE Crash(w)
    BY <2>4 DEF Crash, job
  <2> QED
    BY <2>1, <2>2, <2>3, <2>4
<1>2. owner' \in {owner, NoWorker}
  BY <1>1 DEF Free
<1>3. /\ handlers' \in [Workers -> Handler]
      /\ \A v \in Workers : Sound(v)'
      /\ Apart'
  BY <1>1, <1>2, LeaveGoesOn
<1>4. CASE UNCHANGED <<status, owner, lease>>
  <2>1. UNCHANGED <<proposal, job, evidence>>
    BY <1>1, <1>4 DEF job
  <2> QED
    BY <1>3, <2>1, JobStays DEF Inv
<1>5. ASSUME Owns(w), NEW s \in Outcomes \cup {"failed", "queued"}, Free(s)
      PROVE  JobInv'
  <2>1. status = "reproving" /\ status' = s /\ owner' = NoWorker /\ lease' = "none"
    BY <1>5 DEF Owns, Free
  <2>2. s \in Statuses /\ s \notin {"awaiting_approval", "rejected", "reproving"}
    BY DEF Statuses, Outcomes
  <2>3. TypeOK'
    BY <1>1, <1>3, <2>1, <2>2 DEF Inv, JobInv, TypeOK, proposal
  <2>4. DecisionAgrees' /\ Owned' /\ Unproved'
    BY <1>1, <2>1, <2>2
    DEF Inv, JobInv, DecisionAgrees, Owned, Unproved, proposal
  <2> QED
    BY <2>3, <2>4 DEF JobInv
<1> QED
  BY <1>1, <1>3, <1>4, <1>5 DEF Inv

(* A proof is recorded for an attempt that only this handler works under. *)
LEMMA RecordKeepsInv == ASSUME Inv, NEW w \in Workers, RecordReproof(w) PROVE Inv'
<1> DEFINE k == handlers[w].attempt
           o == handlers[w].outcome
<1>1. /\ At(w, "recording") /\ ~At(w, "idle") /\ Sound(w)
      /\ UNCHANGED <<proposal, job>>
      /\ handlers[w].pc \in Unrecorded /\ handlers[w].pc \in Concluded
  BY DEF RecordReproof, At, Unrecorded, Concluded, Inv
<1>2. /\ handlers \in [Workers -> Handler] /\ handlers[w] \in Handler
      /\ evidence \in [Attempts -> Outcomes \cup {"none"}] /\ attempt \in 0..MaxAttempts
  BY DEF Inv, JobInv, TypeOK
<1>3. k \in 1..attempt /\ k \in Attempts /\ o \in Outcomes /\ evidence[k] = "none"
  BY <1>1, <1>2, PatchFixAssumption DEF Sound, Attempts
<1>4. CASE Goto(w, "failing") /\ evidence' = evidence
  <2>1. "failing" \in PCs /\ "failing" \notin Unrecorded \cup Concluded
    BY DEF PCs, Leaving, Unrecorded, Concluded
  <2>2. /\ handlers' \in [Workers -> Handler]
        /\ \A v \in Workers : Sound(v)'
        /\ Apart'
    BY <1>1, <1>4, <2>1, GotoGoesOn
  <2> QED
    BY <1>1, <1>4, <2>2, JobStays DEF Inv
<1>5. CASE Goto(w, "completing") /\ evidence' = [evidence EXCEPT ![k] = o]
  <2> DEFINE h == [handlers[w] EXCEPT !.pc = "completing"]
  <2>1. h \in Handler /\ h.pc = "completing" /\ h.attempt = k /\ h.outcome = o
    BY <1>2, HandlerMoves DEF PCs, Working
  <2>2. handlers' = [handlers EXCEPT ![w] = h]
    BY <1>5 DEF Goto
  <2> HIDE DEF h
  <2>3. /\ handlers' \in [Workers -> Handler]
        /\ handlers'[w] = h
        /\ \A v \in Workers \ {w} : handlers'[v] = handlers[v]
    BY <1>2, <2>1, <2>2
  <2>4. /\ evidence' \in [Attempts -> Outcomes \cup {"none"}]
        /\ \A a \in Attempts \ {k} : evidence'[a] = evidence[a]
    BY <1>2, <1>3, <1>5
  <2>5. attempt' = attempt /\ owner' = owner
    BY <1>1 DEF job
  <2>6. ASSUME NEW v \in Workers PROVE Sound(v)'
    <3>1. CASE v = w
      BY <1>1, <2>1, <2>3, <2>5, <3>1, <1>3 DEF Sound, At, Unrecorded
    <3>2. CASE v # w
      <4>1. Sound(v) /\ handlers'[v] = handlers[v]
        BY <2>3, <3>2 DEF Inv
      <4>2. ~At(v, "idle") => handlers[v].attempt \in Attempts \ {k}
        <5>1. ~At(v, "idle") => handlers[v].attempt # k
          BY <1>1, <3>2 DEF Inv, Apart
        <5>2. ~At(v, "idle") => handlers[v].attempt \in Attempts
          BY <1>2, <4>1, PatchFixAssumption DEF Sound, Attempts
        <5> QED
          BY <5>1, <5>2
      <4> QED
        BY <2>4, <2>5, <4>1, <4>2 DEF Sound, At
    <3> QED
      BY <3>1, <3>2
  <2>7. Apart'
    BY <1>1, <2>1, <2>3 DEF Inv, Apart, At
  <2>8. JobInv'
    <3>1. TypeOK'
      BY <1>1, <2>3, <2>4 DEF Inv, JobInv, TypeOK, proposal, job
    <3>2. DecisionAgrees' /\ Owned'
      BY <1>1 DEF Inv, JobInv, DecisionAgrees, Owned, proposal, job
    <3>3. Unproved'
      BY <1>2, <1>3, <2>4, <2>5, PatchFixAssumption DEF Inv, JobInv, Unproved, Attempts
    <3> QED
      BY <3>1, <3>2, <3>3 DEF JobInv
  <2> QED
    BY <2>6, <2>7, <2>8 DEF Inv
<1> QED
  BY <1>4, <1>5 DEF RecordReproof

LEMMA NextKeepsInv == Inv /\ [Next]_vars => Inv'
<1> SUFFICES ASSUME Inv, [Next]_vars PROVE Inv'
  OBVIOUS
<1>1. CASE Publish \/ Withdraw \/ Approve \/ Reject \/ ApproveAgain \/ LeaseExpires
  BY <1>1, ProposalKeepsInv
<1>2. ASSUME NEW w \in Workers, Claim(w) PROVE Inv'
  BY <1>2, ClaimKeepsInv
<1>3. ASSUME NEW w \in Workers, Handle(w) PROVE Inv'
  <2>1. CASE LoadTarget(w) \/ TargetInvalid(w) \/ CandidateChanged(w) \/ Throw(w)
    BY <2>1, GotoKeepsInv
  <2>2. CASE LatestReproof(w) \/ Reprove(w)
    BY <2>2, OutcomeKeepsInv
  <2>3. CASE RecordReproof(w)
    BY <2>3, RecordKeepsInv
  <2>4. CASE Complete(w) \/ Fail(w) \/ Release(w)
    BY <2>4, LeaveKeepsInv
  <2> QED
    BY <1>3, <2>1, <2>2, <2>3, <2>4 DEF Handle
<1>4. ASSUME NEW w \in Workers, Heartbeat(w) \/ HeartbeatFails(w) PROVE Inv'
  BY <1>4, HeartbeatKeepsInv
<1>5. ASSUME NEW w \in Workers, Crash(w) PROVE Inv'
  BY <1>5, LeaveKeepsInv
<1>6. CASE UNCHANGED vars
  <2>1. handlers' = handlers /\ UNCHANGED <<proposal, job, evidence>>
    BY <1>6 DEF vars
  <2>2. attempt' = attempt /\ evidence' = evidence /\ owner' \in {owner, NoWorker}
    BY <2>1 DEF job
  <2>3. (\A v \in Workers : Sound(v)') /\ Apart'
    BY <2>1, <2>2, HandlersStay
  <2>4. handlers' \in [Workers -> Handler]
    BY <2>1 DEF Inv, JobInv, TypeOK
  <2> QED
    BY <2>1, <2>3, <2>4, JobStays DEF Inv
<1> QED
  BY <1>1, <1>2, <1>3, <1>4, <1>5, <1>6 DEF Next

LEMMA InvHolds == Spec => []Inv
  BY InitInv, NextKeepsInv, PTL DEF Spec

-----------------------------------------------------------------------------
(* Every variable has its type, and the two lease columns are set together.  *)
THEOREM TypeCorrect == Spec => []TypeOK
<1>1. Inv => TypeOK
  BY DEF Inv, JobInv
<1> QED
  BY <1>1, InvHolds, PTL

(* The fix job and its proposal never disagree about the user's decision.    *)
THEOREM DecisionsAgree == Spec => []DecisionAgrees
<1>1. Inv => DecisionAgrees
  BY DEF Inv, JobInv
<1> QED
  BY <1>1, InvHolds, PTL

(* Each attempt is one handler's, and at most one proof is recorded for it.  *)
THEOREM OneProofPerAttempt == Spec => []ProvenOnce
<1>1. Inv => ProvenOnce
  <2> SUFFICES ASSUME Inv PROVE ProvenOnce
    OBVIOUS
  <2>1. ASSUME NEW w \in Workers, At(w, "recording")
        PROVE  evidence[handlers[w].attempt] = "none"
    BY <2>1 DEF Inv, Sound, At, Unrecorded
  <2> QED
    BY <2>1 DEF ProvenOnce, Inv, Apart
<1> QED
  BY <1>1, InvHolds, PTL

(* Nobody but the handler of the latest claim ends the work on a job.        *)
THEOREM LatestClaimEnds == Spec => OnlyLatestClaimEnds
<1> DEFINE Ends == status = "reproving" /\ status' # "reproving"
           Latest == \E w \in Workers :
                       ~At(w, "idle") /\ handlers[w].attempt = attempt
                       /\ handlers'[w].pc = "idle"
<1>1. ASSUME Inv, [Next]_vars, Ends PROVE Latest
  <2>1. PICK w \in Workers : (Complete(w) \/ Fail(w) \/ Release(w)) /\ Owns(w)
    <3>1. approval = "approved"
      BY <1>1 DEF Inv, JobInv, DecisionAgrees, TypeOK
    <3>2. CASE Publish \/ Withdraw \/ Approve \/ Reject \/ ApproveAgain \/ LeaseExpires
      BY <1>1, <3>1, <3>2
      DEF Publish, Withdraw, Approve, Reject, ApproveAgain, Retriable, LeaseExpires, job
    <3>3. CASE UNCHANGED vars
      BY <1>1, <3>3 DEF vars, job
    <3>4. ASSUME NEW w \in Workers,
                 Claim(w) \/ Heartbeat(w) \/ HeartbeatFails(w) \/ Crash(w)
          PROVE  FALSE
      BY <1>1, <3>4 DEF Claim, Heartbeat, HeartbeatFails, Crash, job
    <3>5. ASSUME NEW w \in Workers, Handle(w)
          PROVE  (Complete(w) \/ Fail(w) \/ Release(w)) /\ Owns(w)
      <4>1. ~(LoadTarget(w) \/ TargetInvalid(w) \/ LatestReproof(w) \/ Reprove(w)
                \/ CandidateChanged(w) \/ RecordReproof(w) \/ Throw(w))
        BY <1>1 DEF LoadTarget, TargetInvalid, LatestReproof, Reprove,
                    CandidateChanged, RecordReproof, Throw, job
      <4>2. Complete(w) \/ Fail(w) \/ Release(w)
        BY <3>5, <4>1 DEF Handle
      <4> QED
        BY <1>1, <4>2 DEF Complete, Completable, Fail, Release
    <3> QED
      BY <1>1, <3>2, <3>3, <3>4, <3>5 DEF Next
  <2>2. ~At(w, "idle") /\ Leave(w)
    BY <2>1 DEF Complete, Fail, Release, At
  <2>3. handlers'[w].pc = "idle"
    BY <1>1, <2>2, IdleIsHandler DEF Leave, Inv, JobInv, TypeOK
  <2>4. handlers[w].attempt = attempt
    BY <1>1, <2>1, <2>2 DEF Inv, Sound, Owns
  <2> QED
    BY <2>2, <2>3, <2>4
<1>2. Inv /\ [Next]_vars => [Ends => Latest]_vars
  BY <1>1
<1> QED
  BY <1>2, InvHolds, PTL DEF Spec, OnlyLatestClaimEnds

-----------------------------------------------------------------------------
LEMMA PhaseValues ==
  /\ PhaseOf("awaiting_approval") = "undecided"
  /\ PhaseOf("queued") = "open" /\ PhaseOf("reproving") = "open"
  /\ \A s \in Outcomes \cup {"rejected", "failed"} : PhaseOf(s) = s
  BY DEF PhaseOf, Outcomes

LEMMA ProofAdded ==
  ASSUME NEW e \in [Attempts -> Outcomes \cup {"none"}],
         NEW k \in Attempts, NEW o \in Outcomes, e[k] = "none"
  PROVE  ProofsOf([e EXCEPT ![k] = o]) = ProofsOf(e) \cup {o}
<1> DEFINE f == [e EXCEPT ![k] = o]
<1>1. f[k] = o /\ \A a \in Attempts \ {k} : f[a] = e[a]
  OBVIOUS
<1>2. o # "none"
  BY DEF Outcomes
<1> HIDE DEF f
<1>3. ProofsOf(f) \subseteq ProofsOf(e) \cup {o}
  BY <1>1 DEF ProofsOf
<1>4. ProofsOf(e) \cup {o} \subseteq ProofsOf(f)
  BY <1>1, <1>2 DEF ProofsOf
<1> QED
  BY <1>3, <1>4 DEF f

(* PatchFix implements FixLife: a job ends in an outcome that was proved, for *)
(* good, or fails, and only then is opened again.                            *)
THEOREM FixRefinement == Spec => ImplementsFixLife
<1>1. Init => Life!Init
  BY PhaseValues DEF Init, Life!Init, ProofsOf
<1>2. Inv /\ [Next]_vars => [Life!Next]_(Life!vars)
  <2> SUFFICES ASSUME Inv, [Next]_vars
               PROVE  \/ Life!Next
                      \/ PhaseOf(status') = PhaseOf(status) /\ evidence' = evidence
    BY DEF Life!vars
  <2>1. /\ DecisionAgrees /\ TypeOK /\ evidence \in [Attempts -> Outcomes \cup {"none"}]
    BY DEF Inv, JobInv, TypeOK
  <2>2. ASSUME NEW from \in Statuses, NEW to \in Statuses,
               status = from, status' = to, evidence' = evidence,
               \/ PhaseOf(from) = "undecided" /\ PhaseOf(to) \in {"open", "rejected"}
               \/ PhaseOf(from) = "open" /\ PhaseOf(to) = "failed"
               \/ PhaseOf(from) = "failed" /\ PhaseOf(to) = "open"
        PROVE  Life!Next
    BY <2>2 DEF Life!Next, Life!Move
  <2>3. CASE Approve
    <3>1. status = "awaiting_approval" /\ status' = "queued" /\ evidence' = evidence
      BY <2>1, <2>3 DEF Approve, DecisionAgrees
    <3> QED
      BY <2>2, <3>1, PhaseValues DEF Statuses
  <2>4. CASE Reject
    <3>1. status = "awaiting_approval" /\ status' = "rejected" /\ evidence' = evidence
      BY <2>1, <2>4 DEF Reject, RejectedStatus, DecisionAgrees
    <3> QED
      BY <2>2, <3>1, PhaseValues DEF Statuses
  <2>5. CASE ApproveAgain
    <3>1. status = "failed" /\ status' = "queued" /\ evidence' = evidence
      BY <2>5 DEF ApproveAgain, Retriable
    <3> QED
      BY <2>2, <3>1, PhaseValues DEF Statuses
  <2>6. ASSUME NEW w \in Workers, Claim(w) \/ Release(w)
        PROVE  PhaseOf(status') = PhaseOf(status) /\ evidence' = evidence
    BY <2>6, PhaseValues DEF Claim, Claimable, Release, Owns, Free
  <2>7. ASSUME NEW w \in Workers, Fail(w)
        PROVE  Life!Next \/ (status' = status /\ evidence' = evidence)
    <3>1. /\ evidence' = evidence
          /\ status' = status \/ (status = "reproving" /\ status' = "failed")
      BY <2>7 DEF Fail, Owns, Free
    <3> QED
      BY <2>2, <3>1, PhaseValues DEF Statuses
  <2>8. ASSUME NEW w \in Workers, Complete(w) PROVE Life!Next
    <3> DEFINE o == handlers[w].outcome
    <3>1. /\ status = "reproving" /\ status' = o /\ evidence' = evidence
          /\ \E a \in Attempts : evidence[a] = o
      BY <2>8 DEF Complete, Completable, Owns, Free
    <3>2. o \in Outcomes
      BY <2>8 DEF Complete, At, Inv, Sound, Concluded
    <3>3. o \in ProofsOf(evidence)
      BY <3>1, <3>2 DEF ProofsOf, Outcomes
    <3>4. PhaseOf(status) = "open" /\ PhaseOf(status') = o
      BY <3>1, <3>2, PhaseValues
    <3>5. Life!Finish(o)
      BY <3>1, <3>3, <3>4 DEF Life!Finish, Life!Move
    <3> QED
      BY <3>2, <3>5 DEF Life!Next
  <2>9. ASSUME NEW w \in Workers, RecordReproof(w)
        PROVE  Life!Next \/ (status' = status /\ evidence' = evidence)
    <3> DEFINE k == handlers[w].attempt
               o == handlers[w].outcome
    <3>1. k \in Attempts /\ o \in Outcomes /\ status' = status
      BY <2>1, <2>9, PatchFixAssumption
      DEF RecordReproof, At, Inv, Sound, Concluded, Attempts, TypeOK, job
    <3>2. CASE evidence' = evidence
      BY <3>1, <3>2
    <3>3. CASE evidence[k] = "none" /\ approval = "approved"
               /\ evidence' = [evidence EXCEPT ![k] = o]
      <4>1. ProofsOf(evidence') = ProofsOf(evidence) \cup {o}
        BY <2>1, <3>1, <3>3, ProofAdded
      <4>2. PhaseOf(status) \notin {"undecided", "rejected"}
        BY <2>1, <3>3 DEF DecisionAgrees, PhaseOf, TypeOK, Statuses, Outcomes
      <4>3. Life!Prove(o)
        BY <3>1, <4>1, <4>2 DEF Life!Prove
      <4> QED
        BY <3>1, <4>3 DEF Life!Next
    <3> QED
      BY <2>9, <3>2, <3>3 DEF RecordReproof
  <2>10. ASSUME NEW w \in Workers,
                \/ LoadTarget(w) \/ TargetInvalid(w) \/ LatestReproof(w)
                \/ Reprove(w) \/ CandidateChanged(w) \/ Throw(w)
                \/ Heartbeat(w) \/ HeartbeatFails(w) \/ Crash(w)
         PROVE  status' = status /\ evidence' = evidence
    BY <2>10 DEF LoadTarget, TargetInvalid, LatestReproof, Reprove, CandidateChanged,
       Throw, Heartbeat, HeartbeatFails, Crash, job
  <2>11. CASE Publish \/ Withdraw \/ LeaseExpires \/ UNCHANGED vars
    BY <2>11 DEF Publish, Withdraw, LeaseExpires, vars, job
  <2> QED
    BY <2>3, <2>4, <2>5, <2>6, <2>7, <2>8, <2>9, <2>10, <2>11 DEF Next, Handle
<1> QED
  BY <1>1, <1>2, InvHolds, PTL DEF Spec, ImplementsFixLife, Life!Spec

=============================================================================
