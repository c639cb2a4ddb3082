------------------------- MODULE CommentCommandProofs -------------------------
(***************************************************************************)
(* What holds of CommentCommand for any handlers, processes, attempts and     *)
(* pushes.  The argument: every claim counts the attempt up, so the handlers   *)
(* at work are told apart by it, and of those that post without having lost   *)
(* the command only the latest one can be about to; the owner's name is the    *)
(* process of the latest claim; and what a handler means to answer it either  *)
(* did itself or read from the row when it claimed the command.              *)
(***************************************************************************)
EXTENDS CommentCommand, TLAPS

PCs == {"idle", "closing", "ending"} \cup Working
Beginning == {"authorizing", "reading", "queueing", "preparing", "binding"}
Answering == {"searching", "posting"}
Leaving == {"closing", "ending"}
Answers == Kinds \ {"error"}

(* What a handler's record says of the command, its effects and its answers. *)
Fits(c, com, att, req, bnd, rep) ==
  /\ c.pc # "idle" => c.attempt \in 1..att
  /\ c.pc \in {"reading", "queueing"} => com = "review"
  /\ c.pc \in {"preparing", "binding"} => com = "propose_fix"
  /\ c.pc = "queueing" => c.head # 0
  /\ c.linked => bnd
  /\ c.kind = "queued" => req # 0
  /\ c.kind = "proposal" => bnd
  /\ c.pc \in Beginning => c.exit = "answer"
  /\ c.pc \in Answering =>
       \/ c.exit = "answer" /\ c.kind \in Answers
       \/ c.exit = "fail" /\ c.kind = "error"
  /\ c.pc \in Leaving =>
       \/ c.exit = "retry"
       \/ c.exit = "answer" /\ c.kind \in Answers /\ rep[c.kind] > 0
       \/ c.exit = "fail" /\ c.kind = "error" /\ rep["error"] > 0
       \/ c.exit = "fail" /\ c.kind = "none"

Fit == \A h \in Handlers : Fits(handlers[h], command, attempt, request, bound, replies)

(* A command has the effect that its author asked for, or none.              *)
Effects ==
  /\ bound => command = "propose_fix"
  /\ request # 0 => command = "review"
  /\ link => bound

Apart ==
  \A g, h \in Handlers :
    g # h /\ ~At(g, "idle") /\ ~At(h, "idle") => handlers[g].attempt # handlers[h].attempt

(* The owner's name is the process of the latest claim.                      *)
Alone(h) == \A g \in Handlers \ {h} : worker[g] # worker[h]
Named == \A h \in Handlers : ~At(h, "idle") /\ owner = worker[h] /\ Alone(h) => Latest(h)

Once ==
  ~strayed =>
    /\ \A k \in Kinds : replies[k] <= 1
    /\ \A h \in Handlers : At(h, "posting") /\ Latest(h) => replies[handlers[h].kind] = 0

Inv == TypeOK /\ Fit /\ Effects /\ EndIsTrue /\ Apart /\ Named /\ Once

-----------------------------------------------------------------------------
(* Records of handlers.                                                     *)

(* d is at pc and otherwise like c, its answer and its loss excepted.        *)
Moved(c, d, pc) ==
  /\ d \in Handler /\ d.pc = pc
  /\ d.attempt = c.attempt /\ d.linked = c.linked /\ d.head = c.head

LEMMA PcMoves ==
  ASSUME NEW c \in Handler, NEW pc \in PCs
  PROVE  LET d == [c EXCEPT !.pc = pc]
         IN Moved(c, d, pc) /\ d.kind = c.kind /\ d.exit = c.exit
  BY DEF Handler, PCs, Moved

LEMMA AnswerMoves ==
  ASSUME NEW c \in Handler, NEW k \in Kinds
  PROVE  LET d == [c EXCEPT !.pc = "searching", !.kind = k]
         IN Moved(c, d, "searching") /\ d.kind = k /\ d.exit = c.exit
  BY DEF Handler, Working, Moved

LEMMA LostMoves ==
  ASSUME NEW c \in Handler
  PROVE  LET d == [c EXCEPT !.lost = TRUE]
         IN Moved(c, d, c.pc) /\ d.kind = c.kind /\ d.exit = c.exit
  BY DEF Handler, Moved

LEMMA HeadMoves ==
  ASSUME NEW c \in Handler, NEW n \in 0..MaxHead
  PROVE  LET d == [c EXCEPT !.pc = "queueing", !.head = n]
         IN /\ d \in Handler /\ d.pc = "queueing" /\ d.head = n
            /\ d.attempt = c.attempt /\ d.linked = c.linked
            /\ d.kind = c.kind /\ d.exit = c.exit
  BY DEF Handler, Working

LEMMA ThrowMoves ==
  ASSUME NEW c \in Handler
  PROVE  /\ LET d == [c EXCEPT !.pc = "closing", !.kind = "none"]
            IN Moved(c, d, "closing") /\ d.kind = "none" /\ d.exit = c.exit
         /\ LET d == [c EXCEPT !.pc = "closing", !.exit = "retry"]
            IN Moved(c, d, "closing") /\ d.kind = c.kind /\ d.exit = "retry"
         /\ LET d == [c EXCEPT !.pc = "searching", !.exit = "fail", !.kind = "error"]
            IN Moved(c, d, "searching") /\ d.kind = "error" /\ d.exit = "fail"
<1>1. LET d == [c EXCEPT !.pc = "closing", !.kind = "none"]
      IN Moved(c, d, "closing") /\ d.kind = "none" /\ d.exit = c.exit
  BY DEF Handler, Moved
<1>2. LET d == [c EXCEPT !.pc = "closing", !.exit = "retry"]
      IN Moved(c, d, "closing") /\ d.kind = c.kind /\ d.exit = "retry"
  BY DEF Handler, Moved
<1>3. LET d == [c EXCEPT !.pc = "searching", !.exit = "fail", !.kind = "error"]
      IN Moved(c, d, "searching") /\ d.kind = "error" /\ d.exit = "fail"
  BY DEF Handler, Moved, Working, Kinds
<1> QED
  BY <1>1, <1>2, <1>3

LEMMA IdleIsHandler ==
  /\ Idle \in Handler /\ Idle.pc = "idle" /\ Idle.attempt = 0 /\ Idle.linked = FALSE
  /\ Idle.kind = "none" /\ Idle.exit = "answer"
<1>1. 0 \in 0..MaxAttempts /\ 0 \in 0..MaxHead
  BY CommentCommandAssumption
<1> QED
  BY <1>1 DEF Idle, Handler

(* What c means to do and know fits as more happens.                          *)
LEMMA FitsMore ==
  ASSUME NEW c \in Handler, NEW com, NEW att \in Nat, NEW req, NEW bnd \in BOOLEAN,
         NEW rep \in [Kinds -> Nat], Fits(c, com, att, req, bnd, rep),
         NEW att2 \in Nat, NEW req2, NEW bnd2 \in BOOLEAN, NEW rep2 \in [Kinds -> Nat],
         att <= att2, req # 0 => req2 # 0, bnd => bnd2,
         \A k \in Kinds : rep[k] <= rep2[k]
  PROVE  Fits(c, com, att2, req2, bnd2, rep2)
<1>1. c.pc # "idle" => c.attempt \in 1..att2
  BY DEF Fits, Handler
<1>2. c.kind \in Answers => rep[c.kind] <= rep2[c.kind] /\ rep[c.kind] \in Nat
                            /\ rep2[c.kind] \in Nat
  BY DEF Answers
<1>3. rep["error"] <= rep2["error"] /\ rep["error"] \in Nat /\ rep2["error"] \in Nat
  BY DEF Kinds
<1> QED
  BY <1>1, <1>2, <1>3 DEF Fits

LEMMA FitsIdle ==
  ASSUME NEW com, NEW att, NEW req, NEW bnd, NEW rep
  PROVE  Fits(Idle, com, att, req, bnd, rep)
  BY IdleIsHandler DEF Fits, Beginning, Answering, Leaving

-----------------------------------------------------------------------------
LEMMA InitInv == Init => Inv
<1> SUFFICES ASSUME Init PROVE Inv
  OBVIOUS
<1>1. \A h \in Handlers : handlers[h] = Idle
  BY DEF Init
<1>2. handlers \in [Handlers -> Handler]
  BY IdleIsHandler DEF Init
<1>3. replies \in [Kinds -> Nat]
  BY DEF Init
<1>4. 1 \in Heads /\ 0 \in 0..MaxHead /\ 0 \in 0..MaxAttempts
  BY CommentCommandAssumption DEF Heads
<1>5. TypeOK
  BY <1>2, <1>3, <1>4, CommentCommandAssumption DEF Init, TypeOK
<1>6. Fit
  BY <1>1, FitsIdle DEF Fit
<1>7. Effects /\ EndIsTrue
  BY DEF Init, Effects, EndIsTrue
<1>8. \A h \in Handlers : At(h, "idle") /\ ~At(h, "posting")
  BY <1>1, IdleIsHandler DEF At
<1>9. Apart /\ Named
  BY <1>8 DEF Apart, Named
<1>10. Once
  BY <1>8 DEF Init, Once
<1> QED
  BY <1>5, <1>6, <1>7, <1>9, <1>10 DEF Inv

-----------------------------------------------------------------------------
(* A step of one handler, to the record d, that neither claims nor posts.     *)
Kept(h, d) ==
  /\ d \in Handler
  /\ handlers' = [handlers EXCEPT ![h] = d]
  /\ UNCHANGED <<worker, command, replies, attempt, strayed>>
  /\ owner' \in {owner, NoWorker}
  /\ bound' \in BOOLEAN /\ (bound => bound') /\ (request # 0 => request' # 0)
  /\ d.pc = "idle" \/ (~At(h, "idle") /\ d.attempt = handlers[h].attempt)
  /\ d.pc = "posting" =>
       replies[d.kind] = 0 \/ (At(h, "posting") /\ d.kind = handlers[h].kind)
  /\ Fits(d, command, attempt, request', bound', replies)

LEMMA StepKeeps ==
  ASSUME Inv, NEW h \in Handlers, NEW d, Kept(h, d)
  PROVE  handlers' \in [Handlers -> Handler] /\ Fit' /\ Apart' /\ Named' /\ Once'
<1>1. handlers \in [Handlers -> Handler]
  BY DEF Inv, TypeOK
<1>2. /\ handlers' \in [Handlers -> Handler] /\ handlers'[h] = d
      /\ \A g \in Handlers \ {h} : handlers'[g] = handlers[g]
  BY <1>1 DEF Kept
<1>3. UNCHANGED <<worker, command, replies, attempt, strayed>>
  BY DEF Kept
<1>4. ASSUME NEW g \in Handlers
      PROVE  Fits(handlers'[g], command, attempt, request', bound', replies)
  <2>1. CASE g = h
    BY <1>2, <2>1 DEF Kept
  <2>2. CASE g # h
    <3>1. Fits(handlers[g], command, attempt, request, bound, replies)
      BY DEF Inv, Fit
    <3>2. attempt \in Nat /\ bound \in BOOLEAN /\ replies \in [Kinds -> Nat]
      BY CommentCommandAssumption DEF Inv, TypeOK
    <3>3. attempt <= attempt /\ \A k \in Kinds : replies[k] <= replies[k]
      BY <3>2
    <3>4. handlers[g] \in Handler
      BY <1>1
    <3> QED
      BY <1>2, <2>2, <3>1, <3>2, <3>3, <3>4, FitsMore DEF Kept
  <2> QED
    BY <2>1, <2>2
<1>5. Fit'
  BY <1>3, <1>4 DEF Fit
<1>6. d.pc = "idle" \/ (~At(h, "idle") /\ d.attempt = handlers[h].attempt)
  BY DEF Kept
<1>7. Apart'
  <2> SUFFICES ASSUME NEW f \in Handlers, NEW g \in Handlers, f # g,
                      ~At(f, "idle")', ~At(g, "idle")'
               PROVE  handlers'[f].attempt # handlers'[g].attempt
    BY DEF Apart
  <2>1. /\ ~At(f, "idle") /\ handlers'[f].attempt = handlers[f].attempt
        /\ ~At(g, "idle") /\ handlers'[g].attempt = handlers[g].attempt
    BY <1>2, <1>6 DEF At
  <2> QED
    BY <2>1 DEF Inv, Apart
<1>8. Named'
  <2> SUFFICES ASSUME NEW g \in Handlers, ~At(g, "idle")', owner' = worker[g], Alone(g)
               PROVE  handlers'[g].attempt = attempt
    BY <1>3 DEF Named, Alone, Latest
  <2>1. owner' = owner
    BY CommentCommandAssumption DEF Inv, TypeOK, Kept
  <2>2. ~At(g, "idle") /\ handlers'[g].attempt = handlers[g].attempt
    BY <1>2, <1>6 DEF At
  <2> QED
    BY <2>1, <2>2 DEF Inv, Named, Latest
<1>9. Once'
  <2> SUFFICES ASSUME ~strayed
               PROVE  /\ \A k \in Kinds : replies[k] <= 1
                      /\ \A g \in Handlers :
                           handlers'[g].pc = "posting" /\ handlers'[g].attempt = attempt
                             => replies[handlers'[g].kind] = 0
    BY <1>3 DEF Once, At, Latest
  <2>1. ASSUME NEW g \in Handlers, handlers'[g].pc = "posting",
               handlers'[g].attempt = attempt
        PROVE  replies[handlers'[g].kind] = 0
    <3>1. CASE g = h
      <4>1. handlers[h].attempt = attempt /\ d.pc = "posting"
        BY <1>2, <1>6, <2>1, <3>1
      <4>2. replies[d.kind] = 0 \/ (At(h, "posting") /\ d.kind = handlers[h].kind)
        BY <4>1 DEF Kept
      <4> QED
        BY <1>2, <3>1, <4>1, <4>2 DEF Inv, Once, Latest
    <3>2. CASE g # h
      BY <1>2, <2>1, <3>2 DEF Inv, Once, At, Latest
    <3> QED
      BY <3>1, <3>2
  <2> QED
    BY <2>1 DEF Inv, Once
<1> QED
  BY <1>2, <1>5, <1>7, <1>8, <1>9

(* A step that changes no handler.                                          *)
LEMMA StayKeeps ==
  ASSUME Inv, UNCHANGED <<worker, command, replies, attempt, owner, request, bound,
                          handlers, strayed>>
  PROVE  Fit' /\ Apart' /\ Named' /\ Once'
<1>1. Fit'
  BY DEF Inv, Fit
<1>2. Apart'
  BY DEF Inv, Apart, At
<1>3. Named'
  BY DEF Inv, Named, At, Alone, Latest
<1>4. Once'
  BY DEF Inv, Once, At, Latest
<1> QED
  BY <1>1, <1>2, <1>3, <1>4

(* What the row says stays true unless the command ends.                     *)
LEMMA EndStays ==
  ASSUME EndIsTrue, Effects, UNCHANGED <<command, status, reply, target, link, replies>>,
         request # 0 => request' # 0, request' # 0 => command = "review",
         bound => bound', bound' => command = "propose_fix"
  PROVE  EndIsTrue' /\ Effects'
  BY DEF EndIsTrue, Effects

-----------------------------------------------------------------------------
(* The pull request and the lease.                                          *)

LEMMA EnvironmentInv ==
  ASSUME Inv, Push \/ Crowd \/ AcceptCommand \/ LeaseExpires PROVE Inv'
<1>1. UNCHANGED <<worker, replies, command, attempt, owner, link, target, reply,
                  request, bound, handlers, strayed>>
  BY DEF Push, Crowd, AcceptCommand, LeaseExpires, row, effects
<1>2. /\ head' \in Heads /\ crowded' \in BOOLEAN /\ lease' \in {"none", "live", "expired"}
      /\ (owner = NoWorker <=> lease' = "none")
  <2>1. /\ head \in Heads /\ crowded \in BOOLEAN /\ lease \in {"none", "live", "expired"}
        /\ (owner = NoWorker <=> lease = "none")
    BY DEF Inv, TypeOK
  <2>2. CASE Push
    <3>1. head' \in Heads
      BY <2>1, <2>2, CommentCommandAssumption DEF Push, Heads
    <3> QED
      BY <2>1, <2>2, <3>1 DEF Push, row
  <2>3. CASE Crowd
    BY <2>1, <2>3 DEF Crowd, row
  <2>4. CASE AcceptCommand
    BY <2>1, <2>4 DEF AcceptCommand, thread
  <2>5. CASE LeaseExpires
    BY <2>1, <2>5 DEF LeaseExpires, thread
  <2> QED
    BY <2>2, <2>3, <2>4, <2>5
<1>3. status' = status \/ (status = "absent" /\ status' = "queued")
  BY DEF Push, Crowd, AcceptCommand, LeaseExpires, row
<1>4. TypeOK'
  BY <1>1, <1>2, <1>3 DEF Inv, TypeOK, Ends
<1>5. EndIsTrue' /\ Effects'
  BY <1>1, <1>3 DEF Inv, EndIsTrue, Effects
<1> QED
  BY <1>1, <1>4, <1>5, StayKeeps DEF Inv

-----------------------------------------------------------------------------
(* Steps that only the handler is changed by.                               *)

LEMMA PlainInv ==
  ASSUME Inv, NEW h \in Handlers, NEW d, Kept(h, d), UNCHANGED <<thread, row, effects>>
  PROVE  Inv'
<1>1. UNCHANGED <<worker, head, crowded, replies, command, status, attempt, owner, lease,
                  link, target, reply, request, bound, strayed>>
  BY DEF Kept, thread, row, effects
<1>2. /\ handlers' \in [Handlers -> Handler]
      /\ Fit' /\ Apart' /\ Named' /\ Once'
  BY StepKeeps
<1>3. TypeOK'
  BY <1>1, <1>2 DEF Inv, TypeOK
<1>4. EndIsTrue' /\ Effects'
  BY <1>1 DEF Inv, EndIsTrue, Effects
<1> QED
  BY <1>2, <1>3, <1>4 DEF Inv

LEMMA HandlerFits ==
  ASSUME Inv, NEW h \in Handlers
  PROVE  /\ handlers[h] \in Handler
         /\ Fits(handlers[h], command, attempt, request, bound, replies)
  BY DEF Inv, TypeOK, Fit

(* The handler of h becomes d, which fits what was so before.                *)
Becomes(h, d) ==
  /\ d \in Handler /\ handlers' = [handlers EXCEPT ![h] = d]
  /\ d.pc = "idle" \/ (~At(h, "idle") /\ d.attempt = handlers[h].attempt)
  /\ d.pc = "posting" =>
       replies[d.kind] = 0 \/ (At(h, "posting") /\ d.kind = handlers[h].kind)
  /\ Fits(d, command, attempt, request, bound, replies)

LEMMA BecomesKept ==
  ASSUME Inv, NEW h \in Handlers, NEW d, Becomes(h, d),
         UNCHANGED <<worker, command, replies, attempt, strayed>>,
         owner' \in {owner, NoWorker}, bound' \in BOOLEAN, bound => bound',
         request # 0 => request' # 0
  PROVE  Kept(h, d)
<1>1. attempt \in Nat /\ attempt <= attempt /\ bound \in BOOLEAN
      /\ replies \in [Kinds -> Nat] /\ \A k \in Kinds : replies[k] <= replies[k]
  BY CommentCommandAssumption DEF Inv, TypeOK
<1>2. Fits(d, command, attempt, request', bound', replies)
  BY <1>1, FitsMore DEF Becomes
<1> QED
  BY <1>2 DEF Kept, Becomes

LEMMA LeaveBecomes ==
  ASSUME NEW h \in Handlers, Leave(h) PROVE Becomes(h, Idle)
  BY IdleIsHandler, FitsIdle DEF Leave, Becomes

LEMMA ThrowBecomes ==
  ASSUME Inv, NEW h \in Handlers, handlers[h].pc \in Working, Throw(h)
  PROVE  \E d : Becomes(h, d) /\ d.pc \in {"closing", "searching"}
<1> DEFINE c == handlers[h]
           d1 == [c EXCEPT !.pc = "closing", !.kind = "none"]
           d2 == [c EXCEPT !.pc = "closing", !.exit = "retry"]
           d3 == [c EXCEPT !.pc = "searching", !.exit = "fail", !.kind = "error"]
<1>1. c \in Handler /\ Fits(c, command, attempt, request, bound, replies)
  BY HandlerFits
<1>2. /\ Moved(c, d1, "closing") /\ d1.kind = "none" /\ d1.exit = c.exit
      /\ Moved(c, d2, "closing") /\ d2.kind = c.kind /\ d2.exit = "retry"
      /\ Moved(c, d3, "searching") /\ d3.kind = "error" /\ d3.exit = "fail"
  BY <1>1, ThrowMoves
<1>3. c.pc # "idle" /\ ~At(h, "idle")
  BY DEF Working, At
<1>4. \/ c.exit = "fail" /\ handlers' = [handlers EXCEPT ![h] = d1]
      \/ handlers' = [handlers EXCEPT ![h] = d2]
      \/ handlers' = [handlers EXCEPT ![h] = d3]
  BY DEF Throw
<1> HIDE DEF c, d1, d2, d3
<1>5. c.exit = "fail" => Fits(d1, command, attempt, request, bound, replies)
  BY <1>1, <1>2, <1>3 DEF Fits, Moved, Beginning, Answering, Leaving
<1>6. Fits(d2, command, attempt, request, bound, replies)
  BY <1>1, <1>2, <1>3 DEF Fits, Moved, Beginning, Answering, Leaving
<1>7. Fits(d3, command, attempt, request, bound, replies)
  BY <1>1, <1>2, <1>3 DEF Fits, Moved, Beginning, Answering, Leaving
<1>8. \A d \in {d1, d2, d3} : d \in Handler /\ d.attempt = c.attempt /\ d.pc \in {"closing", "searching"}
  BY <1>2 DEF Moved
<1> QED
  BY <1>3, <1>4, <1>5, <1>6, <1>7, <1>8 DEF Becomes, c

LEMMA GotoBecomes ==
  ASSUME Inv, NEW h \in Handlers, NEW pc \in PCs, Goto(h, pc), ~At(h, "idle"),
         pc = "posting" => replies[handlers[h].kind] = 0,
         pc \in {"reading", "queueing"} => command = "review",
         pc \in {"preparing", "binding"} => command = "propose_fix",
         pc # "queueing",
         pc \in Beginning => handlers[h].pc \in Beginning,
         pc \in Answering => handlers[h].pc \in Answering,
         pc \in Leaving =>
           handlers[h].pc \in Leaving
             \/ (handlers[h].pc \in Answering /\ replies[handlers[h].kind] > 0)
  PROVE  \E d : Becomes(h, d)
<1> DEFINE c == handlers[h]
           d == [c EXCEPT !.pc = pc]
<1>1. c \in Handler /\ Fits(c, command, attempt, request, bound, replies)
  BY HandlerFits
<1>2. Moved(c, d, pc) /\ d.kind = c.kind /\ d.exit = c.exit
  BY <1>1, PcMoves
<1>3. handlers' = [handlers EXCEPT ![h] = d]
  BY DEF Goto
<1>4. c.pc # "idle"
  BY DEF At
<1> HIDE DEF c, d
<1>5. Fits(d, command, attempt, request, bound, replies)
  BY <1>1, <1>2, <1>4 DEF Fits, Moved, Beginning, Answering, Leaving, c
<1>6. Becomes(h, d)
  BY <1>2, <1>3, <1>5 DEF Becomes, Moved, c
<1> QED
  BY <1>6

(* The answer to a command whose effects may be the ones of this step.        *)
LEMMA AnswerFits ==
  ASSUME Inv, NEW h \in Handlers, NEW k \in Answers, Answer(h, k),
         handlers[h].pc \in Beginning, NEW req, NEW bnd \in BOOLEAN,
         request # 0 => req # 0, bound => bnd,
         k = "queued" => req # 0, k = "proposal" => bnd
  PROVE  \E d \in Handler :
           /\ handlers' = [handlers EXCEPT ![h] = d]
           /\ ~At(h, "idle") /\ d.attempt = handlers[h].attempt /\ d.pc = "searching"
           /\ Fits(d, command, attempt, req, bnd, replies)
<1> DEFINE c == handlers[h]
           d == [c EXCEPT !.pc = "searching", !.kind = k]
<1>1. c \in Handler /\ Fits(c, command, attempt, request, bound, replies)
  BY HandlerFits
<1>2. Moved(c, d, "searching") /\ d.kind = k /\ d.exit = c.exit
  BY <1>1, AnswerMoves DEF Answers
<1>3. handlers' = [handlers EXCEPT ![h] = d]
  BY DEF Answer
<1>4. c.pc # "idle" /\ c.pc \in Beginning /\ ~At(h, "idle")
  BY DEF At, Beginning
<1> HIDE DEF c, d
<1>5. c.exit = "answer" /\ d.exit = "answer"
  BY <1>1, <1>2, <1>4 DEF Fits
<1>6. Fits(d, command, attempt, req, bnd, replies)
  BY <1>1, <1>2, <1>4, <1>5 DEF Fits, Moved, Beginning, Answering, Leaving
<1> QED
  BY <1>2, <1>3, <1>4, <1>6 DEF Moved, c

LEMMA AnswerBecomes ==
  ASSUME Inv, NEW h \in Handlers, NEW k \in Answers, Answer(h, k),
         handlers[h].pc \in Beginning, k # "queued", k = "proposal" => bound
  PROVE  \E d : Becomes(h, d)
<1> DEFINE c == handlers[h]
           d == [c EXCEPT !.pc = "searching", !.kind = k]
<1>1. c \in Handler /\ Fits(c, command, attempt, request, bound, replies)
  BY HandlerFits
<1>2. Moved(c, d, "searching") /\ d.kind = k /\ d.exit = c.exit
  BY <1>1, AnswerMoves DEF Answers
<1>3. handlers' = [handlers EXCEPT ![h] = d]
  BY DEF Answer
<1>4. c.pc # "idle" /\ c.pc \in Beginning /\ ~At(h, "idle")
  BY DEF At, Beginning
<1> HIDE DEF c, d
<1>5. c.exit = "answer" /\ d.exit = "answer"
  BY <1>1, <1>2, <1>4 DEF Fits
<1>6. Fits(d, command, attempt, request, bound, replies)
  BY <1>1, <1>2, <1>4, <1>5 DEF Fits, Moved, Beginning, Answering, Leaving
<1>7. d.attempt = handlers[h].attempt
  BY <1>2 DEF Moved, c
<1>8. d \in Handler /\ d.pc = "searching"
  BY <1>2 DEF Moved
<1> QED
  BY <1>3, <1>4, <1>6, <1>7, <1>8 DEF Becomes

-----------------------------------------------------------------------------
(* Steps that leave the row and the effects alone.                            *)

LEMMA PlainHandlerInv ==
  ASSUME Inv, NEW h \in Handlers, \E d : Becomes(h, d),
         UNCHANGED <<worker, thread, replies, command, row, effects, strayed>>
  PROVE  Inv'
<1>1. PICK d : Becomes(h, d)
  OBVIOUS
<1>2. UNCHANGED <<attempt, owner, request, bound>>
  BY DEF row, effects
<1>3. bound \in BOOLEAN
  BY DEF Inv, TypeOK
<1>4. Kept(h, d)
  <2>1. owner' \in {owner, NoWorker} /\ bound' \in BOOLEAN /\ (bound => bound')
        /\ (request # 0 => request' # 0)
    BY <1>2, <1>3
  <2> QED
    BY <1>1, <1>2, <2>1, BecomesKept
<1> QED
  BY <1>4, PlainInv

LEMMA StepFailsInv ==
  ASSUME Inv, NEW h \in Handlers, StepFails(h) PROVE Inv'
<1>1. \E d : Becomes(h, d)
  BY ThrowBecomes DEF StepFails
<1> QED
  BY <1>1, PlainHandlerInv DEF StepFails

LEMMA LeaveInv ==
  ASSUME Inv, NEW h \in Handlers, EndRefused(h) \/ Crash(h) PROVE Inv'
<1>1. \E d : Becomes(h, d)
  BY LeaveBecomes DEF EndRefused, Crash
<1> QED
  BY <1>1, PlainHandlerInv DEF EndRefused, Crash

LEMMA LostBecomes ==
  ASSUME Inv, NEW h \in Handlers, handlers[h].pc \in Working,
         handlers' = [handlers EXCEPT ![h].lost = TRUE]
  PROVE  \E d : Becomes(h, d)
<1> DEFINE c == handlers[h]
           d == [c EXCEPT !.lost = TRUE]
<1>1. c \in Handler /\ Fits(c, command, attempt, request, bound, replies)
  BY HandlerFits
<1>2. Moved(c, d, c.pc) /\ d.kind = c.kind /\ d.exit = c.exit
  BY <1>1, LostMoves
<1>3. handlers' = [handlers EXCEPT ![h] = d]
  OBVIOUS
<1>4. c.pc # "idle" /\ ~At(h, "idle")
  BY DEF Working, At
<1> HIDE DEF d
<1>5. Fits(d, command, attempt, request, bound, replies)
  BY <1>1, <1>2, <1>4 DEF Fits, Moved
<1>6. Becomes(h, d)
  BY <1>2, <1>3, <1>4, <1>5 DEF Becomes, Moved, At
<1> QED
  BY <1>6

LEMMA HeartbeatFailsInv ==
  ASSUME Inv, NEW h \in Handlers, HeartbeatFails(h) PROVE Inv'
<1>1. \E d : Becomes(h, d)
  BY LostBecomes DEF HeartbeatFails
<1> QED
  BY <1>1, PlainHandlerInv DEF HeartbeatFails

LEMMA AuthorizeInv ==
  ASSUME Inv, NEW h \in Handlers, Authorize(h) PROVE Inv'
<1> DEFINE c == handlers[h]
<1>1. c.pc = "authorizing" /\ ~At(h, "idle") /\ c.pc \in Beginning
  BY DEF Authorize, At, Beginning
<1>2. c.linked => bound
  BY HandlerFits DEF Fits
<1>3. \E d : Becomes(h, d)
  <2>1. CASE Answer(h, "denied")
    BY <1>1, <2>1, AnswerBecomes DEF Answers, Kinds
  <2>2. CASE command = "review" /\ Goto(h, "reading")
    BY <1>1, <2>2, GotoBecomes DEF PCs, Working, Beginning, Answering, Leaving
  <2>3. CASE command = "propose_fix" /\ ~c.linked /\ Goto(h, "preparing")
    BY <1>1, <2>3, GotoBecomes DEF PCs, Working, Beginning, Answering, Leaving
  <2>4. CASE command = "propose_fix" /\ c.linked /\ Answer(h, "proposal")
    BY <1>1, <1>2, <2>4, AnswerBecomes DEF Answers, Kinds
  <2> QED
    BY <2>1, <2>2, <2>3, <2>4 DEF Authorize
<1> QED
  BY <1>3, PlainHandlerInv DEF Authorize

LEMMA PrepareProposalInv ==
  ASSUME Inv, NEW h \in Handlers, PrepareProposal(h) PROVE Inv'
<1>1. handlers[h].pc = "preparing" /\ ~At(h, "idle") /\ handlers[h].pc \in Beginning
  BY DEF PrepareProposal, At, Beginning
<1>2. command = "propose_fix"
  BY <1>1, HandlerFits DEF Fits
<1>3. \E d : Becomes(h, d)
  <2>1. CASE Answer(h, "ignored")
    BY <1>1, <2>1, AnswerBecomes DEF Answers, Kinds
  <2>2. CASE Goto(h, "binding")
    BY <1>1, <1>2, <2>2, GotoBecomes DEF PCs, Working, Beginning, Answering, Leaving
  <2> QED
    BY <2>1, <2>2 DEF PrepareProposal
<1> QED
  BY <1>3, PlainHandlerInv DEF PrepareProposal

LEMMA SearchReplyInv ==
  ASSUME Inv, NEW h \in Handlers, SearchReply(h) PROVE Inv'
<1> DEFINE c == handlers[h]
<1>1. /\ c.pc = "searching" /\ ~At(h, "idle") /\ c.pc \in Working
      /\ c.pc \in Answering
  BY DEF SearchReply, At, Working, Answering
<1>2. c.kind \in Kinds
  BY <1>1, HandlerFits DEF Fits, Answers, Kinds
<1>3. replies[c.kind] \in Nat
  BY <1>2 DEF Inv, TypeOK
<1>4. \E d : Becomes(h, d)
  <2>1. CASE Found(h) /\ Goto(h, "closing")
    <3>1. replies[c.kind] > 0
      BY <2>1 DEF Found
    <3> QED
      BY <1>1, <2>1, <3>1, GotoBecomes DEF PCs, Working, Beginning, Answering, Leaving
  <2>2. CASE Throw(h)
    BY <1>1, <2>2, ThrowBecomes
  <2>3. CASE ~Found(h) /\ Goto(h, "posting")
    <3>1. replies[c.kind] = 0
      BY <1>3, <2>3 DEF Found
    <3> QED
      BY <1>1, <2>3, <3>1, GotoBecomes DEF PCs, Working, Beginning, Answering, Leaving
  <2> QED
    BY <2>1, <2>2, <2>3 DEF SearchReply
<1> QED
  BY <1>4, PlainHandlerInv DEF SearchReply

LEMMA ReadPullRequestInv ==
  ASSUME Inv, NEW h \in Handlers, ReadPullRequest(h) PROVE Inv'
<1> DEFINE c == handlers[h]
           d == [c EXCEPT !.pc = "queueing", !.head = head]
<1>1. c \in Handler /\ Fits(c, command, attempt, request, bound, replies)
  BY HandlerFits
<1>2. head \in 0..MaxHead /\ head # 0
  BY CommentCommandAssumption DEF Inv, TypeOK, Heads
<1>3. /\ d \in Handler /\ d.pc = "queueing" /\ d.head = head
      /\ d.attempt = c.attempt /\ d.linked = c.linked
      /\ d.kind = c.kind /\ d.exit = c.exit
  BY <1>1, <1>2, HeadMoves
<1>4. c.pc = "reading" /\ ~At(h, "idle")
  BY DEF ReadPullRequest, At
<1>5. handlers' = [handlers EXCEPT ![h] = d]
  BY DEF ReadPullRequest
<1> HIDE DEF d
<1>6. Fits(d, command, attempt, request, bound, replies)
  BY <1>1, <1>2, <1>3, <1>4 DEF Fits, Beginning, Answering, Leaving
<1>7. Becomes(h, d)
  BY <1>3, <1>4, <1>5, <1>6 DEF Becomes
<1> QED
  BY <1>7, PlainHandlerInv DEF ReadPullRequest

-----------------------------------------------------------------------------
(* The lease.                                                               *)

(* The row keeps all but its lease, which has an owner.                       *)
LEMMA RenewInv ==
  ASSUME Inv, NEW h \in Handlers, Owns(h), lease' = "live",
         UNCHANGED <<worker, thread, replies, command, status, attempt, owner, link,
                     target, reply, effects, strayed>>,
         UNCHANGED handlers \/ \E d : Becomes(h, d)
  PROVE  Inv'
<1>1. UNCHANGED <<head, crowded, request, bound>>
  BY DEF thread, effects
<1>2. owner # NoWorker
  BY CommentCommandAssumption DEF Inv, TypeOK, Owns
<1>3. handlers' \in [Handlers -> Handler] /\ Fit' /\ Apart' /\ Named' /\ Once'
  <2>1. CASE UNCHANGED handlers
    <3>1. Fit' /\ Apart' /\ Named' /\ Once'
      BY <1>1, <2>1, StayKeeps
    <3> QED
      BY <2>1, <3>1 DEF Inv, TypeOK
  <2>2. CASE \E d : Becomes(h, d)
    <3>1. PICK d : Becomes(h, d)
      BY <2>2
    <3>2. owner' \in {owner, NoWorker} /\ bound' \in BOOLEAN /\ (bound => bound')
          /\ (request # 0 => request' # 0)
      BY <1>1 DEF Inv, TypeOK
    <3>3. Kept(h, d)
      BY <3>1, <3>2, BecomesKept
    <3> QED
      BY <3>3, StepKeeps
  <2> QED
    BY <2>1, <2>2
<1>4. TypeOK'
  BY <1>1, <1>2, <1>3 DEF Inv, TypeOK
<1>5. EndIsTrue' /\ Effects'
  BY <1>1 DEF Inv, EndIsTrue, Effects
<1> QED
  BY <1>3, <1>4, <1>5 DEF Inv

LEMMA HeartbeatInv ==
  ASSUME Inv, NEW h \in Handlers, Heartbeat(h) PROVE Inv'
<1>1. CASE Owns(h)
  BY <1>1, RenewInv DEF Heartbeat
<1>2. CASE ~Owns(h)
  <2>1. \E d : Becomes(h, d)
    BY <1>2, LostBecomes DEF Heartbeat
  <2>2. UNCHANGED <<worker, thread, replies, command, row, effects, strayed>>
    BY <1>2 DEF Heartbeat, row
  <2> QED
    BY <2>1, <2>2, PlainHandlerInv
<1> QED
  BY <1>1, <1>2

LEMMA CloseInv ==
  ASSUME Inv, NEW h \in Handlers, Close(h) PROVE Inv'
<1>1. handlers[h].pc \in Leaving /\ ~At(h, "idle")
  BY DEF Close, At, Leaving
<1>2. CASE Owns(h) /\ ~handlers[h].lost
  <2>1. Goto(h, "ending") /\ lease' = "live"
    BY <1>2 DEF Close
  <2>2. \E d : Becomes(h, d)
    BY <1>1, <2>1, GotoBecomes DEF PCs, Working, Beginning, Answering, Leaving
  <2> QED
    BY <1>2, <2>1, <2>2, RenewInv DEF Close
<1>3. CASE ~(Owns(h) /\ ~handlers[h].lost)
  <2>1. Leave(h) /\ UNCHANGED lease
    BY <1>3 DEF Close
  <2>2. \E d : Becomes(h, d)
    BY <2>1, LeaveBecomes
  <2>3. UNCHANGED <<worker, thread, replies, command, row, effects, strayed>>
    BY <2>1 DEF Close, row
  <2> QED
    BY <2>2, <2>3, PlainHandlerInv
<1> QED
  BY <1>2, <1>3

-----------------------------------------------------------------------------
(* Effects.                                                                 *)

LEMMA QueueReviewInv ==
  ASSUME Inv, NEW h \in Handlers, QueueReview(h) PROVE Inv'
<1>1. /\ handlers[h].pc = "queueing" /\ handlers[h].pc \in Beginning
      /\ handlers[h].pc \in Working /\ ~At(h, "idle")
  BY DEF QueueReview, At, Beginning, Working
<1>2. command = "review" /\ handlers[h].head # 0
  BY <1>1, HandlerFits DEF Fits
<1>3. request' = handlers[h].head /\ request' # 0 /\ request' \in 0..MaxHead
  BY <1>2, HandlerFits DEF QueueReview, RequestReview, Handler
<1>4. UNCHANGED <<worker, head, crowded, replies, command, status, attempt, owner, lease,
                  link, target, reply, bound, strayed>>
  BY DEF QueueReview, thread, row
<1>5. owner' \in {owner, NoWorker} /\ bound' \in BOOLEAN /\ (bound => bound')
      /\ (request # 0 => request' # 0)
  BY <1>3, <1>4 DEF Inv, TypeOK
<1>6. \E d : Kept(h, d)
  <2>1. CASE Throw(h)
    <3>1. PICK d : Becomes(h, d)
      BY <1>1, <2>1, ThrowBecomes
    <3> QED
      BY <1>4, <1>5, <3>1, BecomesKept
  <2>2. CASE Answer(h, "queued")
    <3> DEFINE k == "queued"
    <3>1. k \in Answers
      BY DEF Answers, Kinds
    <3>2. PICK d \in Handler :
            /\ handlers' = [handlers EXCEPT ![h] = d]
            /\ ~At(h, "idle") /\ d.attempt = handlers[h].attempt /\ d.pc = "searching"
            /\ Fits(d, command, attempt, request', bound', replies)
      BY <1>1, <1>3, <1>5, <2>2, <3>1, AnswerFits
    <3> QED
      BY <1>4, <1>5, <3>2 DEF Kept
  <2> QED
    BY <2>1, <2>2 DEF QueueReview
<1>7. handlers' \in [Handlers -> Handler] /\ Fit' /\ Apart' /\ Named' /\ Once'
  BY <1>6, StepKeeps
<1>8. TypeOK'
  BY <1>3, <1>4, <1>7 DEF Inv, TypeOK
<1>9. bound => command = "propose_fix"
  BY DEF Inv, Effects
<1>10. EndIsTrue' /\ Effects'
  BY <1>2, <1>3, <1>4, <1>9, EndStays DEF Inv
<1> QED
  BY <1>7, <1>8, <1>10 DEF Inv

LEMMA BindProposalInv ==
  ASSUME Inv, NEW h \in Handlers, BindProposal(h) PROVE Inv'
<1>1. /\ handlers[h].pc = "binding" /\ handlers[h].pc \in Beginning
      /\ handlers[h].pc \in Working /\ ~At(h, "idle")
  BY DEF BindProposal, At, Beginning, Working
<1>2. command = "propose_fix"
  BY <1>1, HandlerFits DEF Fits
<1>3. link' = TRUE /\ bound' = TRUE /\ status = "processing"
  BY DEF BindProposal, Bindable, Owns
<1>4. UNCHANGED <<worker, head, crowded, replies, command, status, attempt, owner, lease,
                  target, reply, request, strayed>>
  BY DEF BindProposal, thread
<1>5. owner' \in {owner, NoWorker} /\ bound' \in BOOLEAN /\ (bound => bound')
      /\ (request # 0 => request' # 0)
  BY <1>3, <1>4
<1>6. \E d : Kept(h, d)
  <2>1. CASE Throw(h)
    <3>1. PICK d : Becomes(h, d)
      BY <1>1, <2>1, ThrowBecomes
    <3> QED
      BY <1>4, <1>5, <3>1, BecomesKept
  <2>2. CASE Answer(h, "proposal")
    <3> DEFINE k == "proposal"
    <3>1. k \in Answers
      BY DEF Answers, Kinds
    <3>2. PICK d \in Handler :
            /\ handlers' = [handlers EXCEPT ![h] = d]
            /\ ~At(h, "idle") /\ d.attempt = handlers[h].attempt /\ d.pc = "searching"
            /\ Fits(d, command, attempt, request', bound', replies)
      BY <1>1, <1>3, <1>5, <2>2, <3>1, AnswerFits
    <3> QED
      BY <1>4, <1>5, <3>2 DEF Kept
  <2> QED
    BY <2>1, <2>2 DEF BindProposal
<1>7. handlers' \in [Handlers -> Handler] /\ Fit' /\ Apart' /\ Named' /\ Once'
  BY <1>6, StepKeeps
<1>8. TypeOK'
  BY <1>3, <1>4, <1>7 DEF Inv, TypeOK
<1>9. Effects'
  BY <1>2, <1>3, <1>4 DEF Inv, Effects
<1>10. target = "none"
  BY <1>3 DEF Inv, TypeOK
<1>11. EndIsTrue'
  BY <1>3, <1>4, <1>10 DEF Inv, EndIsTrue
<1> QED
  BY <1>7, <1>8, <1>9, <1>11 DEF Inv

-----------------------------------------------------------------------------
(* The answer.                                                              *)

LEMMA PostReplyInv ==
  ASSUME Inv, NEW h \in Handlers, PostReply(h) PROVE Inv'
<1> DEFINE c == handlers[h]
           k == c.kind
<1>1. c.pc = "posting" /\ c.pc \in Working /\ ~At(h, "idle") /\ c.pc \in Answering
  BY DEF PostReply, At, Working, Answering
<1>2. k \in Kinds /\ replies \in [Kinds -> Nat]
  BY <1>1, HandlerFits DEF Fits, Answers, Kinds, Inv, TypeOK
<1>3. replies' = [replies EXCEPT ![k] = @ + 1] /\ strayed' = (strayed \/ ~Latest(h))
  BY DEF PostReply
<1>4. UNCHANGED <<worker, head, crowded, command, status, attempt, owner, lease,
                  link, target, reply, request, bound>>
  BY DEF PostReply, thread, row, effects
<1>5. /\ replies' \in [Kinds -> Nat] /\ replies'[k] = replies[k] + 1 /\ replies'[k] > 0
      /\ \A m \in Kinds \ {k} : replies'[m] = replies[m]
      /\ \A m \in Kinds : replies[m] <= replies'[m]
  BY <1>2, <1>3
<1>6. c \in Handler /\ Fits(c, command, attempt, request, bound, replies)
  BY HandlerFits
<1>7. attempt \in Nat /\ attempt <= attempt /\ bound \in BOOLEAN
  BY CommentCommandAssumption DEF Inv, TypeOK
<1>8. \E d \in Handler :
        /\ handlers' = [handlers EXCEPT ![h] = d]
        /\ d.attempt = c.attempt /\ d.pc # "posting"
        /\ Fits(d, command, attempt, request, bound, replies')
  <2>1. CASE Goto(h, "closing")
    <3> DEFINE d == [c EXCEPT !.pc = "closing"]
    <3>1. Moved(c, d, "closing") /\ d.kind = c.kind /\ d.exit = c.exit
      BY <1>6, PcMoves DEF PCs
    <3>2. handlers' = [handlers EXCEPT ![h] = d]
      BY <2>1 DEF Goto
    <3>3. Fits(c, command, attempt, request, bound, replies')
      BY <1>2, <1>5, <1>6, <1>7, FitsMore
    <3> HIDE DEF d, c
    <3>4. Fits(d, command, attempt, request, bound, replies')
      BY <1>1, <1>5, <3>1, <3>3 DEF Fits, Moved, Beginning, Answering, Leaving
    <3> QED
      BY <3>1, <3>2, <3>4 DEF Moved
  <2>2. CASE Throw(h)
    <3>1. PICK d : Becomes(h, d) /\ d.pc \in {"closing", "searching"}
      BY <1>1, <2>2, ThrowBecomes
    <3>2. Fits(d, command, attempt, request, bound, replies')
      BY <1>2, <1>5, <1>7, <3>1, FitsMore DEF Becomes
    <3> QED
      BY <3>1, <3>2 DEF Becomes
  <2> QED
    BY <2>1, <2>2 DEF PostReply
<1>9. PICK d \in Handler :
        /\ handlers' = [handlers EXCEPT ![h] = d]
        /\ d.attempt = c.attempt /\ d.pc # "posting"
        /\ Fits(d, command, attempt, request, bound, replies')
  BY <1>8
<1>10. /\ handlers' \in [Handlers -> Handler] /\ handlers'[h] = d
       /\ \A g \in Handlers \ {h} : handlers'[g] = handlers[g]
  BY <1>9 DEF Inv, TypeOK
<1> HIDE DEF c, k
<1>11. Fit'
  <2> SUFFICES ASSUME NEW g \in Handlers
               PROVE  Fits(handlers'[g], command, attempt, request, bound, replies')
    BY <1>4 DEF Fit
  <2>1. CASE g = h
    BY <1>9, <1>10, <2>1
  <2>2. CASE g # h
    <3>1. handlers[g] \in Handler
          /\ Fits(handlers[g], command, attempt, request, bound, replies)
      BY HandlerFits
    <3>2. Fits(handlers[g], command, attempt, request, bound, replies')
      BY <1>2, <1>5, <1>7, <3>1, FitsMore
    <3> QED
      BY <1>10, <2>2, <3>2
  <2> QED
    BY <2>1, <2>2
<1>12. \A g \in Handlers :
         /\ ~At(g, "idle")' => ~At(g, "idle")
         /\ handlers'[g].attempt = handlers[g].attempt
  BY <1>1, <1>9, <1>10 DEF At, c
<1>13. Apart' /\ Named'
  BY <1>4, <1>12 DEF Inv, Apart, Named, Alone, Latest
<1>14. Once'
  <2> SUFFICES ASSUME ~strayed'
               PROVE  /\ \A m \in Kinds : replies'[m] <= 1
                      /\ \A g \in Handlers :
                           handlers'[g].pc = "posting" /\ handlers'[g].attempt = attempt
                             => replies'[handlers'[g].kind] = 0
    BY <1>4 DEF Once, At, Latest
  <2>1. ~strayed /\ handlers[h].attempt = attempt
    BY <1>3 DEF Latest
  <2>2. replies[k] = 0
    BY <1>1, <2>1 DEF Inv, Once, At, Latest, c, k
  <2>3. \A m \in Kinds : replies'[m] <= 1
    BY <1>5, <2>1, <2>2 DEF Inv, Once
  <2>4. ASSUME NEW g \in Handlers, handlers'[g].pc = "posting",
               handlers'[g].attempt = attempt
        PROVE  FALSE
    <3>1. g # h
      BY <1>9, <1>10, <2>4
    <3>2. handlers[g].attempt = attempt /\ ~At(g, "idle")
      BY <1>10, <2>4, <3>1 DEF At
    <3> QED
      BY <1>1, <2>1, <3>1, <3>2 DEF Inv, Apart
  <2> QED
    BY <2>3, <2>4
<1>15. TypeOK'
  BY <1>3, <1>4, <1>5, <1>10 DEF Inv, TypeOK
<1>16. EndIsTrue'
  <2>1. reply # "none" => replies'[reply] > 0
    BY <1>2, <1>5 DEF Inv, TypeOK, EndIsTrue
  <2> QED
    BY <1>4, <2>1 DEF Inv, EndIsTrue
<1>17. Effects'
  BY <1>4 DEF Inv, Effects
<1> QED
  BY <1>11, <1>13, <1>14, <1>15, <1>16, <1>17 DEF Inv

-----------------------------------------------------------------------------
(* Claims and ends.                                                         *)

LEMMA ClaimInv ==
  ASSUME Inv, NEW h \in Handlers, Claim(h) PROVE Inv'
<1> DEFINE n == attempt + 1
           l == link
           I == Idle
           d == [I EXCEPT !.pc = "authorizing", !.attempt = n, !.linked = l]
<1>1. /\ At(h, "idle") /\ attempt < MaxAttempts /\ status \in {"queued", "processing"}
      /\ status' = "processing" /\ attempt' = attempt + 1
      /\ owner' = worker[h] /\ lease' = "live"
      /\ handlers' = [handlers EXCEPT ![h] = d]
  BY DEF Claim, Claimable
<1>2. UNCHANGED <<worker, head, crowded, replies, command, link, target, reply,
                  request, bound, strayed>>
  BY DEF Claim, thread, effects
<1>3. /\ attempt \in Nat /\ attempt' \in 0..MaxAttempts /\ attempt' \in Nat
      /\ attempt <= attempt' /\ attempt' \in 1..attempt' /\ bound \in BOOLEAN
      /\ link \in BOOLEAN /\ replies \in [Kinds -> Nat]
      /\ \A k \in Kinds : replies[k] <= replies[k]
  BY <1>1, CommentCommandAssumption DEF Inv, TypeOK
<1>4. /\ d \in Handler /\ d.pc = "authorizing" /\ d.attempt = attempt' /\ d.linked = link
      /\ d.kind = "none" /\ d.exit = "answer"
  <2>1. n \in 0..MaxAttempts /\ l \in BOOLEAN
    BY <1>1, <1>3
  <2>2. n = attempt' /\ l = link
    BY <1>1
  <2>3. /\ I \in Handler /\ I.kind = "none" /\ I.exit = "answer"
    BY IdleIsHandler
  <2> HIDE DEF n, l, I
  <2>4. /\ d \in Handler /\ d.pc = "authorizing" /\ d.attempt = n /\ d.linked = l
        /\ d.kind = "none" /\ d.exit = "answer"
    BY <2>1, <2>3 DEF Handler, Working
  <2> QED
    BY <2>2, <2>4
<1> HIDE DEF d
<1>5. Fits(d, command, attempt', request, bound, replies)
  BY <1>3, <1>4 DEF Fits, Beginning, Answering, Leaving, Inv, Effects
<1>6. /\ handlers' \in [Handlers -> Handler] /\ handlers'[h] = d
      /\ \A g \in Handlers \ {h} : handlers'[g] = handlers[g]
  BY <1>1, <1>4 DEF Inv, TypeOK
<1>7. Fit'
  <2> SUFFICES ASSUME NEW g \in Handlers
               PROVE  Fits(handlers'[g], command, attempt', request, bound, replies)
    BY <1>2 DEF Fit
  <2>1. CASE g = h
    BY <1>5, <1>6, <2>1
  <2>2. CASE g # h
    <3>1. handlers[g] \in Handler
          /\ Fits(handlers[g], command, attempt, request, bound, replies)
      BY HandlerFits
    <3>2. Fits(handlers[g], command, attempt', request, bound, replies)
      BY <1>3, <3>1, FitsMore
    <3> QED
      BY <1>6, <2>2, <3>2
  <2> QED
    BY <2>1, <2>2
<1>8. \A g \in Handlers \ {h} :
        ~At(g, "idle")' => ~At(g, "idle") /\ handlers'[g].attempt # attempt'
  <2> SUFFICES ASSUME NEW g \in Handlers \ {h}, ~At(g, "idle")'
               PROVE  ~At(g, "idle") /\ handlers'[g].attempt # attempt'
    OBVIOUS
  <2>1. handlers'[g] = handlers[g] /\ ~At(g, "idle")
    BY <1>6 DEF At
  <2>2. handlers[g].attempt \in 1..attempt
    BY <2>1, HandlerFits DEF Fits, At
  <2> QED
    BY <1>1, <1>3, <2>1, <2>2
<1>9. Apart'
  <2> SUFFICES ASSUME NEW f \in Handlers, NEW g \in Handlers, f # g,
                      ~At(f, "idle")', ~At(g, "idle")'
               PROVE  handlers'[f].attempt # handlers'[g].attempt
    BY DEF Apart
  <2>1. CASE f = h
    BY <1>4, <1>6, <1>8, <2>1
  <2>2. CASE g = h
    BY <1>4, <1>6, <1>8, <2>2
  <2>3. CASE f # h /\ g # h
    BY <1>6, <1>8, <2>3 DEF Inv, Apart
  <2> QED
    BY <2>1, <2>2, <2>3
<1>10. Named'
  <2> SUFFICES ASSUME NEW g \in Handlers, owner' = worker[g], Alone(g)
               PROVE  handlers'[g].attempt = attempt'
    BY <1>2 DEF Named, Alone, Latest
  <2>1. g = h
    BY <1>1 DEF Alone
  <2> QED
    BY <1>4, <1>6, <2>1
<1>11. Once'
  <2> SUFFICES ASSUME ~strayed
               PROVE  /\ \A k \in Kinds : replies[k] <= 1
                      /\ \A g \in Handlers :
                           ~(handlers'[g].pc = "posting" /\ handlers'[g].attempt = attempt')
    BY <1>2 DEF Once, At, Latest
  <2>1. \A g \in Handlers :
          ~(handlers'[g].pc = "posting" /\ handlers'[g].attempt = attempt')
    BY <1>4, <1>6, <1>8 DEF At
  <2> QED
    BY <2>1 DEF Inv, Once
<1>12. target = "none"
  BY <1>1 DEF Inv, TypeOK
<1>13. TypeOK'
  <2>1. worker[h] \in Workers /\ worker[h] # NoWorker
    BY CommentCommandAssumption DEF Inv, TypeOK
  <2> QED
    BY <1>1, <1>2, <1>3, <1>6, <1>12, <2>1 DEF Inv, TypeOK
<1>14. EndIsTrue' /\ Effects'
  BY <1>1, <1>2, <1>12 DEF Inv, EndIsTrue, Effects
<1> QED
  BY <1>7, <1>9, <1>10, <1>11, <1>13, <1>14 DEF Inv

(* A handler that ends its work on the row is its owner, and goes idle.       *)
LEMMA EndKeeps ==
  ASSUME Inv, NEW h \in Handlers, Leave(h), owner' = NoWorker,
         UNCHANGED <<worker, thread, replies, command, attempt, effects, strayed>>
  PROVE  handlers' \in [Handlers -> Handler] /\ Fit' /\ Apart' /\ Named' /\ Once'
<1>1. Becomes(h, Idle)
  BY LeaveBecomes
<1>2. owner' \in {owner, NoWorker} /\ bound' \in BOOLEAN /\ (bound => bound')
      /\ (request # 0 => request' # 0)
  BY DEF Inv, TypeOK, effects
<1>3. Kept(h, Idle)
  BY <1>1, <1>2, BecomesKept
<1> QED
  BY <1>3, StepKeeps

LEMMA CompleteInv ==
  ASSUME Inv, NEW h \in Handlers, Complete(h) PROVE Inv'
<1> DEFINE kind == handlers[h].kind
<1>1. /\ At(h, "ending") /\ handlers[h].exit = "answer" /\ Leave(h)
      /\ status' = EndOf(kind) /\ owner' = NoWorker /\ lease' = "none"
      /\ reply' = kind /\ target' = TargetOf(kind) /\ link' = (kind = "proposal")
      /\ UNCHANGED <<worker, thread, replies, command, attempt, effects, strayed>>
  BY DEF Complete, Ending, Free
<1>2. UNCHANGED <<head, crowded, request, bound>>
  BY <1>1 DEF thread, effects
<1>3. /\ handlers' \in [Handlers -> Handler]
      /\ Fit' /\ Apart' /\ Named' /\ Once'
  BY <1>1, EndKeeps
<1>4. /\ kind \in {"queued", "proposal", "denied", "ignored"} /\ replies[kind] > 0
      /\ (kind = "queued" => request # 0) /\ (kind = "proposal" => bound)
  BY <1>1, HandlerFits DEF Fits, At, Leaving, Answers, Kinds
<1> HIDE DEF kind
<1>5. /\ status' \in {"completed", "denied", "ignored"}
      /\ target' \in {"none", "run", "proposal"}
      /\ (target' # "none" <=> status' = "completed")
      /\ reply' \in Kinds
  BY <1>1, <1>4 DEF EndOf, TargetOf, Kinds
<1>6. TypeOK'
  BY <1>1, <1>2, <1>3, <1>5 DEF Inv, TypeOK, Ends
<1>7. /\ (target' = "run" => kind = "queued") /\ (target' = "proposal" => kind = "proposal")
  BY <1>1 DEF TargetOf
<1>8. Effects'
  BY <1>1, <1>2, <1>4 DEF Inv, Effects
<1>9. EndIsTrue'
  <2>1. reply' # "none" => replies'[reply'] > 0
    BY <1>1, <1>4
  <2>2. EndOf(reply') = status'
    BY <1>1
  <2>3. target' = "run" => request # 0 /\ ~bound
    BY <1>4, <1>7 DEF Inv, Effects
  <2>4. target' = "proposal" => link' /\ bound /\ request = 0
    BY <1>1, <1>4, <1>7 DEF Inv, Effects
  <2> QED
    BY <1>2, <2>1, <2>2, <2>3, <2>4 DEF EndIsTrue
<1> QED
  BY <1>3, <1>6, <1>8, <1>9 DEF Inv

LEMMA ReleaseInv ==
  ASSUME Inv, NEW h \in Handlers, Release(h) PROVE Inv'
<1>1. /\ Leave(h) /\ status = "processing"
      /\ status' = "queued" /\ owner' = NoWorker /\ lease' = "none"
      /\ UNCHANGED <<worker, thread, replies, command, attempt, link, target, reply,
                     effects, strayed>>
  BY DEF Release, Owns, Free
<1>2. UNCHANGED <<head, crowded, request, bound>>
  BY <1>1 DEF thread, effects
<1>3. /\ handlers' \in [Handlers -> Handler]
      /\ Fit' /\ Apart' /\ Named' /\ Once'
  BY <1>1, EndKeeps
<1>4. target = "none"
  BY <1>1 DEF Inv, TypeOK
<1>5. TypeOK'
  BY <1>1, <1>2, <1>3, <1>4 DEF Inv, TypeOK
<1>6. EndIsTrue' /\ Effects'
  BY <1>1, <1>2, <1>4 DEF Inv, EndIsTrue, Effects
<1> QED
  BY <1>3, <1>5, <1>6 DEF Inv

LEMMA FailInv ==
  ASSUME Inv, NEW h \in Handlers, Fail(h) PROVE Inv'
<1> DEFINE kind == handlers[h].kind
<1>1. /\ At(h, "ending") /\ handlers[h].exit = "fail" /\ Leave(h)
      /\ status = "processing"
      /\ status' = "failed" /\ owner' = NoWorker /\ lease' = "none"
      /\ reply' = IF kind = "error" THEN "error" ELSE reply
      /\ UNCHANGED <<worker, thread, replies, command, attempt, link, target,
                     effects, strayed>>
  BY DEF Fail, Ending, Owns, Free
<1>2. UNCHANGED <<head, crowded, request, bound>>
  BY <1>1 DEF thread, effects
<1>3. /\ handlers' \in [Handlers -> Handler]
      /\ Fit' /\ Apart' /\ Named' /\ Once'
  BY <1>1, EndKeeps
<1>4. kind = "error" => replies["error"] > 0
  BY <1>1, HandlerFits DEF Fits, At, Leaving, Answers
<1> HIDE DEF kind
<1>5. target = "none"
  BY <1>1 DEF Inv, TypeOK
<1>6. reply' \in Kinds \cup {"none"}
  BY <1>1 DEF Inv, TypeOK, Kinds
<1>7. TypeOK'
  BY <1>1, <1>2, <1>3, <1>5, <1>6 DEF Inv, TypeOK, Ends
<1>8. EndIsTrue' /\ Effects'
  BY <1>1, <1>2, <1>4, <1>5 DEF Inv, EndIsTrue, Effects
<1> QED
  BY <1>3, <1>7, <1>8 DEF Inv

-----------------------------------------------------------------------------
LEMMA NextInv == Inv /\ [Next]_vars => Inv'
<1> SUFFICES ASSUME Inv, [Next]_vars PROVE Inv'
  OBVIOUS
<1>1. CASE UNCHANGED vars
  <2>1. UNCHANGED <<worker, head, crowded, replies, command, status, attempt, owner, lease,
                    link, target, reply, request, bound, handlers, strayed>>
    BY <1>1 DEF vars, thread, row, effects
  <2>2. Fit' /\ Apart' /\ Named' /\ Once'
    BY <2>1, StayKeeps
  <2>3. TypeOK' /\ EndIsTrue' /\ Effects'
    BY <2>1 DEF Inv, TypeOK, EndIsTrue, Effects
  <2> QED
    BY <2>2, <2>3 DEF Inv
<1>2. CASE Push \/ Crowd \/ AcceptCommand \/ LeaseExpires
  BY <1>2, EnvironmentInv
<1>3. ASSUME NEW h \in Handlers,
             Claim(h) \/ Handle(h) \/ Heartbeat(h) \/ HeartbeatFails(h) \/ Crash(h)
      PROVE  Inv'
  <2>1. CASE Claim(h)
    BY <2>1, ClaimInv
  <2>2. CASE Handle(h)
    BY <2>2, AuthorizeInv, ReadPullRequestInv, QueueReviewInv, PrepareProposalInv,
       BindProposalInv, SearchReplyInv, PostReplyInv, StepFailsInv, CloseInv, CompleteInv,
       ReleaseInv, FailInv, LeaveInv DEF Handle
  <2>3. CASE Heartbeat(h)
    BY <2>3, HeartbeatInv
  <2>4. CASE HeartbeatFails(h)
    BY <2>4, HeartbeatFailsInv
  <2>5. CASE Crash(h)
    BY <2>5, LeaveInv
  <2> QED
    BY <1>3, <2>1, <2>2, <2>3, <2>4, <2>5
<1> QED
  BY <1>1, <1>2, <1>3 DEF Next

LEMMA Invariance == Spec => []Inv
  BY InitInv, NextInv, PTL DEF Spec

(* The row keeps its types, among them that a lease has an owner and that a    *)
(* command has a target exactly when it is completed (checks of the tables).  *)
THEOREM TypeCorrect == Spec => []TypeOK
<1>1. Inv => TypeOK
  BY DEF Inv
<1> QED
  BY <1>1, Invariance, PTL

(* What an ended command says happened did happen.                           *)
THEOREM EndsTruly == Spec => []EndIsTrue
<1>1. Inv => EndIsTrue
  BY DEF Inv
<1> QED
  BY <1>1, Invariance, PTL

(* Each answer is given once unless a handler posts after another one claimed. *)
THEOREM RepliesOnce == Spec => []OneReplyEach
<1>1. Inv => OneReplyEach
  BY DEF Inv, Once, OneReplyEach
<1> QED
  BY <1>1, Invariance, PTL

-----------------------------------------------------------------------------
(* Who ends the work on a command.                                           *)
EndsAsLatest ==
  status = "processing" /\ status' # "processing"
    => \E h \in Handlers :
         /\ At(h, "ending") /\ handlers'[h].pc = "idle"
         /\ Latest(h) \/ \E g \in Handlers \ {h} : worker[g] = worker[h]

LEMMA EnderIsLatest ==
  ASSUME Inv, [Next]_vars PROVE EndsAsLatest
<1> SUFFICES ASSUME status = "processing", status' # "processing"
             PROVE  \E h \in Handlers :
                      /\ At(h, "ending") /\ handlers'[h].pc = "idle"
                      /\ Latest(h) \/ \E g \in Handlers \ {h} : worker[g] = worker[h]
  BY DEF EndsAsLatest
<1>1. PICK h \in Handlers : Complete(h) \/ Release(h) \/ Fail(h)
  <2>1. CASE UNCHANGED vars
    BY <2>1 DEF vars, row
  <2>2. CASE Push \/ Crowd \/ AcceptCommand \/ LeaseExpires
    BY <2>2 DEF Push, Crowd, AcceptCommand, LeaseExpires, row
  <2>3. ASSUME NEW h \in Handlers,
               Claim(h) \/ Heartbeat(h) \/ HeartbeatFails(h) \/ Crash(h)
        PROVE  FALSE
    BY <2>3 DEF Claim, Heartbeat, HeartbeatFails, Crash, row
  <2>4. ASSUME NEW h \in Handlers, Handle(h)
        PROVE  Complete(h) \/ Release(h) \/ Fail(h)
    <3>1. ~(Authorize(h) \/ ReadPullRequest(h) \/ QueueReview(h) \/ PrepareProposal(h))
      BY DEF Authorize, ReadPullRequest, QueueReview, PrepareProposal, row
    <3>2. ~(BindProposal(h) \/ SearchReply(h) \/ PostReply(h) \/ StepFails(h))
      BY DEF BindProposal, SearchReply, PostReply, StepFails, row
    <3>3. ~(Close(h) \/ EndRefused(h))
      BY DEF Close, EndRefused, row
    <3> QED
      BY <2>4, <3>1, <3>2, <3>3 DEF Handle
  <2> QED
    BY <2>1, <2>2, <2>3, <2>4 DEF Next
<1>2. At(h, "ending") /\ owner = worker[h] /\ Leave(h)
  BY <1>1 DEF Complete, Release, Fail, Ending, Owns
<1>3. handlers'[h].pc = "idle"
  BY <1>2, IdleIsHandler DEF Leave, Inv, TypeOK
<1>4. Alone(h) => Latest(h)
  BY <1>2 DEF Inv, Named, At
<1> QED
  BY <1>2, <1>3, <1>4 DEF Alone

(* complete, release and fail compare the name of the process only; even so    *)
(* the work of the latest claim is never ended by another process's handler.   *)
THEOREM LatestClaimEnds == Spec => OnlyLatestClaimEnds
<1>1. Inv /\ [Next]_vars => [EndsAsLatest]_vars
  BY EnderIsLatest
<1> QED
  BY <1>1, Invariance, PTL DEF Spec, OnlyLatestClaimEnds, EndsAsLatest

-----------------------------------------------------------------------------
(* The command keeps its promise to its author.                               *)

LEMMA LifeInit == Init => Life!Init
  BY DEF Init, Life!Init, PhaseOf, Ends

LEMMA OpenIsNotEnded ==
  ASSUME NEW s, s \notin Ends PROVE PhaseOf(s) = "open"
  BY DEF PhaseOf

(* A step that neither ends the command nor gives it an effect.                *)
LEMMA LifeStays ==
  ASSUME UNCHANGED <<request, bound>>,
         status' = status \/ (status \notin Ends /\ status' \notin Ends)
  PROVE  [Life!Next]_(Life!vars)
<1>1. PhaseOf(status') = PhaseOf(status)
  BY OpenIsNotEnded
<1> QED
  BY <1>1 DEF Life!vars, Life!Next

(* The end of a command that was open, and had its effect if it is completed. *)
LEMMA LifeEnds ==
  ASSUME UNCHANGED <<request, bound>>, status \notin Ends, status' \in Ends,
         status' = "completed" => request # 0 \/ bound
  PROVE  Life!Next
<1>1. PhaseOf(status) = "open" /\ PhaseOf(status') = status'
  BY DEF PhaseOf
<1>2. Life!End(status')
  BY <1>1 DEF Life!End
<1> QED
  BY <1>2 DEF Life!Next, Ends

LEMMA LifeReview ==
  ASSUME Inv, NEW h \in Handlers, QueueReview(h) PROVE [Life!Next]_(Life!vars)
<1>1. handlers[h].pc = "queueing"
  BY DEF QueueReview, At
<1>2. command = "review" /\ handlers[h].head # 0 /\ handlers[h].head \in 0..MaxHead
  BY <1>1, HandlerFits DEF Fits, Handler
<1>3. UNCHANGED <<status, bound>> /\ request \in {0, request'} /\ request' = handlers[h].head
  BY DEF QueueReview, RequestReview, row
<1>4. ~bound /\ request' \in Heads
  BY <1>2, <1>3, CommentCommandAssumption DEF Inv, Effects, Heads
<1>5. CASE request = 0
  <2>1. Life!Review
    BY <1>3, <1>4, <1>5 DEF Life!Review
  <2> QED
    BY <2>1 DEF Life!Next
<1>6. CASE request = request'
  BY <1>3, <1>6, LifeStays
<1> QED
  BY <1>3, <1>5, <1>6

LEMMA LifePropose ==
  ASSUME Inv, NEW h \in Handlers, BindProposal(h) PROVE [Life!Next]_(Life!vars)
<1>1. handlers[h].pc = "binding" /\ status = "processing"
  BY DEF BindProposal, Bindable, Owns, At
<1>2. command = "propose_fix"
  BY <1>1, HandlerFits DEF Fits
<1>3. UNCHANGED <<status, request>> /\ bound' = TRUE /\ request = 0
  BY <1>2 DEF BindProposal, Inv, Effects
<1>4. PhaseOf(status) = "open"
  BY <1>1 DEF PhaseOf, Ends
<1>5. CASE bound
  BY <1>3, <1>5, LifeStays
<1>6. CASE ~bound
  <2>1. Life!Propose
    BY <1>3, <1>4, <1>6 DEF Life!Propose
  <2> QED
    BY <2>1 DEF Life!Next
<1> QED
  BY <1>5, <1>6 DEF Inv, TypeOK

LEMMA LifeNext ==
  ASSUME Inv, [Next]_vars PROVE [Life!Next]_(Life!vars)
<1>1. CASE UNCHANGED vars
  BY <1>1, LifeStays DEF vars, row, effects
<1>2. CASE Push \/ Crowd \/ AcceptCommand \/ LeaseExpires
  <2>1. UNCHANGED <<request, bound>>
    BY <1>2 DEF Push, Crowd, AcceptCommand, LeaseExpires, effects
  <2>2. status' = status \/ (status = "absent" /\ status' = "queued")
    BY <1>2 DEF Push, Crowd, AcceptCommand, LeaseExpires, row
  <2> QED
    BY <2>1, <2>2, LifeStays DEF Ends
<1>3. ASSUME NEW h \in Handlers,
             Claim(h) \/ Heartbeat(h) \/ HeartbeatFails(h) \/ Crash(h)
      PROVE  [Life!Next]_(Life!vars)
  <2>1. UNCHANGED <<request, bound>>
    BY <1>3 DEF Claim, Heartbeat, HeartbeatFails, Crash, effects
  <2>2. \/ status' = status
        \/ status \in {"queued", "processing"} /\ status' = "processing"
    BY <1>3 DEF Claim, Claimable, Heartbeat, HeartbeatFails, Crash, row
  <2> QED
    BY <2>1, <2>2, LifeStays DEF Ends
<1>4. ASSUME NEW h \in Handlers, Handle(h)
      PROVE  [Life!Next]_(Life!vars)
  <2>1. CASE Authorize(h) \/ ReadPullRequest(h) \/ PrepareProposal(h) \/ SearchReply(h)
    BY <2>1, LifeStays
    DEF Authorize, ReadPullRequest, PrepareProposal, SearchReply, row, effects
  <2>2. CASE PostReply(h) \/ StepFails(h) \/ Close(h) \/ EndRefused(h)
    BY <2>2, LifeStays DEF PostReply, StepFails, Close, EndRefused, row, effects
  <2>3. CASE Release(h)
    BY <2>3, LifeStays DEF Release, Owns, Free, Ends, effects
  <2>4. CASE Fail(h)
    BY <2>4, LifeEnds DEF Fail, Owns, Free, Ends, effects
  <2>5. CASE Complete(h)
    <3>2. UNCHANGED <<request, bound>> /\ status = "processing"
      BY <2>5 DEF Complete, Owns, effects
    <3>3. status' = EndOf(handlers[h].kind) /\ At(h, "ending") /\ handlers[h].exit = "answer"
      BY <2>5 DEF Complete, Free, Ending
    <3>4. /\ handlers[h].kind \in {"queued", "proposal", "denied", "ignored"}
          /\ (handlers[h].kind = "queued" => request # 0)
          /\ (handlers[h].kind = "proposal" => bound)
      BY <3>3, HandlerFits DEF Fits, At, Leaving, Answers, Kinds
    <3>5. status' \in Ends /\ (status' = "completed" => request # 0 \/ bound)
      BY <3>3, <3>4 DEF EndOf, Ends
    <3> QED
      BY <3>2, <3>5, LifeEnds DEF Ends
  <2>6. CASE QueueReview(h)
    BY <2>6, LifeReview
  <2>7. CASE BindProposal(h)
    BY <2>7, LifePropose
  <2> QED
    BY <1>4, <2>1, <2>2, <2>3, <2>4, <2>5, <2>6, <2>7 DEF Handle
<1> QED
  BY <1>1, <1>2, <1>3, <1>4 DEF Next

(* The table, the leases and the retries implement one effect and one end.     *)
THEOREM LifeImplemented == Spec => ImplementsCommandLife
<1>1. Init => Life!Init
  BY LifeInit
<1>2. Inv /\ [Next]_vars => [Life!Next]_(Life!vars)
  BY LifeNext
<1> QED
  BY <1>1, <1>2, Invariance, PTL DEF Spec, ImplementsCommandLife, Life!Spec
=============================================================================
