----------------------- MODULE PatchPublicationProofs -----------------------
(***************************************************************************)
(* What holds of PatchPublication for any number of requests.  The argument: *)
(* a request at work that did not outlive its lease is its only holder, so   *)
(* what it learnt from GitHub's comments stays true until it acts on it, as  *)
(* far as comments that are not strays go.                                   *)
(***************************************************************************)
EXTENDS PatchPublication, TLAPS

PCs == {"new", "release", "done"} \cup Publishing

LEMMA StepIsPublisher ==
  \A pc \in PCs : Step(pc) \in Publisher /\ Step(pc).pc = pc
  BY DEF Step, Publisher, PCs

LEMMA PublisherSteps ==
  ASSUME NEW p \in Publisher
  PROVE  \A pc \in PCs : [p EXCEPT !.pc = pc] \in Publisher
  BY DEF Publisher, PCs

(* A request that moves on, and the requests that do not. *)
LEMMA GotoMoves ==
  ASSUME TypeOK, NEW q \in Requests, NEW pc \in PCs, Goto(q, pc)
  PROVE  /\ publishers' \in [Requests -> Publisher]
         /\ publishers'[q] = Step(pc)
         /\ publishers'[q].pc = pc /\ ~publishers'[q].created
         /\ \A p \in Requests \ {q} : publishers'[p] = publishers[p]
<1>1. Step(pc) \in Publisher /\ Step(pc).pc = pc /\ ~Step(pc).created
  BY StepIsPublisher DEF Step
<1>2. publishers' = [publishers EXCEPT ![q] = Step(pc)]
  BY DEF Goto
<1>3. publishers \in [Requests -> Publisher]
  BY DEF TypeOK
<1> QED
  BY <1>1, <1>2, <1>3

LEMMA KeepMoves ==
  ASSUME TypeOK, NEW q \in Requests, NEW pc \in PCs, Keep(q, pc)
  PROVE  /\ publishers' \in [Requests -> Publisher]
         /\ publishers'[q].pc = pc
         /\ publishers'[q].found = publishers[q].found
         /\ publishers'[q].created = publishers[q].created
         /\ \A p \in Requests \ {q} : publishers'[p] = publishers[p]
<1>1. publishers \in [Requests -> Publisher] /\ publishers[q] \in Publisher
  BY DEF TypeOK
<1>2. [publishers[q] EXCEPT !.pc = pc] \in Publisher
  BY <1>1, PublisherSteps
<1>3. publishers' = [publishers EXCEPT ![q] = [publishers[q] EXCEPT !.pc = pc]]
  BY DEF Keep
<1>4. publishers'[q] = [publishers[q] EXCEPT !.pc = pc]
  BY <1>1, <1>3
<1>5. /\ publishers' \in [Requests -> Publisher]
      /\ \A p \in Requests \ {q} : publishers'[p] = publishers[p]
  BY <1>1, <1>2, <1>3
<1> QED
  BY <1>1, <1>4, <1>5 DEF Publisher

LEMMA ConfirmMoves ==
  ASSUME TypeOK, NEW q \in Requests, NEW c \in Requests, NEW b \in BOOLEAN,
         Confirm(q, c, b)
  PROVE  /\ publishers' \in [Requests -> Publisher]
         /\ publishers'[q].pc = "confirm"
         /\ publishers'[q].found = c /\ publishers'[q].created = b
         /\ \A p \in Requests \ {q} : publishers'[p] = publishers[p]
<1> DEFINE next == [pc |-> "confirm", found |-> c, created |-> b]
<1>1. next \in Publisher
  BY DEF Publisher, Publishing
<1>2. /\ publishers \in [Requests -> Publisher]
      /\ publishers' = [publishers EXCEPT ![q] = next]
  BY DEF TypeOK, Confirm
<1>3. publishers'[q] = next
  BY <1>2
<1> QED
  BY <1>1, <1>2, <1>3

-----------------------------------------------------------------------------
LEMMA InitTyped == Init => TypeOK
<1> SUFFICES ASSUME Init PROVE TypeOK
  OBVIOUS
<1>1. Step("new") \in Publisher
  BY StepIsPublisher DEF PCs
<1> QED
  BY <1>1 DEF Init, TypeOK

LEMMA NextTyped == TypeOK /\ [Next]_vars => TypeOK'
<1> SUFFICES ASSUME TypeOK, [Next]_vars PROVE TypeOK'
  OBVIOUS
<1> USE DEF github, database, proposal
<1>1. CASE Push \/ Supersede \/ Cancel
  BY <1>1 DEF Push, Supersede, Cancel, TypeOK
<1>2. ASSUME NEW decision \in {"approved", "rejected"}, Decide(decision) PROVE TypeOK'
  BY <1>2 DEF Decide, Decidable, TypeOK
<1>3. CASE DecideStale
  BY <1>3 DEF DecideStale, MarkStale, TypeOK
<1>4. ASSUME NEW q \in Requests, Prepare(q) PROVE TypeOK'
  <2>1. CASE PrepareReady(q)
    BY <2>1, GotoMoves, PatchPublicationAssumption
       DEF PrepareReady, TypeOK, PCs, Publishing
  <2>2. CASE PrepareStale(q) \/ PrepareRefused(q)
    BY <2>2, GotoMoves DEF PrepareStale, PrepareRefused, MarkStale, TypeOK, PCs
  <2> QED
    BY <1>4, <2>1, <2>2 DEF Prepare
<1>5. ASSUME NEW q \in Requests, HeadUnchanged(q) \/ HeadMoved(q) PROVE TypeOK'
  <2>1. AfterMove(q) \in PCs
    BY DEF AfterMove, PCs, Publishing
  <2>2. publishers' \in [Requests -> Publisher]
    BY <1>5, <2>1, GotoMoves, KeepMoves DEF HeadUnchanged, HeadMoved, PCs, Publishing
  <2> QED
    BY <1>5, <2>2 DEF HeadUnchanged, HeadMoved, TypeOK
<1>6. ASSUME NEW q \in Requests, Find(q) \/ Recover(q) PROVE TypeOK'
  <2>1. comments \subseteq Requests
    BY DEF TypeOK
  <2>2. publishers' \in [Requests -> Publisher]
    BY <1>6, <2>1, GotoMoves, ConfirmMoves DEF Find, Recover, PCs, Publishing
  <2> QED
    BY <1>6, <2>2 DEF Find, Recover, TypeOK
<1>7. ASSUME NEW q \in Requests, Create(q) \/ CreateFails(q) PROVE TypeOK'
  <2>1. publishers' \in [Requests -> Publisher]
    BY <1>7, GotoMoves, ConfirmMoves DEF Create, CreateFails, PCs, Publishing
  <2> QED
    BY <1>7, <2>1 DEF Create, CreateFails, TypeOK
<1>8. ASSUME NEW q \in Requests, Land(q) PROVE TypeOK'
  BY <1>8 DEF Land, TypeOK
<1>9. ASSUME NEW q \in Requests, Delete(q) \/ DeleteFails(q) \/ RecordRefused(q)
      PROVE  TypeOK'
  <2>1. publishers[q].found \in Requests \cup {NoRequest}
    BY DEF TypeOK, Publisher
  <2>2. publishers' \in [Requests -> Publisher]
    BY <1>9, GotoMoves DEF Delete, DeleteFails, RecordRefused, PCs
  <2> QED
    BY <1>9, <2>1, <2>2 DEF Delete, DeleteFails, RecordRefused, TypeOK
<1>10. ASSUME NEW q \in Requests, Record(q) PROVE TypeOK'
  <2>1. publishers[q].found \in Requests \cup {NoRequest}
    BY DEF TypeOK, Publisher
  <2>2. publishers' \in [Requests -> Publisher]
    BY <1>10, GotoMoves DEF Record, PCs
  <2> QED
    BY <1>10, <2>1, <2>2 DEF Record, Recordable, Conflict, IsStale, TypeOK
<1>11. ASSUME NEW q \in Requests, Release(q) PROVE TypeOK'
  <2>1. publishers' \in [Requests -> Publisher]
    BY <1>11, GotoMoves DEF Release, PCs
  <2> QED
    BY <1>11, <2>1 DEF Release, TypeOK
<1>12. ASSUME NEW q \in Requests, StepFails(q) \/ Abandon(q) PROVE TypeOK'
  BY <1>12, GotoMoves DEF StepFails, Abandon, TypeOK, PCs
<1>13. CASE LeaseExpires
  BY <1>13 DEF LeaseExpires, TypeOK
<1>14. CASE UNCHANGED vars
  BY <1>14 DEF vars, TypeOK
<1>15. ASSUME NEW c \in comments, DeleteLands(c) PROVE TypeOK'
  BY <1>15 DEF DeleteLands, TypeOK
<1> QED
  BY <1>1, <1>2, <1>3, <1>4, <1>5, <1>6, <1>7, <1>8, <1>9, <1>10, <1>11, <1>12,
     <1>13, <1>14, <1>15 DEF Next

(* Every variable has its type, the lease columns are set together, and a    *)
(* rejected proposal has no reference, however many requests publish it.     *)
THEOREM TypeCorrect == Spec => []TypeOK
  BY InitTyped, NextTyped, PTL DEF Spec

-----------------------------------------------------------------------------
(* The inductive invariant.                                                 *)

(* A request at work that is no stray holds a live lease on an unpublished   *)
(* proposal; it is the only one.                                            *)
Exclusive ==
  \A q \in Requests \ strays :
    publishers[q].pc \in Publishing =>
      owner = q /\ lease = "live" /\ reference = NoRequest

(* What it knows of the comments before it creates one, and while it does    *)
(* not know whether it did.                                                  *)
Informed ==
  \A q \in Requests \ strays :
    /\ At(q, "create") => comments \subseteq strays
    /\ At(q, "recover") => comments \subseteq strays \cup {q}

(* The comment that the owner of the lease is about to record is there, if   *)
(* it is not that of a stray.                                                *)
FoundIsPosted ==
  \A q \in Requests :
    owner = q /\ publishers[q].pc \in {"confirm", "record"} =>
      publishers[q].found \in comments \cup strays

(* What a request created, and will delete, is its own.                      *)
OwnOnly ==
  \A q \in Requests :
    publishers[q].created \/ At(q, "delete") => publishers[q].found = q

Inv ==
  /\ TypeOK
  /\ Exclusive /\ Informed /\ FoundIsPosted /\ OwnOnly
  /\ OneSuggestion /\ ReferenceIsPosted

LEMMA InitInv == Init => Inv
  BY InitTyped DEF Init, Inv, Exclusive, Informed, FoundIsPosted, OwnOnly,
     OneSuggestion, ReferenceIsPosted, Step, At, Publishing

-----------------------------------------------------------------------------
(* Steps that preserve the invariant for the same reason.                    *)

Untouched(p) == publishers'[p] = publishers[p]

(* Steps of people: nothing the invariant relates changes. *)
LEMMA Quiet ==
  ASSUME Inv, TypeOK', UNCHANGED <<comments, reference, owner, lease, publishers, strays>>
  PROVE  Inv'
  BY DEF Inv, Exclusive, Informed, FoundIsPosted, OwnOnly, OneSuggestion,
         ReferenceIsPosted, At

(* A request gives up, with its lease or without. *)
LEMMA Leaves ==
  ASSUME Inv, TypeOK', NEW q \in Requests,
         publishers'[q].pc \in {"release", "done"},
         publishers'[q].created => publishers'[q].found = q,
         \A p \in Requests \ {q} : Untouched(p),
         UNCHANGED <<comments, reference, strays>>,
         UNCHANGED <<owner, lease>> \/ (owner = q /\ owner' = NoRequest)
  PROVE  Inv'
<1> USE PatchPublicationAssumption
<1>1. Exclusive'
  BY DEF Inv, Exclusive, Untouched, Publishing
<1>2. Informed'
  BY DEF Inv, Informed, Untouched, At
<1>3. FoundIsPosted'
  BY DEF Inv, FoundIsPosted, Untouched
<1>4. OwnOnly'
  BY DEF Inv, OwnOnly, Untouched, At
<1>5. OneSuggestion' /\ ReferenceIsPosted'
  BY DEF Inv, OneSuggestion, ReferenceIsPosted
<1> QED
  BY <1>1, <1>2, <1>3, <1>4, <1>5 DEF Inv

(* A request goes on without changing anything but what it is at. *)
LEMMA GoesOn ==
  ASSUME Inv, TypeOK', NEW q \in Requests,
         publishers[q].pc \in Publishing, publishers'[q].pc \in Publishing,
         UNCHANGED <<comments, reference, owner, lease, strays>>,
         \A p \in Requests \ {q} : Untouched(p),
         publishers'[q].created \/ publishers'[q].pc = "delete"
           => publishers'[q].found = q,
         publishers'[q].pc = "create" => comments \subseteq strays,
         publishers'[q].pc = "recover" => comments \subseteq strays \cup {q},
         publishers'[q].pc \in {"confirm", "record"} /\ owner = q
           => publishers'[q].found \in comments \cup strays
  PROVE  Inv'
<1>1. Exclusive'
  BY DEF Inv, Exclusive, Untouched
<1>2. Informed'
  BY DEF Inv, Informed, Untouched, At
<1>3. FoundIsPosted'
  BY DEF Inv, FoundIsPosted, Untouched
<1>4. OwnOnly'
  BY DEF Inv, OwnOnly, Untouched, At
<1>5. OneSuggestion' /\ ReferenceIsPosted'
  BY DEF Inv, OneSuggestion, ReferenceIsPosted
<1> QED
  BY <1>1, <1>2, <1>3, <1>4, <1>5 DEF Inv

(* Two requests at work that are no strays are one. *)
LEMMA Alone ==
  ASSUME Inv, NEW p \in Requests \ strays, NEW q \in Requests \ strays,
         publishers[p].pc \in Publishing, publishers[q].pc \in Publishing
  PROVE  p = q
  BY DEF Inv, Exclusive

-----------------------------------------------------------------------------
(* The steps that change what the invariant relates.                        *)

LEMMA PrepareReadyKeeps ==
  ASSUME Inv, TypeOK', NEW q \in Requests, PrepareReady(q)
  PROVE  Inv'
<1> USE PatchPublicationAssumption
<1>1. /\ publishers'[q].pc = "load" /\ ~publishers'[q].created
      /\ \A p \in Requests \ {q} : Untouched(p)
  BY GotoMoves DEF PrepareReady, Inv, PCs, Publishing, Untouched
<1>2. /\ UNCHANGED <<comments, reference, strays>>
      /\ reference = NoRequest /\ owner' = q /\ lease' = "live"
      /\ owner \in {NoRequest, q} \/ lease = "expired"
      /\ At(q, "new")
  BY DEF PrepareReady, LeaseFree, proposal
<1>3. Exclusive'
  BY <1>1, <1>2 DEF Inv, Exclusive, Untouched, At, Publishing
<1>4. Informed'
  BY <1>1, <1>2 DEF Inv, Informed, Untouched, At
<1>5. FoundIsPosted'
  BY <1>1, <1>2 DEF Inv, FoundIsPosted, Untouched
<1>6. OwnOnly'
  BY <1>1, <1>2 DEF Inv, OwnOnly, Untouched, At
<1>7. OneSuggestion' /\ ReferenceIsPosted'
  BY <1>2 DEF Inv, OneSuggestion, ReferenceIsPosted
<1> QED
  BY <1>3, <1>4, <1>5, <1>6, <1>7 DEF Inv

LEMMA HeadKeeps ==
  ASSUME Inv, TypeOK', NEW q \in Requests, HeadUnchanged(q) \/ HeadMoved(q)
  PROVE  Inv'
<1> USE DEF Untouched, PCs, Publishing
<1>1. UNCHANGED <<comments, reference, owner, lease, strays>>
  BY DEF HeadUnchanged, HeadMoved, github, database, proposal
<1>2. ASSUME NEW pc \in {"check", "find"}, Goto(q, pc), publishers[q].pc \in Publishing
      PROVE  Inv'
  <2>1. publishers'[q].pc = pc /\ ~publishers'[q].created
        /\ \A p \in Requests \ {q} : Untouched(p)
    BY <1>2, GotoMoves DEF Inv
  <2> QED
    BY <1>1, <1>2, <2>1, GoesOn
<1>3. ASSUME Goto(q, "release") PROVE Inv'
  <2>1. publishers'[q].pc = "release" /\ ~publishers'[q].created
        /\ \A p \in Requests \ {q} : Untouched(p)
    BY <1>3, GotoMoves DEF Inv
  <2> QED
    BY <1>1, <2>1, Leaves
<1>4. ASSUME NEW pc \in {"record", "delete", "release"}, Keep(q, pc), At(q, "confirm"),
             pc = "delete" => publishers[q].created
      PROVE  Inv'
  <2>1. /\ publishers'[q].pc = pc
        /\ publishers'[q].found = publishers[q].found
        /\ publishers'[q].created = publishers[q].created
        /\ \A p \in Requests \ {q} : Untouched(p)
    BY <1>4, KeepMoves DEF Inv
  <2>2. /\ publishers[q].created => publishers[q].found = q
        /\ owner = q => publishers[q].found \in comments \cup strays
    BY <1>4 DEF Inv, OwnOnly, FoundIsPosted, At
  <2>3. CASE pc = "release"
    BY <1>1, <2>1, <2>2, <2>3, Leaves
  <2>4. CASE pc # "release"
    BY <1>1, <1>4, <2>1, <2>2, <2>4, GoesOn DEF At
  <2> QED
    BY <2>3, <2>4
<1> QED
  BY <1>2, <1>3, <1>4 DEF HeadUnchanged, HeadMoved, AfterMove, At

LEMMA SearchKeeps ==
  ASSUME Inv, TypeOK', NEW q \in Requests, Find(q) \/ Recover(q)
  PROVE  Inv'
<1> USE DEF Untouched, PCs, Publishing
<1>1. /\ UNCHANGED <<comments, reference, owner, lease, strays>>
      /\ publishers[q].pc \in Publishing
      /\ comments \subseteq Requests
  BY DEF Find, Recover, At, github, database, proposal, Inv, TypeOK
<1>2. ASSUME comments = {}, Goto(q, "create") PROVE Inv'
  <2>1. publishers'[q].pc = "create" /\ ~publishers'[q].created
        /\ \A p \in Requests \ {q} : Untouched(p)
    BY <1>2, GotoMoves DEF Inv
  <2> QED
    BY <1>1, <1>2, <2>1, GoesOn
<1>3. ASSUME Goto(q, "release") PROVE Inv'
  <2>1. publishers'[q].pc = "release" /\ ~publishers'[q].created
        /\ \A p \in Requests \ {q} : Untouched(p)
    BY <1>3, GotoMoves DEF Inv
  <2> QED
    BY <1>1, <2>1, Leaves
<1>4. ASSUME NEW c \in comments, Confirm(q, c, FALSE) PROVE Inv'
  <2>1. /\ publishers'[q].pc = "confirm"
        /\ publishers'[q].found = c /\ publishers'[q].created = FALSE
        /\ \A p \in Requests \ {q} : Untouched(p)
    BY <1>1, <1>4, ConfirmMoves DEF Inv
  <2> QED
    BY <1>1, <1>4, <2>1, GoesOn
<1> QED
  BY <1>2, <1>3, <1>4 DEF Find, Recover

LEMMA CreateFailsKeeps ==
  ASSUME Inv, TypeOK', NEW q \in Requests, CreateFails(q)
  PROVE  Inv'
<1>1. /\ publishers'[q].pc = "recover" /\ ~publishers'[q].created
      /\ \A p \in Requests \ {q} : Untouched(p)
  BY GotoMoves DEF CreateFails, Inv, PCs, Publishing, Untouched
<1>2. /\ UNCHANGED <<comments, reference, owner, lease, strays>>
      /\ At(q, "create")
  BY DEF CreateFails, database, proposal
<1>3. q \notin strays => comments \subseteq strays
  BY <1>2 DEF Inv, Informed
<1>4. Exclusive'
  BY <1>1, <1>2 DEF Inv, Exclusive, Untouched, At, Publishing
<1>5. Informed'
  BY <1>1, <1>2, <1>3 DEF Inv, Informed, Untouched, At
<1>6. FoundIsPosted'
  BY <1>1, <1>2 DEF Inv, FoundIsPosted, Untouched
<1>7. OwnOnly'
  BY <1>1, <1>2 DEF Inv, OwnOnly, Untouched, At
<1>8. OneSuggestion' /\ ReferenceIsPosted'
  BY <1>2 DEF Inv, OneSuggestion, ReferenceIsPosted
<1> QED
  BY <1>4, <1>5, <1>6, <1>7, <1>8 DEF Inv

(* The comment appears while its creator waits for the answer. *)
LEMMA CreateKeeps ==
  ASSUME Inv, TypeOK', NEW q \in Requests, Create(q)
  PROVE  Inv'
<1> USE DEF Untouched, PCs, Publishing
<1>1. /\ comments' = comments \cup {q}
      /\ UNCHANGED <<reference, owner, lease, strays>>
      /\ At(q, "create")
  BY DEF Create, database, proposal
<1>2. /\ \/ publishers'[q].pc = "release" /\ ~publishers'[q].created
         \/ /\ publishers'[q].pc = "confirm"
            /\ publishers'[q].created /\ publishers'[q].found = q
      /\ \A p \in Requests \ {q} : Untouched(p)
  BY GotoMoves, ConfirmMoves DEF Create, Inv
<1>3. Exclusive'
  BY <1>1, <1>2 DEF Inv, Exclusive, At
<1>4. Informed'
  <2> SUFFICES ASSUME NEW p \in Requests \ strays, At(p, "create")' \/ At(p, "recover")'
               PROVE  p # q /\ q \in strays /\ publishers[p] = publishers'[p]
    BY <1>1 DEF Inv, Informed, At
  <2>1. p # q /\ publishers[p] = publishers'[p]
    BY <1>2 DEF At
  <2>2. publishers[p].pc \in Publishing /\ publishers[q].pc \in Publishing
    BY <1>1, <2>1 DEF At
  <2> QED
    BY <2>1, <2>2, Alone
<1>5. FoundIsPosted'
  BY <1>1, <1>2 DEF Inv, FoundIsPosted
<1>6. OwnOnly'
  BY <1>1, <1>2 DEF Inv, OwnOnly, At
<1>7. OneSuggestion'
  BY <1>1 DEF Inv, Informed, OneSuggestion
<1>8. ReferenceIsPosted'
  BY <1>1 DEF Inv, ReferenceIsPosted
<1> QED
  BY <1>3, <1>4, <1>5, <1>6, <1>7, <1>8 DEF Inv

(* The comment appears after its creator was told that the request failed. *)
LEMMA LandKeeps ==
  ASSUME Inv, TypeOK', NEW q \in Requests, Land(q)
  PROVE  Inv'
<1> USE DEF Publishing
<1>1. /\ comments' = comments \cup {q}
      /\ UNCHANGED <<reference, owner, lease, publishers>>
      /\ strays \subseteq strays' /\ strays' \subseteq strays \cup {q}
      /\ q \notin strays' => At(q, "recover")
  BY DEF Land, database, proposal
<1>2. Exclusive'
  BY <1>1 DEF Inv, Exclusive
<1>3. Informed'
  <2> SUFFICES ASSUME NEW p \in Requests \ strays', At(p, "create") \/ At(p, "recover"),
                      p # q
               PROVE  q \in strays'
    BY <1>1 DEF Inv, Informed, At
  <2>1. CASE q \notin strays'
    <3>1. publishers[p].pc \in Publishing /\ publishers[q].pc \in Publishing
      BY <1>1, <2>1 DEF At
    <3>2. p \in Requests \ strays /\ q \in Requests \ strays
      BY <1>1, <2>1
    <3> QED
      BY <3>1, <3>2, Alone
  <2> QED
    BY <2>1
<1>4. FoundIsPosted'
  BY <1>1 DEF Inv, FoundIsPosted
<1>5. OwnOnly'
  BY <1>1 DEF Inv, OwnOnly, At
<1>6. OneSuggestion'
  BY <1>1 DEF Inv, Informed, OneSuggestion
<1>7. ReferenceIsPosted'
  BY <1>1 DEF Inv, ReferenceIsPosted
<1> QED
  BY <1>2, <1>3, <1>4, <1>5, <1>6, <1>7 DEF Inv

LEMMA DeleteKeeps ==
  ASSUME Inv, TypeOK', NEW q \in Requests, Delete(q)
  PROVE  Inv'
<1> USE DEF Untouched, PCs, Publishing
<1>1. /\ publishers'[q].pc = "release" /\ ~publishers'[q].created
      /\ \A p \in Requests \ {q} : Untouched(p)
  BY GotoMoves DEF Delete, Inv
<1>2. /\ UNCHANGED <<reference, owner, lease, strays>>
      /\ At(q, "delete")
  BY DEF Delete, database, proposal
<1>3. comments' = comments \ {q}
  BY <1>2 DEF Delete, Inv, OwnOnly
<1>4. q \notin strays => owner = q /\ reference = NoRequest
  BY <1>2 DEF Inv, Exclusive, At
<1>5. Exclusive'
  BY <1>1, <1>2 DEF Inv, Exclusive
<1>6. Informed'
  BY <1>1, <1>2, <1>3 DEF Inv, Informed, At
<1>7. FoundIsPosted'
  <2> SUFFICES ASSUME NEW p \in Requests, owner = p, p # q,
                      publishers[p].pc \in {"confirm", "record"}
               PROVE  publishers[p].found \in comments' \cup strays
    BY <1>1, <1>2 DEF FoundIsPosted
  <2> QED
    BY <1>3, <1>4 DEF Inv, FoundIsPosted
<1>8. OwnOnly'
  BY <1>1 DEF Inv, OwnOnly, At
<1>9. OneSuggestion'
  BY <1>2, <1>3 DEF Inv, OneSuggestion
<1>10. ReferenceIsPosted'
  BY <1>2, <1>3, <1>4 DEF Inv, ReferenceIsPosted
<1> QED
  BY <1>5, <1>6, <1>7, <1>8, <1>9, <1>10 DEF Inv

(* The request to delete goes unanswered, and its sender leaves. *)
LEMMA DeleteFailsKeeps ==
  ASSUME Inv, TypeOK', NEW q \in Requests, DeleteFails(q)
  PROVE  Inv'
<1>1. /\ publishers'[q].pc = "release" /\ ~publishers'[q].created
      /\ \A p \in Requests \ {q} : Untouched(p)
  BY GotoMoves DEF DeleteFails, Inv, PCs, Untouched
<1>2. UNCHANGED <<comments, reference, owner, lease, strays>>
  BY DEF DeleteFails, database, proposal
<1> QED
  BY <1>1, <1>2, Leaves

(* The comment disappears after its creator was told that the deletion had   *)
(* failed: it is a stray from now on, whoever found or recorded it.          *)
LEMMA DeleteLandsKeeps ==
  ASSUME Inv, TypeOK', NEW c \in comments, DeleteLands(c)
  PROVE  Inv'
<1>1. /\ comments' = comments \ {c} /\ strays' = strays \cup {c}
      /\ UNCHANGED <<reference, owner, lease, publishers>>
  BY DEF DeleteLands, database, proposal
<1>2. Exclusive'
  BY <1>1 DEF Inv, Exclusive
<1>3. Informed'
  BY <1>1 DEF Inv, Informed, At
<1>4. FoundIsPosted' /\ OwnOnly'
  BY <1>1 DEF Inv, FoundIsPosted, OwnOnly, At
<1>5. OneSuggestion' /\ ReferenceIsPosted'
  BY <1>1 DEF Inv, OneSuggestion, ReferenceIsPosted
<1> QED
  BY <1>1, <1>2, <1>3, <1>4, <1>5 DEF Inv

LEMMA RecordKeeps ==
  ASSUME Inv, TypeOK', NEW q \in Requests, Record(q)
  PROVE  Inv'
<1> USE DEF Untouched, PCs, Publishing
<1> USE PatchPublicationAssumption
<1>1. /\ publishers'[q].pc = "release" /\ ~publishers'[q].created
      /\ \A p \in Requests \ {q} : Untouched(p)
  BY GotoMoves DEF Record, Inv
<1>2. /\ UNCHANGED <<comments, strays>>
      /\ owner = q /\ owner' = NoRequest
      /\ reference' = publishers[q].found
      /\ At(q, "record")
  BY DEF Record, Recordable, github
<1>3. Exclusive'
  BY <1>1, <1>2 DEF Inv, Exclusive
<1>4. Informed'
  BY <1>1, <1>2 DEF Inv, Informed, At
<1>5. FoundIsPosted'
  BY <1>1, <1>2 DEF Inv, FoundIsPosted
<1>6. OwnOnly'
  BY <1>1 DEF Inv, OwnOnly, At
<1>7. OneSuggestion'
  BY <1>2 DEF Inv, OneSuggestion
<1>8. ReferenceIsPosted'
  BY <1>2 DEF Inv, FoundIsPosted, ReferenceIsPosted, At
<1> QED
  BY <1>3, <1>4, <1>5, <1>6, <1>7, <1>8 DEF Inv

LEMMA LeaseExpiresKeeps ==
  ASSUME Inv, TypeOK', LeaseExpires
  PROVE  Inv'
<1>1. /\ UNCHANGED <<comments, reference, owner, publishers>>
      /\ strays \subseteq strays'
      /\ \A p \in Requests \ strays' : publishers[p].pc \in Publishing => owner # p
  BY DEF LeaseExpires, github, proposal
<1>2. Exclusive'
  BY <1>1 DEF Inv, Exclusive
<1>3. Informed'
  BY <1>1 DEF Inv, Informed, At
<1>4. FoundIsPosted' /\ OwnOnly'
  BY <1>1 DEF Inv, FoundIsPosted, OwnOnly, At
<1>5. OneSuggestion' /\ ReferenceIsPosted'
  BY <1>1 DEF Inv, OneSuggestion, ReferenceIsPosted
<1> QED
  BY <1>2, <1>3, <1>4, <1>5 DEF Inv

(* A request ends, refuses or fails before or after its work.               *)
LEMMA EndsKeeps ==
  ASSUME Inv, TypeOK', NEW q \in Requests,
         \/ PrepareStale(q) \/ PrepareRefused(q)
         \/ RecordRefused(q) \/ Release(q) \/ StepFails(q) \/ Abandon(q)
  PROVE  Inv'
<1>1. /\ publishers'[q].pc \in {"release", "done"} /\ ~publishers'[q].created
      /\ \A p \in Requests \ {q} : Untouched(p)
  BY GotoMoves DEF PrepareStale, PrepareRefused, RecordRefused, Release, StepFails,
     Abandon, Inv, PCs, Untouched
<1>2. /\ UNCHANGED <<comments, reference, strays>>
      /\ UNCHANGED <<owner, lease>> \/ (owner = q /\ owner' = NoRequest)
  BY DEF PrepareStale, PrepareRefused, RecordRefused, Release, StepFails, Abandon,
     MarkStale, github, database, proposal
<1> QED
  BY <1>1, <1>2, Leaves

LEMMA NextInv == Inv /\ [Next]_vars => Inv'
<1> SUFFICES ASSUME Inv, [Next]_vars PROVE Inv'
  OBVIOUS
<1>1. TypeOK'
  BY NextTyped DEF Inv
<1>2. ASSUME Push \/ Supersede \/ Cancel \/ DecideStale \/ UNCHANGED vars PROVE Inv'
  <2>1. UNCHANGED <<comments, reference, owner, lease, publishers, strays>>
    BY <1>2 DEF Push, Supersede, Cancel, DecideStale, MarkStale, vars, proposal
  <2> QED
    BY <1>1, <2>1, Quiet
<1>3. ASSUME NEW decision \in {"approved", "rejected"}, Decide(decision) PROVE Inv'
  <2>1. UNCHANGED <<comments, reference, owner, lease, publishers, strays>>
    BY <1>3 DEF Decide
  <2> QED
    BY <1>1, <2>1, Quiet
<1>4. ASSUME NEW q \in Requests,
             \/ Prepare(q) \/ HeadUnchanged(q) \/ HeadMoved(q)
             \/ Find(q) \/ Create(q) \/ CreateFails(q) \/ Land(q) \/ Recover(q)
             \/ Delete(q) \/ DeleteFails(q)
             \/ Record(q) \/ RecordRefused(q) \/ Release(q)
             \/ StepFails(q) \/ Abandon(q)
      PROVE  Inv'
  BY <1>1, <1>4, PrepareReadyKeeps, HeadKeeps, SearchKeeps, CreateKeeps,
     CreateFailsKeeps, LandKeeps, DeleteKeeps, DeleteFailsKeeps, RecordKeeps,
     EndsKeeps DEF Prepare
<1>5. CASE LeaseExpires
  BY <1>1, <1>5, LeaseExpiresKeeps
<1>6. ASSUME NEW c \in comments, DeleteLands(c) PROVE Inv'
  BY <1>1, <1>6, DeleteLandsKeeps
<1> QED
  BY <1>2, <1>3, <1>4, <1>5, <1>6 DEF Next

LEMMA Invariance == Spec => []Inv
  BY InitInv, NextInv, PTL DEF Spec

-----------------------------------------------------------------------------
(* GitHub shows one suggestion at most, strays aside. *)
THEOREM AtMostOneSuggestion == Spec => []OneSuggestion
<1>1. Inv => OneSuggestion
  BY DEF Inv
<1> QED
  BY <1>1, Invariance, PTL

(* The recorded suggestion is never deleted, unless it is a stray's. *)
THEOREM RecordedStaysPosted == Spec => []ReferenceIsPosted
<1>1. Inv => ReferenceIsPosted
  BY DEF Inv
<1> QED
  BY <1>1, Invariance, PTL

(* Only the creator of a comment deletes it, now or later. *)
THEOREM OnlyOwnIsDeleted == Spec => DeletesOnlyOwn
<1> DEFINE Deletes == \A c \in (comments \ comments') \cup doomed' :
                        At(c, "delete") \/ c \in doomed
<1>1. Inv /\ [Next]_vars => [Deletes]_vars
  <2> SUFFICES ASSUME Inv, Next, NEW c \in (comments \ comments') \cup doomed',
                      c \notin doomed
               PROVE  At(c, "delete")
    BY DEF Deletes
  <2> USE DEF github, database, proposal
  <2>1. ASSUME NEW q \in Requests, Delete(q) \/ DeleteFails(q) PROVE At(c, "delete")
    <3>1. publishers[q].found = q /\ At(q, "delete")
      BY <2>1 DEF Delete, DeleteFails, Inv, OwnOnly
    <3>2. c = q
      BY <2>1, <3>1 DEF Delete, DeleteFails
    <3> QED
      BY <3>1, <3>2
  <2>2. ~ \E d \in comments \cap doomed : DeleteLands(d)
    BY DEF DeleteLands
  <2>3. CASE ~ \E q \in Requests : Delete(q) \/ DeleteFails(q)
    BY <2>2, <2>3 DEF Next, Push, Supersede, Cancel, Decide, DecideStale, MarkStale,
       Prepare, PrepareReady, PrepareStale, PrepareRefused, HeadUnchanged, HeadMoved,
       Find, Create, CreateFails, Land, Recover, Record, RecordRefused, Release,
       StepFails, Abandon, LeaseExpires
  <2> QED
    BY <2>1, <2>3
<1> QED
  BY <1>1, Invariance, PTL DEF Spec, DeletesOnlyOwn

(* The proposal is decided once and bound to one suggestion for good. *)
THEOREM ProposalRefinement == Spec => ImplementsProposalLife
<1>1. Init => Life!Init
  BY DEF Init, Life!Init
<1>2. Inv /\ [Next]_vars => [Life!Next]_(Life!vars)
  <2> SUFFICES ASSUME Inv, [Next]_vars
               PROVE  Life!Next \/ UNCHANGED proposal
    BY DEF Life!vars, proposal
  <2> USE DEF github, database, proposal, Life!Next, Life!Decide, Life!Bind, Life!Withdraw
  <2>1. ASSUME NEW decision \in {"approved", "rejected"}, Decide(decision)
        PROVE  Life!Decide(decision)
    BY <2>1 DEF Decide, Decidable, IsStale, Life!Decide
  <2>2. CASE Supersede
    <3>1. stale' \in BOOLEAN /\ (stale = TRUE => stale' = TRUE)
      BY <2>2, NextTyped DEF Inv, TypeOK, Supersede, Next
    <3> QED
      BY <2>2, <3>1 DEF Supersede, Inv, TypeOK
  <2>3. CASE Cancel \/ DecideStale \/ \E q \in Requests : PrepareStale(q)
    BY <2>3 DEF Cancel, DecideStale, PrepareStale, MarkStale
  <2>4. ASSUME NEW q \in Requests, Record(q) PROVE Life!Next
    <3>1. publishers[q].found \in Requests
      BY <2>4 DEF Inv, TypeOK, FoundIsPosted, Record, Recordable, At
    <3>2. stale' \in {stale, TRUE}
      <4> DEFINE b == IsStale
      <4>1. b \in BOOLEAN
        BY DEF IsStale, Inv, TypeOK
      <4>2. stale' = (stale \/ b) /\ stale \in BOOLEAN
        BY <2>4 DEF Record, Inv, TypeOK
      <4> HIDE DEF b
      <4> QED
        BY <4>1, <4>2
    <3>3. Life!Bind(publishers[q].found)
      BY <2>4, <3>2 DEF Record, Recordable, Conflict
    <3> QED
      BY <3>1, <3>3
  <2>5. ASSUME NEW q \in Requests,
               \/ PrepareReady(q) \/ PrepareRefused(q)
               \/ HeadUnchanged(q) \/ HeadMoved(q)
               \/ Find(q) \/ Create(q) \/ CreateFails(q) \/ Land(q) \/ Recover(q)
               \/ Delete(q) \/ DeleteFails(q) \/ RecordRefused(q) \/ Release(q)
               \/ StepFails(q) \/ Abandon(q)
        PROVE  UNCHANGED proposal
    BY <2>5 DEF PrepareReady, PrepareRefused, HeadUnchanged, HeadMoved, Find, Create,
       CreateFails, Land, Recover, Delete, DeleteFails, RecordRefused, Release,
       StepFails, Abandon
  <2>6. CASE \/ Push \/ LeaseExpires \/ UNCHANGED vars
             \/ \E c \in comments : DeleteLands(c)
    BY <2>6 DEF Push, LeaseExpires, DeleteLands, vars
  <2> QED
    BY <2>1, <2>2, <2>3, <2>4, <2>5, <2>6 DEF Next, Prepare
<1> QED
  BY <1>1, <1>2, Invariance, PTL DEF Spec, ImplementsProposalLife, Life!Spec
=============================================================================
