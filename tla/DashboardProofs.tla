--------------------------- MODULE DashboardProofs ---------------------------
(* Proofs about Dashboard. *)
EXTENDS Dashboard, TLAPS

USE DashboardAssumption

(* What is known of the form: a key stands for one thing the user asks for,    *)
(* and has a run exactly when it was recorded.                              *)
Keyed ==
  /\ key = asking
  /\ waiting # 0 => posts[waiting].pc # "none"
  /\ \A p \in Posts :
       /\ posts[p].pc # "none" => posts[p].key = posts[p].asking /\ posts[p].key \in Posts
       /\ posts[p].pc = "read" => posts[p].head \in Heads
  /\ \A n \in Posts : runs[n] = IF requests[n] = 0 THEN 0 ELSE 1

(* What is known of the fix controls: whoever may approve has seen that the    *)
(* suggestion is recorded, and a recorded one stays so.                      *)
Recorded ==
  /\ job \in Active => reference
  /\ shown.reference => reference
  /\ "approve" \in calls \cup late \/ "resume" \in calls => reference

Inv == TypeOK /\ Keyed /\ Recorded

LEMMA InitInv == Init => Inv
<1>1. SUFFICES ASSUME Init PROVE Inv
  OBVIOUS
<1>2. TypeOK
  <2>1. NoPost \in Post
    BY DEF NoPost, Post
  <2>2. /\ posts \in [Posts -> Post]
        /\ requests \in [Posts -> 0..MaxHead] /\ runs \in [Posts -> 0..MaxPosts]
    BY <1>1, <2>1 DEF Init
  <2>3. head \in Heads /\ {waiting, key, asking} \subseteq 0..MaxPosts /\ attempt \in 0..MaxAttempts
    BY <1>1 DEF Init, Heads
  <2>4. shown = NoFix /\ calls \subseteq Calls /\ late \subseteq Left
    BY <1>1 DEF Init, Calls
  <2> QED BY <1>1, <2>2, <2>3, <2>4 DEF Init, TypeOK
<1>3. Keyed
  BY <1>1 DEF Init, Keyed, NoPost, Posts
<1>4. Recorded
  BY <1>1 DEF Init, Recorded, NoFix, Active
<1> QED BY <1>2, <1>3, <1>4 DEF Inv

-----------------------------------------------------------------------------
(* The form.                                                                *)

FormTypes ==
  /\ head \in Heads
  /\ posts \in [Posts -> Post]
  /\ waiting \in 0..MaxPosts /\ key \in 0..MaxPosts /\ asking \in 0..MaxPosts
  /\ requests \in [Posts -> 0..MaxHead]
  /\ runs \in [Posts -> 0..MaxPosts]

FormInv == FormTypes /\ Keyed

LEMMA TypesSplit ==
  TypeOK <=> /\ control \in {"form", "fix"}
             /\ FormTypes
             /\ view \in {"loading", "generating", "deciding", "ready"}
             /\ shown \in Fixes \cup {NoFix}
             /\ candidate \in BOOLEAN /\ timer \in BOOLEAN
             /\ calls \subseteq Calls /\ late \subseteq Left
             /\ job \in Statuses \cup {"none"} /\ reference \in BOOLEAN
             /\ attempt \in 0..MaxAttempts
  BY DEF TypeOK, FormTypes

(* A request moves to d, like c otherwise, and read the head if it is at that. *)
Moved(c, d, pc) ==
  /\ d \in Post /\ d.pc = pc /\ d.key = c.key /\ d.asking = c.asking
  /\ pc = "read" => d.head \in Heads

LEMMA DoneMoves ==
  ASSUME NEW c \in Post
  PROVE  Moved(c, [c EXCEPT !.pc = "done"], "done")
  BY DEF Post, Moved

LEMMA ReadMoves ==
  ASSUME NEW c \in Post, NEW h \in Heads
  PROVE  Moved(c, [pc |-> "read", key |-> c.key, asking |-> c.asking, head |-> h], "read")
<1>1. h \in 0..MaxHead
  BY DEF Heads
<1> QED BY <1>1 DEF Post, Moved

(* What is known of all requests but keys and runs. *)
PostsKeyed ==
  /\ posts \in [Posts -> Post]
  /\ \A p \in Posts :
       /\ posts[p].pc # "none" => posts[p].key = posts[p].asking /\ posts[p].key \in Posts
       /\ posts[p].pc = "read" => posts[p].head \in Heads

LEMMA MovedKeyed ==
  ASSUME PostsKeyed, NEW p \in Posts, NEW pc, NEW d, Moved(posts[p], d, pc),
         posts[p].pc # "none", pc # "none",
         posts' = [posts EXCEPT ![p] = d]
  PROVE  PostsKeyed' /\ \A q \in Posts : posts[q].pc # "none" => posts'[q].pc # "none"
<1>1. posts' \in [Posts -> Post] /\ posts'[p] = d /\ \A q \in Posts \ {p} : posts'[q] = posts[q]
  BY DEF PostsKeyed, Moved
<1> QED BY <1>1 DEF PostsKeyed, Moved

LEMMA DoneKeyed ==
  ASSUME PostsKeyed, NEW p \in Posts, posts[p].pc # "none",
         posts' = [posts EXCEPT ![p].pc = "done"]
  PROVE  PostsKeyed' /\ \A q \in Posts : posts[q].pc # "none" => posts'[q].pc # "none"
<1>1. posts[p] \in Post
  BY DEF PostsKeyed
<1>2. posts' = [posts EXCEPT ![p] = [posts[p] EXCEPT !.pc = "done"]]
  OBVIOUS
<1> QED BY <1>1, <1>2, DoneMoves, MovedKeyed

(* However a request ends for the page, key and asking go the same way. *)
LEMMA ToldAlike ==
  ASSUME FormInv, NEW p \in Posts, NEW status \in Nat,
         Answer(p, Told(status)) \/ Answer(p, Accepted)
  PROVE  /\ waiting' \in {0, waiting} /\ key' \in {0, key} /\ asking' \in {0, asking}
         /\ key' = asking'
<1>1. CASE waiting = p
  <2>1. key = asking
    BY DEF FormInv, Keyed
  <2>2. Told(status) \/ Accepted \/ Unconfirmed
    BY <1>1 DEF Answer
  <2> QED BY <2>1, <2>2 DEF Told, Accepted, Unconfirmed, Reused
<1>2. CASE waiting # p
  BY <1>2 DEF Answer, FormInv, Keyed
<1> QED BY <1>1, <1>2

LEMMA FormStep == FormInv /\ FormNext => FormInv'
<1> SUFFICES ASSUME FormInv, FormNext PROVE FormInv'
  OBVIOUS
<1> DEFINE Rest == /\ head \in Heads
                   /\ waiting \in 0..MaxPosts /\ key \in 0..MaxPosts /\ asking \in 0..MaxPosts
                   /\ key = asking
           Kept == /\ requests \in [Posts -> 0..MaxHead] /\ runs \in [Posts -> 0..MaxPosts]
                   /\ \A n \in Posts : runs[n] = IF requests[n] = 0 THEN 0 ELSE 1
           Awaited == waiting # 0 => posts[waiting].pc # "none"
<1>a. FormInv <=> PostsKeyed /\ Rest /\ Kept /\ Awaited
  BY DEF FormInv, FormTypes, Keyed, PostsKeyed
<1>b. FormInv' <=> PostsKeyed' /\ Rest' /\ Kept' /\ Awaited'
  BY DEF FormInv, FormTypes, Keyed, PostsKeyed
<1>c. UNCHANGED posts => PostsKeyed'
  BY <1>a DEF PostsKeyed
<1>d. UNCHANGED <<requests, runs>> => Kept'
  BY <1>a
<1> HIDE DEF Kept
<1>1. CASE Push
  BY <1>1, <1>a, <1>b, <1>c, <1>d DEF Push, apiVars, Heads
<1>2. CASE Edit
  BY <1>2, <1>a, <1>b, <1>c, <1>d DEF Edit, apiVars
<1>3. CASE Leave
  BY <1>3, <1>a, <1>b, <1>c, <1>d DEF Leave, apiVars
<1>4. CASE GiveUp
  <2>1. PostsKeyed'
    BY <1>4, <1>a, <1>c, DoneKeyed DEF GiveUp, Posts
  <2> QED BY <1>4, <2>1, <1>a, <1>b, <1>d DEF GiveUp, Unconfirmed
<1>5. ASSUME NEW p \in Posts, Submit(p) PROVE FormInv'
  <2> DEFINE reused == IF key = 0 THEN p ELSE key
             d == [pc |-> "sent", key |-> reused, asking |-> reused, head |-> 0]
  <2>1. reused \in Posts /\ reused = IF asking = 0 THEN p ELSE asking
    BY <1>a DEF Posts
  <2>2. posts' = [posts EXCEPT ![p] = d] /\ key' = reused /\ asking' = reused /\ waiting' = p
    BY <1>5, <2>1 DEF Submit
  <2>3. d \in Post
    BY <2>1 DEF Post, Posts
  <2>4. posts \in [Posts -> Post]
    BY <1>a DEF PostsKeyed
  <2>5. posts' \in [Posts -> Post] /\ posts'[p] = d /\ \A q \in Posts \ {p} : posts'[q] = posts[q]
    BY <2>2, <2>3, <2>4
  <2>6. PostsKeyed'
    BY <2>1, <2>5, <1>a DEF PostsKeyed
  <2>7. Rest'
    BY <1>5, <1>a, <2>1, <2>2 DEF Submit, Posts
  <2>8. Kept' /\ Awaited'
    <3>1. UNCHANGED <<requests, runs>>
      BY <1>5 DEF Submit
    <3> QED BY <1>5, <3>1, <1>d, <2>2, <2>5
  <2> QED BY <1>b, <2>6, <2>7, <2>8
<1> DEFINE Ends == /\ waiting' \in {0, waiting} /\ key' \in {0, key} /\ asking' \in {0, asking}
                    /\ key' = asking'
<1>e. ASSUME NEW p \in Posts, posts[p].pc # "none",
             posts' = [posts EXCEPT ![p].pc = "done"], UNCHANGED head, Ends
      PROVE  PostsKeyed' /\ Rest' /\ Awaited'
  <2>1. PostsKeyed' /\ \A q \in Posts : posts[q].pc # "none" => posts'[q].pc # "none"
    <3>1. PostsKeyed
      BY <1>a
    <3>2. posts[p].pc # "none" /\ posts' = [posts EXCEPT ![p].pc = "done"]
      BY <1>e
    <3> QED BY <3>1, <3>2, DoneKeyed
  <2>2. Ends
    BY <1>e
  <2>3. Rest'
    BY <1>e, <2>2, <1>a
  <2>4. Awaited'
    BY <2>1, <2>2, <1>a DEF Posts
  <2> QED BY <2>1, <2>3, <2>4
<1>6. ASSUME NEW p \in Posts, Refuse(p) PROVE FormInv'
  <2>1. Ends
    <3>1. PICK status \in {400, 401, 403} : Answer(p, Told(status))
      BY <1>6 DEF Refuse
    <3>2. status \in Nat
      OBVIOUS
    <3> QED BY <3>1, <3>2, ToldAlike
  <2>2. PostsKeyed' /\ Rest' /\ Awaited'
    <3>1. /\ posts[p].pc # "none" /\ posts' = [posts EXCEPT ![p].pc = "done"]
          /\ UNCHANGED head
      BY <1>6 DEF Refuse
    <3> HIDE DEF Rest, Awaited, Ends
    <3> QED BY <2>1, <3>1, <1>e
  <2> QED BY <1>6, <2>2, <1>b, <1>d DEF Refuse
<1>7. ASSUME NEW p \in Posts, ReadHead(p) PROVE FormInv'
  <2>1. posts[p] \in Post /\ head \in Heads
    BY <1>a DEF PostsKeyed
  <2>2. posts' = [posts EXCEPT ![p] =
                   [pc |-> "read", key |-> posts[p].key, asking |-> posts[p].asking, head |-> head]]
    BY <1>7 DEF ReadHead
  <2>3. PostsKeyed' /\ \A q \in Posts : posts[q].pc # "none" => posts'[q].pc # "none"
    BY <1>7, <1>a, <2>1, <2>2, ReadMoves, MovedKeyed DEF ReadHead
  <2> QED BY <1>7, <2>3, <1>a, <1>b, <1>d DEF ReadHead, Posts
<1>8. ASSUME NEW p \in Posts, ApiFails(p) PROVE FormInv'
  <2>1. PostsKeyed' /\ Rest' /\ Awaited'
    <3>1. Ends
      BY <1>8, ToldAlike DEF ApiFails
    <3>2. /\ posts[p].pc # "none" /\ posts' = [posts EXCEPT ![p].pc = "done"]
          /\ UNCHANGED head
      BY <1>8 DEF ApiFails
    <3> HIDE DEF Rest, Awaited, Ends
    <3> QED BY <3>1, <3>2, <1>e
  <2> QED BY <1>8, <2>1, <1>b, <1>d DEF ApiFails
<1>9. ASSUME NEW p \in Posts, QueueManualReview(p) PROVE FormInv'
  <2> DEFINE k == posts[p].key
  <2>1. PostsKeyed' /\ Rest' /\ Awaited'
    <3>1. Ends
      <4>1. 500 \in Nat /\ Answer(p, Accepted)
        BY <1>9 DEF QueueManualReview
      <4> QED BY <4>1, ToldAlike
    <3>2. /\ posts[p].pc # "none" /\ posts' = [posts EXCEPT ![p].pc = "done"]
          /\ UNCHANGED head
      BY <1>9 DEF QueueManualReview
    <3> HIDE DEF Rest, Awaited, Ends
    <3> QED BY <3>1, <3>2, <1>e
  <2>2. k \in Posts /\ posts[p].asking = k /\ posts[p].head \in Heads
    BY <1>9, <1>a DEF QueueManualReview, PostsKeyed
  <2>3. CASE New(k)
    <3>1. /\ requests' = [requests EXCEPT ![k] = posts[p].head]
          /\ runs' = [runs EXCEPT ![k] = @ + 1]
      BY <1>9, <2>2, <2>3 DEF QueueManualReview
    <3>2. requests[k] = 0 /\ runs[k] = 0
      BY <2>2, <2>3, <1>a DEF New, Kept
    <3>3. 1 \in 0..MaxPosts /\ posts[p].head \in 0..MaxHead /\ posts[p].head # 0
      BY <2>2 DEF Posts, Heads
    <3>4. Kept'
      BY <2>2, <3>1, <3>2, <3>3, <1>a DEF Kept
    <3> QED BY <2>1, <3>4, <1>b
  <2>4. CASE ~New(k)
    BY <1>9, <2>1, <2>4, <1>b, <1>d DEF QueueManualReview
  <2> QED BY <2>3, <2>4
<1> QED
  BY <1>1, <1>2, <1>3, <1>4, <1>5, <1>6, <1>7, <1>8, <1>9 DEF FormNext

-----------------------------------------------------------------------------
(* The fix controls.                                                        *)

FixTypes ==
  /\ view \in {"loading", "generating", "deciding", "ready"}
  /\ shown \in Fixes \cup {NoFix}
  /\ candidate \in BOOLEAN /\ timer \in BOOLEAN
  /\ calls \subseteq Calls /\ late \subseteq Left
  /\ job \in Statuses \cup {"none"} /\ reference \in BOOLEAN
  /\ attempt \in 0..MaxAttempts

(* The stored fix by itself. *)
StoreInv ==
  /\ job \in Statuses \cup {"none"} /\ reference \in BOOLEAN
  /\ attempt \in 0..MaxAttempts
  /\ job \in Active => reference

(* What a step may do to the stored fix: a suggestion that is recorded stays so. *)
StoreMoves == StoreInv' /\ (reference => reference')

LEMMA StoredShows == StoreInv => Stored \in Fixes \cup {NoFix} /\ (Stored.reference => reference)
  BY DEF StoreInv, Stored, Fixes, NoFix

LEMMA EffectMoves ==
  ASSUME StoreInv, NEW write \in Writes, Effect(write), write = "approve" => reference
  PROVE  StoreMoves
<1>1. CASE write = "generate"
  BY <1>1 DEF StoreInv, StoreMoves, Effect, Generated, Keeps, storeVars, Statuses, Active
<1>2. CASE write = "publish"
  BY <1>2 DEF StoreInv, StoreMoves, Effect, Published
<1>3. CASE write = "approve"
  BY <1>3 DEF StoreInv, StoreMoves, Effect, Approved, Keeps, storeVars, Statuses, Active
<1>4. CASE write = "reject"
  BY <1>4 DEF StoreInv, StoreMoves, Effect, Rejected, Keeps, storeVars, Statuses, Active, Ended
<1> QED BY <1>1, <1>2, <1>3, <1>4 DEF Writes

LEMMA RefusedMoves == StoreInv /\ Refused => StoreMoves
  BY DEF StoreInv, StoreMoves, Refused, storeVars, Active, Statuses

(* What the page knows of the stored fix. *)
PageInv ==
  /\ shown \in Fixes \cup {NoFix}
  /\ candidate \in BOOLEAN /\ timer \in BOOLEAN
  /\ view \in {"loading", "generating", "deciding", "ready"}
  /\ calls \subseteq Calls /\ late \subseteq Left
  /\ shown.reference => reference
  /\ "approve" \in calls \cup late \/ "resume" \in calls => reference

FixInv == FixTypes /\ Recorded

LEMMA FixSplit == (FixInv <=> StoreInv /\ PageInv) /\ (FixInv' <=> StoreInv' /\ PageInv')
  BY DEF FixInv, FixTypes, Recorded, StoreInv, PageInv

LEMMA FixStep == FixInv /\ FixNext => FixInv'
<1> SUFFICES ASSUME StoreInv, PageInv, FixNext PROVE StoreInv' /\ PageInv'
  BY FixSplit
<1>a. UNCHANGED storeVars => StoreMoves
  BY RefusedMoves DEF Refused
<1>b. StoreMoves /\ UNCHANGED <<pageVars, late>> => StoreInv' /\ PageInv'
  BY DEF StoreMoves, PageInv, pageVars
<1>c. Stored \in Fixes \cup {NoFix} /\ (Stored.reference => reference)
  BY StoredShows
<1>1. CASE ProposedElsewhere
  <2>1. StoreMoves
    BY <1>1 DEF ProposedElsewhere, Keeps, StoreInv, StoreMoves, Statuses, Active
  <2> QED BY <1>1, <2>1, <1>b DEF ProposedElsewhere
<1>2. CASE Claim
  <2>1. StoreMoves
    BY <1>2 DEF Claim, StoreInv, StoreMoves, Statuses, Active
  <2> QED BY <1>2, <2>1, <1>b DEF Claim
<1>3. CASE Finish
  <2>1. StoreMoves
    BY <1>3 DEF Finish, Keeps, StoreInv, StoreMoves, Statuses, Active, Ended
  <2> QED BY <1>3, <2>1, <1>b DEF Finish
<1>4. ASSUME NEW write \in Writes, LateEffect(write) PROVE StoreInv' /\ PageInv'
  <2>1. write = "approve" => reference
    BY <1>4 DEF LateEffect, PageInv
  <2>2. StoreMoves
    BY <1>4, <2>1, EffectMoves, RefusedMoves DEF LateEffect
  <2>3. late' \subseteq late /\ UNCHANGED pageVars
    BY <1>4 DEF LateEffect
  <2> QED BY <2>2, <2>3 DEF StoreMoves, PageInv, pageVars
<1>5. CASE Open
  <2>1. late' \subseteq Left
    BY <1>5 DEF Open, PageInv, WriteOf, Calls, Writes, Left
  <2>2. "approve" \in late' => reference
    BY <1>5 DEF Open, PageInv, WriteOf
  <2>3. StoreMoves
    BY <1>5, <1>a DEF Open
  <2>4. /\ shown' = NoFix /\ candidate' = FALSE /\ timer' = FALSE
        /\ view' = "loading" /\ calls' = {"load"}
    BY <1>5 DEF Open
  <2> QED BY <2>1, <2>2, <2>3, <2>4 DEF StoreMoves, PageInv, Calls, NoFix
<1>6. ASSUME Loaded \/ Polled PROVE StoreInv' /\ PageInv'
  <2>1. shown' = Stored /\ calls' \subseteq calls /\ timer' \in BOOLEAN
    <3>1. CASE Loaded
      <4>1. timer' \in BOOLEAN
        <5>1. timer' = timer \/ timer' = (Stored.status \in Active)
          BY <3>1, Zenon DEF Loaded, Show
        <5>2. (Stored.status \in Active) \in BOOLEAN /\ timer \in BOOLEAN
          BY DEF PageInv
        <5> QED BY <5>1, <5>2, Zenon
      <4> QED BY <3>1, <4>1 DEF Loaded, Show
    <3>2. CASE Polled
      <4>1. timer' = (Stored.status \in Active)
        BY <3>2, Zenon DEF Polled, Show
      <4> QED BY <3>2, <4>1 DEF Polled, Show
    <3> QED BY <1>6, <3>1, <3>2
  <2>2. view' = "ready" /\ UNCHANGED <<candidate, late, storeVars>>
    BY <1>6 DEF Loaded, Polled
  <2>3. StoreMoves
    BY <2>2, <1>a
  <2> QED BY <2>1, <2>2, <2>3, <1>c DEF StoreMoves, PageInv
<1>7. CASE PollFires
  <2>1. StoreMoves
    BY <1>7, <1>a DEF PollFires
  <2> QED BY <1>7, <2>1 DEF PollFires, StoreMoves, PageInv, Calls, Writes
<1>8. CASE PollFails
  <2>1. StoreMoves
    BY <1>8, <1>a DEF PollFails
  <2> QED BY <1>8, <2>1 DEF PollFails, StoreMoves, PageInv, Scheduled
<1>9. ASSUME Generate \/ Approve \/ Reject \/ Resume PROVE StoreInv' /\ PageInv'
  <2>1. PICK c \in {"generate", "publish", "reject", "resume"},
             busy \in {"generating", "deciding"} :
          Press(c, busy) /\ (c = "resume" => reference)
    BY <1>9 DEF Generate, Approve, Reject, Resume, Resumable, PageInv
  <2>2. candidate' \in BOOLEAN
    BY <1>9 DEF Generate, Approve, Reject, Resume, Resumable, PageInv
  <2>3. StoreMoves
    BY <2>1, <1>a DEF Press
  <2> QED BY <2>1, <2>2, <2>3 DEF Press, StoreMoves, PageInv, Calls, Writes
<1>10. CASE Generates
  <2>1. StoreMoves
    <3>1. Effect("generate") /\ "generate" \in Writes
      BY <1>10 DEF Generates, Effect, Writes
    <3> QED BY <3>1, EffectMoves
  <2>2. Stored' \in Fixes \cup {NoFix} /\ (Stored'.reference => reference')
    BY <2>1 DEF StoreMoves, StoreInv, Stored, Fixes, NoFix
  <2>3. /\ shown' \in {shown, Stored'} /\ calls' \subseteq calls /\ timer' \in BOOLEAN
        /\ candidate' \in BOOLEAN
    <3>1. timer' \in BOOLEAN
      <4>1. timer' = timer \/ timer' = (Stored'.status \in Active)
        BY <1>10, Zenon DEF Generates, Show
      <4>2. (Stored'.status \in Active) \in BOOLEAN /\ timer \in BOOLEAN
        BY DEF PageInv
      <4> QED BY <4>1, <4>2, Zenon
    <3> QED BY <1>10, <3>1 DEF Generates, Show, PageInv
  <2> QED BY <1>10, <2>1, <2>2, <2>3 DEF Generates, StoreMoves, PageInv
<1>11. CASE Publishes
  <2>1. StoreMoves /\ reference'
    <3>1. Effect("publish") /\ "publish" \in Writes
      BY <1>11 DEF Publishes, PublishedFirst, Effect, Writes
    <3> QED BY <1>11, <3>1, EffectMoves DEF Publishes, PublishedFirst, Published
  <2> QED BY <1>11, <2>1 DEF Publishes, StoreMoves, PageInv, Calls, Writes
<1>12. ASSUME NEW c \in Calls, CallFails(c) PROVE StoreInv' /\ PageInv'
  <2>1. c \notin {"load", "poll"} => WriteOf(c) \in Writes
    BY DEF WriteOf, Calls, Writes
  <2>2. WriteOf(c) = "approve" => reference
    BY <1>12 DEF CallFails, WriteOf, PageInv
  <2>3. StoreMoves
    BY <1>12, <2>1, <2>2, EffectMoves, RefusedMoves DEF CallFails
  <2>4. late' \subseteq Left /\ ("approve" \in late' => reference)
    BY <1>12, <2>1, <2>2 DEF CallFails, PageInv, Left
  <2>5. calls' \subseteq calls /\ view' = "ready" /\ UNCHANGED <<shown, candidate, timer>>
    BY <1>12 DEF CallFails
  <2> QED BY <2>3, <2>4, <2>5 DEF StoreMoves, PageInv
<1>13. ASSUME NEW c \in Calls, Decides(c) PROVE StoreInv' /\ PageInv'
  <2>1. WriteOf(c) \in Writes /\ (WriteOf(c) = "approve" => reference)
    BY <1>13 DEF Decides, WriteOf, Writes, PageInv
  <2>2. StoreMoves
    BY <1>13, <2>1, EffectMoves DEF Decides
  <2>3. calls' \subseteq calls \cup {"load"} /\ UNCHANGED <<view, shown, timer, late>>
    BY <1>13 DEF Decides
  <2>4. candidate' \in BOOLEAN
    BY <1>13 DEF Decides
  <2> QED BY <2>2, <2>3, <2>4 DEF StoreMoves, PageInv, Calls
<1>14. CASE LatePublishes
  <2>1. StoreMoves /\ reference'
    <3>1. Effect("publish") /\ "publish" \in Writes
      BY <1>14 DEF LatePublishes, PublishedFirst, Effect, Writes
    <3> QED BY <1>14, <3>1, EffectMoves DEF LatePublishes, PublishedFirst, Published
  <2>2. late' \subseteq Left /\ UNCHANGED pageVars
    BY <1>14 DEF LatePublishes, PageInv, Left, Writes
  <2> QED BY <2>1, <2>2 DEF StoreMoves, PageInv, pageVars
<1> QED
  BY <1>1, <1>2, <1>3, <1>4, <1>5, <1>6, <1>7, <1>8, <1>9, <1>10, <1>11, <1>12, <1>13,
     <1>14 DEF FixNext

-----------------------------------------------------------------------------
LEMMA InvSplit ==
  /\ Inv <=> control \in {"form", "fix"} /\ FormInv /\ FixInv
  /\ Inv' <=> control' \in {"form", "fix"} /\ FormInv' /\ FixInv'
  BY DEF Inv, TypeOK, FormInv, FormTypes, FixInv, FixTypes

LEMMA FormUnchanged == UNCHANGED formVars /\ FormInv => FormInv'
  BY DEF formVars, FormInv, FormTypes, Keyed

LEMMA FixUnchanged == UNCHANGED fixVars /\ FixInv => FixInv'
  BY DEF fixVars, pageVars, storeVars, FixInv, FixTypes, Recorded

LEMMA InvStep == Inv /\ [Next]_vars => Inv'
<1> SUFFICES ASSUME Inv, [Next]_vars PROVE Inv'
  OBVIOUS
<1>1. FormInv /\ FixInv /\ control \in {"form", "fix"}
  BY InvSplit
<1>2. CASE FormNext /\ UNCHANGED <<control, fixVars>>
  BY <1>1, <1>2, FormStep, FixUnchanged, InvSplit
<1>3. CASE FixNext /\ UNCHANGED <<control, formVars>>
  BY <1>1, <1>3, FixStep, FormUnchanged, InvSplit
<1>4. CASE UNCHANGED vars
  BY <1>1, <1>4, FixUnchanged, FormUnchanged, InvSplit DEF vars
<1> QED BY <1>2, <1>3, <1>4 DEF Next

LEMMA InvHolds == Spec => []Inv
<1> QED BY InitInv, InvStep, PTL DEF Spec

(* Every variable keeps its type: a request, a fix and the page are only in    *)
(* states that the code has a name for.                                     *)
THEOREM TypeCorrect == Spec => []TypeOK
<1>1. Inv => TypeOK
  BY DEF Inv
<1> QED BY <1>1, InvHolds, PTL

(* Whatever is lost or late, one thing that the user asks for queues one       *)
(* review at most.                                                         *)
THEOREM OneReview == Spec => []OneReviewPerAsking
<1>1. Inv => OneReviewPerAsking
  BY DEF Inv, Keyed, OneReviewPerAsking
<1> QED BY <1>1, InvHolds, PTL

(* No request of a page, lost or late, queues a fix without its suggestion.    *)
THEOREM PublishedBeforeQueued == Spec => []ApprovedIsPublished
<1>1. Inv => ApprovedIsPublished
  BY DEF Inv, Recorded, ApprovedIsPublished
<1> QED BY <1>1, InvHolds, PTL
=============================================================================
