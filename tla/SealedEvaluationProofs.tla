----------------------- MODULE SealedEvaluationProofs -----------------------
(***************************************************************************)
(* The sealed data is read once and scored once, for any stewards, scorers *)
(* and plans, and however many calls fail, are killed or lose power.       *)
(***************************************************************************)
EXTENDS SealedEvaluation, TLAPS

-----------------------------------------------------------------------------
(* The invariant of the access.                                            *)

Stages == {"idle", "planned", "over"} \cup Publishing \cup InContext
Values == {"committed", None} \cup Plans \cup Stewards \cup Outcomes

AccessTypes ==
    /\ dir \in Receipts /\ disk \in Receipts
    /\ pc \in [Procs -> Stages]
    /\ pending \in [Procs -> [name : {"pair", "bound", "claim", "outcome"}, value : Values]]
    /\ target \in [Stewards -> Plans \cup {None}]
    /\ readers \subseteq Stewards /\ samples \subseteq readers /\ returned \subseteq Stewards

\* Who publishes a receipt or is inside its access has the directory; only the
\* construction of the split works without it.
LockHeld ==
    \A p \in Procs : p # Splitter /\ pc[p] \in Publishing \cup InContext => lock = p

Completed(s) == [status |-> "completed", plan |-> target[s]]

\* What is durable stays, and a plan is not bound under an access that began.
Durable ==
    /\ disk.bound # None => dir.bound = disk.bound
    /\ disk.claim # None => dir.claim = disk.claim
    /\ disk.outcome # None => dir.outcome = disk.outcome
    /\ disk.claim # None \/ disk.outcome # None => dir.bound = disk.bound

\* Only the owner of the durable claim has read, and only what was read is completed.
ReadByOwner ==
    /\ readers \subseteq {disk.claim}
    /\ dir.outcome # None /\ dir.outcome.status = "completed" => readers # {}

Owns(s) == disk.claim = s /\ disk.bound = target[s] /\ disk.bound # None

\* What a process is about to publish, or has renamed and not synced.
PublishesBound(p) ==
    pending[p].name = "bound" =>
        /\ p \in Stewards /\ pending[p].value \in Plans
        /\ pc[p] = "publish" => dir.claim = None /\ dir.outcome = None

PublishesClaim(p) ==
    pending[p].name = "claim" =>
        /\ p \in Stewards /\ pending[p].value = p /\ p \notin readers
        /\ dir.bound = target[p] /\ dir.bound # None /\ dir.outcome = None
        /\ pc[p] = "publish" => dir.claim = None
        /\ pc[p] = "sync" => dir.claim = p

PublishesOutcome(p) ==
    pending[p].name = "outcome" =>
        /\ p # Splitter /\ pending[p].value \in Outcomes
        /\ p \in Stewards => Owns(p)
        /\ pending[p].value.status = "completed" =>
              p \in Stewards /\ p \in samples /\ pending[p].value = Completed(p)
        /\ pc[p] = "publish" => dir.outcome = None
        /\ pc[p] = "sync" => dir.outcome = pending[p].value

Pending ==
    \A p \in Procs : pc[p] \in Publishing =>
        /\ pending[p].name = "pair" <=> p = Splitter
        /\ pending[p].name = "pair" => pending[p].value = "committed"
        /\ PublishesBound(p) /\ PublishesClaim(p) /\ PublishesOutcome(p)

Inside ==
    \A s \in Procs : pc[s] \in InContext =>
        /\ s \in Stewards /\ Owns(s) /\ dir.outcome = None
        /\ s \in readers <=> pc[s] # "claimed"
        /\ pc[s] = "attached" => s \in samples

\* A capture that returned is over, so its target does not change any more.
Returned ==
    \A s \in returned :
        pc[s] = "over" /\ s \in samples /\ Owns(s) /\ disk.outcome = Completed(s)

AccessInv ==
    AccessTypes /\ LockHeld /\ Durable /\ ReadByOwner /\ Pending /\ Inside /\ Returned

accessVars == <<dir, disk, lock, pc, pending, target, readers, samples, returned>>

LEMMA AccessStarts == SealedInit => AccessInv
<1> SUFFICES ASSUME SealedInit PROVE AccessInv
  OBVIOUS
<1> USE DEF SealedInit
<1>1. AccessTypes
  BY DEF AccessTypes, NoReceipts, Receipts, Nothing, Values, Stages
<1>2. LockHeld /\ Pending /\ Inside /\ Returned
  BY DEF LockHeld, Pending, Inside, Returned, Publishing, InContext
<1>3. Durable /\ ReadByOwner
  BY DEF Durable, ReadByOwner, NoReceipts
<1> QED BY <1>1, <1>2, <1>3 DEF AccessInv

-----------------------------------------------------------------------------
(* Every step keeps it.                                                    *)

LEMMA QuietKeeps == AccessInv /\ UNCHANGED accessVars => AccessInv'
BY DEF AccessInv, accessVars, AccessTypes, LockHeld, Durable, ReadByOwner, Pending, Inside,
   Returned, PublishesBound, PublishesClaim, PublishesOutcome, Owns, Completed

\* A call ends, well or badly.
LEMMA EndKeeps ==
    ASSUME AccessInv, NEW p \in Procs, Over(p), Unlock(p) \/ UNCHANGED lock,
           UNCHANGED <<dir, disk, pending, target, readers, samples, returned>>
    PROVE  AccessInv'
<1> USE DEF Over
<1>0. /\ pc \in [Procs -> Stages] /\ pc' \in [Procs -> Stages]
      /\ \A q \in Procs : pc'[q] = pc[q] \/ (q = p /\ pc'[q] \in {"idle", "over"})
      /\ p # Finalizer => pc'[p] = "over"
  BY DEF AccessInv, AccessTypes, Stages
<1>1. AccessTypes'
  BY <1>0 DEF AccessInv, AccessTypes
<1>2. LockHeld'
  <2> SUFFICES ASSUME NEW q \in Procs, q # Splitter, pc'[q] \in Publishing \cup InContext
               PROVE  lock' = q
    BY DEF LockHeld
  <2>1. pc'[q] = pc[q] /\ q # p
    BY <1>0 DEF Publishing, InContext
  <2>2. lock = q
    BY <2>1 DEF AccessInv, LockHeld
  <2> QED BY <2>1, <2>2 DEF Unlock
<1>3. Durable' /\ ReadByOwner'
  BY DEF AccessInv, Durable, ReadByOwner
<1>4. Pending'
  <2> SUFFICES ASSUME NEW q \in Procs, pc'[q] \in Publishing
               PROVE  /\ (pending[q].name = "pair") <=> q = Splitter
                      /\ pending[q].name = "pair" => pending[q].value = "committed"
                      /\ PublishesBound(q)' /\ PublishesClaim(q)' /\ PublishesOutcome(q)'
    BY DEF Pending
  <2>1. pc'[q] = pc[q]
    BY <1>0 DEF Publishing
  <2> QED BY <2>1 DEF AccessInv, Pending, PublishesBound, PublishesClaim, PublishesOutcome,
          Owns, Completed
<1>5. Inside'
  <2> SUFFICES ASSUME NEW q \in Procs, pc'[q] \in InContext
               PROVE  /\ q \in Stewards /\ Owns(q)' /\ dir.outcome = None
                      /\ q \in readers <=> pc'[q] # "claimed"
                      /\ pc'[q] = "attached" => q \in samples
    BY DEF Inside
  <2>1. pc'[q] = pc[q]
    BY <1>0 DEF InContext
  <2> QED BY <2>1 DEF AccessInv, Inside, Owns
<1>6. Returned'
  <2> SUFFICES ASSUME NEW s \in returned
               PROVE  pc'[s] = "over" /\ s \in samples /\ Owns(s)' /\ disk.outcome = Completed(s)'
    BY DEF Returned
  <2>1. pc[s] = "over" /\ s \in samples /\ Owns(s) /\ disk.outcome = Completed(s)
    BY DEF AccessInv, Returned
  <2>2. s \in Procs /\ s # Finalizer
    BY ProcsAssumption DEF AccessInv, AccessTypes, Procs
  <2> QED BY <1>0, <2>1, <2>2 DEF Owns, Completed
<1> QED BY <1>1, <1>2, <1>3, <1>4, <1>5, <1>6 DEF AccessInv

\* The pieces of the invariant that other steps of a holder p cannot disturb.
LEMMA OthersIdle ==
    ASSUME AccessInv, NEW p \in Procs, p # Splitter, lock \in {None, p}
    PROVE  \A q \in Procs : q # p /\ pc[q] \in Publishing \cup InContext =>
              q = Splitter /\ pc[q] \in Publishing
BY ProcsAssumption DEF AccessInv, LockHeld, Inside, Procs

\* A process other than the construction begins to publish a receipt.
LEMMA PublishKeeps ==
    ASSUME AccessInv, NEW p \in Procs, p # Splitter, pc[p] # "over",
           NEW name \in {"bound", "claim", "outcome"}, NEW value \in Values,
           Publish(p, name, value), lock \in {None, p}, lock' = p,
           target' \in [Stewards -> Plans \cup {None}],
           \A s \in Stewards : s # p => target'[s] = target[s],
           PublishesBound(p)', PublishesClaim(p)', PublishesOutcome(p)',
           UNCHANGED <<dir, disk, readers, samples, returned>>
    PROVE  AccessInv'
<1> USE DEF Publish
<1>0. /\ pc \in [Procs -> Stages] /\ pc' = [pc EXCEPT ![p] = "publish"]
      /\ pending' = [pending EXCEPT ![p] = [name |-> name, value |-> value]]
      /\ \A q \in Procs : q # p => pc'[q] = pc[q] /\ pending'[q] = pending[q]
      /\ pc'[p] = "publish" /\ pending'[p] = [name |-> name, value |-> value]
  BY DEF AccessInv, AccessTypes
<1>1. AccessTypes'
  BY <1>0 DEF AccessInv, AccessTypes, Stages, Publishing
<1>2. \A q \in Procs : q # p /\ pc'[q] \in Publishing \cup InContext =>
         q = Splitter /\ pc[q] \in Publishing
  BY <1>0, OthersIdle
<1>3. LockHeld'
  BY <1>2 DEF LockHeld
<1>4. Durable' /\ ReadByOwner'
  BY DEF AccessInv, Durable, ReadByOwner
<1>5. Pending'
  <2> SUFFICES ASSUME NEW q \in Procs, pc'[q] \in Publishing
               PROVE  /\ (pending'[q].name = "pair") <=> q = Splitter
                      /\ pending'[q].name = "pair" => pending'[q].value = "committed"
                      /\ PublishesBound(q)' /\ PublishesClaim(q)' /\ PublishesOutcome(q)'
    BY DEF Pending
  <2>1. CASE q = p
    BY <1>0, <2>1
  <2>2. CASE q # p
    <3>1. q = Splitter /\ pc[q] \in Publishing /\ pending'[q] = pending[q]
      BY <1>0, <1>2, <2>2
    <3>2. pending[q].name = "pair" /\ pending[q].value = "committed"
      BY <3>1 DEF AccessInv, Pending
    <3> QED BY <3>1, <3>2 DEF PublishesBound, PublishesClaim, PublishesOutcome
  <2> QED BY <2>1, <2>2
<1>6. Inside'
  <2>1. \A q \in Procs : pc'[q] \notin InContext
    BY <1>0, <1>2 DEF Publishing, InContext
  <2> QED BY <2>1 DEF Inside
<1>7. Returned'
  <2> SUFFICES ASSUME NEW s \in returned
               PROVE  /\ pc'[s] = "over" /\ s \in samples /\ Owns(s)'
                      /\ disk.outcome = Completed(s)'
    BY DEF Returned
  <2>1. pc[s] = "over" /\ s \in samples /\ Owns(s) /\ disk.outcome = Completed(s)
    BY DEF AccessInv, Returned
  <2>2. s \in Procs /\ s \in Stewards /\ s # p
    BY <2>1 DEF AccessInv, AccessTypes, Procs
  <2> QED BY <1>0, <2>1, <2>2 DEF Owns, Completed
<1> QED BY <1>1, <1>3, <1>4, <1>5, <1>6, <1>7 DEF AccessInv

\* Before a claim is durable nobody has read.
LEMMA UnclaimedUnread ==
    ASSUME AccessInv, dir.claim = None
    PROVE  disk.claim = None /\ readers = {}
<1>1. disk.claim = None
  BY DEF AccessInv, Durable
<1>2. None \notin Stewards
  BY ProcsAssumption DEF Procs
<1> QED BY <1>1, <1>2 DEF AccessInv, ReadByOwner, AccessTypes

LEMMA StewardIsProcess ==
    ASSUME NEW s \in Stewards
    PROVE  s \in Procs /\ s # Splitter /\ s # Finalizer /\ s # None
BY ProcsAssumption DEF Procs

LEMMA BindPlanKeeps ==
    ASSUME AccessInv, NEW s \in Stewards, BindPlan(s)
    PROVE  AccessInv'
<1>1. PICK plan \in Plans : target' = [target EXCEPT ![s] = plan] /\ Publish(s, "bound", plan)
  BY DEF BindPlan
<1>2. /\ pc[s] = "idle" /\ lock = None /\ lock' = s /\ dir.claim = None /\ dir.outcome = None
      /\ UNCHANGED <<dir, disk, readers, samples, returned>>
  BY DEF BindPlan, Opens
<1>3. pending'[s] = [name |-> "bound", value |-> plan]
  BY <1>1, StewardIsProcess DEF Publish, AccessInv, AccessTypes
<1>4. PublishesBound(s)' /\ PublishesClaim(s)' /\ PublishesOutcome(s)'
  BY <1>2, <1>3 DEF PublishesBound, PublishesClaim, PublishesOutcome
<1>5. /\ target' \in [Stewards -> Plans \cup {None}]
      /\ \A t \in Stewards : t # s => target'[t] = target[t]
  BY <1>1 DEF AccessInv, AccessTypes
<1>6. plan \in Values
  BY DEF Values
<1> QED BY <1>1, <1>2, <1>4, <1>5, <1>6, StewardIsProcess, PublishKeeps

LEMMA EnterKeeps ==
    ASSUME AccessInv, NEW s \in Stewards, Enter(s)
    PROVE  AccessInv'
<1>1. /\ pc[s] \in {"idle", "planned"} /\ lock = None /\ lock' = s
      /\ dir.claim = None /\ dir.outcome = None /\ dir.bound # None
      /\ target' = [target EXCEPT ![s] = dir.bound] /\ Publish(s, "claim", s)
      /\ UNCHANGED <<dir, disk, readers, samples, returned>>
  BY DEF Enter, Opens
<1>2. pending'[s] = [name |-> "claim", value |-> s] /\ pc'[s] = "publish"
  BY <1>1, StewardIsProcess DEF Publish, AccessInv, AccessTypes
<1>3. readers = {}
  BY <1>1, UnclaimedUnread
<1>4. dir.bound \in Plans
  BY <1>1 DEF AccessInv, AccessTypes, Receipts
<1>5. /\ target' \in [Stewards -> Plans \cup {None}] /\ target'[s] = dir.bound
      /\ \A t \in Stewards : t # s => target'[t] = target[t]
  BY <1>1, <1>4 DEF AccessInv, AccessTypes
<1>6. PublishesBound(s)' /\ PublishesClaim(s)' /\ PublishesOutcome(s)'
  BY <1>1, <1>2, <1>3, <1>5 DEF PublishesBound, PublishesClaim, PublishesOutcome
<1>7. s \in Values
  BY DEF Values
<1> QED BY <1>1, <1>5, <1>6, <1>7, StewardIsProcess, PublishKeeps

LEMMA LeaveKeeps ==
    ASSUME AccessInv, NEW s \in Stewards, Leave(s)
    PROVE  AccessInv'
<1>1. PICK raised \in BOOLEAN : Publish(s, "outcome", Concluding(s, raised))
  BY DEF Leave
<1>2. /\ pc[s] \in InContext
      /\ UNCHANGED <<dir, disk, lock, target, readers, samples, returned>>
  BY DEF Leave
<1>3. /\ lock = s /\ Owns(s) /\ dir.outcome = None
      /\ pc[s] = "attached" => s \in samples
      /\ disk.bound \in Plans \cup {None}
  BY <1>2, StewardIsProcess DEF AccessInv, Inside, LockHeld, AccessTypes, Receipts
<1>4. target[s] \in Plans
  BY <1>3 DEF AccessInv, AccessTypes, Owns
<1>5. /\ Concluding(s, raised) \in Outcomes
      /\ Concluding(s, raised).status = "completed" =>
            s \in samples /\ Concluding(s, raised) = Completed(s)
  BY <1>3, <1>4 DEF Concluding, Outcomes, Completed
<1>6. pending'[s] = [name |-> "outcome", value |-> Concluding(s, raised)] /\ pc'[s] = "publish"
  BY <1>1, StewardIsProcess DEF Publish, AccessInv, AccessTypes
<1>7. PublishesBound(s)' /\ PublishesClaim(s)' /\ PublishesOutcome(s)'
  <2> DEFINE v == Concluding(s, raised)
  <2>1. /\ v \in Outcomes
        /\ v.status = "completed" => s \in samples /\ v = Completed(s)
    BY <1>5
  <2>2. pending'[s] = [name |-> "outcome", value |-> v]
    BY <1>6
  <2> HIDE DEF v
  <2> QED BY <1>2, <1>3, <1>6, <2>1, <2>2, StewardIsProcess
          DEF PublishesBound, PublishesClaim, PublishesOutcome, Owns, Completed
<1>8. Concluding(s, raised) \in Values
  BY <1>5 DEF Values
<1>9. target' \in [Stewards -> Plans \cup {None}] /\ lock' = s /\ pc[s] # "over"
  BY <1>2, <1>3 DEF AccessInv, AccessTypes, InContext
<1> QED BY <1>1, <1>2, <1>3, <1>7, <1>8, <1>9, StewardIsProcess, PublishKeeps

LEMMA FinalizeKeeps ==
    ASSUME AccessInv, Finalize
    PROVE  AccessInv'
<1> DEFINE v == [status |-> "aborted", plan |-> None]
<1>1. /\ pc[Finalizer] = "idle" /\ lock = None /\ lock' = Finalizer /\ dir.outcome = None
      /\ Publish(Finalizer, "outcome", v)
      /\ UNCHANGED <<dir, disk, target, readers, samples, returned>>
  BY DEF Finalize, Opens
<1>2. Finalizer \in Procs /\ Finalizer # Splitter /\ Finalizer \notin Stewards
  BY ProcsAssumption DEF Procs
<1>3. v \in Outcomes /\ v.status # "completed"
  BY DEF Outcomes
<1>4. v \in Values
  BY <1>3 DEF Values
<1> HIDE DEF v
<1>5. pending'[Finalizer] = [name |-> "outcome", value |-> v] /\ pc'[Finalizer] = "publish"
  BY <1>1, <1>2 DEF Publish, AccessInv, AccessTypes
<1>6. /\ PublishesBound(Finalizer)' /\ PublishesClaim(Finalizer)'
      /\ PublishesOutcome(Finalizer)'
  BY <1>1, <1>2, <1>3, <1>5 DEF PublishesBound, PublishesClaim, PublishesOutcome
<1>7. target' \in [Stewards -> Plans \cup {None}]
  BY <1>1 DEF AccessInv, AccessTypes
<1> QED BY <1>1, <1>2, <1>4, <1>6, <1>7, PublishKeeps

LEMMA PublishPairKeeps ==
    ASSUME AccessInv, PublishPair
    PROVE  AccessInv'
<1>0. Splitter \in Procs /\ Splitter \notin Stewards /\ Splitter # Finalizer
  BY ProcsAssumption DEF Procs
<1>1. /\ pc' = [pc EXCEPT ![Splitter] = "publish"]
      /\ pending' = [pending EXCEPT ![Splitter] = [name |-> "pair", value |-> "committed"]]
      /\ UNCHANGED <<dir, disk, lock, target, readers, samples, returned>>
  BY DEF PublishPair, Publish
<1>2. /\ pc'[Splitter] = "publish" /\ pending'[Splitter] = [name |-> "pair", value |-> "committed"]
      /\ \A q \in Procs : q # Splitter => pc'[q] = pc[q] /\ pending'[q] = pending[q]
  BY <1>0, <1>1 DEF AccessInv, AccessTypes
<1>3. AccessTypes'
  BY <1>0, <1>1 DEF AccessInv, AccessTypes, Stages, Publishing, Values
<1>4. LockHeld' /\ Durable' /\ ReadByOwner'
  BY <1>1, <1>2 DEF AccessInv, LockHeld, Durable, ReadByOwner
<1>5. Pending'
  <2> SUFFICES ASSUME NEW q \in Procs, pc'[q] \in Publishing
               PROVE  /\ (pending'[q].name = "pair") <=> q = Splitter
                      /\ pending'[q].name = "pair" => pending'[q].value = "committed"
                      /\ PublishesBound(q)' /\ PublishesClaim(q)' /\ PublishesOutcome(q)'
    BY DEF Pending
  <2>1. CASE q = Splitter
    BY <1>2, <2>1 DEF PublishesBound, PublishesClaim, PublishesOutcome
  <2>2. CASE q # Splitter
    BY <1>1, <1>2, <2>2 DEF AccessInv, Pending, PublishesBound, PublishesClaim, PublishesOutcome,
       Owns, Completed
  <2> QED BY <2>1, <2>2
<1>6. Inside'
  BY <1>1, <1>2 DEF AccessInv, Inside, InContext, Owns
<1>7. Returned'
  <2>1. \A s \in returned : s \in Procs /\ s # Splitter
    BY <1>0, StewardIsProcess DEF AccessInv, AccessTypes
  <2> QED BY <1>1, <1>2, <2>1 DEF AccessInv, Returned, Owns, Completed
<1> QED BY <1>3, <1>4, <1>5, <1>6, <1>7 DEF AccessInv

\* Reading, exhausting the data and committing a sample, under the claim.
LEMMA InsideKeeps ==
    ASSUME AccessInv, NEW s \in Stewards, Read(s) \/ Exhaust(s) \/ CommitSample(s)
    PROVE  AccessInv'
<1>1. /\ pc[s] \in InContext /\ pc'[s] \in InContext \ {"claimed"}
      /\ pc' \in [Procs -> Stages] /\ \A q \in Procs : q # s => pc'[q] = pc[q]
      /\ UNCHANGED <<dir, disk, lock, pending, target, returned>>
      /\ readers' = readers \cup {s} /\ s \in readers'
      /\ samples' \in {samples, samples \cup {s}}
      /\ pc'[s] = "attached" => s \in samples'
  <2>0. pc \in [Procs -> Stages] /\ s \in Procs
    BY StewardIsProcess DEF AccessInv, AccessTypes
  <2>1. CASE Read(s)
    BY <2>0, <2>1 DEF Read, InContext, Stages
  <2>2. pc[s] \in InContext \ {"claimed"} => s \in readers
    BY <2>0 DEF AccessInv, Inside
  <2>3. CASE Exhaust(s)
    BY <2>0, <2>2, <2>3 DEF Exhaust, InContext, Stages
  <2>4. CASE CommitSample(s)
    BY <2>0, <2>2, <2>4 DEF CommitSample, InContext, Stages
  <2> QED BY <2>1, <2>3, <2>4
<1>2. s \in Procs /\ lock = s /\ Owns(s) /\ dir.outcome = None
  BY <1>1, StewardIsProcess DEF AccessInv, LockHeld, Inside
<1>3. \A q \in Procs : q # s /\ pc'[q] \in Publishing \cup InContext =>
         q = Splitter /\ pc'[q] \in Publishing
  BY <1>1, <1>2, StewardIsProcess, OthersIdle
<1>4. AccessTypes'
  BY <1>1 DEF AccessInv, AccessTypes
<1>5. LockHeld'
  BY <1>1, <1>2, <1>3 DEF LockHeld
<1>6. Durable' /\ ReadByOwner'
  BY <1>1, <1>2 DEF AccessInv, Durable, ReadByOwner, Owns
<1>7. Pending'
  <2> SUFFICES ASSUME NEW q \in Procs, pc'[q] \in Publishing
               PROVE  /\ (pending'[q].name = "pair") <=> q = Splitter
                      /\ pending'[q].name = "pair" => pending'[q].value = "committed"
                      /\ PublishesBound(q)' /\ PublishesClaim(q)' /\ PublishesOutcome(q)'
    BY DEF Pending
  <2>1. q = Splitter /\ pc[q] \in Publishing /\ pending'[q] = pending[q]
    BY <1>1, <1>3, StewardIsProcess DEF Publishing, InContext
  <2> QED BY <2>1 DEF AccessInv, Pending, PublishesBound, PublishesClaim, PublishesOutcome
<1>8. Inside'
  <2>1. \A q \in Procs : pc'[q] \in InContext => q = s
    BY <1>3 DEF Publishing, InContext
  <2> QED BY <1>1, <1>2, <2>1 DEF Inside, Owns
<1>9. Returned'
  <2>1. s \notin returned
    BY <1>1 DEF AccessInv, Returned, InContext
  <2> QED BY <1>1, <2>1, StewardIsProcess DEF AccessInv, AccessTypes, Returned, Owns, Completed
<1> QED BY <1>4, <1>5, <1>6, <1>7, <1>8, <1>9 DEF AccessInv

\* What is durable is not withdrawn.
Grows ==
    /\ disk.bound # None => disk'.bound = disk.bound
    /\ disk.claim # None => disk'.claim = disk.claim
    /\ disk.outcome # None => disk'.outcome = disk.outcome
    /\ disk.claim # None \/ disk.outcome # None => disk'.bound = disk.bound

\* When a receipt becomes durable, the claims and the returned captures stand.
LEMMA GrowthKeeps ==
    ASSUME AccessInv, Grows, UNCHANGED <<target, readers, samples>>
    PROVE  /\ readers' \subseteq {disk'.claim}
           /\ \A s \in Stewards : Owns(s) => Owns(s)'
           /\ \A s \in returned : s \in samples /\ Owns(s)' /\ disk'.outcome = Completed(s)'
<1>1. readers \subseteq Stewards /\ readers \subseteq {disk.claim}
  BY DEF AccessInv, AccessTypes, ReadByOwner
<1>2. readers' \subseteq {disk'.claim}
  BY <1>1, StewardIsProcess DEF Grows
<1>3. ASSUME NEW s \in Stewards, Owns(s) PROVE Owns(s)'
  BY <1>3, StewardIsProcess DEF Owns, Grows
<1>4. ASSUME NEW s \in returned
      PROVE  s \in samples /\ Owns(s)' /\ disk'.outcome = Completed(s)'
  <2>1. s \in Stewards /\ s \in samples /\ Owns(s) /\ disk.outcome = Completed(s)
    BY DEF AccessInv, AccessTypes, Returned
  <2>2. target[s] \in Plans
    BY <2>1 DEF AccessInv, AccessTypes, Owns
  <2>3. disk.outcome # None
    BY <2>1, <2>2, ProcsAssumption DEF Completed, Outcomes
  <2> QED BY <1>3, <2>1, <2>3 DEF Grows, Completed
<1> QED BY <1>2, <1>3, <1>4

\* The receipts that a rename leaves alone.
LEMMA RenameEffect ==
    ASSUME AccessInv, NEW p \in Procs, RenameStage(p)
    PROVE  /\ dir' \in Receipts
           /\ CASE pending[p].name = "bound" ->
                       /\ p \in Stewards /\ dir.bound = None /\ dir.claim = None
                       /\ dir.outcome = None /\ dir'.claim = None /\ dir'.outcome = None
                [] pending[p].name = "claim" ->
                       /\ p \in Stewards /\ dir.claim = None /\ dir'.claim = p
                       /\ dir'.bound = dir.bound /\ dir'.outcome = dir.outcome
                [] pending[p].name = "outcome" ->
                       /\ p # Splitter /\ dir.outcome = None /\ dir'.outcome = pending[p].value
                       /\ dir'.bound = dir.bound /\ dir'.claim = dir.claim
                [] OTHER ->
                       /\ p = Splitter /\ dir'.bound = dir.bound /\ dir'.claim = dir.claim
                       /\ dir'.outcome = dir.outcome
<1> DEFINE n == pending[p].name
           v == pending[p].value
<1>1. /\ pc[p] = "publish" /\ dir[n] = None /\ dir' = [dir EXCEPT ![n] = v]
      /\ dir \in Receipts /\ n \in {"pair", "bound", "claim", "outcome"}
  BY DEF RenameStage, AccessInv, AccessTypes
<1>2. /\ n = "pair" <=> p = Splitter
      /\ n = "pair" => v = "committed"
      /\ n = "bound" => p \in Stewards /\ v \in Plans /\ dir.claim = None /\ dir.outcome = None
      /\ n = "claim" => p \in Stewards /\ v = p
      /\ n = "outcome" => v \in Outcomes
  BY <1>1 DEF AccessInv, Pending, Publishing, PublishesBound, PublishesClaim, PublishesOutcome
<1> HIDE DEF n, v
<1>3. CASE n = "pair"
  BY <1>1, <1>2, <1>3 DEF Receipts, n, v
<1>4. CASE n = "bound"
  BY <1>1, <1>2, <1>4 DEF Receipts, n, v
<1>5. CASE n = "claim"
  BY <1>1, <1>2, <1>5 DEF Receipts, n, v
<1>6. CASE n = "outcome"
  BY <1>1, <1>2, <1>6 DEF Receipts, n, v
<1> QED BY <1>1, <1>3, <1>4, <1>5, <1>6

LEMMA RenameKeeps ==
    ASSUME AccessInv, NEW p \in Procs, RenameStage(p)
    PROVE  AccessInv'
<1>1. /\ pc[p] = "publish" /\ pc' = [pc EXCEPT ![p] = "sync"]
      /\ UNCHANGED <<disk, lock, pending, target, readers, samples, returned>>
  BY DEF RenameStage
<1>2. /\ pc'[p] = "sync" /\ \A q \in Procs : q # p => pc'[q] = pc[q]
      /\ pc' \in [Procs -> Stages]
  BY <1>1 DEF AccessInv, AccessTypes, Stages, Publishing
<1>3. /\ (pending[p].name = "pair") <=> p = Splitter
      /\ pending[p].name = "pair" => pending[p].value = "committed"
      /\ PublishesBound(p) /\ PublishesClaim(p) /\ PublishesOutcome(p)
  BY <1>1 DEF AccessInv, Pending, Publishing
<1>4. p # Splitter => \A q \in Procs : q # p /\ pc[q] \in Publishing \cup InContext =>
                         q = Splitter /\ pc[q] \in Publishing
  BY <1>1, OthersIdle DEF AccessInv, LockHeld, Publishing
<1>5. p = Splitter => dir'.bound = dir.bound /\ dir'.claim = dir.claim /\ dir'.outcome = dir.outcome
  BY <1>3, RenameEffect
<1>6. AccessTypes'
  BY <1>1, <1>2, RenameEffect DEF AccessInv, AccessTypes
<1>7. LockHeld'
  BY <1>1, <1>2 DEF AccessInv, LockHeld, Publishing, InContext
<1>8. Durable'
  BY <1>1, RenameEffect DEF AccessInv, Durable
<1>9. ReadByOwner'
  BY <1>1, <1>3, RenameEffect DEF AccessInv, ReadByOwner, AccessTypes, PublishesOutcome
<1>10. Pending'
  <2> SUFFICES ASSUME NEW q \in Procs, pc'[q] \in Publishing
               PROVE  /\ (pending[q].name = "pair") <=> q = Splitter
                      /\ pending[q].name = "pair" => pending[q].value = "committed"
                      /\ PublishesBound(q)' /\ PublishesClaim(q)' /\ PublishesOutcome(q)'
    BY <1>1 DEF Pending
  <2>1. CASE q = p
    BY <1>1, <1>2, <1>3, <2>1, RenameEffect DEF PublishesBound, PublishesClaim, PublishesOutcome,
       Owns, Completed
  <2>2. CASE q # p /\ p = Splitter
    BY <1>1, <1>2, <1>5, <2>2 DEF AccessInv, Pending, PublishesBound, PublishesClaim,
       PublishesOutcome, Owns, Completed
  <2>3. CASE q # p /\ p # Splitter
    <3>1. q = Splitter /\ pc[q] \in Publishing
      BY <1>2, <1>4, <2>3
    <3>2. pending[q].name = "pair" /\ pending[q].value = "committed"
      BY <3>1 DEF AccessInv, Pending
    <3> QED BY <1>1, <3>1, <3>2 DEF PublishesBound, PublishesClaim, PublishesOutcome
  <2> QED BY <2>1, <2>2, <2>3
<1>11. Inside'
  <2>1. CASE p = Splitter
    BY <1>1, <1>2, <1>5, <2>1 DEF AccessInv, Inside, InContext, Owns
  <2>2. CASE p # Splitter
    <3>1. \A q \in Procs : pc'[q] \notin InContext
      BY <1>2, <1>4, <2>2 DEF InContext, Publishing
    <3> QED BY <3>1 DEF Inside
  <2> QED BY <2>1, <2>2
<1>12. Returned'
  <2>1. \A s \in returned : s \in Procs /\ s # p
    BY <1>1, StewardIsProcess DEF AccessInv, AccessTypes, Returned
  <2> QED BY <1>1, <1>2, <2>1 DEF AccessInv, Returned, Owns, Completed
<1> QED BY <1>6, <1>7, <1>8, <1>9, <1>10, <1>11, <1>12 DEF AccessInv

LEMMA SyncGrows ==
    ASSUME AccessInv, disk' = dir
    PROVE  Grows
BY DEF AccessInv, Durable, Grows

LEMMA SyncKeeps ==
    ASSUME AccessInv, NEW p \in Procs, SyncDirectory(p)
    PROVE  AccessInv'
<1>1. /\ pc[p] = "sync" /\ disk' = dir /\ UNCHANGED <<dir, pending, target, readers, samples>>
      /\ returned' = IF p \in Stewards /\ pending[p].name = "outcome"
                         /\ pending[p].value.status = "completed"
                      THEN returned \cup {p} ELSE returned
  BY DEF SyncDirectory
<1>2. \/ pending[p].name = "bound" /\ pc' = [pc EXCEPT ![p] = "planned"] /\ Unlock(p)
      \/ pending[p].name = "claim" /\ pc' = [pc EXCEPT ![p] = "claimed"] /\ UNCHANGED lock
      \/ pending[p].name \notin {"bound", "claim"} /\ Over(p) /\ Unlock(p)
  BY DEF SyncDirectory
<1>3. /\ \A q \in Procs : q # p => pc'[q] = pc[q]
      /\ pc' \in [Procs -> Stages] /\ pc'[p] \notin Publishing
      /\ pc'[p] \in InContext => pc'[p] = "claimed" /\ pending[p].name = "claim" /\ lock' = lock
      /\ pending[p].name = "outcome" /\ p # Finalizer => pc'[p] = "over"
  BY <1>2 DEF AccessInv, AccessTypes, Stages, Publishing, InContext, Over
<1>4. lock' = lock \/ (lock = p /\ lock' = None /\ pc'[p] \notin InContext)
  BY <1>2, <1>3 DEF Unlock, AccessInv, AccessTypes, InContext, Over
<1>5. /\ PublishesClaim(p) /\ PublishesOutcome(p)
      /\ (pending[p].name = "pair") <=> p = Splitter
  BY <1>1 DEF AccessInv, Pending, Publishing
<1>6. /\ readers' \subseteq {disk'.claim}
      /\ \A s \in Stewards : Owns(s) => Owns(s)'
      /\ \A s \in returned : s \in samples /\ Owns(s)' /\ disk'.outcome = Completed(s)'
  BY <1>1, SyncGrows, GrowthKeeps
<1>7. AccessTypes'
  BY <1>1, <1>3 DEF AccessInv, AccessTypes
<1>8. LockHeld'
  <2> SUFFICES ASSUME NEW q \in Procs, q # Splitter, pc'[q] \in Publishing \cup InContext
               PROVE  lock' = q
    BY DEF LockHeld
  <2>1. pc[q] \in Publishing \cup InContext
    BY <1>1, <1>3 DEF Publishing
  <2> QED BY <1>3, <1>4, <2>1 DEF AccessInv, LockHeld
<1>9. Durable' /\ ReadByOwner'
  BY <1>1, <1>6 DEF AccessInv, Durable, ReadByOwner
<1>10. Pending'
  <2> SUFFICES ASSUME NEW q \in Procs, pc'[q] \in Publishing
               PROVE  /\ (pending[q].name = "pair") <=> q = Splitter
                      /\ pending[q].name = "pair" => pending[q].value = "committed"
                      /\ PublishesBound(q)' /\ PublishesClaim(q)' /\ PublishesOutcome(q)'
    BY <1>1 DEF Pending
  <2>1. q # p /\ pc'[q] = pc[q]
    BY <1>3
  <2>2. /\ (pending[q].name = "pair") <=> q = Splitter
        /\ pending[q].name = "pair" => pending[q].value = "committed"
        /\ PublishesBound(q) /\ PublishesClaim(q) /\ PublishesOutcome(q)
    BY <2>1 DEF AccessInv, Pending
  <2>3. PublishesBound(q)' /\ PublishesClaim(q)'
    BY <1>1, <2>1, <2>2 DEF PublishesBound, PublishesClaim
  <2>4. PublishesOutcome(q)'
    BY <1>1, <1>6, <2>1, <2>2 DEF PublishesOutcome, Completed
  <2> QED BY <2>2, <2>3, <2>4
<1>11. Inside'
  <2> SUFFICES ASSUME NEW q \in Procs, pc'[q] \in InContext
               PROVE  /\ q \in Stewards /\ Owns(q)' /\ dir.outcome = None
                      /\ q \in readers <=> pc'[q] # "claimed"
                      /\ pc'[q] = "attached" => q \in samples
    BY <1>1 DEF Inside
  <2>1. CASE q = p
    <3>1. pc'[p] = "claimed" /\ pending[p].name = "claim"
      BY <1>3, <2>1
    <3> QED BY <1>1, <1>5, <2>1, <3>1 DEF PublishesClaim, Owns
  <2>2. CASE q # p
    BY <1>3, <1>6, <2>2 DEF AccessInv, Inside
  <2> QED BY <2>1, <2>2
<1>12. Returned'
  <2> SUFFICES ASSUME NEW s \in returned'
               PROVE  /\ pc'[s] = "over" /\ s \in samples /\ Owns(s)'
                      /\ disk'.outcome = Completed(s)'
    BY <1>1 DEF Returned
  <2>1. CASE s \in returned
    <3>1. pc[s] = "over" /\ s \in Procs /\ s # p
      BY <1>1, <2>1, StewardIsProcess DEF AccessInv, AccessTypes, Returned
    <3> QED BY <1>3, <1>6, <2>1, <3>1
  <2>2. CASE s \notin returned
    <3>1. /\ s = p /\ p \in Stewards /\ pending[p].name = "outcome"
          /\ pending[p].value.status = "completed"
      BY <1>1, <2>2
    <3>2. /\ Owns(p) /\ p \in samples /\ dir.outcome = Completed(p)
      BY <1>1, <1>5, <3>1 DEF PublishesOutcome
    <3> QED BY <1>1, <1>3, <1>6, <3>1, <3>2, StewardIsProcess DEF Completed
  <2> QED BY <2>1, <2>2
<1> QED BY <1>7, <1>8, <1>9, <1>10, <1>11, <1>12 DEF AccessInv

LEMMA PowerLossEffect ==
    ASSUME AccessInv, PowerLoss
    PROVE  /\ dir' \in Receipts /\ disk' = dir' /\ Grows
           /\ dir'.bound \in {dir.bound, disk.bound} /\ dir'.claim \in {dir.claim, disk.claim}
           /\ dir'.outcome \in {dir.outcome, disk.outcome}
<1>1. PICK kept \in SUBSET {n \in DOMAIN dir : dir[n] # disk[n]} :
         dir' = [n \in DOMAIN dir |-> IF n \in kept THEN dir[n] ELSE disk[n]] /\ disk' = dir'
  BY DEF PowerLoss
<1>2. dir \in Receipts /\ disk \in Receipts
  BY DEF AccessInv, AccessTypes
<1>3. DOMAIN dir = {"pair", "bound", "claim", "outcome"}
  BY <1>2 DEF Receipts
<1>4. /\ dir' = [n \in {"pair", "bound", "claim", "outcome"} |->
                   IF n \in kept THEN dir[n] ELSE disk[n]]
  BY <1>1, <1>3
<1>5. /\ dir'.bound \in {dir.bound, disk.bound} /\ dir'.claim \in {dir.claim, disk.claim}
      /\ dir'.outcome \in {dir.outcome, disk.outcome} /\ dir'.pair \in {dir.pair, disk.pair}
  BY <1>4
<1>6. dir' = [pair |-> dir'.pair, bound |-> dir'.bound, claim |-> dir'.claim,
              outcome |-> dir'.outcome]
  BY <1>4
<1>7. dir' \in Receipts
  BY <1>2, <1>5, <1>6 DEF Receipts
<1> QED BY <1>1, <1>5, <1>7 DEF AccessInv, Durable, Grows

LEMMA PowerLossKeeps ==
    ASSUME AccessInv, PowerLoss
    PROVE  AccessInv'
<1>1. /\ pc' = [p \in Procs |-> IF ~Alive(p) THEN pc[p]
                                 ELSE IF p = Finalizer THEN "idle" ELSE "over"]
      /\ UNCHANGED <<pending, target, readers, samples, returned>>
  BY DEF PowerLoss
<1>2. /\ \A p \in Procs : pc'[p] \in {"idle", "over"}
      /\ \A p \in Procs : pc[p] = "over" => pc'[p] = "over"
      /\ pc' \in [Procs -> Stages]
  BY <1>1 DEF Alive, Stages
<1>3. LockHeld' /\ Pending' /\ Inside'
  BY <1>2 DEF LockHeld, Pending, Inside, Publishing, InContext
<1>4. AccessTypes'
  BY <1>1, <1>2, PowerLossEffect DEF AccessInv, AccessTypes
<1>5. /\ readers' \subseteq {disk'.claim}
      /\ \A s \in returned : s \in samples /\ Owns(s)' /\ disk'.outcome = Completed(s)'
  BY <1>1, PowerLossEffect, GrowthKeeps
<1>6. Durable'
  BY PowerLossEffect DEF Durable
<1>7. ReadByOwner'
  BY <1>1, <1>5, PowerLossEffect DEF AccessInv, ReadByOwner, Durable
<1>8. Returned'
  BY <1>1, <1>2, <1>5, StewardIsProcess DEF AccessInv, AccessTypes, Returned
<1> QED BY <1>3, <1>4, <1>6, <1>7, <1>8 DEF AccessInv

Ends(p) ==
    /\ Over(p) /\ (Unlock(p) \/ UNCHANGED lock)
    /\ UNCHANGED <<dir, disk, pending, target, readers, samples, returned>>

\* The steps that matter to the access; staging files and scores are left out.
AccessMoves ==
    \/ UNCHANGED accessVars
    \/ \E p \in Procs : RenameStage(p) \/ SyncDirectory(p) \/ Ends(p)
    \/ \E s \in Stewards : \/ BindPlan(s) \/ Enter(s) \/ Leave(s)
                            \/ Read(s) \/ Exhaust(s) \/ CommitSample(s)
    \/ Finalize \/ PublishPair \/ PowerLoss

LEMMA StepsOfAccess == [Next]_vars => AccessMoves
<1> SUFFICES ASSUME [Next]_vars PROVE AccessMoves
  OBVIOUS
<1>1. CASE UNCHANGED vars
  BY <1>1 DEF vars, sealedVars, accessVars, AccessMoves
<1>2. ASSUME NEW p \in Procs, Access(Publishes(p) \/ Age(p)) PROVE AccessMoves
  <2>1. CASE CreateStage(p) \/ WriteStage(p) \/ Age(p)
    BY <2>1 DEF CreateStage, WriteStage, Age, accessVars, AccessMoves
  <2>2. CASE StageLost(p)
    BY <2>2 DEF StageLost, Ends, AccessMoves
  <2> QED BY <1>2, <2>1, <2>2 DEF Access, Publishes, AccessMoves
<1>3. CASE Access(Splits)
  <2>1. ASSUME NEW run \in Runs, Promote(run) PROVE AccessMoves
    BY <2>1 DEF Promote, accessVars, AccessMoves
  <2> QED BY <1>3, <2>1 DEF Access, Splits, AccessMoves
<1>4. CASE Access(Finalize) \/ Access(Visit)
  BY <1>4 DEF Access, Visit, accessVars, AccessMoves
<1>5. ASSUME NEW s \in Stewards, Access(StewardStep(s)) \/ Check(s) PROVE AccessMoves
  <2>1. CASE Refused(s)
    BY <2>1, StewardIsProcess DEF Refused, Ends, AccessMoves
  <2>2. CASE VerifySample(s)
    BY <2>2 DEF VerifySample, accessVars, AccessMoves
  <2> QED BY <1>5, <2>1, <2>2 DEF Access, Check, StewardStep, AccessMoves
<1>6. ASSUME NEW k \in Scorers, Attempt(k) \/ Scoring(k) PROVE AccessMoves
  BY <1>6 DEF Attempt, Scoring, sealedVars, accessVars, AccessMoves
<1>7. CASE Trouble
  <2>1. CASE SealedTrouble
    BY <2>1 DEF SealedTrouble, PublishFails, Crash, Ends, AccessMoves
  <2> QED BY <1>7, <2>1 DEF Trouble, sealedVars, accessVars, AccessMoves
<1>8. CASE LosePower
  BY <1>8 DEF LosePower, AccessMoves
<1> QED BY <1>1, <1>2, <1>3, <1>4, <1>5, <1>6, <1>7, <1>8 DEF Next

LEMMA AccessKept == AccessInv /\ [Next]_vars => AccessInv'
<1> SUFFICES ASSUME AccessInv, AccessMoves PROVE AccessInv'
  BY StepsOfAccess
<1>1. ASSUME NEW p \in Procs, Ends(p) PROVE AccessInv'
  BY <1>1, EndKeeps DEF Ends
<1> QED BY <1>1, QuietKeeps, RenameKeeps, SyncKeeps, BindPlanKeeps, EnterKeeps, LeaveKeeps,
        InsideKeeps, FinalizeKeeps, PublishPairKeeps, PowerLossKeeps DEF AccessMoves

\* What a restart, a capture and a finalizer rely on: the invariant of the access.
LEMMA AccessInvariance == Spec => []AccessInv
<1>1. Init => AccessInv
  BY AccessStarts DEF Init
<1> QED BY <1>1, AccessKept, PTL DEF Spec

-----------------------------------------------------------------------------
(* The access is one-shot.                                                 *)

AccessMapped == <<AccessStatus, disk.bound, readers>>

\* Receipts become durable: the access advances, or its status stays.
LEMMA GrowthAdvances ==
    ASSUME AccessInv, AccessInv', Grows, UNCHANGED readers
    PROVE  TheAccess!Advance \/ UNCHANGED AccessMapped
<1>1. /\ disk \in Receipts /\ disk' \in Receipts
      /\ disk'.bound \in Plans \cup {None}
      /\ disk.outcome = None \/ disk.outcome.status \in {"completed", "failed", "aborted"}
      /\ disk'.outcome = None \/ disk'.outcome.status \in {"completed", "failed", "aborted"}
  BY DEF AccessInv, AccessTypes, Receipts, Outcomes
<1>2. disk'.outcome # None /\ disk'.outcome.status = "completed" => readers # {}
  BY DEF AccessInv, Durable, ReadByOwner
<1>3. AccessStatus # "open" => disk'.bound = disk.bound
  BY DEF AccessStatus, Grows
<1>4. AccessStatus' \in {"open", "bound", "claimed", "completed", "failed", "aborted"}
  BY <1>1 DEF AccessStatus
<1>5. AccessStatus' = "completed" => readers # {}
  BY <1>1, <1>2 DEF AccessStatus
<1>6. AccessStatus' = AccessStatus => disk'.bound = disk.bound
  BY <1>1, <1>3 DEF AccessStatus
<1>7. AccessStatus' # AccessStatus =>
         TheAccess!Rank[AccessStatus'] > TheAccess!Rank[AccessStatus]
  BY <1>1 DEF AccessStatus, Grows, TheAccess!Rank
<1>8. AccessStatus' \in DOMAIN TheAccess!Rank
  BY <1>4 DEF TheAccess!Rank
<1> QED BY <1>1, <1>3, <1>5, <1>6, <1>7, <1>8 DEF TheAccess!Advance, AccessMapped

LEMMA AccessRefined ==
    AccessInv /\ AccessInv' /\ [Next]_vars =>
        [TheAccess!Advance \/ TheAccess!Read]_AccessMapped
<1> SUFFICES ASSUME AccessInv, AccessInv', AccessMoves
             PROVE  TheAccess!Advance \/ TheAccess!Read \/ UNCHANGED AccessMapped
  BY StepsOfAccess
<1>1. ASSUME UNCHANGED <<disk, readers>> PROVE UNCHANGED AccessMapped
  BY <1>1 DEF AccessMapped, AccessStatus
<1>2. ASSUME NEW p \in Procs, SyncDirectory(p)
      PROVE  TheAccess!Advance \/ UNCHANGED AccessMapped
  BY <1>2, SyncGrows, GrowthAdvances DEF SyncDirectory
<1>3. CASE PowerLoss
  BY <1>3, PowerLossEffect, GrowthAdvances DEF PowerLoss
<1>4. ASSUME NEW s \in Stewards, Read(s) PROVE TheAccess!Read
  <2>1. disk.claim = s /\ dir.outcome = None /\ s \notin readers
    BY <1>4, StewardIsProcess DEF Read, AccessInv, Inside, Owns, InContext
  <2>2. readers = {} /\ disk.outcome = None
    BY <2>1 DEF AccessInv, ReadByOwner, Durable
  <2> QED BY <1>4, <2>1, <2>2, StewardIsProcess DEF Read, TheAccess!Read, AccessStatus
<1>5. ASSUME NEW p \in Procs, RenameStage(p) \/ Ends(p) PROVE UNCHANGED <<disk, readers>>
  BY <1>5 DEF RenameStage, Ends
<1>6. ASSUME NEW s \in Stewards, BindPlan(s) \/ Enter(s) \/ Leave(s) \/ Exhaust(s) \/ CommitSample(s)
      PROVE  UNCHANGED <<disk, readers>>
  BY <1>6 DEF BindPlan, Enter, Leave, Exhaust, CommitSample
<1>7. CASE UNCHANGED accessVars \/ Finalize \/ PublishPair
  BY <1>1, <1>7 DEF accessVars, Finalize, PublishPair
<1> QED BY <1>1, <1>2, <1>3, <1>4, <1>5, <1>6, <1>7 DEF AccessMoves

LEMMA AccessStartsOpen == Init => TheAccess!Init
BY DEF Init, SealedInit, NoReceipts, TheAccess!Init, AccessStatus

-----------------------------------------------------------------------------
(* The invariant of the score attempt.                                     *)

\* Where a call owns the claim.
Claimed == {"claimed", "scored", "committed", "concluding", "failing", "conceding"}

ScoreTypes ==
    /\ claim \in Files /\ outcome \in Files
    /\ at \in [Scorers -> ScoreStages]
    /\ scored \subseteq Scorers /\ scores \subseteq scored /\ paid \subseteq scores

\* A call owns a claim that is durable, unless it is still writing it.
OwnsClaim(k) ==
    /\ at[k] = "claiming" => claim = Created(k, "attempt") /\ outcome = Missing
    /\ at[k] \in Claimed => claim.by = k /\ claim.whole /\ claim.synced

\* What each call has done so far, and the outcome it is writing.
Fits(k) ==
    /\ at[k] \in {"idle", "claiming", "claimed"} => k \notin scored
    /\ at[k] \in {"scored", "committed", "concluding"} => k \in scored
    /\ at[k] \in {"committed", "concluding"} => k \in scores
    /\ at[k] \in {"claimed", "scored", "committed"} => outcome = Missing
    /\ at[k] = "concluding" => outcome = Created(k, "receipt")
    /\ at[k] = "conceding" => outcome = Created(k, "score_failed")

CallsFit == \A k \in Scorers : OwnsClaim(k) /\ Fits(k)

\* Nothing is scored or concluded before the claim is durable, nor but by its owner.
ScoredUnderClaim ==
    /\ scored # {} \/ outcome # Missing => claim.synced /\ claim.whole
    /\ \A k \in scored : k = claim.by
    /\ outcome.says = "receipt" => outcome.by \in scores
    /\ claim.synced => claim # Missing

\* What was paid for stands.
PaidStands ==
    \A k \in paid : scored = {k} /\ Verifies(k) /\ claim.synced /\ outcome.synced

ScoreInv == ScoreTypes /\ CallsFit /\ ScoredUnderClaim /\ PaidStands

LEMMA ScoreStarts == ScoreInit => ScoreInv
BY DEF ScoreInit, ScoreInv, ScoreTypes, CallsFit, OwnsClaim, Fits, ScoredUnderClaim,
   PaidStands, Missing, Files, ScoreStages, Claimed

\* How a file may change while or after it is written.
LEMMA FileForms ==
    ASSUME NEW k \in Scorers, NEW says \in {"attempt", "receipt", "score_failed"}
    PROVE  /\ Created(k, says) \in Files /\ Created(k, says) # Missing
           /\ Created(k, says).by = k /\ Created(k, says).says = says
           /\ ~Created(k, says).synced /\ ~Created(k, says).whole
BY DEF Created, Missing, Files

LEMMA WrittenForm ==
    ASSUME NEW f \in Files
    PROVE  /\ Written(f) \in Files /\ Written(f).by = f.by /\ Written(f).says = f.says
           /\ Written(f).whole /\ Written(f).synced
BY DEF Written, Files

LEMMA SpoiledForm ==
    ASSUME NEW f \in Files, NEW g \in Spoils(f)
    PROVE  /\ g \in Files /\ g.by = f.by /\ g.says = f.says
           /\ f.synced => g.synced
           /\ g.synced => f.synced \/ g.whole
BY DEF Spoils, Written, Files

LEMMA SurvivingForm ==
    ASSUME NEW f \in Files, NEW g \in Survivors(f)
    PROVE  /\ g \in Files
           /\ f.synced => g = f
           /\ g = f \/ g = Missing \/ (g.by = f.by /\ g.says = f.says /\ g.synced)
<1>1. Missing \in Files
  BY DEF Missing, Files
<1>2. CASE f = Missing \/ f.synced
  BY <1>2 DEF Survivors
<1>3. CASE ~(f = Missing \/ f.synced) /\ g = Missing
  BY <1>1, <1>3
<1>4. CASE ~(f = Missing \/ f.synced) /\ g # Missing
  <2>1. PICK w \in BOOLEAN : g = [f EXCEPT !.whole = w, !.synced = TRUE]
    BY <1>4 DEF Survivors
  <2> QED BY <1>4, <2>1 DEF Files
<1> QED BY <1>2, <1>3, <1>4

\* The files of a call in progress.
LEMMA MissingForm == /\ Missing \in Files /\ Missing.by = NoCall /\ Missing.says = "nothing"
                     /\ ~Missing.synced /\ ~Missing.whole
BY DEF Missing, Files

\* A call that has created or owns the claim is the only one in progress, and
\* nothing was paid for before the outcome is durable.
LEMMA OneCall ==
    ASSUME ScoreInv, NEW k \in Scorers, at[k] = "claiming" \/ at[k] \in Claimed
    PROVE  /\ claim.by = k
           /\ \A j \in Scorers : j # k => at[j] \in {"idle", "over"}
           /\ scored \subseteq {k}
<1>1. \A j \in Scorers : at[j] = "claiming" \/ at[j] \in Claimed => claim.by = j
  BY FileForms DEF ScoreInv, CallsFit, OwnsClaim
<1>2. \A j \in Scorers : at[j] \in ScoreStages
  BY DEF ScoreInv, ScoreTypes
<1> QED BY <1>1, <1>2 DEF ScoreInv, ScoredUnderClaim, ScoreStages, Claimed

LEMMA UnpaidBefore ==
    ASSUME ScoreInv, ~claim.synced \/ ~outcome.synced
    PROVE  paid = {}
BY DEF ScoreInv, PaidStands

\* One call moves while the others are out.
LEMMA OwnerKeeps ==
    ASSUME ScoreInv, NEW k \in Scorers, NEW to \in ScoreStages, at' = [at EXCEPT ![k] = to],
           \A j \in Scorers : j # k => at[j] \in {"idle", "over"},
           ScoreTypes', scored' \subseteq scored \cup {k}, OwnsClaim(k)', Fits(k)',
           ScoredUnderClaim', PaidStands'
    PROVE  ScoreInv'
<1>1. ASSUME NEW j \in Scorers, j # k PROVE OwnsClaim(j)' /\ Fits(j)'
  <2>1. at'[j] = at[j] /\ at[j] \in {"idle", "over"}
    BY <1>1 DEF ScoreInv, ScoreTypes
  <2>2. at[j] = "idle" => j \notin scored'
    BY <1>1 DEF ScoreInv, CallsFit, Fits
  <2> QED BY <2>1, <2>2 DEF OwnsClaim, Fits, Claimed
<1> QED BY <1>1 DEF ScoreInv, CallsFit

LEMMA CreateClaimKeeps ==
    ASSUME ScoreInv, NEW k \in Scorers, CreateClaim(k)
    PROVE  ScoreInv'
<1>1. /\ at[k] = "idle" /\ at' = [at EXCEPT ![k] = "claiming"] /\ claim = Missing
      /\ claim' = Created(k, "attempt") /\ UNCHANGED <<outcome, scored, scores, paid>>
  BY DEF CreateClaim, Moves
<1>2. outcome = Missing /\ scored = {} /\ paid = {}
  BY <1>1, MissingForm, UnpaidBefore DEF ScoreInv, ScoredUnderClaim
<1>3. \A j \in Scorers : at[j] \in {"idle", "over"}
  BY <1>1, OneCall, MissingForm, ScorersAssumption DEF ScoreInv, ScoreTypes, ScoreStages, Claimed
<1>4. ScoreTypes' /\ at'[k] = "claiming"
  BY <1>1, FileForms DEF ScoreInv, ScoreTypes, ScoreStages
<1>5. OwnsClaim(k)' /\ Fits(k)'
  BY <1>1, <1>2, <1>4 DEF OwnsClaim, Fits, Claimed
<1>6. ScoredUnderClaim' /\ PaidStands'
  BY <1>1, <1>2, FileForms, MissingForm DEF ScoredUnderClaim, PaidStands
<1> QED BY <1>1, <1>3, <1>4, <1>5, <1>6, OwnerKeeps DEF ScoreStages

LEMMA ClaimRefusedKeeps ==
    ASSUME ScoreInv, NEW k \in Scorers, ClaimRefused(k)
    PROVE  ScoreInv'
<1>1. /\ at' = [at EXCEPT ![k] = "over"] /\ UNCHANGED <<claim, outcome, scored, scores, paid>>
  BY DEF ClaimRefused, Moves
<1>2. ScoreTypes' /\ \A j \in Scorers : at'[j] = at[j] \/ at'[j] = "over"
  BY <1>1 DEF ScoreInv, ScoreTypes, ScoreStages
<1>3. CallsFit'
  BY <1>1, <1>2 DEF ScoreInv, CallsFit, OwnsClaim, Fits, Claimed
<1> QED BY <1>1, <1>2, <1>3 DEF ScoreInv, ScoredUnderClaim, PaidStands, Verifies

\* The owner of the claim writes it, scores, commits, concludes or concedes.
LEMMA OwnerStepKeeps ==
    ASSUME ScoreInv, NEW k \in Scorers,
           \/ WriteClaim(k) \/ Score(k) \/ CommitScore(k) \/ CreateOutcome(k)
           \/ WriteOutcome(k) \/ Concede(k) \/ WriteConcession(k)
    PROVE  ScoreInv'
<1>0. /\ at \in [Scorers -> ScoreStages] /\ claim \in Files /\ outcome \in Files
      /\ scored \subseteq Scorers /\ scores \subseteq scored /\ paid \subseteq scores
      /\ OwnsClaim(k) /\ Fits(k) /\ ScoredUnderClaim /\ PaidStands
  BY DEF ScoreInv, ScoreTypes, CallsFit
<1>1. CASE WriteClaim(k)
  <2>1. /\ at[k] = "claiming" /\ at' = [at EXCEPT ![k] = "claimed"] /\ at'[k] = "claimed"
        /\ claim' = Written(claim) /\ UNCHANGED <<outcome, scored, scores, paid>>
    BY <1>0, <1>1 DEF WriteClaim, Moves
  <2>2. /\ claim = Created(k, "attempt") /\ outcome = Missing /\ k \notin scored
        /\ claim.by = k /\ scored = {} /\ paid = {}
    BY <1>0, <2>1, OneCall, FileForms, UnpaidBefore DEF OwnsClaim, Fits
  <2>3. /\ claim' \in Files /\ claim'.by = k /\ claim'.whole /\ claim'.synced
    BY <1>0, <2>1, <2>2, WrittenForm
  <2>4. ScoreTypes'
    BY <1>0, <2>1, <2>3 DEF ScoreTypes, ScoreStages
  <2>5. OwnsClaim(k)' /\ Fits(k)'
    BY <2>1, <2>2, <2>3 DEF OwnsClaim, Fits
  <2>6. ScoredUnderClaim' /\ PaidStands'
    BY <2>1, <2>2, <2>3, MissingForm, ScorersAssumption DEF ScoredUnderClaim, PaidStands
  <2> QED BY <2>1, <2>4, <2>5, <2>6, OneCall, OwnerKeeps DEF ScoreStages
<1>2. ASSUME NEW from \in Claimed, NEW to \in ScoreStages, Moves(k, from, to)
      PROVE  /\ at[k] = from /\ at' = [at EXCEPT ![k] = to] /\ at'[k] = to
             /\ at' \in [Scorers -> ScoreStages]
             /\ claim.by = k /\ claim.whole /\ claim.synced /\ scored \subseteq {k}
             /\ \A j \in Scorers : j # k => at[j] \in {"idle", "over"}
             /\ ~outcome.synced => paid = {}
  BY <1>0, <1>2, OneCall, UnpaidBefore DEF Moves, OwnsClaim
<1>3. CASE Score(k)
  <2>1. Moves(k, "claimed", "scored") /\ scored' = scored \cup {k}
        /\ UNCHANGED <<claim, outcome, scores, paid>>
    BY <1>3 DEF Score
  <2>2. "claimed" \in Claimed /\ "scored" \in ScoreStages
    BY DEF Claimed, ScoreStages
  <2>3. outcome = Missing /\ paid = {}
    BY <1>0, <1>2, <2>1, <2>2, MissingForm DEF Fits
  <2>4. ScoreTypes' /\ OwnsClaim(k)' /\ Fits(k)'
    BY <1>0, <1>2, <2>1, <2>2, <2>3 DEF ScoreTypes, OwnsClaim, Fits
  <2>5. ScoredUnderClaim' /\ PaidStands'
    BY <1>0, <1>2, <2>1, <2>2, <2>3, MissingForm DEF ScoredUnderClaim, PaidStands
  <2> QED BY <1>2, <2>1, <2>2, <2>4, <2>5, OwnerKeeps
<1>4. CASE CommitScore(k)
  <2>1. Moves(k, "scored", "committed") /\ scores' = scores \cup {k}
        /\ UNCHANGED <<claim, outcome, scored, paid>>
    BY <1>4 DEF CommitScore
  <2>2. "scored" \in Claimed /\ "committed" \in ScoreStages
    BY DEF Claimed, ScoreStages
  <2>3. outcome = Missing /\ paid = {} /\ k \in scored
    BY <1>0, <1>2, <2>1, <2>2, MissingForm DEF Fits
  <2>4. ScoreTypes' /\ OwnsClaim(k)' /\ Fits(k)'
    BY <1>0, <1>2, <2>1, <2>2, <2>3 DEF ScoreTypes, OwnsClaim, Fits
  <2>5. ScoredUnderClaim' /\ PaidStands'
    BY <1>0, <1>2, <2>1, <2>2, <2>3, MissingForm DEF ScoredUnderClaim, PaidStands
  <2> QED BY <1>2, <2>1, <2>2, <2>4, <2>5, OwnerKeeps
<1>5. CASE CreateOutcome(k)
  <2>1. Moves(k, "committed", "concluding") /\ outcome = Missing
        /\ outcome' = Created(k, "receipt") /\ UNCHANGED <<claim, scored, scores, paid>>
    BY <1>5 DEF CreateOutcome
  <2>2. "committed" \in Claimed /\ "concluding" \in ScoreStages
    BY DEF Claimed, ScoreStages
  <2>3. paid = {} /\ k \in scored /\ k \in scores
    BY <1>0, <1>2, <2>1, <2>2, MissingForm DEF Fits
  <2>4. ScoreTypes' /\ OwnsClaim(k)' /\ Fits(k)'
    BY <1>0, <1>2, <2>1, <2>2, <2>3, FileForms DEF ScoreTypes, OwnsClaim, Fits
  <2>5. ScoredUnderClaim' /\ PaidStands'
    BY <1>0, <1>2, <2>1, <2>2, <2>3, FileForms DEF ScoredUnderClaim, PaidStands
  <2> QED BY <1>2, <2>1, <2>2, <2>4, <2>5, OwnerKeeps
<1>6. CASE WriteOutcome(k)
  <2>1. Moves(k, "concluding", "over") /\ outcome' = Written(outcome) /\ paid' = paid \cup {k}
        /\ UNCHANGED <<claim, scored, scores>>
    BY <1>6 DEF WriteOutcome
  <2>2. "concluding" \in Claimed /\ "over" \in ScoreStages
    BY DEF Claimed, ScoreStages
  <2>3. /\ outcome = Created(k, "receipt") /\ k \in scored /\ k \in scores
        /\ ~outcome.synced /\ outcome.by = k /\ outcome.says = "receipt"
    BY <1>0, <1>2, <2>1, <2>2, FileForms DEF Fits
  <2>4. /\ outcome' \in Files /\ outcome'.by = k /\ outcome'.says = "receipt"
        /\ outcome'.whole /\ outcome'.synced /\ paid = {}
    BY <1>0, <1>2, <2>1, <2>2, <2>3, WrittenForm
  <2>5. ScoreTypes' /\ OwnsClaim(k)' /\ Fits(k)'
    BY <1>0, <1>2, <2>1, <2>2, <2>3, <2>4 DEF ScoreTypes, OwnsClaim, Fits, Claimed
  <2>6. ScoredUnderClaim' /\ PaidStands'
    BY <1>0, <1>2, <2>1, <2>2, <2>3, <2>4 DEF ScoredUnderClaim, PaidStands, Verifies
  <2> QED BY <1>2, <2>1, <2>2, <2>5, <2>6, OwnerKeeps
<1>7. CASE Concede(k)
  <2>0. "failing" \in Claimed /\ {"conceding", "over"} \subseteq ScoreStages
    BY DEF Claimed, ScoreStages
  <2>1. CASE outcome = Missing /\ outcome' = Created(k, "score_failed") /\ Moves(k, "failing", "conceding")
    <3>1. UNCHANGED <<claim, scored, scores, paid>> /\ paid = {}
      BY <1>2, <1>7, <2>0, <2>1, MissingForm DEF Concede
    <3>2. ScoreTypes' /\ OwnsClaim(k)' /\ Fits(k)'
      BY <1>0, <1>2, <2>0, <2>1, <3>1, FileForms DEF ScoreTypes, OwnsClaim, Fits
    <3>3. ScoredUnderClaim' /\ PaidStands'
      BY <1>0, <1>2, <2>0, <2>1, <3>1, FileForms DEF ScoredUnderClaim, PaidStands
    <3> QED BY <1>2, <2>0, <2>1, <3>1, <3>2, <3>3, OwnerKeeps
  <2>2. CASE Moves(k, "failing", "over") /\ UNCHANGED outcome
    <3>1. UNCHANGED <<claim, outcome, scored, scores, paid>>
      BY <1>7, <2>2 DEF Concede
    <3>2. ScoreTypes' /\ OwnsClaim(k)' /\ Fits(k)'
      BY <1>0, <1>2, <2>0, <2>2, <3>1 DEF ScoreTypes, OwnsClaim, Fits, Claimed
    <3>3. ScoredUnderClaim' /\ PaidStands'
      BY <1>0, <3>1 DEF ScoredUnderClaim, PaidStands, Verifies
    <3> QED BY <1>2, <2>0, <2>2, <3>1, <3>2, <3>3, OwnerKeeps
  <2> QED BY <1>7, <2>1, <2>2 DEF Concede
<1>8. CASE WriteConcession(k)
  <2>1. Moves(k, "conceding", "over") /\ outcome' = Written(outcome)
        /\ UNCHANGED <<claim, scored, scores, paid>>
    BY <1>8 DEF WriteConcession
  <2>2. "conceding" \in Claimed /\ "over" \in ScoreStages
    BY DEF Claimed, ScoreStages
  <2>3. ~outcome.synced /\ outcome.says = "score_failed"
    BY <1>0, <1>2, <2>1, <2>2, FileForms DEF Fits
  <2>4. outcome' \in Files /\ outcome'.says = "score_failed" /\ paid = {}
    BY <1>0, <1>2, <2>1, <2>2, <2>3, WrittenForm
  <2>5. ScoreTypes' /\ OwnsClaim(k)' /\ Fits(k)'
    BY <1>0, <1>2, <2>1, <2>2, <2>4 DEF ScoreTypes, OwnsClaim, Fits, Claimed
  <2>6. ScoredUnderClaim' /\ PaidStands'
    BY <1>0, <1>2, <2>1, <2>2, <2>4 DEF ScoredUnderClaim, PaidStands
  <2> QED BY <1>2, <2>1, <2>2, <2>5, <2>6, OwnerKeeps
<1> QED BY <1>1, <1>3, <1>4, <1>5, <1>6, <1>7, <1>8

-----------------------------------------------------------------------------
(* A call fails, is killed, or everything loses power.                     *)

\* What a failing call may leave: the file it was writing, and a promoted score.
Leaves(k, to) ==
    /\ at[k] = "claiming" \/ at[k] \in Claimed
    /\ at' = [at EXCEPT ![k] = to]
    /\ at[k] = "claiming" \/ at[k] = "conceding" => to = "over"
    /\ claim' = claim \/ (at[k] = "claiming" /\ claim' \in Spoils(claim))
    /\ outcome' = outcome \/ (at[k] \in {"concluding", "conceding"} /\ outcome' \in Spoils(outcome))
    /\ scores' = scores \/ (at[k] = "scored" /\ scores' = scores \cup {k})
    /\ UNCHANGED <<scored, paid>>

LEMMA LeavesKeeps ==
    ASSUME ScoreInv, NEW k \in Scorers, NEW to \in {"failing", "over"}, Leaves(k, to)
    PROVE  ScoreInv'
<1> USE DEF Leaves
<1>0. /\ at \in [Scorers -> ScoreStages] /\ claim \in Files /\ outcome \in Files
      /\ scored \subseteq Scorers /\ scores \subseteq scored /\ paid \subseteq scores
      /\ OwnsClaim(k) /\ Fits(k) /\ ScoredUnderClaim /\ PaidStands
  BY DEF ScoreInv, ScoreTypes, CallsFit
<1>1. /\ at'[k] = to /\ to \in ScoreStages /\ at' \in [Scorers -> ScoreStages]
      /\ claim.by = k /\ scored \subseteq {k}
      /\ \A j \in Scorers : j # k => at[j] \in {"idle", "over"}
  BY <1>0, OneCall DEF ScoreStages
<1>2. /\ claim' \in Files /\ claim'.by = claim.by /\ claim'.says = claim.says
      /\ claim.synced => claim'.synced
      /\ at[k] # "claiming" => claim' = claim
  BY <1>0, SpoiledForm
<1>3. /\ outcome' \in Files /\ outcome'.by = outcome.by /\ outcome'.says = outcome.says
      /\ outcome.synced => outcome' = outcome
  <2>1. outcome' # outcome => ~outcome.synced /\ outcome' \in Spoils(outcome)
    BY <1>0, FileForms DEF Fits
  <2> QED BY <1>0, <2>1, SpoiledForm
<1>4. at[k] = "scored" => k \in scored /\ outcome = Missing
  BY <1>0 DEF Fits
<1>5. at[k] # "claiming" => claim.whole /\ claim.synced
  BY <1>0 DEF OwnsClaim
<1>6. at[k] = "claiming" =>
        outcome = Missing /\ ~claim.synced /\ scored = {} /\ claim' # Missing
  BY <1>0, <1>1, <1>2, FileForms, MissingForm, ScorersAssumption DEF OwnsClaim, Fits
<1>7. outcome' # outcome => outcome # Missing
  BY <1>0, FileForms DEF Fits
<1>8. ScoreTypes'
  BY <1>0, <1>1, <1>2, <1>3, <1>4 DEF ScoreTypes
<1>9. OwnsClaim(k)' /\ Fits(k)'
  BY <1>1, <1>2, <1>5 DEF OwnsClaim, Fits, Claimed
<1>10. ScoredUnderClaim'
  <2>1. scored' # {} \/ outcome' # Missing => claim'.synced /\ claim'.whole
    BY <1>2, <1>5, <1>6, <1>7
  <2>2. \A j \in scored' : j = claim'.by
    BY <1>1, <1>2
  <2>3. outcome'.says = "receipt" => outcome'.by \in scores'
    BY <1>0, <1>3 DEF ScoredUnderClaim
  <2>4. claim'.synced => claim' # Missing
    BY MissingForm
  <2> QED BY <2>1, <2>2, <2>3, <2>4 DEF ScoredUnderClaim
<1>11. PaidStands'
  <2> SUFFICES ASSUME NEW j \in paid
               PROVE  scored = {j} /\ Verifies(j)' /\ claim'.synced /\ outcome'.synced
    BY DEF PaidStands
  <2>1. scored = {j} /\ Verifies(j) /\ claim.synced /\ outcome.synced
    BY <1>0 DEF PaidStands
  <2>2. claim' = claim /\ outcome' = outcome
    BY <1>2, <1>3, <1>6, <2>1
  <2> QED BY <2>1, <2>2 DEF Verifies
<1> QED BY <1>1, <1>8, <1>9, <1>10, <1>11, OwnerKeeps

\* Every trouble of a call is such a departure.
LEMMA TroubleLeaves ==
    ASSUME ScoreInv, NEW k \in Scorers, ScoreTrouble(k)
    PROVE  \E to \in {"failing", "over"} : Leaves(k, to)
<1>1. CASE ClaimFails(k)
  BY <1>1 DEF ClaimFails, Moves, Leaves
<1>2. CASE ScoringFails(k)
  <2>1. PICK from \in {"claimed", "scored", "committed"} : Moves(k, from, "failing")
    BY <1>2 DEF ScoringFails
  <2> QED BY <1>2, <2>1 DEF ScoringFails, Moves, Leaves, Claimed
<1>3. CASE OutcomeFails(k)
  BY <1>3 DEF OutcomeFails, Moves, Leaves, Claimed
<1>4. CASE ScorerDies(k)
  <2>1. at[k] = "claiming" \/ at[k] \in Claimed
    BY <1>4 DEF ScorerDies, ScoreInv, ScoreTypes, ScoreStages, Claimed
  <2> QED BY <1>4, <2>1 DEF ScorerDies, Leaves
<1> QED BY <1>1, <1>2, <1>3, <1>4 DEF ScoreTrouble

LEMMA PowerKeepsScores ==
    ASSUME ScoreInv, ScorersLosePower
    PROVE  ScoreInv'
<1>0. /\ at \in [Scorers -> ScoreStages] /\ claim \in Files /\ outcome \in Files
      /\ scored \subseteq Scorers /\ scores \subseteq scored /\ paid \subseteq scores
      /\ ScoredUnderClaim /\ PaidStands
  BY DEF ScoreInv, ScoreTypes
<1>1. /\ at' = [k \in Scorers |-> IF at[k] = "idle" THEN "idle" ELSE "over"]
      /\ claim' \in Survivors(claim) /\ outcome' \in Survivors(outcome)
      /\ UNCHANGED <<scored, scores, paid>>
  BY DEF ScorersLosePower
<1>2. /\ claim' \in Files /\ outcome' \in Files
      /\ claim.synced => claim' = claim
      /\ outcome.synced => outcome' = outcome
      /\ \/ outcome' = outcome \/ outcome' = Missing
         \/ outcome'.by = outcome.by /\ outcome'.says = outcome.says /\ outcome # Missing
  BY <1>0, <1>1, SurvivingForm DEF Survivors
<1>3. ScoreTypes'
  BY <1>0, <1>1, <1>2 DEF ScoreTypes, ScoreStages
<1>4. CallsFit'
  BY <1>1 DEF ScoreInv, CallsFit, OwnsClaim, Fits, Claimed
<1>5. ScoredUnderClaim'
  BY <1>0, <1>1, <1>2, MissingForm DEF ScoredUnderClaim
<1>6. PaidStands'
  BY <1>0, <1>1, <1>2 DEF PaidStands, Verifies
<1> QED BY <1>3, <1>4, <1>5, <1>6 DEF ScoreInv

LEMMA QuietKeepsScores == ScoreInv /\ UNCHANGED scoreVars => ScoreInv'
BY DEF scoreVars, ScoreInv, ScoreTypes, CallsFit, OwnsClaim, Fits, ScoredUnderClaim, PaidStands,
   Verifies

\* The steps that matter to the score.
ScoreMoves ==
    \/ UNCHANGED scoreVars
    \/ \E k \in Scorers : CreateClaim(k) \/ ScoreStep(k) \/ ScoreTrouble(k)
    \/ ScorersLosePower

LEMMA StepsOfScore == [Next]_vars => ScoreMoves
BY DEF Next, vars, Access, Check, Attempt, Scoring, Trouble, LosePower, ScoreMoves

LEMMA ScoreKept == ScoreInv /\ [Next]_vars => ScoreInv'
<1> SUFFICES ASSUME ScoreInv, ScoreMoves PROVE ScoreInv'
  BY StepsOfScore
<1>1. ASSUME NEW k \in Scorers, ScoreStep(k) PROVE ScoreInv'
  BY <1>1, OwnerStepKeeps, ClaimRefusedKeeps DEF ScoreStep
<1>2. ASSUME NEW k \in Scorers, ScoreTrouble(k) PROVE ScoreInv'
  BY <1>2, TroubleLeaves, LeavesKeeps
<1> QED BY <1>1, <1>2, QuietKeepsScores, CreateClaimKeeps, PowerKeepsScores DEF ScoreMoves

-----------------------------------------------------------------------------
(* The score is one-shot.                                                  *)

AttemptMapped == <<AttemptStatus, None, scored>>

\* A file becomes durable and the other stays: the attempt advances, or its status stays.
LEMMA DurabilityAdvances ==
    ASSUME ScoreInv, ScoreInv', scored' = scored,
           claim.synced => claim'.synced, outcome.synced => outcome' = outcome
    PROVE  TheAttempt!Advance \/ UNCHANGED AttemptMapped
<1>1. outcome'.synced => claim'.synced
  BY MissingForm DEF ScoreInv, ScoredUnderClaim
<1>2. outcome'.says = "receipt" => scored # {}
  BY DEF ScoreInv, ScoredUnderClaim, ScoreTypes
<1>3. /\ AttemptStatus \in {"open", "claimed", "completed", "failed", "aborted"}
      /\ AttemptStatus' \in {"open", "claimed", "completed", "failed", "aborted"}
  BY DEF AttemptStatus
<1>4. AttemptStatus' # AttemptStatus =>
         TheAttempt!Rank[AttemptStatus'] > TheAttempt!Rank[AttemptStatus]
  BY <1>1 DEF AttemptStatus, TheAttempt!Rank
<1>5. AttemptStatus' = "completed" => scored # {}
  BY <1>2 DEF AttemptStatus
<1>6. AttemptStatus' \in DOMAIN TheAttempt!Rank
  BY <1>3 DEF TheAttempt!Rank
<1> QED BY <1>4, <1>5, <1>6 DEF TheAttempt!Advance, AttemptMapped

LEMMA AttemptRefined ==
    ScoreInv /\ ScoreInv' /\ [Next]_vars =>
        [TheAttempt!Advance \/ TheAttempt!Read]_AttemptMapped
<1> SUFFICES ASSUME ScoreInv, ScoreInv', ScoreMoves
             PROVE  TheAttempt!Advance \/ TheAttempt!Read \/ UNCHANGED AttemptMapped
  BY StepsOfScore
<1>0. claim \in Files /\ outcome \in Files
  BY DEF ScoreInv, ScoreTypes
<1>1. ASSUME NEW k \in Scorers, Score(k) PROVE TheAttempt!Read
  <2>1. /\ at[k] = "claimed" /\ scored' = scored \cup {k} /\ UNCHANGED <<claim, outcome>>
    BY <1>1 DEF Score, Moves
  <2>2. at[k] \in Claimed
    BY <2>1 DEF Claimed
  <2>3. claim.synced /\ ~outcome.synced /\ k \notin scored /\ scored \subseteq {k}
    BY <2>1, <2>2, OneCall, MissingForm DEF ScoreInv, CallsFit, OwnsClaim, Fits
  <2>4. AttemptStatus = "claimed" /\ AttemptStatus' = AttemptStatus
    BY <2>1, <2>3 DEF AttemptStatus
  <2>5. scored = {} /\ scored' = {k}
    BY <2>1, <2>3
  <2> QED BY <2>4, <2>5 DEF TheAttempt!Read
<1>2. ASSUME NEW k \in Scorers, ScoreStep(k), ~Score(k)
      PROVE  TheAttempt!Advance \/ UNCHANGED AttemptMapped
  <2>1. scored' = scored
    BY <1>2 DEF ScoreStep, ClaimRefused, WriteClaim, CommitScore, CreateOutcome, WriteOutcome,
       Concede, WriteConcession
  <2>2. claim.synced => claim'.synced
    BY <1>0, <1>2, WrittenForm DEF ScoreStep, ClaimRefused, WriteClaim, CommitScore,
       CreateOutcome, WriteOutcome, Concede, WriteConcession
  <2>3. CASE UNCHANGED outcome
    BY <2>1, <2>2, <2>3, DurabilityAdvances
  <2>4. CASE outcome = Missing
    BY <2>1, <2>2, <2>4, MissingForm, DurabilityAdvances
  <2>5. CASE WriteOutcome(k) \/ WriteConcession(k)
    <3>1. ~outcome.synced
      BY <2>5, FileForms DEF WriteOutcome, WriteConcession, Moves, ScoreInv, CallsFit, Fits
    <3> QED BY <2>1, <2>2, <3>1, DurabilityAdvances
  <2> QED BY <1>2, <2>3, <2>4, <2>5 DEF ScoreStep, ClaimRefused, WriteClaim, CommitScore,
          CreateOutcome, Concede
<1>3. ASSUME NEW k \in Scorers, CreateClaim(k) PROVE UNCHANGED AttemptMapped
  BY <1>3, FileForms, MissingForm DEF CreateClaim, AttemptMapped, AttemptStatus
<1>4. ASSUME NEW k \in Scorers, ScoreTrouble(k)
      PROVE  TheAttempt!Advance \/ UNCHANGED AttemptMapped
  <2>1. PICK to \in {"failing", "over"} : Leaves(k, to)
    BY <1>4, TroubleLeaves
  <2>2. scored' = scored /\ (claim.synced => claim'.synced)
    BY <1>0, <2>1, SpoiledForm DEF Leaves
  <2>3. outcome.synced => outcome' = outcome
    BY <2>1, FileForms DEF Leaves, ScoreInv, CallsFit, Fits
  <2> QED BY <2>2, <2>3, DurabilityAdvances
<1>5. CASE ScorersLosePower
  BY <1>0, <1>5, SurvivingForm, DurabilityAdvances DEF ScorersLosePower
<1>6. CASE UNCHANGED scoreVars
  BY <1>6 DEF scoreVars, AttemptMapped, AttemptStatus
<1> QED BY <1>1, <1>2, <1>3, <1>4, <1>5, <1>6 DEF ScoreMoves

LEMMA AttemptStartsOpen == Init => TheAttempt!Init
BY DEF Init, ScoreInit, Missing, TheAttempt!Init, AttemptStatus

\* What a process that verifies the score relies on: the invariant of the attempt.
LEMMA ScoreInvariance == Spec => []ScoreInv
<1>1. Init => ScoreInv
  BY ScoreStarts DEF Init
<1> QED BY <1>1, ScoreKept, PTL DEF Spec

-----------------------------------------------------------------------------
(* The theorems.                                                           *)

\* Whatever calls interleave, fail, are killed or lose power, the test data is
\* read by at most one steward and the panel scored by at most one call, under a
\* durable claim without an outcome (enron_splitting.py 4360-5433,
\* enron_audit_scoring.py 323-440, 2267-2470).
THEOREM OneShot == Spec => ImplementsOneShot
<1>1. Spec => TheAccess!Spec
  <2>1. Spec => TheAccess!Init
    BY AccessStartsOpen DEF Spec
  <2>2. AccessInv /\ AccessInv' /\ [Next]_vars =>
          [TheAccess!Advance \/ TheAccess!Read]_<<AccessStatus, disk.bound, readers>>
    BY AccessRefined DEF AccessMapped
  <2> QED BY <2>1, <2>2, AccessInvariance, PTL DEF Spec, TheAccess!Spec
<1>2. Spec => TheAttempt!Spec
  <2>1. Spec => TheAttempt!Init
    BY AttemptStartsOpen DEF Spec
  <2>2. ScoreInv /\ ScoreInv' /\ [Next]_vars =>
          [TheAttempt!Advance \/ TheAttempt!Read]_<<AttemptStatus, None, scored>>
    BY AttemptRefined DEF AttemptMapped
  <2> QED BY <2>1, <2>2, ScoreInvariance, PTL DEF Spec, TheAttempt!Spec
<1> QED BY <1>1, <1>2 DEF ImplementsOneShot

LEMMA InvariantsStand == AccessInv /\ ScoreInv => ReturnedStands
<1> SUFFICES ASSUME AccessInv, ScoreInv PROVE ReturnedStands
  OBVIOUS
<1>1. ASSUME NEW s \in returned
      PROVE  /\ readers = {s} /\ samples = {s} /\ disk.claim = s /\ disk.bound = target[s]
             /\ disk.outcome = Completed(s) /\ Attested(s)
  <2>1. s \in samples /\ Owns(s) /\ disk.outcome = Completed(s) /\ s \in Stewards
    BY DEF AccessInv, AccessTypes, Returned
  <2>2. samples \subseteq readers /\ readers \subseteq {disk.claim}
    BY DEF AccessInv, AccessTypes, ReadByOwner
  <2>3. readers = {s} /\ samples = {s}
    BY <2>1, <2>2 DEF Owns
  <2>4. target[s] \in Plans
    BY <2>1 DEF AccessInv, AccessTypes, Owns
  <2>5. disk.outcome # None /\ disk.claim # None
    BY <2>1, <2>4, StewardIsProcess, ProcsAssumption DEF Completed, Outcomes, Owns
  <2>6. dir.outcome = disk.outcome /\ dir.claim = disk.claim /\ dir.bound = disk.bound
    BY <2>1, <2>5 DEF AccessInv, Durable, Owns
  <2>7. Attested(s)
    BY <2>1, <2>4, <2>6 DEF Attested, Owns, Completed
  <2> QED BY <2>1, <2>3, <2>7 DEF Owns
<1> QED BY <1>1 DEF ReturnedStands, Completed, ScoreInv, PaidStands

\* What a capture or a score returned stands for ever, durable and verifiable,
\* and it alone was given the data (enron_sealed_audit.py 648-740, 917-1010;
\* enron_audit_scoring.py 323-440, 2369-2400).
THEOREM ReturnedResultsStand == Spec => []ReturnedStands
BY AccessInvariance, ScoreInvariance, InvariantsStand, PTL
=============================================================================
