--------------------------- MODULE SealedEvaluation ---------------------------
(***************************************************************************)
(* The one-shot evaluation of a split: its sealed test data is captured    *)
(* once and the captured sample is scored once.  Scoring starts from a     *)
(* sample somebody trusts, because its capture returned or because it was  *)
(* verified against the sealed directory.  Processes of both parts may be  *)
(* killed at any step, writes and syncs may fail, and the power may fail.  *)
(***************************************************************************)
EXTENDS SealedAccess, SoleScore

CONSTANT MaxTroubles   \* bound on failures, kills and losses of power

ASSUME TroublesAssumption == MaxTroubles \in Nat

VARIABLES
    trusted,   \* a sample is known to be that of the completed access
    troubles   \* troubles so far

vars == <<sealedVars, scoreVars, trusted, troubles>>

Init == SealedInit /\ ScoreInit /\ trusted = FALSE /\ troubles = 0

Trust == trusted' = (trusted \/ returned' # {})

Access(step) == step /\ Trust /\ UNCHANGED <<scoreVars, troubles>>

Check(s) ==
    /\ VerifySample(s)
    /\ trusted' = TRUE
    /\ UNCHANGED <<scoreVars, troubles>>

\* The inputs of a score are verified first, the binding of the sample included.
Attempt(k) == trusted /\ CreateClaim(k) /\ UNCHANGED <<sealedVars, trusted, troubles>>

Scoring(k) == ScoreStep(k) /\ UNCHANGED <<sealedVars, trusted, troubles>>

Strikes == troubles < MaxTroubles /\ troubles' = troubles + 1 /\ UNCHANGED trusted

Trouble ==
    /\ Strikes
    /\ \/ SealedTrouble /\ UNCHANGED scoreVars
       \/ (\E k \in Scorers : ScoreTrouble(k)) /\ UNCHANGED sealedVars

LosePower == Strikes /\ PowerLoss /\ ScorersLosePower

Next ==
    \/ \E p \in Procs : Access(Publishes(p) \/ Age(p))
    \/ Access(Splits) \/ Access(Finalize) \/ Access(Visit)
    \/ \E s \in Stewards : Access(StewardStep(s)) \/ Check(s)
    \/ \E k \in Scorers : Attempt(k) \/ Scoring(k)
    \/ Trouble \/ LosePower

Spec == Init /\ [][Next]_vars

\* What a steward does once it has called: it may or may not go on to enter.
StewardWork(s) == StewardStep(s) /\ pc[s] # "idle"

\* A call that is not killed goes on, time passes, and the finalizer is called
\* until there is nothing left to finalize.  Nobody has to split, bind, verify or score.
FairSpec ==
    /\ Spec
    /\ \A p \in Procs : WF_vars(Access(Publishes(p))) /\ WF_vars(Access(Age(p)))
    /\ \A s \in Stewards : WF_vars(Access(StewardWork(s)))
    /\ WF_vars(Access(Finalize))

-----------------------------------------------------------------------------
\* The types, and that a flock is held by a call in progress.
TypeOK ==
    /\ runs \subseteq Runs
    /\ dir \in Receipts /\ disk \in Receipts
    /\ stage \in [Procs -> StageStates] /\ aged \subseteq Procs
    /\ tombs \in Nat /\ soiled \in Nat
    /\ \A p \in Procs : pc[p] \in {"idle", "planned", "over"} \cup Publishing \cup InContext
    /\ lock # None => lock \in Procs /\ pc[lock] \in Publishing \cup InContext
    /\ readers \subseteq Stewards /\ samples \subseteq Stewards /\ returned \subseteq Stewards
    /\ claim \in Files /\ outcome \in Files
    /\ at \in [Scorers -> ScoreStages]
    /\ scored \subseteq Scorers /\ scores \subseteq Scorers /\ paid \subseteq Scorers
    /\ trusted \in BOOLEAN /\ troubles \in 0..MaxTroubles

\* How far the access has durably come.
AccessStatus ==
    IF disk.outcome # None THEN disk.outcome.status
    ELSE IF disk.claim # None THEN "claimed"
    ELSE IF disk.bound # None THEN "bound" ELSE "open"

TheAccess == INSTANCE OneShotAccess WITH
    Readers <- Stewards, status <- AccessStatus, plan <- disk.bound

\* How far the score attempt has durably come.  An outcome that is torn says nothing.
AttemptStatus ==
    IF outcome.synced
    THEN IF ~outcome.whole THEN "aborted"
         ELSE IF outcome.says = "receipt" THEN "completed" ELSE "failed"
    ELSE IF claim.synced THEN "claimed" ELSE "open"

TheAttempt == INSTANCE OneShotAccess WITH
    Readers <- Scorers, status <- AttemptStatus, plan <- None, readers <- scored

\* However the calls interleave, are killed or lose power, the test data is read
\* by at most one steward and the panel is scored by at most one call, each under
\* a durable claim that has no outcome yet, and neither transition goes back
\* (enron_splitting.py 4360-5433, enron_audit_scoring.py 323-440, 2267-2470).
ImplementsOneShot == TheAccess!Spec /\ TheAttempt!Spec

\* What a capture or a score returned stands for ever: its own claim and outcome
\* are durable and verify, and it alone was given the data (enron_sealed_audit.py
\* 648-740, 917-1010; enron_audit_scoring.py 323-440, 2369-2400).
ReturnedStands ==
    /\ \A s \in returned :
        /\ readers = {s} /\ samples = {s} /\ disk.claim = s /\ disk.bound = target[s]
        /\ disk.outcome = [status |-> "completed", plan |-> target[s]] /\ Attested(s)
    /\ \A k \in paid : scored = {k} /\ Verifies(k) /\ claim.synced /\ outcome.synced

\* Nothing helps any more: emptied files beyond their limit or written to again,
\* or a claim whose binding a loss of power took away.
Wedged == tombs + Cardinality(Staged) > MaxTombstones \/ soiled > 0 \/ dir.bound = None \/ dir.pair = None

\* A claim whose owner is gone gets its outcome (enron_splitting.py 5353-5433).
ClaimsConclude == dir.claim # None ~> (dir.outcome # None \/ dir.claim = None \/ Wedged)
=============================================================================
