---------------------------- MODULE SealedAccess -----------------------------
(***************************************************************************)
(* The one permitted access to the sealed test data of a corpus split      *)
(* (enron_splitting.py, EnronFinalTestAccess and what surrounds it; used   *)
(* by capture_enron_sealed_audit_sample of enron_sealed_audit.py).         *)
(*                                                                         *)
(* The construction of a split promotes the sealed run, then the           *)
(* development run, then publishes PAIR_COMMITTED.  A steward then binds   *)
(* an audit plan, claims the access, reads the test data, commits a sample *)
(* of it and publishes how the access ended.  Each receipt is written to a *)
(* staging file, synced, renamed into the sealed directory without         *)
(* replacing anything, and the directory is synced.  The transitions of    *)
(* stewards and of the finalizer hold a flock on the directory; the        *)
(* construction does not, and neither does verify_enron_splits, although   *)
(* both it and every transition clear away stale staging files.            *)
(*                                                                         *)
(* Abstractions.  A receipt is its value: hashes and time stamps that bind *)
(* the receipts to each other are taken to match when the values do.  The  *)
(* promotions of the two runs and of the sample are one durable step each  *)
(* (PrivateRun models them).  A sync of the directory makes all of its     *)
(* names durable.  A call stands for a process; a steward makes one call   *)
(* and the finalizer is called again and again.                            *)
(***************************************************************************)
EXTENDS Integers, FiniteSets

CONSTANTS
    Stewards,       \* callers of EnronFinalTestAccess
    Splitter,       \* the construction of the split
    Finalizer,      \* finalize_aborted_enron_final_test_access
    Plans,          \* audit plans, each with its frozen target
    MaxTombstones,  \* _MAX_RECEIPT_TOMBSTONES
    None            \* no receipt, no process, no plan

Procs == Stewards \cup {Splitter, Finalizer}

\* How an access may end; a completed one names the plan it was made for.
Outcomes == [status : {"completed"}, plan : Plans]
            \cup [status : {"failed", "aborted"}, plan : {None}]

ASSUME ProcsAssumption ==
    /\ Splitter # Finalizer /\ Splitter \notin Stewards /\ Finalizer \notin Stewards
    /\ None \notin Procs \cup Plans \cup Outcomes
ASSUME TombstonesAssumption == MaxTombstones \in Nat

VARIABLES
    runs,       \* the runs of the split that are promoted
    dir,        \* the receipts in the sealed directory
    disk,       \* the receipts that survive a loss of power
    stage,      \* stage[p]: the staging file of p
    aged,       \* processes whose staging file is five seconds old
    tombs,      \* emptied staging files kept in the directory
    soiled,     \* how many of them were written to afterwards
    lock,       \* who holds the flock on the directory
    pc,         \* pc[p]: where the call of p stands
    pending,    \* pending[p]: the receipt p publishes
    target,     \* target[s]: the plan of the frozen target of s
    readers,    \* the stewards that were given test bytes
    samples,    \* the stewards that committed a sample
    returned    \* the stewards whose capture returned

sealedVars == <<runs, dir, disk, stage, aged, tombs, soiled, lock, pc, pending, target,
                readers, samples, returned>>

Receipts ==
    [pair  : {None, "committed"},
     bound : Plans \cup {None},
     claim : Stewards \cup {None},
     outcome : Outcomes \cup {None}]

NoReceipts == [pair |-> None, bound |-> None, claim |-> None, outcome |-> None]

Nothing == [name |-> "pair", value |-> None]

\* none, made and without its flock yet, written under it; swept away by
\* somebody's recovery, and written to after that.
StageStates == {"none", "made", "written", "swept", "soiled"}

Publishing == {"publish", "sync"}

\* Where a steward holds the directory after its claim.
InContext == {"claimed", "reading", "exhausted", "attached"}

SealedInit ==
    /\ runs = {}
    /\ dir = NoReceipts /\ disk = NoReceipts
    /\ stage = [p \in Procs |-> "none"]
    /\ aged = {} /\ tombs = 0 /\ soiled = 0
    /\ lock = None
    /\ pc = [p \in Procs |-> "idle"]
    /\ pending = [p \in Procs |-> Nothing]
    /\ target = [s \in Stewards |-> None]
    /\ readers = {} /\ samples = {} /\ returned = {}

-----------------------------------------------------------------------------
\* Recovery of staging files.

Staged == {p \in Procs : stage[p] \in {"made", "written"}}

\* Mutant of Stale: a stage whose writer is gone is not told from one in use.
StaleUnlocked == {p \in Staged \cap aged : stage[p] = "made"}

\* A stage can be taken when it is old and its flock is free: its writer has not
\* locked it yet, or is gone.
Stale == {p \in Staged \cap aged : stage[p] = "made" \/ pc[p] # "publish"}

\* The file is emptied and set aside; a writer still at work keeps it open.
Sweep(taken) ==
    /\ stage' = [p \in Procs |-> IF p \notin taken THEN stage[p]
                                 ELSE IF pc[p] = "publish" THEN "swept" ELSE "none"]
    /\ aged' = aged \ taken
    /\ tombs' = tombs + Cardinality(taken)

\* What an opening of the directory requires once stages are out of the way.
Inventoried == "sealed" \in runs /\ dir.pair # None /\ soiled = 0

\* Mutant of Opens: the flock is not tried.
OpensUnlocked(p) == Staged \subseteq Stale /\ Sweep(Staged) /\ tombs' <= MaxTombstones /\ Inventoried

\* Takes the flock without waiting and requires a sound inventory.
Opens(p) ==
    /\ lock = None
    /\ Staged \subseteq Stale /\ Sweep(Staged)
    /\ tombs' <= MaxTombstones
    /\ Inventoried

\* verify_enron_splits, and an opening that refuses: stale stages are swept up
\* to the first that is in the way.
Visit ==
    /\ "sealed" \in runs
    /\ \E taken \in SUBSET Stale \ {{}} : Sweep(taken)
    /\ UNCHANGED <<runs, dir, disk, soiled, lock, pc, pending, target, readers, samples, returned>>

\* Five seconds pass, be it that the writer is suspended or that it is gone.
Age(p) ==
    /\ p \in Staged \ aged
    /\ aged' = aged \cup {p}
    /\ UNCHANGED <<runs, dir, disk, stage, tombs, soiled, lock, pc, pending, target, readers,
                   samples, returned>>

-----------------------------------------------------------------------------
\* Publication of one receipt.

Publish(p, name, value) ==
    /\ pending' = [pending EXCEPT ![p] = [name |-> name, value |-> value]]
    /\ pc' = [pc EXCEPT ![p] = "publish"]

Unlock(p) == lock' = IF lock = p THEN None ELSE lock

\* A call is over; the finalizer may be called again.
Over(p) == pc' = [pc EXCEPT ![p] = IF p = Finalizer THEN "idle" ELSE "over"]

CreateStage(p) ==
    /\ pc[p] = "publish" /\ stage[p] = "none"
    /\ stage' = [stage EXCEPT ![p] = "made"]
    /\ UNCHANGED <<runs, dir, disk, aged, tombs, soiled, lock, pc, pending, target, readers,
                   samples, returned>>

\* The flock, the bytes and their sync.  A swept stage is written to all the same.
WriteStage(p) ==
    /\ pc[p] = "publish" /\ stage[p] \in {"made", "swept"}
    /\ stage' = [stage EXCEPT ![p] = IF @ = "made" THEN "written" ELSE "soiled"]
    /\ soiled' = IF stage[p] = "swept" THEN soiled + 1 ELSE soiled
    /\ aged' = aged \ {p}
    /\ UNCHANGED <<runs, dir, disk, tombs, lock, pc, pending, target, readers, samples,
                   returned>>

RenameStage(p) ==
    /\ pc[p] = "publish" /\ stage[p] = "written"
    /\ dir[pending[p].name] = None
    /\ dir' = [dir EXCEPT ![pending[p].name] = pending[p].value]
    /\ stage' = [stage EXCEPT ![p] = "none"]
    /\ aged' = aged \ {p}
    /\ pc' = [pc EXCEPT ![p] = "sync"]
    /\ UNCHANGED <<runs, disk, tombs, soiled, lock, pending, target, readers, samples, returned>>

\* The receipt is durable.  A binding ends its transition, a claim opens the
\* context, and any other receipt ends the call.
SyncDirectory(p) ==
    /\ pc[p] = "sync"
    /\ disk' = dir
    /\ CASE pending[p].name = "bound" -> pc' = [pc EXCEPT ![p] = "planned"] /\ Unlock(p)
         [] pending[p].name = "claim" -> pc' = [pc EXCEPT ![p] = "claimed"] /\ UNCHANGED lock
         [] OTHER -> Over(p) /\ Unlock(p)
    /\ returned' = IF p \in Stewards /\ pending[p].name = "outcome"
                      /\ pending[p].value.status = "completed"
                   THEN returned \cup {p} ELSE returned
    /\ UNCHANGED <<runs, dir, stage, aged, tombs, soiled, pending, target, readers, samples>>

\* The stage no longer has its name or is of another identity: what was written
\* to it is emptied.
StageLost(p) ==
    /\ pc[p] = "publish" /\ stage[p] = "soiled"
    /\ stage' = [stage EXCEPT ![p] = "none"]
    /\ soiled' = soiled - 1
    /\ Over(p) /\ Unlock(p)
    /\ UNCHANGED <<runs, dir, disk, aged, tombs, pending, target, readers, samples, returned>>

\* A call fails before the rename, and the stage is set aside unless that fails
\* as well; or the sync of the directory fails and the receipt stands.  A claim
\* that stands without its sync gets no outcome from its owner.
PublishFails(p) ==
    /\ \/ /\ pc[p] = "publish" /\ stage[p] \in {"made", "written"}
          /\ \/ /\ stage' = [stage EXCEPT ![p] = "none"]
                /\ aged' = aged \ {p} /\ tombs' = tombs + 1
             \/ UNCHANGED <<stage, aged, tombs>>
       \/ /\ pc[p] = "publish" /\ stage[p] = "swept"
          /\ stage' = [stage EXCEPT ![p] = "none"] /\ UNCHANGED <<aged, tombs>>
       \/ pc[p] = "sync" /\ UNCHANGED <<stage, aged, tombs>>
    /\ Over(p) /\ Unlock(p)
    /\ UNCHANGED <<runs, dir, disk, soiled, pending, target, readers, samples, returned>>

-----------------------------------------------------------------------------
\* The construction of the split.

Promote(run) ==
    /\ pc[Splitter] = "idle"
    /\ run \notin runs
    /\ run = "development" => "sealed" \in runs
    /\ runs' = runs \cup {run}
    /\ UNCHANGED <<dir, disk, stage, aged, tombs, soiled, lock, pc, pending, target, readers,
                   samples, returned>>

PublishPair ==
    /\ pc[Splitter] = "idle" /\ "development" \in runs
    /\ Publish(Splitter, "pair", "committed")
    /\ UNCHANGED <<runs, dir, disk, stage, aged, tombs, soiled, lock, target, readers, samples,
                   returned>>

-----------------------------------------------------------------------------
\* A steward.

\* bind_audit_plan, for a frozen target that is of this split.
BindPlan(s) ==
    /\ pc[s] = "idle"
    /\ Opens(s)
    /\ dir.bound = None /\ dir.claim = None /\ dir.outcome = None
    /\ lock' = s
    /\ \E plan \in Plans :
        /\ target' = [target EXCEPT ![s] = plan]
        /\ Publish(s, "bound", plan)
    /\ UNCHANGED <<runs, dir, disk, soiled, readers, samples, returned>>

\* __enter__: with the binding of bind_audit_plan, or with one that another call
\* left, provided its target is the same.
Enter(s) ==
    /\ pc[s] \in {"idle", "planned"}
    /\ Opens(s)
    /\ dir.claim = None /\ dir.outcome = None /\ dir.bound # None
    /\ pc[s] = "planned" => target[s] = dir.bound
    /\ target' = [target EXCEPT ![s] = dir.bound]
    /\ lock' = s
    /\ Publish(s, "claim", s)
    /\ UNCHANGED <<runs, dir, disk, soiled, readers, samples, returned>>

\* A transition is refused, because the directory is held, its inventory is not
\* sound or the receipts forbid it.
Refused(s) ==
    /\ pc[s] \in {"idle", "planned"}
    /\ \/ lock # None
       \/ ~Inventoried \/ ~(Staged \subseteq Stale) \/ tombs + Cardinality(Staged) > MaxTombstones
       \/ dir.claim # None \/ dir.outcome # None
       \/ dir.bound # target[s]
    /\ Over(s)
    /\ UNCHANGED <<runs, dir, disk, stage, aged, tombs, soiled, lock, pending, target, readers,
                   samples, returned>>

\* iter_records: bytes of the test data reach the caller.
Read(s) ==
    /\ pc[s] = "claimed"
    /\ pc' = [pc EXCEPT ![s] = "reading"]
    /\ readers' = readers \cup {s}
    /\ UNCHANGED <<runs, dir, disk, stage, aged, tombs, soiled, lock, pending, target, samples,
                   returned>>

Exhaust(s) ==
    /\ pc[s] = "reading"
    /\ pc' = [pc EXCEPT ![s] = "exhausted"]
    /\ UNCHANGED <<runs, dir, disk, stage, aged, tombs, soiled, lock, pending, target, readers,
                   samples, returned>>

\* The sample is promoted and then bound to the access, unless the promotion
\* raises although it was made.
CommitSample(s) ==
    /\ pc[s] = "exhausted" /\ s \notin samples
    /\ samples' = samples \cup {s}
    /\ pc' \in {[pc EXCEPT ![s] = "attached"], pc}
    /\ UNCHANGED <<runs, dir, disk, stage, aged, tombs, soiled, lock, pending, target, readers,
                   returned>>

\* Mutant of Concluding: the binding of the output is not required.
ConcludingUnattached(s, raised) ==
    IF pc[s] \in {"exhausted", "attached"} /\ ~raised THEN [status |-> "completed", plan |-> target[s]]
    ELSE [status |-> "failed", plan |-> None]

\* The outcome __exit__ publishes: raised stands for an exception of the body,
\* of the stream or of the closing of a handle.
Concluding(s, raised) ==
    IF pc[s] = "attached" /\ ~raised THEN [status |-> "completed", plan |-> target[s]]
    ELSE IF raised \/ pc[s] = "exhausted" THEN [status |-> "failed", plan |-> None]
    ELSE [status |-> "aborted", plan |-> None]

\* __exit__, and the failed opening of the data after the claim.
Leave(s) ==
    /\ pc[s] \in InContext
    /\ \E raised \in BOOLEAN :
        /\ pc[s] = "exhausted" => raised \/ s \notin samples
        /\ Publish(s, "outcome", Concluding(s, raised))
    /\ UNCHANGED <<runs, dir, disk, stage, aged, tombs, soiled, lock, target, readers, samples,
                   returned>>

-----------------------------------------------------------------------------
\* The finalizer and the verifier.

\* A claim without an outcome, whose owner no longer holds the directory.
Finalize ==
    /\ pc[Finalizer] = "idle"
    /\ Opens(Finalizer)
    /\ dir.bound # None /\ dir.claim # None /\ dir.outcome = None
    /\ lock' = Finalizer
    /\ Publish(Finalizer, "outcome", [status |-> "aborted", plan |-> None])
    /\ UNCHANGED <<runs, dir, disk, soiled, target, readers, samples, returned>>

\* A committed sample verifies against the outcome of the access.
Attested(s) == s \in samples /\ dir.outcome = [status |-> "completed", plan |-> target[s]]

\* verify_enron_sealed_audit_sample with the sealed directory, for a sample that
\* verifies.
VerifySample(s) ==
    /\ Opens(s)
    /\ Attested(s)
    /\ UNCHANGED <<runs, dir, disk, soiled, lock, pc, pending, target, readers, samples, returned>>

-----------------------------------------------------------------------------
\* Crashes and loss of power.

Alive(p) == pc[p] \notin {"idle", "over"} \/ (p = Splitter /\ pc[p] = "idle" /\ runs # {})

\* The process of p is killed: its flocks are free and its stage stays behind.
Crash(p) ==
    /\ Alive(p)
    /\ stage' = [stage EXCEPT ![p] = IF @ \in {"swept", "soiled"} THEN "none" ELSE @]
    /\ Over(p) /\ Unlock(p)
    /\ UNCHANGED <<runs, dir, disk, aged, tombs, soiled, pending, target, readers, samples, returned>>

\* Every process dies.  Of the names not yet synced any may be lost, and the
\* stage of a rename that is lost has its name again.
PowerLoss ==
    /\ \E p \in Procs : Alive(p)
    /\ \E kept \in SUBSET {n \in DOMAIN dir : dir[n] # disk[n]} :
        /\ dir' = [n \in DOMAIN dir |-> IF n \in kept THEN dir[n] ELSE disk[n]]
        /\ disk' = dir'
        /\ stage' = [p \in Procs |->
                        IF pc[p] = "sync" /\ dir'[pending[p].name] = None THEN "written"
                        ELSE IF stage[p] \in {"swept", "soiled"} THEN "none" ELSE stage[p]]
    /\ pc' = [p \in Procs |-> IF ~Alive(p) THEN pc[p] ELSE IF p = Finalizer THEN "idle" ELSE "over"]
    /\ lock' = None
    /\ UNCHANGED <<runs, aged, tombs, soiled, pending, target, readers, samples, returned>>

-----------------------------------------------------------------------------
\* What a process does when nothing goes wrong.
Publishes(p) == CreateStage(p) \/ WriteStage(p) \/ RenameStage(p) \/ SyncDirectory(p) \/ StageLost(p)

Runs == {"sealed", "development"}

Splits == (\E run \in Runs : Promote(run)) \/ PublishPair

StewardStep(s) == BindPlan(s) \/ Enter(s) \/ Refused(s)
                  \/ Read(s) \/ Exhaust(s) \/ CommitSample(s) \/ Leave(s)

SealedStep ==
    \/ \E p \in Procs : Publishes(p) \/ Age(p)
    \/ Splits \/ (\E s \in Stewards : StewardStep(s) \/ VerifySample(s))
    \/ Finalize \/ Visit

SealedTrouble == \E p \in Procs : PublishFails(p) \/ Crash(p)
=============================================================================
