---------------------------- MODULE AttemptLedger ----------------------------
(***************************************************************************)
(* The ledger of capacity attempts (enron_capacity.py, from _AttemptLedger *)
(* to _remove_pinned_directory, and _run_capacity_entry, which drives it). *)
(* Every run of the capacity command is one attempt.  It publishes an      *)
(* inflight marker, binds its staging directory and the inventory of its   *)
(* payload to the marker, promotes the output, and publishes a receipt     *)
(* before it retires the files of the marker.  A run opens the ledger by   *)
(* recovering what a dead run left; the parent of a worker does only that. *)
(*                                                                         *)
(* A process may crash between any two steps on a file, and a system call  *)
(* may fail or be interrupted.  Files survive a crash of their process.    *)
(***************************************************************************)
EXTENDS Naturals, FiniteSets, FiniteSetsExt

CONSTANTS
    Runs,               \* processes that run the capacity command once
    Parents,            \* processes that only recover, again and again
    Nobody,
    MaxGenerations,     \* MAX_CLEANUP_INTENT_GENERATIONS
    MaxTombstones,      \* MAX_LEDGER_TOMBSTONES
    MaxTroubles,        \* crashes and faults together
    MaxFaults           \* system calls that fail, interrupts

ASSUME LedgerAssumption ==
    /\ Nobody \notin Runs \cup Parents /\ Runs \cap Parents = {}
    /\ IsFiniteSet(Runs)
    /\ MaxGenerations \in Nat \ {0} /\ MaxTombstones \in Nat
    /\ MaxTroubles \in Nat /\ MaxFaults \in Nat

VARIABLES
    live,       \* names of the ledger directory that hold a whole file
    torn,       \* names whose file was truncated in place
    temps,      \* temporary names, [name, whole]
    tombs,      \* number of empty tombstones in the ledger directory
    said,       \* content of the receipt of each number
    seq,        \* attempt_sequence in the marker of each run
    place,      \* where the output directory of each run is
    under,      \* generation whose committed name a tombstone has, 0: another name
    payload,    \* content of the output directory of each run
    lock,       \* owner of the flock on the ledger directory
    pc, job,    \* step of each process, and the file it publishes or retires
    subject,    \* the attempt a process terminates, its own or a dead run's
    verdict,    \* outcome of each run
    appended,   \* runs whose receipt_appended is set
    retried,    \* processes in their second reconciliation
    crashes, faults

directory == <<live, torn, temps, tombs, said, seq>>
output == <<place, under, payload>>
control == <<subject, verdict, appended, retried>>
bounds == <<crashes, faults>>
vars == <<directory, output, lock, pc, job, control, bounds>>

Processes == Runs \cup Parents
Numbers == 1..Cardinality(Runs)
Marker(r) == <<"marker", r>>
Binding(r) == <<"binding", r>>
Inventory(r) == <<"inventory", r>>
Intent(r, g) == <<"intent", r, g>>
Receipt(n) == <<"receipt", n>>
NoName == <<"none">>
Intents(r) == {Intent(r, g) : g \in 1..MaxGenerations}
Companions(r) == {Binding(r), Inventory(r)} \cup Intents(r)
Names == {Receipt(n) : n \in Numbers} \cup UNION {{Marker(r)} \cup Companions(r) : r \in Runs}
Silence == [attempt |-> Nobody, sequence |-> 0, outcome |-> "none", root |-> FALSE]
NoJob == [name |-> NoName, then |-> "ended", else |-> "ended"]

Published == {n \in Numbers : Receipt(n) \in live}
Marked == {r \in Runs : Marker(r) \in live}
Generation(r) == Cardinality(Intents(r) \cap live)
Receipts(r) == {n \in Published : said[n].attempt = r}
Sequences == {said[n].sequence : n \in Published} \cup {seq[r] : r \in Marked}

\* The labels of a run at work on its attempt: it holds the flock of its marker.
Ended == {"idle", "ended", "crashed"}
Alive(r) == pc[r] \notin Ended

Init ==
    /\ live = {} /\ torn = {} /\ temps = {} /\ tombs = 0
    /\ said = [n \in Numbers |-> Silence]
    /\ seq = [r \in Runs |-> 0]
    /\ place = [r \in Runs |-> "none"]
    /\ under = [r \in Runs |-> 0]
    /\ payload = [r \in Runs |-> "none"]
    /\ lock = Nobody
    /\ pc = [p \in Processes |-> "idle"]
    /\ job = [p \in Processes |-> NoJob]
    /\ subject = [p \in Processes |-> Nobody]
    /\ verdict = [r \in Runs |-> "none"]
    /\ appended = {} /\ retried = {}
    /\ crashes = 0 /\ faults = 0

-----------------------------------------------------------------------------
(* Control *)

Goto(p, l) == pc' = [pc EXCEPT ![p] = l]

\* Labels of code that does not hold the flock of the ledger directory.
Unlocked == {"ready", "early", "begun", "bound", "sealed", "settle", "unwind"} \cup Ended

\* Process p goes on at l, and lets go of the flock where the code at l runs without it.
Proceed(p, l) ==
    /\ Goto(p, l)
    /\ lock' = IF lock = p /\ l \in Unlocked THEN Nobody ELSE lock

\* Where the error of process p surfaces: a run at its own receipt unwinds.
Fail(p) == Proceed(p, IF subject[p] = p THEN "unwind" ELSE "ended")

\* Process p takes the flock at l and goes on at m.
Take(p, l, m) ==
    /\ pc[p] = l /\ lock = Nobody
    /\ lock' = p /\ Goto(p, m)

Set(p, name, then, else) ==
    job' = [job EXCEPT ![p] = [name |-> name, then |-> then, else |-> else]]

Fault == faults < MaxFaults /\ crashes + faults < MaxTroubles /\ faults' = faults + 1 /\ UNCHANGED crashes

-----------------------------------------------------------------------------
(* Publishing a file: _write_locked_atomic_file_at *)

\* The temporary file is written, synced and renamed.
Write(p) ==
    /\ pc[p] = "write" /\ job[p].name \notin live \cup torn
    /\ live' = live \cup {job[p].name}
    /\ Goto(p, "sync")
    /\ UNCHANGED <<torn, temps, tombs, said, seq, output, lock, job, control, bounds>>

\* The directory is synced: the publication stands.
Sync(p) ==
    /\ pc[p] = "sync"
    /\ Proceed(p, job[p].then)
    /\ job' = [job EXCEPT ![p] = NoJob]
    /\ UNCHANGED <<directory, output, control, bounds>>

\* An error before the rename: the temporary file, if any, becomes a tombstone.
WriteFails(p) ==
    /\ pc[p] = "write" /\ Fault
    /\ tombs' \in {tombs, tombs + 1}
    /\ Proceed(p, job[p].else)
    /\ job' = [job EXCEPT ![p] = NoJob]
    /\ UNCHANGED <<live, torn, temps, said, seq, output, control>>

\* The sync fails or is interrupted: the visible file is truncated, then it becomes a
\* tombstone.
SyncFails(p) ==
    /\ pc[p] = "sync" /\ Fault
    /\ live' = live \ {job[p].name}
    /\ torn' = torn \cup {job[p].name}
    /\ Goto(p, "undo")
    /\ UNCHANGED <<temps, tombs, said, seq, output, lock, job, control>>

Undo(p) ==
    /\ pc[p] = "undo"
    /\ torn' = torn \ {job[p].name}
    /\ tombs' = tombs + 1
    /\ Proceed(p, job[p].else)
    /\ job' = [job EXCEPT ![p] = NoJob]
    /\ UNCHANGED <<live, temps, said, seq, output, control, bounds>>

Publish(p) == Write(p) \/ Sync(p) \/ WriteFails(p) \/ SyncFails(p) \/ Undo(p)

-----------------------------------------------------------------------------
(* Reading the ledger *)

\* _verify_attempt_receipt: an attempt that passed names the directory it promoted.
WellFormed(e) ==
    /\ e.sequence > 0 /\ e.outcome \in {"passed", "failed", "interrupted"}
    /\ e.outcome = "passed" => e.root

\* Each receipt has its number as its sequence.
ChainInOrder == \A n \in Published : said[n].sequence = n

\* Mutant of ChainReadable: the sequence of a receipt is not compared with its number.
ChainReadableUnordered ==
    /\ \A n \in Numbers : Receipt(n) \notin torn
    /\ Published = 1..Cardinality(Published)
    /\ \A n \in Published : WellFormed(said[n])
    /\ \A r \in Runs : Companions(r) \cap (live \cup torn) # {} => Marker(r) \in live \cup torn
    /\ tombs <= MaxTombstones

\* _read_attempt_receipts_locked and _validate_ledger_inventory_locked.
ChainReadable ==
    /\ \A n \in Numbers : Receipt(n) \notin torn
    /\ Published = 1..Cardinality(Published)
    /\ ChainInOrder /\ \A n \in Published : WellFormed(said[n])
    /\ \A r \in Runs : Companions(r) \cap (live \cup torn) # {} => Marker(r) \in live \cup torn
    /\ tombs <= MaxTombstones

\* _read_inflight_records_locked.
InflightsReadable ==
    /\ torn = {}
    /\ \A r \in Runs :
          /\ Generation(r) > 0 \/ Inventory(r) \in live => Binding(r) \in live
          /\ \A g \in 1..Generation(r) : Intent(r, g) \in live

\* _validate_attempt_allocations.
AllocationsValid ==
    /\ \A r \in Marked : {n \in Published : said[n].sequence = seq[r]} = Receipts(r)
    /\ Sequences = {} \/ Sequences = 1..Max(Sequences)

\* _recover_ledger_temps_locked: receipts first.  Every locked operation starts with it.
WipeTemp(p) ==
    /\ pc[p] = "temps"
    /\ \E t \in temps :
          /\ t.name[1] = "receipt" \/ \A u \in temps : u.name[1] # "receipt"
          /\ temps' = temps \ {t}
          /\ tombs' = tombs + 1
          /\ IF t.name[1] = "receipt" /\ ~t.whole /\ Marked = {}
             THEN Fail(p)
             ELSE UNCHANGED <<pc, lock>>
    /\ UNCHANGED <<live, torn, said, seq, output, job, control, bounds>>

\* The records are read once no temporary file is left.
Read(p) ==
    /\ pc[p] = "temps" /\ temps = {}
    /\ LET readable ==
              CASE job[p].then = "attach" -> ChainReadable /\ (verdict[p] = "none" => InflightsReadable)
                [] OTHER -> ChainReadable /\ InflightsReadable /\ AllocationsValid
       IN  IF readable THEN Proceed(p, job[p].then) ELSE Fail(p)
    /\ job' = [job EXCEPT ![p] = NoJob]
    /\ UNCHANGED <<directory, output, control, bounds>>

-----------------------------------------------------------------------------
(* Recovering: _recover_stale_inflight_attempts_locked *)

\* _prepare_attempt_ledger, of a run or of a parent whose worker is dead.
Open(p) ==
    /\ p \in Parents => Marked # {} /\ \A r \in Runs : ~Alive(r)
    /\ Take(p, "idle", "temps")
    /\ Set(p, NoName, "recover", "ended")
    /\ UNCHANGED <<directory, output, control, bounds>>

\* Mutant of Recover: the flock of the marker is not tried.
RecoverStealing(p) ==
    /\ pc[p] = "recover"
    /\ IF Marked = {}
       THEN Proceed(p, IF p \in Runs THEN "ready" ELSE "idle") /\ UNCHANGED subject
       ELSE \E m \in Marked :
              /\ subject' = [subject EXCEPT ![p] = m]
              /\ IF Receipts(m) = {} THEN Proceed(p, "judge")
                 ELSE IF \E n \in Receipts(m) : said[n].outcome = "passed" /\ Generation(m) > 0
                 THEN Proceed(p, "ended") ELSE Proceed(p, "boundary")
    /\ UNCHANGED <<directory, output, job, verdict, appended, retried, bounds>>

\* The marker of a live run refuses the recovery; a receipt of the attempt decides it.
Recover(p) ==
    /\ pc[p] = "recover"
    /\ IF Marked = {}
       THEN Proceed(p, IF p \in Runs THEN "ready" ELSE "idle") /\ UNCHANGED subject
       ELSE \E m \in Marked :
              /\ subject' = [subject EXCEPT ![p] = m]
              /\ IF Alive(m) THEN Proceed(p, "ended")
                 ELSE IF Receipts(m) = {} THEN Proceed(p, "judge")
                 ELSE IF \E n \in Receipts(m) : said[n].outcome = "passed" /\ Generation(m) > 0
                 THEN Proceed(p, "ended") ELSE Proceed(p, "boundary")
    /\ UNCHANGED <<directory, output, job, verdict, appended, retried, bounds>>

\* _cleanup_recovered_stage of an attempt that bound no directory: only an empty staging
\* directory may be there.
RemoveUnbound(p) ==
    LET m == subject[p]
    IN  /\ pc[p] = "judge" /\ Binding(m) \notin live
        /\ IF place[m] = "final" \/ (place[m] = "stage" /\ payload[m] # "none")
           THEN Proceed(p, "ended") /\ UNCHANGED output
           ELSE /\ place' = [place EXCEPT ![m] = IF @ = "stage" THEN "tomb" ELSE @]
                /\ Proceed(p, "attest")
                /\ UNCHANGED <<under, payload>>
        /\ UNCHANGED <<directory, job, control, bounds>>

Zero(m) == payload' = [payload EXCEPT ![m] = IF @ = "none" THEN @ ELSE "zero"]

\* Mutant of WipeRenamed: only a committed name is accepted.
WipeRenamedCommitted(p) ==
    LET m == subject[p]
    IN  /\ pc[p] = "judge" /\ Binding(m) \in live /\ place[m] = "tomb"
        /\ Zero(m)
        /\ Proceed(p, IF under[m] = Generation(m) /\ under[m] > 0 THEN "attest" ELSE "ended")
        /\ UNCHANGED <<directory, place, under, job, control, bounds>>

\* The bound directory already has another name: it is wiped there, and accepted when it
\* is the name the last intent committed, or a tombstone's and no intent was written.
WipeRenamed(p) ==
    LET m == subject[p]
    IN  /\ pc[p] = "judge" /\ Binding(m) \in live /\ place[m] = "tomb"
        /\ Zero(m)
        /\ Proceed(p, IF under[m] = Generation(m) THEN "attest" ELSE "ended")
        /\ UNCHANGED <<directory, place, under, job, control, bounds>>

\* _install_cleanup_intent_locked: the next name is committed before it is used.
InstallIntent(p) ==
    LET m == subject[p]
        g == Generation(m) + 1
    IN  /\ pc[p] = "judge" /\ Binding(m) \in live /\ place[m] \in {"stage", "final"}
        /\ IF g > MaxGenerations
           THEN Proceed(p, "ended") /\ UNCHANGED job
           ELSE Set(p, Intent(m, g), "clear", "ended") /\ Proceed(p, "write")
        /\ UNCHANGED <<directory, output, control, bounds>>

\* The payload is wiped under the old name, then the directory takes the committed one.
ClearStage(p) ==
    /\ pc[p] = "clear" /\ Zero(subject[p])
    /\ Goto(p, "quarantine")
    /\ UNCHANGED <<directory, place, under, lock, job, control, bounds>>

Quarantine(p) ==
    LET m == subject[p]
    IN  /\ pc[p] = "quarantine"
        /\ place' = [place EXCEPT ![m] = "tomb"]
        /\ under' = [under EXCEPT ![m] = Generation(m)]
        /\ Goto(p, "attest")
        /\ UNCHANGED <<directory, payload, lock, job, control, bounds>>

\* _require_inflight_retirement_headroom_locked.
Headroom(m) ==
    tombs + Cardinality((Companions(m) \cup {Marker(m)}) \cap live) <= MaxTombstones

\* _make_attempt_receipt: the next number, whatever the attempt's own sequence is.
Say(m, sequence, outcome, root) ==
    said' = [said EXCEPT ![Cardinality(Published) + 1] =
                [attempt |-> m, sequence |-> sequence, outcome |-> outcome, root |-> root]]

\* The recovered attempt was interrupted.
Attest(p) ==
    LET m == subject[p]
    IN  /\ pc[p] = "attest"
        /\ IF Headroom(m)
           THEN /\ Say(m, seq[m], "interrupted", Binding(m) \in live)
                /\ Set(p, Receipt(Cardinality(Published) + 1), "boundary", "ended")
                /\ Proceed(p, "write")
           ELSE Proceed(p, "ended") /\ UNCHANGED <<said, job>>
        /\ UNCHANGED <<live, torn, temps, tombs, seq, output, control, bounds>>

-----------------------------------------------------------------------------
(* Terminating: _reconcile_published_attempt_receipt_locked, _remove_inflight_files_locked *)

Terminal(m) == said[CHOOSE n \in Receipts(m) : TRUE]

\* _verify_recovered_promoted_output, _verify_recovered_failed_output_absent.
OutputFits(m) ==
    IF Terminal(m).outcome = "passed"
    THEN place[m] = "final" /\ Terminal(m).root
    ELSE place[m] \notin {"stage", "final"} /\ (Binding(m) \in live => Terminal(m).root)

\* The tombstone of a failed attempt is wiped again wherever it is known.
Rewipe(m) ==
    IF Terminal(m).outcome # "passed" /\ Terminal(m).root THEN Zero(m) ELSE UNCHANGED payload

\* The output is compared with the receipt before the files of the marker are retired.
Boundary(p) ==
    LET m == subject[p]
    IN  /\ pc[p] = "boundary"
        /\ Rewipe(m)
        /\ IF OutputFits(m)
           THEN Proceed(p, "retire") /\ appended' = appended \cup ({p} \cap {m})
           ELSE Fail(p) /\ UNCHANGED appended
        /\ UNCHANGED <<directory, place, under, job, subject, verdict, retried, bounds>>

\* The intents in reverse, the inventory, the binding, and the marker last.
NextRetired(m) ==
    IF Generation(m) > 0 THEN Intent(m, Generation(m))
    ELSE IF Inventory(m) \in live THEN Inventory(m)
    ELSE IF Binding(m) \in live THEN Binding(m)
    ELSE Marker(m)

\* _retire_inflight_file_at: a temporary name, then a tombstone.
Retire(p) ==
    LET m == subject[p]
        n == NextRetired(m)
    IN  /\ pc[p] = "retire" /\ n \in live
        /\ IF n = Marker(m) THEN Rewipe(m) ELSE UNCHANGED payload
        /\ IF n = Marker(m) /\ ~OutputFits(m)
           THEN Fail(p) /\ UNCHANGED <<live, tombs>>
           ELSE /\ live' = live \ {n}
                /\ tombs' = tombs + 1
                /\ Proceed(p, IF n # Marker(m) THEN "retire" ELSE IF m = p THEN "ended" ELSE "recover")
        /\ UNCHANGED <<torn, temps, said, seq, place, under, job, control, bounds>>

\* What a step of the retirement leaves when it does not end.
Interrupted(p) ==
    LET n == NextRetired(subject[p])
    IN  IF pc[p] = "retire" /\ n \in live
        THEN \/ UNCHANGED <<live, temps>>
             \/ /\ live' = live \ {n}
                /\ temps' = temps \cup {[name |-> n, whole |-> TRUE]}
        ELSE UNCHANGED <<live, temps>>

\* An error or an interrupt while an attempt is terminated.  A run reconciles its own
\* receipt a second time, which a temporary file prevents.
TerminateFails(p) ==
    /\ pc[p] \in {"boundary", "retire"} /\ Fault
    /\ Interrupted(p)
    /\ IF subject[p] = p /\ p \notin retried /\ temps' = {}
       THEN retried' = retried \cup {p} /\ Goto(p, "boundary") /\ UNCHANGED lock
       ELSE Fail(p) /\ UNCHANGED retried
    /\ UNCHANGED <<torn, tombs, said, seq, output, job, subject, verdict, appended>>

-----------------------------------------------------------------------------
(* An attempt: _run_capacity_entry *)

\* The execution identity or the output directory is refused: there is no marker, and
\* nobody looks whether another attempt is in flight.
FailEarly(r) ==
    /\ pc[r] = "ready"
    /\ Goto(r, "early")
    /\ UNCHANGED <<directory, output, lock, job, control, bounds>>

\* _begin_inflight_attempt.
Begin(r) ==
    /\ Take(r, "ready", "temps")
    /\ Set(r, NoName, "allocate", "ended")
    /\ UNCHANGED <<directory, output, control, bounds>>

\* One attempt is in flight at a time.
Allocate(r) ==
    /\ pc[r] = "allocate"
    /\ IF Marked # {}
       THEN Proceed(r, "ended") /\ UNCHANGED <<seq, job>>
       ELSE /\ seq' = [seq EXCEPT ![r] = Max(Sequences \cup {0}) + 1]
            /\ Set(r, Marker(r), "begun", "early")
            /\ Proceed(r, "write")
    /\ UNCHANGED <<live, torn, temps, tombs, said, output, control, bounds>>

\* PrivateRun.__enter__ makes the staging directory.
MakeStage(r) ==
    /\ pc[r] = "begun"
    /\ place' = [place EXCEPT ![r] = "stage"]
    /\ Goto(r, "staged")
    /\ UNCHANGED <<directory, under, payload, lock, job, control, bounds>>

\* Mutant of BindStage: the payload is written before the directory is bound.
BindStageLate(r) ==
    /\ Take(r, "staged", "write")
    /\ Set(r, Binding(r), "bound", "settle")
    /\ payload' = [payload EXCEPT ![r] = "part"]
    /\ UNCHANGED <<directory, place, under, control, bounds>>

\* _bind_inflight_stage.
BindStage(r) ==
    /\ Take(r, "staged", "write")
    /\ Set(r, Binding(r), "bound", "settle")
    /\ UNCHANGED <<directory, output, control, bounds>>

\* The phases write the payload, and the report completes it.
Fill(r) ==
    /\ pc[r] \in {"bound", "filled"}
    /\ payload' = [payload EXCEPT ![r] = IF pc[r] = "bound" THEN "part" ELSE "whole"]
    /\ Goto(r, IF pc[r] = "bound" THEN "filled" ELSE "full")
    /\ UNCHANGED <<directory, place, under, lock, job, control, bounds>>

\* _bind_inflight_cleanup_inventory, called before the promotion.
BindInventory(r) ==
    /\ Take(r, "full", "write")
    /\ Set(r, Inventory(r), "sealed", "settle")
    /\ UNCHANGED <<directory, output, control, bounds>>

Promote(r) ==
    /\ pc[r] = "sealed"
    /\ place' = [place EXCEPT ![r] = "final"]
    /\ Goto(r, "promoted")
    /\ UNCHANGED <<directory, under, payload, lock, job, control, bounds>>

\* Every limit still holds after the promotion.
Pass(r) ==
    /\ pc[r] = "promoted"
    /\ verdict' = [verdict EXCEPT ![r] = "passed"]
    /\ Goto(r, "append")
    /\ UNCHANGED <<directory, output, lock, job, subject, appended, retried, bounds>>

\* A phase, a limit or an interrupt ends the transaction.
Abandon(r) ==
    /\ pc[r] \in {"begun", "staged", "bound", "filled", "full", "sealed", "promoted"}
    /\ Goto(r, "settle")
    /\ UNCHANGED <<directory, output, lock, job, control, bounds>>

\* _settle_private_run_exit, _wipe_promoted_capacity_run: the payload is wiped, then the
\* directory is retired under a name no intent commits.
Settle(r) ==
    /\ pc[r] \in {"settle", "settling"}
    /\ IF pc[r] = "settle" /\ place[r] # "none"
       THEN Zero(r) /\ Goto(r, "settling") /\ UNCHANGED <<place, verdict>>
       ELSE /\ place' = [place EXCEPT ![r] = IF @ = "none" THEN @ ELSE "tomb"]
            /\ verdict' = [verdict EXCEPT ![r] = "failed"]
            /\ Goto(r, "append")
            /\ UNCHANGED payload
    /\ UNCHANGED <<directory, under, lock, job, subject, appended, retried, bounds>>

\* The cleanup gives up, and the attempt is still receipted as failed.
SettleFails(r) ==
    /\ pc[r] \in {"settle", "settling"} /\ place[r] # "none" /\ Fault
    /\ verdict' = [verdict EXCEPT ![r] = "failed"]
    /\ Goto(r, "append")
    /\ UNCHANGED <<directory, output, lock, job, subject, appended, retried>>

\* _append_attempt_receipt, with or without a marker.
AppendReceipt(r) ==
    /\ \E l \in {"append", "early"} : Take(r, l, "temps")
    /\ subject' = [subject EXCEPT ![r] = r]
    /\ Set(r, NoName, "attach", "unwind")
    /\ UNCHANGED <<directory, output, verdict, appended, retried, bounds>>

\* The receipt is written; without a marker there is nothing to terminate.
Attach(r) ==
    /\ pc[r] = "attach"
    /\ IF verdict[r] # "none" /\ ~(Marker(r) \in live /\ Headroom(r))
       THEN Proceed(r, "unwind") /\ UNCHANGED <<said, job>>
       ELSE /\ IF verdict[r] # "none"
               THEN Say(r, seq[r], verdict[r], verdict[r] = "passed" \/ Binding(r) \in live)
               ELSE Say(r, Max(Sequences \cup {0}) + 1, "failed", FALSE)
            /\ Set(r, Receipt(Cardinality(Published) + 1),
                      IF verdict[r] # "none" THEN "boundary" ELSE "ended", "unwind")
            /\ Proceed(r, "write")
    /\ UNCHANGED <<live, torn, temps, tombs, seq, output, control, bounds>>

\* Mutant of Unwind: the receipt that stands is not looked at.
UnwindAlways(r) ==
    /\ pc[r] = "unwind"
    /\ IF verdict[r] = "passed" /\ place[r] = "final"
       THEN IF payload[r] # "zero"
            THEN Zero(r) /\ UNCHANGED <<pc, place>>
            ELSE place' = [place EXCEPT ![r] = "tomb"] /\ Goto(r, "ended") /\ UNCHANGED payload
       ELSE Goto(r, "ended") /\ UNCHANGED <<place, payload>>
    /\ UNCHANGED <<directory, under, lock, job, control, bounds>>

\* The receipt could not be appended: the promoted output is wiped, unless the receipt
\* stands.
Unwind(r) ==
    /\ pc[r] = "unwind"
    /\ IF verdict[r] = "passed" /\ r \notin appended /\ place[r] = "final"
       THEN IF payload[r] # "zero"
            THEN Zero(r) /\ UNCHANGED <<pc, place>>
            ELSE place' = [place EXCEPT ![r] = "tomb"] /\ Goto(r, "ended") /\ UNCHANGED payload
       ELSE Goto(r, "ended") /\ UNCHANGED <<place, payload>>
    /\ UNCHANGED <<directory, under, lock, job, control, bounds>>

-----------------------------------------------------------------------------
(* The environment *)

\* The process is killed.  A file being written or retired stays behind as it is.
Crash(p) ==
    /\ pc[p] \notin Ended /\ crashes + faults < MaxTroubles
    /\ crashes' = crashes + 1
    /\ \/ Interrupted(p)
       \/ /\ pc[p] = "write" /\ UNCHANGED live
          /\ \E whole \in BOOLEAN : temps' = temps \cup {[name |-> job[p].name, whole |-> whole]}
    /\ Proceed(p, IF p \in Runs THEN "crashed" ELSE "ended")
    /\ job' = [job EXCEPT ![p] = NoJob]
    /\ subject' = [subject EXCEPT ![p] = Nobody]
    /\ UNCHANGED <<torn, tombs, said, seq, output, verdict, appended, retried, faults>>

\* A parent recovers again.
Again(p) ==
    /\ p \in Parents /\ pc[p] = "ended"
    /\ Goto(p, "idle")
    /\ UNCHANGED <<directory, output, lock, job, control, bounds>>

Locked(p) == Publish(p) \/ WipeTemp(p) \/ Read(p) \/ Boundary(p) \/ Retire(p)
    \/ TerminateFails(p)
Recovery(p) == Open(p) \/ Recover(p) \/ RemoveUnbound(p) \/ WipeRenamed(p) \/ InstallIntent(p)
    \/ ClearStage(p) \/ Quarantine(p) \/ Attest(p)
Attempt(r) == FailEarly(r) \/ Begin(r) \/ Allocate(r) \/ MakeStage(r) \/ BindStage(r) \/ Fill(r)
    \/ BindInventory(r) \/ Promote(r) \/ Pass(r) \/ Abandon(r) \/ Settle(r) \/ SettleFails(r)
    \/ AppendReceipt(r) \/ Attach(r) \/ Unwind(r)

Next == \/ \E p \in Processes : Locked(p) \/ Recovery(p) \/ Crash(p) \/ Again(p)
        \/ \E r \in Runs : Attempt(r)

Spec == Init /\ [][Next]_vars

\* A process that is not killed goes on, and the parent of a worker that died recovers.
Fairness ==
    /\ \A p \in Processes : WF_vars(Locked(p) \/ Again(p))
    /\ \A p \in Processes : WF_vars((p \in Parents \/ pc[p] # "idle") /\ Recovery(p))
    /\ \A r \in Runs : WF_vars(Attempt(r))
FairSpec == Spec /\ Fairness

-----------------------------------------------------------------------------
(* Properties *)

Labels == {"idle", "temps", "recover", "judge", "clear", "quarantine", "attest", "write",
    "sync", "undo", "boundary", "retire", "ready", "early", "allocate",
    "begun", "staged", "bound", "filled", "full", "sealed", "promoted", "settle", "settling",
    "append", "attach", "unwind", "ended", "crashed"}

\* Types: the files, receipts, labels and counters of the ledger.
TypeOK ==
    /\ live \subseteq Names /\ torn \subseteq Names /\ live \cap torn = {}
    /\ temps \subseteq [name : Names, whole : BOOLEAN]
    /\ tombs \in Nat
    /\ said \in [Numbers -> [attempt : Runs \cup {Nobody}, sequence : Nat, root : BOOLEAN,
                             outcome : {"none", "passed", "failed", "interrupted"}]]
    /\ seq \in [Runs -> Nat]
    /\ place \in [Runs -> {"none", "stage", "final", "tomb"}]
    /\ under \in [Runs -> 0..MaxGenerations]
    /\ payload \in [Runs -> {"none", "part", "whole", "zero"}]
    /\ lock \in Processes \cup {Nobody}
    /\ pc \in [Processes -> Labels]
    /\ job \in [Processes -> [name : Names \cup {NoName}, then : Labels, else : Labels]]
    /\ subject \in [Processes -> Runs \cup {Nobody}]
    /\ verdict \in [Runs -> {"none", "passed", "failed"}]
    /\ appended \subseteq Runs /\ retried \subseteq Runs
    /\ crashes \in Nat /\ faults \in 0..MaxFaults /\ crashes + faults <= MaxTroubles

Passed(r) == \E n \in Receipts(r) : said[n].outcome = "passed"
Absent(r) == place[r] \notin {"stage", "final"} /\ payload[r] \in {"none", "zero"}

\* The receipts are numbered without a gap and each has its number as its sequence: what
\* verify_capacity_attempt_ledger asks of the chain it is given (12195-12224).
ChainVerifies == Published = 1..Cardinality(Published) /\ ChainInOrder

\* A receipt out of order is the last there is, and that of a run that never had a marker;
\* the attempt it overtook keeps its marker.  So nothing is appended, recovered or retired
\* beyond it, and who has a marker is always receipted in order (11764-11795, 12195-12224).
OnlyTheLastBreaks ==
    ~ChainInOrder =>
        /\ Marked # {}
        /\ \A n \in Published : said[n].sequence # n =>
              /\ n = Cardinality(Published)
              /\ said[n].outcome = "failed" /\ verdict[said[n].attempt] = "none"

\* Whoever reads a passed receipt finds the promoted output whole, whatever crashed or
\* failed since: neither the failing run nor a recovery wipes it (6438-6455, 13412-13435).
PassedIsIntact ==
    \A r \in Runs : Passed(r) => place[r] = "final" /\ payload[r] = "whole"

\* Private payload is never out of reach: it is in an output that passed, or a marker and a
\* binding lead the next recovery to it; and an attempt whose marker is retired without
\* having passed left nothing behind (12035-12167, 13117-13350).
PayloadAccounted ==
    \A r \in Runs :
        \/ Passed(r)
        \/ Absent(r)
        \/ Marker(r) \in live \cup torn /\ (Binding(r) \in live \cup torn \/ payload[r] = "none")

\* The receipts that stand: a publication counts when it is synced, or when its writer died.
Standing ==
    {n \in Published : \A p \in Processes : pc[p] = "sync" => job[p].name # Receipt(n)}

Log == INSTANCE AttemptLog WITH
    Attempts <- Runs, Outcomes <- {"passed", "failed", "interrupted"},
    log <- [i \in 1..Cardinality(Standing) |->
               [attempt |-> said[i].attempt, outcome |-> said[i].outcome]]

\* The ledger implements the log: every attempt is closed at most once, by itself or by one
\* recovery, and no receipt that stands is changed or withdrawn (11646-11761, 12648-12796).
ClosesOnce == Log!Spec

\* What no recovery gets past: a file truncated by a publication that was being undone, a
\* receipt out of order, a limit that was reached, an output that a failed attempt could not
\* move away.
Stuck(r) ==
    \/ torn # {} \/ ~ChainInOrder
    \/ tombs > MaxTombstones \/ (Receipts(r) = {} /\ ~Headroom(r))
    \/ place[r] \in {"stage", "final"} /\ ~Passed(r)
          /\ (Generation(r) = MaxGenerations \/ Receipts(r) # {})

\* Every attempt that published its marker is terminated, by itself or by a recovery after
\* the last crash (11600-11618, 5429-5444).
Terminates == \A r \in Runs : Marker(r) \in live ~> Marker(r) \notin live \/ Stuck(r)
=============================================================================
