------------------------------ MODULE SoleScore ------------------------------
(***************************************************************************)
(* The sole score attempt of an audit (enron_audit_scoring.py,             *)
(* score_enron_gold_audit_files and the verification of its claim).  The   *)
(* attempt is claimed by creating a file that must not exist; then the     *)
(* panel is scored, the score is committed to the output directory of the  *)
(* call, and a second file that must not exist says how the attempt ended. *)
(* Both files are written under their final names, so that a failure or a  *)
(* loss of power may leave one of them torn.                               *)
(*                                                                         *)
(* Abstractions.  The calls have the same audit plan and sealed output,    *)
(* hence one claim, and an output directory each.  The commit of a score   *)
(* is one durable step (PrivateRun models it).  A score with insufficient  *)
(* support takes the same steps.  The inputs were verified before.         *)
(***************************************************************************)
CONSTANTS
    Scorers,  \* calls of score_enron_gold_audit_files
    NoCall    \* no call

ASSUME ScorersAssumption == NoCall \notin Scorers

VARIABLES
    claim,    \* the claim file of the attempt
    outcome,  \* its outcome file
    at,       \* at[k]: where call k stands
    scored,   \* the calls that made predictions
    scores,   \* the calls whose score is committed
    paid      \* the calls that returned a receipt

scoreVars == <<claim, outcome, at, scored, scores, paid>>

\* whole: all bytes were written.  synced: file and name are durable.
Files == [by : Scorers \cup {NoCall}, says : {"nothing", "attempt", "receipt", "score_failed"},
          whole : BOOLEAN, synced : BOOLEAN]

Missing == [by |-> NoCall, says |-> "nothing", whole |-> FALSE, synced |-> FALSE]

ScoreStages == {"idle", "claiming", "claimed", "scored", "committed", "concluding", "failing",
                "conceding", "over"}

ScoreInit ==
    /\ claim = Missing /\ outcome = Missing
    /\ at = [k \in Scorers |-> "idle"]
    /\ scored = {} /\ scores = {} /\ paid = {}

Moves(k, from, to) == at[k] = from /\ at' = [at EXCEPT ![k] = to]

Created(k, says) == [Missing EXCEPT !.by = k, !.says = says]

Written(file) == [file EXCEPT !.whole = TRUE, !.synced = TRUE]

\* The exclusive creation of the claim, which another call's attempt forbids.
CreateClaim(k) ==
    /\ Moves(k, "idle", "claiming")
    /\ claim = Missing
    /\ claim' = Created(k, "attempt")
    /\ UNCHANGED <<outcome, scored, scores, paid>>

ClaimRefused(k) ==
    /\ Moves(k, "idle", "over")
    /\ claim # Missing
    /\ UNCHANGED <<claim, outcome, scored, scores, paid>>

WriteClaim(k) ==
    /\ Moves(k, "claiming", "claimed")
    /\ claim' = Written(claim)
    /\ UNCHANGED <<outcome, scored, scores, paid>>

Score(k) ==
    /\ Moves(k, "claimed", "scored")
    /\ scored' = scored \cup {k}
    /\ UNCHANGED <<claim, outcome, scores, paid>>

CommitScore(k) ==
    /\ Moves(k, "scored", "committed")
    /\ scores' = scores \cup {k}
    /\ UNCHANGED <<claim, outcome, scored, paid>>

\* The outcome with the hash of the receipt.
CreateOutcome(k) ==
    /\ Moves(k, "committed", "concluding")
    /\ outcome = Missing
    /\ outcome' = Created(k, "receipt")
    /\ UNCHANGED <<claim, scored, scores, paid>>

WriteOutcome(k) ==
    /\ Moves(k, "concluding", "over")
    /\ outcome' = Written(outcome)
    /\ paid' = paid \cup {k}
    /\ UNCHANGED <<claim, scored, scores>>

\* The handler of the scoring function: an attempt that was claimed and has no
\* outcome is said to have failed.
Concede(k) ==
    /\ at[k] = "failing"
    /\ \/ outcome = Missing /\ outcome' = Created(k, "score_failed") /\ Moves(k, "failing", "conceding")
       \/ outcome # Missing /\ Moves(k, "failing", "over") /\ UNCHANGED outcome
    /\ UNCHANGED <<claim, scored, scores, paid>>

WriteConcession(k) ==
    /\ Moves(k, "conceding", "over")
    /\ outcome' = Written(outcome)
    /\ UNCHANGED <<claim, scored, scores, paid>>

-----------------------------------------------------------------------------
\* What a failing write leaves of a file that was created.
Spoils(file) == {file, [file EXCEPT !.whole = TRUE], Written(file)}

\* The call is not known to own the claim when its creation raises, even after
\* the file was synced.
ClaimFails(k) ==
    /\ Moves(k, "claiming", "over")
    /\ claim' \in Spoils(claim)
    /\ UNCHANGED <<outcome, scored, scores, paid>>

\* An exception or an interrupt after the claim; a commit may have promoted the
\* score before it raised.
ScoringFails(k) ==
    /\ \E from \in {"claimed", "scored", "committed"} : Moves(k, from, "failing")
    /\ scores' \in IF at[k] = "scored" THEN {scores, scores \cup {k}} ELSE {scores}
    /\ UNCHANGED <<claim, outcome, scored, paid>>

OutcomeFails(k) ==
    /\ Moves(k, "concluding", "failing") \/ Moves(k, "conceding", "over")
    /\ outcome' \in Spoils(outcome)
    /\ UNCHANGED <<claim, scored, scores, paid>>

\* The process of k is killed.  What it was writing may be whole.
ScorerDies(k) ==
    /\ at[k] \notin {"idle", "over"}
    /\ at' = [at EXCEPT ![k] = "over"]
    /\ claim' \in IF at[k] = "claiming" THEN Spoils(claim) ELSE {claim}
    /\ outcome' \in IF at[k] \in {"concluding", "conceding"} THEN Spoils(outcome) ELSE {outcome}
    /\ scores' \in IF at[k] = "scored" THEN {scores, scores \cup {k}} ELSE {scores}
    /\ UNCHANGED <<scored, paid>>

\* A file that is not durable is lost, or stays with what had reached the disk.
Survivors(file) ==
    IF file = Missing \/ file.synced THEN {file}
    ELSE {Missing} \cup {[file EXCEPT !.whole = w, !.synced = TRUE] : w \in BOOLEAN}

ScorersLosePower ==
    /\ at' = [k \in Scorers |-> IF at[k] = "idle" THEN "idle" ELSE "over"]
    /\ claim' \in Survivors(claim) /\ outcome' \in Survivors(outcome)
    /\ UNCHANGED <<scored, scores, paid>>

\* verify_enron_gold_audit_score for the output directory of k.
Verifies(k) ==
    /\ k \in scores
    /\ claim.by = k /\ claim.whole
    /\ outcome.by = k /\ outcome.whole /\ outcome.says = "receipt"

ScoreStep(k) ==
    \/ ClaimRefused(k) \/ WriteClaim(k) \/ Score(k) \/ CommitScore(k)
    \/ CreateOutcome(k) \/ WriteOutcome(k) \/ Concede(k) \/ WriteConcession(k)

ScoreTrouble(k) == ClaimFails(k) \/ ScoringFails(k) \/ OutcomeFails(k) \/ ScorerDies(k)
=============================================================================
