------------------------- MODULE MCBenchmarkWorkers -------------------------
\* Instances of BenchmarkWorkers for TLC.
EXTENDS BenchmarkWorkers

\* PERFORMANCE_EXACT_BLOCK_ASSIGNMENT, as _derive_exact_block_assignment computes it from
\* hashes of the block numbers.
CandidateFirst == {1, 3, 5, 8, 9}
MCAssignment ==
    [b \in 0..9 |-> IF b \in CandidateFirst THEN "candidate_first" ELSE "control_first"]

Plan(value, twins, reused, blocks, samples, bound) ==
    [value |-> value, twins |-> twins, reused |-> reused, blocks |-> blocks, samples |-> samples,
     troubles |-> bound]

\* Whole decision schedules of ten blocks, of which nothing fails: twins with the frozen
\* samples of a block (setup 2) and others, odd ones too; value paths (10 in the code).
Schedules ==
    {Plan(FALSE, TRUE, TRUE, 10, n, 0) : n \in {1, 2, 3, 7}}
        \cup {Plan(FALSE, TRUE, FALSE, 10, 2, 0)}
        \cup {Plan(TRUE, TRUE, TRUE, 10, n, 0) : n \in {2, 10}}

\* With troubles: two blocks of twins in sessions and of fresh processes, single
\* workloads.
Troubled ==
    {Plan(FALSE, TRUE, TRUE, 2, 1, 2),
     Plan(FALSE, TRUE, FALSE, 2, 1, 2),
     Plan(FALSE, FALSE, TRUE, 0, 2, 3),
     Plan(FALSE, FALSE, FALSE, 0, 2, 3)}

MCPlans == Schedules \cup Troubled
=============================================================================
