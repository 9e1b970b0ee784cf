---------------------------- MODULE TwinSchedule ----------------------------
(***************************************************************************)
(* The frozen order in which src/nerb/enron_performance.py measures a path   *)
(* and its exact control twin (3000-3090): blocks of ABBA or BAAB rounds, so  *)
(* that a machine that slowly warms up or slows down favours neither; and    *)
(* rounds of four paths in the rows of a Williams square, so that each path   *)
(* inherits the caches of each other path equally often.  A behaviour builds  *)
(* one schedule, round by round.                                              *)
(***************************************************************************)
EXTENDS Integers, FiniteSets, Sequences

CONSTANTS
    Blocks,         \* the most blocks a schedule has
    Assignment,     \* for each block (from 0) whether the candidate or the control is first
    Plans           \* the schedules to build: [value |-> four paths or one, blocks |-> how
                    \* many, samples |-> of each twin in a block, ...]

Orders == {"candidate_first", "control_first"}
BlocksWith(order, end) == {b \in 0..(end - 1) : Assignment[b] = order}

ASSUME BlocksAssumption == Blocks \in Nat /\ Assignment \in [0..(Blocks - 1) -> Orders]
ASSUME PlansAssumption ==
    \A p \in Plans : p.value \in BOOLEAN /\ p.blocks \in 0..Blocks /\ p.samples \in Nat \ {0}
ASSUME BalanceAssumption ==
    \A p \in Plans : Cardinality(BlocksWith("candidate_first", p.blocks))
                        = Cardinality(BlocksWith("control_first", p.blocks))

\* DEFAULT_CACHE_VALUE_SAMPLES_PER_BLOCK is 10.  An odd number would end a block within a square,
\* and the paths would not follow each other equally often.
ASSUME ValueAssumption == \A p \in Plans : p.value => p.samples % 2 = 0

VARIABLES
    plan,
    block,      \* the block under construction
    turn,       \* in the ABBA pattern
    counts,     \* for each twin its rounds in this block
    rounds,     \* rounds scheduled so far, of all blocks
    moment,     \* for each twin the sum of the numbers of its rounds
    places,     \* for each twin and path the sum of its positions in the schedule
    follows,    \* for each twin and pair of paths how often the second comes right after
                \* the first in a round
    earlier     \* follows at the beginning of the block

scheduleVars == <<plan, block, turn, counts, rounds, moment, places, follows, earlier>>

Twins == {"candidate", "control"}
Other(label) == IF label = "candidate" THEN "control" ELSE "candidate"
Abba == <<"candidate", "control", "control", "candidate">>

Labelled(pattern, b, t) ==
    IF Assignment[b] = "control_first" THEN Other(pattern[t + 1]) ELSE pattern[t + 1]

\* Mutant of LabelAt: the twins take turns.
TakesTurns(b, t) == Labelled(<<"candidate", "control", "candidate", "control">>, b, t)

LabelAt(b, t) == Labelled(Abba, b, t)

WilliamsRows == <<<<0, 1, 3, 2>>, <<1, 2, 0, 3>>, <<2, 3, 1, 0>>, <<3, 0, 2, 1>>>>
RowPattern == <<0, 1, 2, 3, 1, 0, 3, 2>>
ValuePaths == 0..3

Paths(p) == IF p.value THEN ValuePaths ELSE {0}

\* Mutant of Row: the rows come in their own order.
RowInOrder(p, round) == IF p.value THEN WilliamsRows[(round % 4) + 1] ELSE <<0>>

Row(p, round) == IF p.value THEN WilliamsRows[RowPattern[(round % 8) + 1] + 1] ELSE <<0>>

PositionOf(row, path) == CHOOSE i \in 1..Len(row) : row[i] = path

ScheduleInit ==
    /\ plan \in Plans
    /\ block = 0 /\ turn = 0 /\ rounds = 0
    /\ counts = [l \in Twins |-> 0]
    /\ moment = [l \in Twins |-> 0]
    /\ places = [l \in Twins |-> [x \in Paths(plan) |-> 0]]
    /\ follows = [l \in Twins |-> [xy \in Paths(plan) \X Paths(plan) |-> 0]]
    /\ earlier = follows

Full == \A l \in Twins : counts[l] = plan.samples

\* One turn of the loop over the pattern: the twin whose turn it is has its round, unless
\* it has all of them.
Round ==
    LET label == LabelAt(block, turn)
        row == Row(plan, counts["candidate"] + counts["control"])
    IN
    /\ block < plan.blocks /\ (turn = 0 => ~Full)
    /\ counts[label] < plan.samples
    /\ counts' = [counts EXCEPT ![label] = @ + 1]
    /\ turn' = (turn + 1) % 4
    /\ rounds' = rounds + 1
    /\ moment' = [moment EXCEPT ![label] = @ + rounds]
    /\ places' = [places EXCEPT ![label] =
                    [x \in DOMAIN @ |-> @[x] + rounds * Len(row) + PositionOf(row, x)]]
    /\ follows' = [follows EXCEPT ![label] =
                    [xy \in DOMAIN @ |->
                        @[xy] + Cardinality({i \in 1..(Len(row) - 1) : <<row[i], row[i + 1]>> = xy})]]
    /\ UNCHANGED <<plan, block, earlier>>

Skip ==
    /\ block < plan.blocks /\ (turn = 0 => ~Full)
    /\ counts[LabelAt(block, turn)] = plan.samples
    /\ turn' = (turn + 1) % 4
    /\ UNCHANGED <<plan, block, counts, rounds, moment, places, follows, earlier>>

NextBlock ==
    /\ block < plan.blocks /\ turn = 0 /\ Full
    /\ block' = block + 1
    /\ counts' = [l \in Twins |-> 0]
    /\ earlier' = follows
    /\ UNCHANGED <<plan, turn, rounds, moment, places, follows>>

ScheduleNext == Round \/ Skip \/ NextBlock

ScheduleSpec == ScheduleInit /\ [][ScheduleNext]_scheduleVars

Complete == block = plan.blocks

-----------------------------------------------------------------------------
(* Properties *)

\* A drift of the machine that is linear in time moves the means of both twins alike: their
\* rounds have the same centre of gravity, after each ABBA when a block has an even number of
\* samples, and over all blocks whatever the number (docs/performance.md: a balanced mix).
TwinsDriftAlike ==
    Complete \/ (turn = 0 /\ plan.samples % 2 = 0) => moment["candidate"] = moment["control"]

\* In a value schedule that holds for each of the four paths over all blocks: all eight
\* cells have one centre of gravity.  And Williams balance: over all blocks, and over each run
\* of the row pattern in a block, each path of a twin comes right after each other path
\* equally often.
Balanced(counted(_, _, _)) ==
    \A l, k \in Twins : \A x, y, u, v \in Paths(plan) :
        x # y /\ u # v => counted(l, x, y) = counted(k, u, v)

PathsAreBalanced ==
    LET Total(l, x, y) == follows[l][<<x, y>>]
        InBlock(l, x, y) == follows[l][<<x, y>>] - earlier[l][<<x, y>>]
    IN
    /\ Complete => \A l, k \in Twins : \A x, y \in Paths(plan) : places[l][x] = places[k][y]
    /\ Complete => Balanced(Total)
    /\ (counts["candidate"] + counts["control"]) % 8 = 0 => Balanced(InBlock)
=============================================================================
