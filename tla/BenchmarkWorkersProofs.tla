------------------------- MODULE BenchmarkWorkersProofs -----------------------
(* Safety of the performance workers for every plan, pipe and message: first the centre of     *)
(* gravity of the twins' rounds, a property of the schedule alone; then the runner and its     *)
(* children, by one inductive invariant; and by a second one what the runner enters in its     *)
(* audit.                                                                                      *)
EXTENDS BenchmarkWorkers, FiniteSetTheorems, TLAPS

First(b) == IF Assignment[b] = "control_first" THEN "control" ELSE "candidate"

\* How many more of the first b blocks began with the candidate.
Tilt(b) == Cardinality(BlocksWith("candidate_first", b))
             - Cardinality(BlocksWith("control_first", b))

Drift == moment["candidate"] - moment["control"]

\* What the finished blocks leave: an odd block ends in "AB", one round apart.
Base == IF plan.samples % 2 = 0 THEN 0 ELSE 0 - Tilt(block)

\* The drift of the current block, in favour of the twin that began it.
Lead == IF First(block) = "candidate" THEN Drift - Base ELSE Base - Drift

ScheduleTypes ==
    /\ plan \in Plans
    /\ block \in 0..plan.blocks /\ turn \in 0..3 /\ rounds \in Nat
    /\ counts \in [Twins -> Nat] /\ moment \in [Twins -> Nat]

\* Where a block stands in its ABBA, and its lead there.
Phase ==
    LET f == counts[First(block)]
        g == counts[Other(First(block))]
        n == plan.samples
    IN
    /\ f <= n /\ g <= n
    /\ block = plan.blocks => turn = 0 /\ f = 0
    /\ turn = 0 => /\ f = g
                   /\ \/ f % 2 = 0 /\ Lead = 0
                      \/ f % 2 = 1 /\ f = n /\ Lead = 0 - 1
    /\ turn = 1 => f = g + 1 /\ g % 2 = 0 /\ Lead = rounds - 1
    /\ turn = 2 => f = g /\ f % 2 = 1 /\ Lead = 0 - 1
    /\ turn = 3 => \/ f % 2 = 1 /\ g = f + 1 /\ Lead = 0 - rounds
                   \/ f % 2 = 1 /\ f = n /\ g = n /\ Lead = 0 - 1

ScheduleInv == ScheduleTypes /\ Phase

\* Each block is one more of its order.
LEMMA OrderSteps ==
    /\ \A o \in Orders, e \in Nat : Cardinality(BlocksWith(o, e)) \in Nat
    /\ \A o \in Orders : Cardinality(BlocksWith(o, 0)) = 0
    /\ \A b \in 0..(Blocks - 1), o \in Orders :
          Cardinality(BlocksWith(o, b + 1)) =
              Cardinality(BlocksWith(o, b)) + IF Assignment[b] = o THEN 1 ELSE 0
  <1>1. \A o \in Orders : \A e \in Nat :
            IsFiniteSet(BlocksWith(o, e)) /\ Cardinality(BlocksWith(o, e)) \in Nat
    <2> SUFFICES ASSUME NEW o \in Orders, NEW e \in Nat
                 PROVE  IsFiniteSet(BlocksWith(o, e)) /\ Cardinality(BlocksWith(o, e)) \in Nat
      OBVIOUS
    <2>1. IsFiniteSet(0..(e - 1))
      BY FS_Interval
    <2>2. BlocksWith(o, e) \subseteq 0..(e - 1)
      BY DEF BlocksWith
    <2> QED
      BY <2>1, <2>2, FS_Subset, FS_CardinalityType
  <1>2. \A o \in Orders : BlocksWith(o, 0) = {}
    BY DEF BlocksWith
  <1>3. ASSUME NEW b \in 0..(Blocks - 1), NEW o \in Orders
        PROVE  Cardinality(BlocksWith(o, b + 1)) =
                   Cardinality(BlocksWith(o, b)) + IF Assignment[b] = o THEN 1 ELSE 0
    <2>1. CASE Assignment[b] = o
      <3>1. BlocksWith(o, b + 1) = BlocksWith(o, b) \cup {b} /\ b \notin BlocksWith(o, b)
        BY <2>1 DEF BlocksWith
      <3> QED
        BY <1>1, <2>1, <3>1, FS_AddElement
    <2>2. CASE Assignment[b] # o
      <3>1. BlocksWith(o, b + 1) = BlocksWith(o, b)
        BY <2>2 DEF BlocksWith
      <3> QED
        BY <1>1, <2>2, <3>1
    <2> QED
      BY <2>1, <2>2
  <1> QED
    BY <1>1, <1>2, <1>3, FS_EmptySet

\* Each block adds itself to one of the two orders.
LEMMA TiltSteps ==
    ASSUME NEW b \in 0..(Blocks - 1)
    PROVE  /\ Tilt(0) = 0
           /\ Tilt(b) \in Int
           /\ Assignment[b] = "candidate_first" => Tilt(b + 1) = Tilt(b) + 1
           /\ Assignment[b] = "control_first" => Tilt(b + 1) = Tilt(b) - 1
           /\ Assignment[b] \in Orders
  <1>1. Assignment[b] \in Orders /\ b \in Nat
    BY BlocksAssumption
  <1>2. \A o \in Orders : /\ Cardinality(BlocksWith(o, b)) \in Nat /\ Cardinality(BlocksWith(o, 0)) = 0
                          /\ Cardinality(BlocksWith(o, b + 1)) =
                                 Cardinality(BlocksWith(o, b)) + IF Assignment[b] = o THEN 1 ELSE 0
    BY <1>1, OrderSteps
  <1> QED
    BY <1>1, <1>2 DEF Tilt, Orders

\* What the assumptions say of the plan of a schedule.
LEMMA Planned ==
    ASSUME plan \in Plans
    PROVE  /\ plan.samples \in Nat \ {0} /\ plan.blocks \in Nat /\ plan.blocks <= Blocks /\ Blocks \in Nat
           /\ \A b \in Nat : b < plan.blocks => b \in 0..(Blocks - 1)
  BY PlansAssumption, BlocksAssumption

LEMMA ScheduleInitInv == ScheduleInit => ScheduleInv
  <1> SUFFICES ASSUME ScheduleInit PROVE ScheduleInv
    OBVIOUS
  <1>1. ScheduleTypes
    BY Planned DEF ScheduleInit, ScheduleTypes, Twins
  <1>2. Tilt(0) = 0
    <2>1. \A o \in Orders : BlocksWith(o, 0) = {}
      BY DEF BlocksWith
    <2> QED
      BY <2>1, FS_EmptySet DEF Tilt, Orders
  <1>3. Phase
    <2>1. counts[First(block)] = 0 /\ counts[Other(First(block))] = 0
      BY DEF ScheduleInit, First, Other, Twins
    <2>2. Drift = 0 /\ Base = 0
      BY <1>2 DEF ScheduleInit, Drift, Base, Twins
    <2>3. plan.samples \in Nat
      BY Planned DEF ScheduleInit
    <2> QED
      BY <2>1, <2>2, <2>3 DEF Phase, Lead, ScheduleInit
  <1> QED
    BY <1>1, <1>3 DEF ScheduleInv

\* The label of a turn: the twin that began the block at both ends of the ABBA.
LEMMA Labels ==
    ASSUME ScheduleTypes, block < plan.blocks
    PROVE  /\ turn \in {0, 3} => LabelAt(block, turn) = First(block)
           /\ turn \in {1, 2} => LabelAt(block, turn) = Other(First(block))
           /\ First(block) \in Twins /\ Other(First(block)) \in Twins
           /\ First(block) # Other(First(block))
  BY Planned DEF ScheduleTypes, LabelAt, Labelled, Abba, First, Other, Twins

LEMMA RoundInv == ScheduleInv /\ Round => ScheduleInv'
  <1> SUFFICES ASSUME ScheduleInv, Round PROVE ScheduleInv'
    OBVIOUS
  <1> DEFINE F == First(block)
             G == Other(First(block))
             label == LabelAt(block, turn)
  <1>1. /\ label \in Twins /\ F \in Twins /\ G \in Twins /\ F # G
        /\ turn \in {0, 3} => label = F
        /\ turn \in {1, 2} => label = G
    BY Labels DEF ScheduleInv, ScheduleTypes, Round
  <1>2. plan.samples \in Nat \ {0}
    BY Planned DEF ScheduleInv, ScheduleTypes
  <1>3. /\ counts' = [counts EXCEPT ![label] = counts[label] + 1]
        /\ moment' = [moment EXCEPT ![label] = moment[label] + rounds]
        /\ counts[label] < plan.samples
        /\ turn' = (turn + 1) % 4 /\ rounds' = rounds + 1
        /\ plan' = plan /\ block' = block
    BY DEF Round
  <1>4. ScheduleTypes'
    BY <1>1, <1>3 DEF ScheduleInv, ScheduleTypes
  <1>5. Base' = Base /\ Base \in Int
    BY <1>2, <1>3, TiltSteps, Planned DEF Base, ScheduleInv, ScheduleTypes, Round
  <1>6. \A l \in Twins : /\ counts[l] \in Nat /\ counts'[l] = IF l = label THEN counts[l] + 1 ELSE counts[l]
                         /\ moment[l] \in Nat /\ moment'[l] = IF l = label THEN moment[l] + rounds ELSE moment[l]
    BY <1>1, <1>3 DEF ScheduleInv, ScheduleTypes
  <1>7. /\ label = F => Lead' = Lead + rounds
        /\ label = G => Lead' = Lead - rounds
        /\ Lead \in Int
    <2>1. (F = "candidate" /\ G = "control") \/ (F = "control" /\ G = "candidate")
      BY DEF First, Other
    <2>2. rounds \in Nat
      BY DEF ScheduleInv, ScheduleTypes
    <2>3. First(block)' = First(block)
      BY <1>3 DEF First
    <2> QED
      BY <1>1, <1>5, <1>6, <2>1, <2>2, <2>3 DEF Lead, Drift, Twins
  <1>8. Phase'
    <2>1. First(block)' = F /\ Other(First(block))' = G
      BY <1>3 DEF First, Other
    <2>2. turn \in 0..3 /\ rounds \in Nat /\ block # plan.blocks
      BY Planned DEF ScheduleInv, ScheduleTypes, Round
    <2>3. CASE turn = 0
      BY <1>1, <1>2, <1>3, <1>6, <1>7, <2>1, <2>2, <2>3 DEF Phase, ScheduleInv
    <2>4. CASE turn = 1
      BY <1>1, <1>2, <1>3, <1>6, <1>7, <2>1, <2>2, <2>4 DEF Phase, ScheduleInv
    <2>5. CASE turn = 2
      BY <1>1, <1>2, <1>3, <1>6, <1>7, <2>1, <2>2, <2>5 DEF Phase, ScheduleInv
    <2>6. CASE turn = 3
      BY <1>1, <1>2, <1>3, <1>6, <1>7, <2>1, <2>2, <2>6 DEF Phase, ScheduleInv
    <2> QED
      BY <2>2, <2>3, <2>4, <2>5, <2>6
  <1> QED
    BY <1>4, <1>8 DEF ScheduleInv

LEMMA SkipInv == ScheduleInv /\ Skip => ScheduleInv'
  <1> SUFFICES ASSUME ScheduleInv, Skip PROVE ScheduleInv'
    OBVIOUS
  <1>1. /\ turn \in {0, 3} => counts[First(block)] = plan.samples
        /\ turn \in {1, 2} => counts[Other(First(block))] = plan.samples
    BY Labels DEF ScheduleInv, ScheduleTypes, Skip
  <1>2. plan.samples \in Nat \ {0} /\ turn \in 0..3 /\ rounds \in Nat
    BY Planned DEF ScheduleInv, ScheduleTypes
  <1>3. /\ turn' = (turn + 1) % 4
        /\ UNCHANGED <<plan, block, counts, rounds, moment>>
    BY DEF Skip
  <1>4. ScheduleTypes'
    BY <1>2, <1>3 DEF ScheduleInv, ScheduleTypes
  <1>5. Lead' = Lead /\ First(block)' = First(block) /\ Other(First(block))' = Other(First(block))
    BY <1>3 DEF Lead, Base, Drift, First, Other
  <1>6. counts[First(block)] \in Nat /\ counts[Other(First(block))] \in Nat
    BY Labels DEF ScheduleInv, ScheduleTypes, Skip
  <1>7. turn = 0 => counts[First(block)] # plan.samples
    BY Labels DEF ScheduleInv, Phase, Skip, Full, Twins, First, Other
  <1>8. Phase'
    BY <1>1, <1>2, <1>3, <1>5, <1>6, <1>7 DEF ScheduleInv, Phase
  <1> QED
    BY <1>4, <1>8 DEF ScheduleInv

LEMMA NextBlockInv == ScheduleInv /\ NextBlock => ScheduleInv'
  <1> SUFFICES ASSUME ScheduleInv, NextBlock PROVE ScheduleInv'
    OBVIOUS
  <1>1. /\ plan.samples \in Nat \ {0} /\ rounds \in Nat /\ block \in Nat /\ block < plan.blocks
        /\ plan.blocks \in Nat /\ block \in 0..(Blocks - 1)
    BY Planned DEF ScheduleInv, ScheduleTypes, NextBlock
  <1>2. /\ turn = 0 /\ turn' = 0 /\ block' = block + 1
        /\ counts' = [l \in Twins |-> 0]
        /\ UNCHANGED <<plan, rounds, moment>>
    BY DEF NextBlock
  <1>3. ScheduleTypes'
    BY <1>1, <1>2 DEF ScheduleInv, ScheduleTypes
  <1>4. counts[First(block)] = plan.samples
    BY Labels, <1>1 DEF ScheduleInv, NextBlock, Full
  <1>5. Lead = IF plan.samples % 2 = 0 THEN 0 ELSE 0 - 1
    BY <1>1, <1>2, <1>4 DEF ScheduleInv, Phase
  <1>6. Drift = Base'
    <2>1. moment["candidate"] \in Nat /\ moment["control"] \in Nat
      BY DEF ScheduleInv, ScheduleTypes, Twins
    <2>2. /\ Assignment[block] = "candidate_first" => Tilt(block + 1) = Tilt(block) + 1
          /\ Assignment[block] = "control_first" => Tilt(block + 1) = Tilt(block) - 1
          /\ Assignment[block] \in Orders /\ Tilt(block) \in Int
      BY <1>1, TiltSteps
    <2>3. Base' = IF plan.samples % 2 = 0 THEN 0 ELSE 0 - Tilt(block + 1)
      BY <1>2 DEF Base, Tilt
    <2> QED
      BY <1>1, <1>5, <2>1, <2>2, <2>3 DEF Lead, Base, Drift, First, Orders
  <1>7. Drift \in Int /\ Drift' = Drift
    BY <1>2 DEF ScheduleInv, ScheduleTypes, Drift, Twins
  <1>8. Lead' = 0
    <2>1. PICK d \in Int : Drift' = d /\ Base' = d
      BY <1>6, <1>7
    <2>2. Lead' = d - d
      BY <2>1 DEF Lead
    <2> QED
      BY <2>2
  <1>9. counts'[First(block)'] = 0 /\ counts'[Other(First(block)')] = 0
    BY <1>2 DEF First, Other, Twins
  <1> QED
    BY <1>1, <1>2, <1>3, <1>8, <1>9 DEF ScheduleInv, Phase

LEMMA ScheduleStep == ScheduleInv /\ [ScheduleNext]_scheduleVars => ScheduleInv'
  <1>1. ScheduleInv /\ UNCHANGED scheduleVars => ScheduleInv'
    BY DEF ScheduleInv, ScheduleTypes, Phase, Lead, Base, Drift, Tilt, First, Other, scheduleVars
  <1> QED
    BY <1>1, RoundInv, SkipInv, NextBlockInv DEF ScheduleNext

LEMMA BalancedAlike == ScheduleInv => TwinsDriftAlike
  <1> SUFFICES ASSUME ScheduleInv, Complete \/ (turn = 0 /\ plan.samples % 2 = 0)
               PROVE  moment["candidate"] = moment["control"]
    BY DEF TwinsDriftAlike
  <1>1. moment["candidate"] \in Nat /\ moment["control"] \in Nat
    BY DEF ScheduleInv, ScheduleTypes, Twins
  <1>2. Base = 0 /\ Lead = 0 => moment["candidate"] = moment["control"]
    BY <1>1 DEF Lead, Drift
  <1>3. plan.samples \in Nat \ {0}
    BY Planned DEF ScheduleInv, ScheduleTypes
  <1>4. Base = 0
    <2>1. Complete => Tilt(block) = 0
      <3>1. BlocksWith("candidate_first", plan.blocks) \subseteq 0..(plan.blocks - 1)
        BY DEF BlocksWith
      <3>2. plan \in Plans /\ plan.blocks \in Int
        BY Planned DEF ScheduleInv, ScheduleTypes
      <3> IsFiniteSet(0..(plan.blocks - 1))
        BY <3>2, FS_Interval
      <3>3. Cardinality(BlocksWith("candidate_first", plan.blocks)) \in Nat
        BY <3>1, <3>2, FS_Subset, FS_CardinalityType
      <3> QED
        BY <3>2, <3>3, BalanceAssumption DEF Complete, Tilt
    <2> QED
      BY <2>1 DEF Base
  <1>5. Lead = 0
    BY <1>3 DEF ScheduleInv, Phase, Complete
  <1> QED
    BY <1>2, <1>4, <1>5

\* The twins' rounds have one centre of gravity after each ABBA of a schedule with an even
\* number of samples, and at the end of every schedule: _interleaved_labels and
\* _exact_block_labels under a balanced assignment, for every number of blocks and samples.
THEOREM CentresOfGravityMeet == ScheduleSpec => []TwinsDriftAlike
  <1>1. ScheduleInit => ScheduleInv
    BY ScheduleInitInv
  <1>2. ScheduleInv /\ [ScheduleNext]_scheduleVars => ScheduleInv'
    BY ScheduleStep
  <1> QED
    BY <1>1, <1>2, BalancedAlike, PTL DEF ScheduleSpec

-----------------------------------------------------------------------------
(* The rows of the Williams square *)

InBlock == counts["candidate"] + counts["control"]

\* How often a path comes right after another in a row, and where a path is.
RightAfter(w, x, y) == {i \in 1..3 : <<WilliamsRows[w + 1][i], WilliamsRows[w + 1][i + 1]>> = <<x, y>>}
Adjacent(w, x, y) == Cardinality(RightAfter(w, x, y))
Place(w, x) == PositionOf(WilliamsRows[w + 1], x)

\* The round of the row pattern in which a twin has a row: the twin that began the block has
\* the rounds 0, 3, 4 and 7 of eight.
When(l, w) == IF l = First(block) THEN <<0, 4, 7, 3>>[w + 1] ELSE <<5, 1, 2, 6>>[w + 1]
Had(l, w, k) == IF InBlock % 8 > When(l, w) THEN k ELSE 0

Begun(order) == Cardinality(BlocksWith(order, block))

\* What half a pattern per block left over: rows 0 and 3 for the twin that began it.
Early(x, y) == Adjacent(0, x, y) + Adjacent(3, x, y) = 1
EarlyPlace(x) == <<3, 6, 7, 4>>[x + 1]
Own(l) == IF l = "candidate" THEN Begun("candidate_first") ELSE Begun("control_first")
Others(l) == Own(Other(l))

Half(k) == IF plan.samples % 4 = 0 THEN 0 ELSE k

BalanceTypes ==
    /\ follows \in [Twins -> [Paths(plan) \X Paths(plan) -> Int]]
    /\ earlier \in [Twins -> [Paths(plan) \X Paths(plan) -> Int]]
    /\ places \in [Twins -> [Paths(plan) -> Int]]

\* What the rows of a twin in this block come to, when one stands for all four of them.
Tally(l, one, k0, k1, k2, k3) ==
    one * (InBlock \div 8) + Had(l, 0, k0) + Had(l, 1, k1) + Had(l, 2, k2) + Had(l, 3, k3)

\* In a block each pair has come once in each eight rounds, and in the rows had since.
FollowsInBlock ==
    \A l \in Twins : \A x, y \in ValuePaths : x # y =>
        follows[l][<<x, y>>] = earlier[l][<<x, y>>]
            + Tally(l, 1, Adjacent(0, x, y), Adjacent(1, x, y), Adjacent(2, x, y), Adjacent(3, x, y))

\* The finished blocks: a pair of the rows 0 and 3 is one ahead for each block that the twin began.
FollowsBefore ==
    \E c \in Int : \A l \in Twins : \A x, y \in ValuePaths : x # y =>
        earlier[l][<<x, y>>] = c + Half(IF Early(x, y) THEN Own(l) ELSE Others(l))

\* The positions within the rounds, of all blocks: ten for each path in each eight rounds.
PlacesAll ==
    \E c \in Int : \A l \in Twins : \A x \in ValuePaths :
        places[l][x] = 4 * moment[l] + c
            + Half(EarlyPlace(x) * Own(l) + (10 - EarlyPlace(x)) * Others(l))
            + Tally(l, 10, Place(0, x), Place(1, x), Place(2, x), Place(3, x))

\* A schedule of one path has one position to a round.
PlacesOne == \E c \in Int : \A l \in Twins : places[l][0] = moment[l] + c + counts[l]

BalanceInv ==
    /\ BalanceTypes
    /\ plan.value => FollowsInBlock /\ FollowsBefore /\ PlacesAll
    /\ ~plan.value => PlacesOne

\* A set of three positions that holds at most one of them.
LEMMA OneOfThree ==
    ASSUME NEW S \in SUBSET (1..3), \A i, j \in S : i = j
    PROVE  Cardinality(S) = IF S = {} THEN 0 ELSE 1
  <1>1. CASE S = {}
    BY <1>1, FS_EmptySet
  <1>2. CASE S # {}
    <2>1. PICK i \in S : S = {i}
      BY <1>2
    <2> QED
      BY <1>2, <2>1, FS_Singleton
  <1> QED
    BY <1>1, <1>2

\* Each path comes right after each other path in one of the four rows, once.
LEMMA AdjacentOnce ==
    ASSUME NEW x \in ValuePaths, NEW y \in ValuePaths, x # y
    PROVE  /\ \A w \in 0..3 : Adjacent(w, x, y) \in {0, 1}
           /\ Adjacent(0, x, y) + Adjacent(1, x, y) + Adjacent(2, x, y) + Adjacent(3, x, y) = 1
  <1>1. \A w \in 0..3 : RightAfter(w, x, y) \in SUBSET (1..3)
    BY DEF RightAfter
  <1>2. /\ 1 \in RightAfter(0, x, y) <=> x = 0 /\ y = 1
        /\ 2 \in RightAfter(0, x, y) <=> x = 1 /\ y = 3
        /\ 3 \in RightAfter(0, x, y) <=> x = 3 /\ y = 2
    BY DEF RightAfter, WilliamsRows
  <1>3. /\ 1 \in RightAfter(1, x, y) <=> x = 1 /\ y = 2
        /\ 2 \in RightAfter(1, x, y) <=> x = 2 /\ y = 0
        /\ 3 \in RightAfter(1, x, y) <=> x = 0 /\ y = 3
    BY DEF RightAfter, WilliamsRows
  <1>4. /\ 1 \in RightAfter(2, x, y) <=> x = 2 /\ y = 3
        /\ 2 \in RightAfter(2, x, y) <=> x = 3 /\ y = 1
        /\ 3 \in RightAfter(2, x, y) <=> x = 1 /\ y = 0
    BY DEF RightAfter, WilliamsRows
  <1>5. /\ 1 \in RightAfter(3, x, y) <=> x = 3 /\ y = 0
        /\ 2 \in RightAfter(3, x, y) <=> x = 0 /\ y = 2
        /\ 3 \in RightAfter(3, x, y) <=> x = 2 /\ y = 1
    BY DEF RightAfter, WilliamsRows
  <1>6. \A w \in 0..3 : \A i, j \in RightAfter(w, x, y) : i = j
    <2> SUFFICES ASSUME NEW w \in 0..3, NEW i \in 1..3, NEW j \in 1..3,
                        i \in RightAfter(w, x, y), j \in RightAfter(w, x, y)
                 PROVE  i = j
      BY <1>1
    <2> QED
      BY <1>2, <1>3, <1>4, <1>5
  <1>7. \A w \in 0..3 : Adjacent(w, x, y) = IF RightAfter(w, x, y) = {} THEN 0 ELSE 1
    BY <1>1, <1>6, OneOfThree DEF Adjacent
  <1>8. \A w \in 0..3 : RightAfter(w, x, y) = {} <=> \A i \in 1..3 : i \notin RightAfter(w, x, y)
    BY <1>1
  <1>9. \A w \in 0..3 : RightAfter(w, x, y) = {} <=> /\ 1 \notin RightAfter(w, x, y)
                                                     /\ 2 \notin RightAfter(w, x, y)
                                                     /\ 3 \notin RightAfter(w, x, y)
    BY <1>8
  <1>10. x \in {0, 1, 2, 3} /\ y \in {0, 1, 2, 3}
    BY DEF ValuePaths
  <1> QED
    BY <1>2, <1>3, <1>4, <1>5, <1>7, <1>9, <1>10

\* Where the paths are in the rows: each path is once in each position.
LEMMA PlaceTable ==
    ASSUME NEW x \in ValuePaths
    PROVE  /\ Place(0, x) = <<1, 2, 4, 3>>[x + 1] /\ Place(1, x) = <<3, 1, 2, 4>>[x + 1]
           /\ Place(2, x) = <<4, 3, 1, 2>>[x + 1] /\ Place(3, x) = <<2, 4, 3, 1>>[x + 1]
  <1>1. x \in {0, 1, 2, 3}
    BY DEF ValuePaths
  <1>2. \A w \in 0..3 : Len(WilliamsRows[w + 1]) = 4
    BY DEF WilliamsRows
  <1>3. \A w \in 0..3 : (\E i \in 1..4 : WilliamsRows[w + 1][i] = x)
                          => Place(w, x) \in 1..4 /\ WilliamsRows[w + 1][Place(w, x)] = x
    BY <1>2 DEF Place, PositionOf
  <1>4. \A w \in 0..3 : \E i \in 1..4 : WilliamsRows[w + 1][i] = x
    <2> SUFFICES ASSUME NEW w \in 0..3 PROVE \E i \in 1..4 : WilliamsRows[w + 1][i] = x
      OBVIOUS
    <2>1. w \in {0, 1, 2, 3}
      OBVIOUS
    <2>2. \E i \in {1, 2, 3, 4} : WilliamsRows[w + 1][i] = x
      BY <1>1, <2>1 DEF WilliamsRows
    <2> QED
      BY <2>2
  <1>5. \A w \in 0..3 : Place(w, x) \in {1, 2, 3, 4} /\ WilliamsRows[w + 1][Place(w, x)] = x
    BY <1>3, <1>4
  <1>6. Place(0, x) \in {1, 2, 3, 4} /\ <<0, 1, 3, 2>>[Place(0, x)] = x
    BY <1>5 DEF WilliamsRows
  <1>7. Place(1, x) \in {1, 2, 3, 4} /\ <<1, 2, 0, 3>>[Place(1, x)] = x
    BY <1>5 DEF WilliamsRows
  <1>8. Place(2, x) \in {1, 2, 3, 4} /\ <<2, 3, 1, 0>>[Place(2, x)] = x
    BY <1>5 DEF WilliamsRows
  <1>9. Place(3, x) \in {1, 2, 3, 4} /\ <<3, 0, 2, 1>>[Place(3, x)] = x
    BY <1>5 DEF WilliamsRows
  <1> HIDE DEF Place
  <1> QED
    BY <1>1, <1>6, <1>7, <1>8, <1>9

\* With an even number of samples no turn is skipped: the turn follows from the rounds.
LEMMA TurnOfRounds ==
    ASSUME ScheduleInv, plan.value, block < plan.blocks
    PROVE  /\ plan.samples \in Nat /\ plan.samples % 2 = 0
           /\ counts["candidate"] \in Nat /\ counts["control"] \in Nat
           /\ InBlock \in Nat /\ InBlock % 4 = turn
  <1> DEFINE F == First(block)
             G == Other(First(block))
  <1>1. plan.samples \in Nat /\ plan.samples % 2 = 0
    BY Planned, ValueAssumption DEF ScheduleInv, ScheduleTypes
  <1>2. counts["candidate"] \in Nat /\ counts["control"] \in Nat /\ turn \in {0, 1, 2, 3}
    BY DEF ScheduleInv, ScheduleTypes, Twins
  <1>3. InBlock = counts[F] + counts[G] /\ counts[F] \in Nat /\ counts[G] \in Nat
    BY <1>2 DEF InBlock, First, Other
  <1>4. PICK f \in Nat, g \in Nat : f = counts[F] /\ g = counts[G]
    BY <1>3
  <1>5. /\ turn = 0 => f = g /\ f % 2 = 0
        /\ turn = 1 => f = g + 1 /\ g % 2 = 0
        /\ turn = 2 => f = g /\ f % 2 = 1
        /\ turn = 3 => f % 2 = 1 /\ g = f + 1
    BY <1>1, <1>2, <1>4 DEF ScheduleInv, Phase
  <1>6. (f + g) % 4 = turn
    BY <1>2, <1>5
  <1> QED
    BY <1>1, <1>2, <1>3, <1>4, <1>6

LEMMA NoSkip ==
    ASSUME ScheduleInv, plan.value, Skip
    PROVE  FALSE
  <1> DEFINE F == First(block)
             G == Other(First(block))
  <1>1. /\ turn \in {0, 3} => counts[F] = plan.samples
        /\ turn \in {1, 2} => counts[G] = plan.samples
        /\ F \in Twins /\ G \in Twins /\ F # G
    BY Labels DEF ScheduleInv, ScheduleTypes, Skip
  <1>2. plan.samples \in Nat /\ plan.samples % 2 = 0 /\ turn \in {0, 1, 2, 3}
    BY Planned, ValueAssumption DEF ScheduleInv, ScheduleTypes
  <1>3. counts[F] \in Nat /\ counts[G] \in Nat
    BY <1>1 DEF ScheduleInv, ScheduleTypes
  <1>4. PICK f \in Nat, g \in Nat : f = counts[F] /\ g = counts[G]
    BY <1>3
  <1>5. /\ turn = 0 => f = g
        /\ turn = 1 => f = g + 1 /\ f <= plan.samples
        /\ turn = 2 => f = g /\ f % 2 = 1
        /\ turn = 3 => f % 2 = 1
    BY <1>2, <1>4 DEF ScheduleInv, Phase
  <1>6. turn = 0 => f # g \/ f # plan.samples
    <2>1. \A l \in Twins : l = F \/ l = G
      BY <1>1 DEF Twins
    <2> QED
      BY <1>4, <2>1 DEF Skip, Full
  <1> QED
    BY <1>1, <1>2, <1>4, <1>5, <1>6

\* The row of a round, and no other, is had with it: _EXACT_VALUE_ROW_PATTERN under the ABBA.
LEMMA RowOfRound ==
    ASSUME ScheduleInv, plan.value, block < plan.blocks
    PROVE  \E w \in 0..3 :
             /\ Row(plan, InBlock) = WilliamsRows[w + 1]
             /\ \A l \in Twins : \A v \in 0..3 :
                   /\ When(l, v) \in 0..7
                   /\ When(l, v) = InBlock % 8 <=> l = LabelAt(block, turn) /\ v = w
  <1> DEFINE F == First(block)
             G == Other(First(block))
             r == InBlock % 8
  <1>1. InBlock \in Nat /\ InBlock % 4 = turn
    BY TurnOfRounds
  <1>2. r \in 0..7 /\ r % 4 = turn
    BY <1>1
  <1>3. /\ r \in {0, 4, 3, 7} => LabelAt(block, turn) = F
        /\ r \in {1, 5, 2, 6} => LabelAt(block, turn) = G
        /\ F \in Twins /\ G \in Twins /\ F # G
    BY <1>2, Labels DEF ScheduleInv
  <1>4. \A l \in Twins : l = F \/ l = G
    BY <1>3 DEF Twins
  <1>5. Row(plan, InBlock) = WilliamsRows[RowPattern[r + 1] + 1]
    BY DEF Row
  <1>6. \A v \in 0..3 : /\ When(F, v) = <<0, 4, 7, 3>>[v + 1]
                        /\ When(G, v) = <<5, 1, 2, 6>>[v + 1]
    BY <1>3 DEF When
  <1>7. \A v \in 0..3 : /\ When(F, v) \in {0, 3, 4, 7} /\ When(G, v) \in {1, 2, 5, 6}
    BY <1>6
  <1> HIDE DEF F, G
  <1>8. RowPattern[r + 1] \in 0..3
    BY <1>2 DEF RowPattern
  <1>9. \A v \in 0..3 : \A l \in Twins :
            When(l, v) = r <=> l = LabelAt(block, turn) /\ v = RowPattern[r + 1]
    <2> SUFFICES ASSUME NEW v \in 0..3, NEW l \in Twins
                 PROVE  When(l, v) = r <=> l = LabelAt(block, turn) /\ v = RowPattern[r + 1]
      OBVIOUS
    <2>1. r \in {0, 3, 4, 7} => (When(F, v) = r <=> v = RowPattern[r + 1])
      BY <1>6 DEF RowPattern
    <2>2. r \in {1, 2, 5, 6} => (When(G, v) = r <=> v = RowPattern[r + 1])
      BY <1>6 DEF RowPattern
    <2>3. r \in {0, 3, 4, 7} \/ r \in {1, 2, 5, 6}
      BY <1>2
    <2> HIDE DEF r
    <2>4. CASE r \in {0, 3, 4, 7}
      BY <1>3, <1>4, <1>7, <2>1, <2>4
    <2>5. CASE r \in {1, 2, 5, 6}
      BY <1>3, <1>4, <1>7, <2>2, <2>5
    <2> QED
      BY <2>3, <2>4, <2>5
  <1>10. \A l \in Twins : \A v \in 0..3 : When(l, v) \in 0..7
    BY <1>4, <1>7
  <1> QED
    BY <1>5, <1>8, <1>9, <1>10

\* A round adds its row to what its twin had; eight rounds are all rows of both.
LEMMA RoundAddsRow ==
    ASSUME ScheduleInv, plan.value, Round
    PROVE  \E w \in 0..3 :
              /\ Row(plan, InBlock) = WilliamsRows[w + 1]
              /\ \A l \in Twins, k0, k1, k2, k3 \in Int, one \in {1, 10} : k0 + k1 + k2 + k3 = one =>
                    /\ Tally(l, one, k0, k1, k2, k3) \in Int
                    /\ Tally(l, one, k0, k1, k2, k3)' = Tally(l, one, k0, k1, k2, k3)
                          + IF l = LabelAt(block, turn) THEN <<k0, k1, k2, k3>>[w + 1] ELSE 0
  <1>0. PICK w \in 0..3 :
            /\ Row(plan, InBlock) = WilliamsRows[w + 1]
            /\ \A l \in Twins : \A v \in 0..3 :
                  /\ When(l, v) \in 0..7
                  /\ When(l, v) = InBlock % 8 <=> l = LabelAt(block, turn) /\ v = w
    <2>1. block < plan.blocks
      BY DEF Round
    <2> QED
      BY <2>1, RowOfRound
  <1> SUFFICES ASSUME NEW l \in Twins, NEW k0 \in Int, NEW k1 \in Int, NEW k2 \in Int, NEW k3 \in Int,
                      NEW one \in {1, 10}, k0 + k1 + k2 + k3 = one
               PROVE  /\ Tally(l, one, k0, k1, k2, k3) \in Int
                      /\ Tally(l, one, k0, k1, k2, k3)' = Tally(l, one, k0, k1, k2, k3)
                            + IF l = LabelAt(block, turn) THEN <<k0, k1, k2, k3>>[w + 1] ELSE 0
    BY <1>0
  <1>1. PICK s \in Nat : s = InBlock
    BY TurnOfRounds DEF Round
  <1>2. InBlock' = s + 1
    <2>1. counts["candidate"] \in Nat /\ counts["control"] \in Nat
      BY TurnOfRounds DEF Round
    <2>2. LabelAt(block, turn) \in Twins
      <3>1. ScheduleTypes /\ block < plan.blocks /\ turn \in {0, 1, 2, 3}
        BY DEF ScheduleInv, ScheduleTypes, Round
      <3> QED
        BY <3>1, Labels
    <2>4. counts' = [counts EXCEPT ![LabelAt(block, turn)] = counts[LabelAt(block, turn)] + 1]
      BY DEF Round
    <2>3. counts \in [Twins -> Nat]
      BY DEF ScheduleInv, ScheduleTypes
    <2> QED
      BY <1>1, <2>1, <2>2, <2>3, <2>4 DEF InBlock, Twins
  <1>3. PICK t0 \in 0..7, t1 \in 0..7, t2 \in 0..7, t3 \in 0..7 :
            t0 = When(l, 0) /\ t1 = When(l, 1) /\ t2 = When(l, 2) /\ t3 = When(l, 3)
    BY <1>0
  <1>4. When(l, 0)' = t0 /\ When(l, 1)' = t1 /\ When(l, 2)' = t2 /\ When(l, 3)' = t3
    BY <1>3 DEF When, First, Round
  <1>5. PICK mine \in BOOLEAN : mine <=> l = LabelAt(block, turn)
    OBVIOUS
  <1>6. /\ t0 = s % 8 <=> mine /\ w = 0
        /\ t1 = s % 8 <=> mine /\ w = 1
        /\ t2 = s % 8 <=> mine /\ w = 2
        /\ t3 = s % 8 <=> mine /\ w = 3
    BY <1>0, <1>1, <1>3, <1>5
  <1> DEFINE have(n, t, k) == IF n % 8 > t THEN k ELSE 0
             all(n) == one * (n \div 8) + have(n, t0, k0) + have(n, t1, k1)
                          + have(n, t2, k2) + have(n, t3, k3)
             row == IF mine THEN <<k0, k1, k2, k3>>[w + 1] ELSE 0
  <1>7. all(s + 1) = all(s) + row /\ all(s) \in Int
    <2>1. PICK q \in Nat, r \in 0..7 : s = 8 * q + r /\ s \div 8 = q /\ s % 8 = r
      BY <1>1
    <2>2. CASE r = 7
      <3>1. (s + 1) \div 8 = q + 1 /\ (s + 1) % 8 = 0
        BY <2>1, <2>2
      <3> QED
        BY <1>6, <2>1, <2>2, <3>1
    <2>3. CASE r # 7
      <3>1. (s + 1) \div 8 = q /\ (s + 1) % 8 = r + 1
        BY <2>1, <2>3
      <3> QED
        BY <1>6, <2>1, <2>3, <3>1
    <2> QED
      BY <2>2, <2>3
  <1>8. Tally(l, one, k0, k1, k2, k3) = all(s)
    BY <1>1, <1>3 DEF Tally, Had
  <1>9. Tally(l, one, k0, k1, k2, k3)' = all(s + 1)
    BY <1>2, <1>4 DEF Tally, Had
  <1> QED
    BY <1>5, <1>7, <1>8, <1>9

\* A finished block leaves half a row pattern, or nothing; then the count begins again.
LEMMA BlockSum ==
    ASSUME ScheduleInv, plan.value, NextBlock, NEW l \in Twins,
           NEW k0 \in Int, NEW k1 \in Int, NEW k2 \in Int, NEW k3 \in Int, NEW one \in {1, 10}
    PROVE  /\ Tally(l, one, k0, k1, k2, k3) =
                 one * (plan.samples \div 4) + Half(IF l = First(block) THEN k0 + k3 ELSE k1 + k2)
           /\ plan.samples \div 4 \in Int
           /\ Tally(l, one, k0, k1, k2, k3)' = 0
  <1>1. plan.samples \in Nat /\ plan.samples % 2 = 0 /\ plan' = plan
    BY TurnOfRounds DEF NextBlock
  <1>2. PICK q \in Nat, h \in {0, 2} :
            /\ plan.samples = 4 * q + h /\ plan.samples \div 4 = q /\ plan.samples % 4 = h
    <2>1. PICK q \in Nat : q = plan.samples \div 4
      BY <1>1
    <2>2. PICK h \in {0, 2} : h = plan.samples % 4
      BY <1>1
    <2>3. plan.samples = 4 * q + h
      BY <1>1, <2>1, <2>2
    <2> QED
      BY <2>1, <2>2, <2>3
  <1>3. InBlock = 8 * q + 2 * h
    BY <1>2 DEF NextBlock, Full, Twins, InBlock
  <1>4. InBlock \div 8 = q /\ InBlock % 8 = 2 * h
    BY <1>2, <1>3
  <1>5. \/ l = First(block) /\ When(l, 0) = 0 /\ When(l, 1) = 4 /\ When(l, 2) = 7 /\ When(l, 3) = 3
        \/ l # First(block) /\ When(l, 0) = 5 /\ When(l, 1) = 1 /\ When(l, 2) = 2 /\ When(l, 3) = 6
    BY DEF When
  <1>6. Tally(l, one, k0, k1, k2, k3) = one * q + Half(IF l = First(block) THEN k0 + k3 ELSE k1 + k2)
    <2>1. one * q \in Int
      OBVIOUS
    <2>2. CASE h = 0
      BY <1>2, <1>4, <1>5, <2>1, <2>2 DEF Tally, Had, Half
    <2>3. CASE h = 2
      BY <1>2, <1>4, <1>5, <2>1, <2>3 DEF Tally, Had, Half
    <2> QED
      BY <2>2, <2>3
  <1>7. InBlock' = 0
    BY DEF NextBlock, InBlock, Twins
  <1>8. \A v \in 0..3 : When(l, v)' >= 0
    <2>1. \A v \in 0..3 : /\ <<0, 4, 7, 3>>[v + 1] >= 0 /\ <<5, 1, 2, 6>>[v + 1] >= 0
      OBVIOUS
    <2> QED
      BY <2>1 DEF When
  <1>9. Tally(l, one, k0, k1, k2, k3)' = 0
    <2>1. Had(l, 0, k0)' = 0 /\ Had(l, 1, k1)' = 0 /\ Had(l, 2, k2)' = 0 /\ Had(l, 3, k3)' = 0
      <3>1. InBlock' % 8 = 0 /\ InBlock' \div 8 = 0
        BY <1>7
      <3>2. \A v \in 0..3 : When(l, v)' \in Int
        BY DEF When
      <3> QED
        BY <1>8, <3>1, <3>2 DEF Had
    <2> QED
      BY <1>7, <2>1 DEF Tally
  <1> QED
    BY <1>2, <1>6, <1>9

\* The twin that begins a block has one more block of its own, the other one more of the others.
LEMMA BlockCounts ==
    ASSUME ScheduleInv, NextBlock, NEW l \in Twins
    PROVE  /\ Own(l) \in Nat /\ Others(l) \in Nat
           /\ Own(l)' = Own(l) + IF l = First(block) THEN 1 ELSE 0
           /\ Others(l)' = Others(l) + IF l = First(block) THEN 0 ELSE 1
  <1>1. block \in Nat /\ block \in 0..(Blocks - 1) /\ block' = block + 1
    BY Planned DEF ScheduleInv, ScheduleTypes, NextBlock
  <1>2. Assignment[block] \in Orders
    BY <1>1, BlocksAssumption
  <1>3. \A o \in Orders : /\ Begun(o) \in Nat
                          /\ Begun(o)' = Begun(o) + IF Assignment[block] = o THEN 1 ELSE 0
    BY <1>1, OrderSteps DEF Begun
  <1> QED
    BY <1>2, <1>3 DEF Own, Others, Other, First, Orders, Twins

\* After whole patterns, and in no block, every row was had equally often.
LEMMA SumOfWhole ==
    ASSUME InBlock \in Nat, InBlock % 8 = 0
    PROVE  \A l \in Twins : \A k0, k1, k2, k3 \in Int, one \in {1, 10} :
              Tally(l, one, k0, k1, k2, k3) = one * (InBlock \div 8)
  <1>1. \A l \in Twins : \A v \in 0..3 : When(l, v) \in 0..7
    <2>1. \A v \in 0..3 : <<0, 4, 7, 3>>[v + 1] \in 0..7 /\ <<5, 1, 2, 6>>[v + 1] \in 0..7
      OBVIOUS
    <2> QED
      BY <2>1 DEF When
  <1>2. \A l \in Twins : \A k \in Int : /\ Had(l, 0, k) = 0 /\ Had(l, 1, k) = 0
                                        /\ Had(l, 2, k) = 0 /\ Had(l, 3, k) = 0
    BY <1>1 DEF Had
  <1> SUFFICES ASSUME NEW l \in Twins, NEW k0 \in Int, NEW k1 \in Int, NEW k2 \in Int, NEW k3 \in Int,
                      NEW one \in {1, 10}
               PROVE  Tally(l, one, k0, k1, k2, k3) = one * (InBlock \div 8)
    OBVIOUS
  <1>3. one * (InBlock \div 8) \in Int
    OBVIOUS
  <1> QED
    BY <1>2, <1>3 DEF Tally

\* What is in Int of the rows.
LEMMA RowNumbers ==
    /\ \A x, y \in ValuePaths : x # y =>
          /\ Adjacent(0, x, y) \in Int /\ Adjacent(1, x, y) \in Int
          /\ Adjacent(2, x, y) \in Int /\ Adjacent(3, x, y) \in Int
          /\ Adjacent(0, x, y) + Adjacent(1, x, y) + Adjacent(2, x, y) + Adjacent(3, x, y) = 1
          /\ Adjacent(0, x, y) + Adjacent(3, x, y) = IF Early(x, y) THEN 1 ELSE 0
          /\ Adjacent(1, x, y) + Adjacent(2, x, y) = IF Early(x, y) THEN 0 ELSE 1
    /\ \A x \in ValuePaths :
          /\ Place(0, x) \in Int /\ Place(1, x) \in Int /\ Place(2, x) \in Int /\ Place(3, x) \in Int
          /\ Place(0, x) + Place(1, x) + Place(2, x) + Place(3, x) = 10
          /\ Place(0, x) + Place(3, x) = EarlyPlace(x) /\ Place(1, x) + Place(2, x) = 10 - EarlyPlace(x)
          /\ EarlyPlace(x) \in {3, 4, 6, 7}
  <1>1. ASSUME NEW x \in ValuePaths, NEW y \in ValuePaths, x # y
        PROVE  /\ Adjacent(0, x, y) \in Int /\ Adjacent(1, x, y) \in Int
               /\ Adjacent(2, x, y) \in Int /\ Adjacent(3, x, y) \in Int
               /\ Adjacent(0, x, y) + Adjacent(1, x, y) + Adjacent(2, x, y) + Adjacent(3, x, y) = 1
               /\ Adjacent(0, x, y) + Adjacent(3, x, y) = IF Early(x, y) THEN 1 ELSE 0
               /\ Adjacent(1, x, y) + Adjacent(2, x, y) = IF Early(x, y) THEN 0 ELSE 1
    <2>1. /\ Adjacent(0, x, y) \in {0, 1} /\ Adjacent(1, x, y) \in {0, 1}
          /\ Adjacent(2, x, y) \in {0, 1} /\ Adjacent(3, x, y) \in {0, 1}
          /\ Adjacent(0, x, y) + Adjacent(1, x, y) + Adjacent(2, x, y) + Adjacent(3, x, y) = 1
      BY <1>1, AdjacentOnce
    <2> QED
      BY <2>1 DEF Early
  <1>2. ASSUME NEW x \in ValuePaths
        PROVE  /\ Place(0, x) \in Int /\ Place(1, x) \in Int /\ Place(2, x) \in Int /\ Place(3, x) \in Int
               /\ Place(0, x) + Place(1, x) + Place(2, x) + Place(3, x) = 10
               /\ Place(0, x) + Place(3, x) = EarlyPlace(x) /\ Place(1, x) + Place(2, x) = 10 - EarlyPlace(x)
               /\ EarlyPlace(x) \in {3, 4, 6, 7}
    <2>1. x \in {0, 1, 2, 3}
      BY DEF ValuePaths
    <2> QED
      BY <2>1, PlaceTable DEF EarlyPlace
  <1> QED
    BY <1>1, <1>2

\* What a round does to the sums, of one path or of four.
LEMMA RoundSums ==
    ASSUME ScheduleInv, BalanceTypes, Round
    PROVE  LET label == LabelAt(block, turn)
               row == Row(plan, InBlock)
           IN /\ BalanceTypes'
              /\ label \in Twins /\ rounds \in Nat /\ plan' = plan /\ block' = block /\ earlier' = earlier
              /\ \A l \in Twins :
                    /\ counts[l] \in Nat /\ counts'[l] = counts[l] + IF l = label THEN 1 ELSE 0
                    /\ moment[l] \in Nat /\ moment'[l] = moment[l] + IF l = label THEN rounds ELSE 0
                    /\ \A x \in Paths(plan) : l # label => places'[l][x] = places[l][x]
                    /\ \A x \in Paths(plan) : l = label =>
                          places'[l][x] = places[l][x] + rounds * Len(row) + PositionOf(row, x)
                    /\ \A xy \in Paths(plan) \X Paths(plan) : l # label => follows'[l][xy] = follows[l][xy]
                    /\ \A xy \in Paths(plan) \X Paths(plan) : l = label =>
                          follows'[l][xy] = follows[l][xy] +
                              Cardinality({i \in 1..(Len(row) - 1) : <<row[i], row[i + 1]>> = xy})
  <1> DEFINE label == LabelAt(block, turn)
             row == Row(plan, InBlock)
             pairs(xy) == Cardinality({i \in 1..(Len(row) - 1) : <<row[i], row[i + 1]>> = xy})
  <1>1. label \in Twins
    <2>1. ScheduleTypes /\ block < plan.blocks /\ turn \in {0, 1, 2, 3}
      BY DEF ScheduleInv, ScheduleTypes, Round
    <2> QED
      BY <2>1, Labels
  <1>2. /\ counts' = [counts EXCEPT ![label] = counts[label] + 1]
        /\ moment' = [moment EXCEPT ![label] = moment[label] + rounds]
        /\ places' = [places EXCEPT ![label] =
              [x \in DOMAIN places[label] |-> places[label][x] + rounds * Len(row) + PositionOf(row, x)]]
        /\ follows' = [follows EXCEPT ![label] =
              [xy \in DOMAIN follows[label] |-> follows[label][xy] + pairs(xy)]]
        /\ plan' = plan /\ block' = block /\ earlier' = earlier
    BY DEF Round, InBlock
  <1>3. counts \in [Twins -> Nat] /\ moment \in [Twins -> Nat] /\ rounds \in Nat
    BY DEF ScheduleInv, ScheduleTypes
  <1>4. /\ Len(row) \in Nat
        /\ \A x \in Paths(plan) : PositionOf(row, x) \in Int
    <2>1. CASE plan.value
      <3>1. PICK w \in 0..3 : row = WilliamsRows[w + 1]
        <4> HIDE DEF label
        <4> QED
          BY <2>1, RowOfRound DEF Round
      <3>2. Len(row) = 4
        BY <3>1 DEF WilliamsRows
      <3>3. \A x \in ValuePaths : PositionOf(row, x) \in Int
        <4>1. \A x \in ValuePaths : Place(w, x) \in Int
          <5>1. w \in {0, 1, 2, 3}
            BY <3>1
          <5> QED
            BY <5>1, RowNumbers
        <4> QED
          BY <3>1, <4>1 DEF Place
      <3> QED
        BY <2>1, <3>2, <3>3 DEF Paths
    <2>2. CASE ~plan.value
      <3>1. row = <<0>> /\ Paths(plan) = {0}
        BY <2>2 DEF Row, Paths
      <3>2. PositionOf(row, 0) \in 1..1
        <4>1. \E i \in 1..1 : row[i] = 0
          BY <3>1
        <4>2. PositionOf(row, 0) = CHOOSE i \in 1..1 : row[i] = 0
          BY <3>1 DEF PositionOf
        <4> QED
          BY <4>1, <4>2
      <3> QED
        BY <3>1, <3>2
    <2> QED
      BY <2>1, <2>2
  <1>5. \A xy : pairs(xy) \in Int
    <2> SUFFICES ASSUME NEW xy PROVE pairs(xy) \in Int
      OBVIOUS
    <2>1. IsFiniteSet(1..(Len(row) - 1))
      BY <1>4, FS_Interval
    <2>2. IsFiniteSet({i \in 1..(Len(row) - 1) : <<row[i], row[i + 1]>> = xy})
      BY <2>1, FS_Subset
    <2> QED
      BY <2>2, FS_CardinalityType
  <1> HIDE DEF label, row, pairs
  <1>6. /\ \A l \in Twins : l # label => places'[l] = places[l] /\ follows'[l] = follows[l]
        /\ places'[label] =
              [x \in Paths(plan) |-> places[label][x] + rounds * Len(row) + PositionOf(row, x)]
        /\ follows'[label] = [xy \in Paths(plan) \X Paths(plan) |-> follows[label][xy] + pairs(xy)]
    <2>1. DOMAIN places[label] = Paths(plan) /\ DOMAIN follows[label] = Paths(plan) \X Paths(plan)
      BY <1>1 DEF BalanceTypes
    <2> QED
      BY <1>1, <1>2, <2>1 DEF BalanceTypes
  <1>7. rounds * Len(row) \in Int
    BY <1>3, <1>4
  <1>8. BalanceTypes'
    <2>1. Paths(plan)' = Paths(plan)
      BY <1>2 DEF Paths
    <2>2. places'[label] \in [Paths(plan) -> Int]
      BY <1>1, <1>4, <1>6, <1>7 DEF BalanceTypes
    <2>3. follows'[label] \in [Paths(plan) \X Paths(plan) -> Int]
      BY <1>1, <1>5, <1>6 DEF BalanceTypes
    <2>4. /\ places' = [l \in Twins |-> places'[l]]
          /\ follows' = [l \in Twins |-> follows'[l]]
      BY <1>2 DEF BalanceTypes
    <2>5. \A l \in Twins : /\ places'[l] \in [Paths(plan) -> Int]
                           /\ follows'[l] \in [Paths(plan) \X Paths(plan) -> Int]
      BY <1>6, <2>2, <2>3 DEF BalanceTypes
    <2>6. places' \in [Twins -> [Paths(plan) -> Int]]
      BY <2>4, <2>5
    <2>7. follows' \in [Twins -> [Paths(plan) \X Paths(plan) -> Int]]
      BY <2>4, <2>5
    <2> QED
      BY <1>2, <2>1, <2>6, <2>7 DEF BalanceTypes
  <1>9. \A l \in Twins :
            /\ counts[l] \in Nat /\ counts'[l] = counts[l] + IF l = label THEN 1 ELSE 0
            /\ moment[l] \in Nat /\ moment'[l] = moment[l] + IF l = label THEN rounds ELSE 0
    BY <1>1, <1>2, <1>3
  <1>10. \A l \in Twins :
             /\ \A x \in Paths(plan) : l # label => places'[l][x] = places[l][x]
             /\ \A x \in Paths(plan) : l = label =>
                   places'[l][x] = places[l][x] + rounds * Len(row) + PositionOf(row, x)
             /\ \A xy \in Paths(plan) \X Paths(plan) : l # label => follows'[l][xy] = follows[l][xy]
             /\ \A xy \in Paths(plan) \X Paths(plan) : l = label =>
                   follows'[l][xy] = follows[l][xy] + pairs(xy)
    <2>1. \A x \in Paths(plan) :
              places'[label][x] = places[label][x] + rounds * Len(row) + PositionOf(row, x)
      BY <1>6
    <2>2. \A xy \in Paths(plan) \X Paths(plan) : follows'[label][xy] = follows[label][xy] + pairs(xy)
      BY <1>6
    <2> QED
      BY <1>6, <2>1, <2>2
  <1>11. label \in Twins /\ rounds \in Nat /\ plan' = plan /\ block' = block /\ earlier' = earlier
    BY <1>1, <1>2, <1>3
  <1> QED
    BY <1>8, <1>9, <1>10, <1>11, Zenon DEF label, row, pairs

LEMMA RoundBalance == ScheduleInv /\ BalanceInv /\ Round => BalanceInv'
  <1> SUFFICES ASSUME ScheduleInv, BalanceInv, Round PROVE BalanceInv'
    OBVIOUS
  <1> DEFINE label == LabelAt(block, turn)
             row == Row(plan, InBlock)
             pairs(xy) == Cardinality({i \in 1..(Len(row) - 1) : <<row[i], row[i + 1]>> = xy})
  <1> USE DEF BalanceInv
  <1>1. /\ BalanceTypes'
        /\ label \in Twins /\ rounds \in Nat /\ plan' = plan /\ block' = block /\ earlier' = earlier
        /\ \A l \in Twins :
              /\ counts[l] \in Nat /\ counts'[l] = counts[l] + IF l = label THEN 1 ELSE 0
              /\ moment[l] \in Nat /\ moment'[l] = moment[l] + IF l = label THEN rounds ELSE 0
              /\ \A x \in Paths(plan) : l # label => places'[l][x] = places[l][x]
              /\ \A x \in Paths(plan) : l = label =>
                    places'[l][x] = places[l][x] + rounds * Len(row) + PositionOf(row, x)
              /\ \A xy \in Paths(plan) \X Paths(plan) : l # label => follows'[l][xy] = follows[l][xy]
              /\ \A xy \in Paths(plan) \X Paths(plan) : l = label =>
                    follows'[l][xy] = follows[l][xy] + pairs(xy)
    BY RoundSums, Zenon
  <1>2. ASSUME plan.value
        PROVE  (FollowsInBlock /\ FollowsBefore /\ PlacesAll)'
    <2>1. PICK w \in 0..3 :
              /\ row = WilliamsRows[w + 1]
              /\ \A l \in Twins, k0, k1, k2, k3 \in Int, one \in {1, 10} : k0 + k1 + k2 + k3 = one =>
                    /\ Tally(l, one, k0, k1, k2, k3) \in Int
                    /\ Tally(l, one, k0, k1, k2, k3)' = Tally(l, one, k0, k1, k2, k3)
                          + IF l = label THEN <<k0, k1, k2, k3>>[w + 1] ELSE 0
      BY <1>2, RoundAddsRow
    <2>2. Len(row) = 4 /\ Paths(plan) = ValuePaths
      BY <1>2, <2>1 DEF WilliamsRows, Paths
    <2>3. \A x, y \in ValuePaths : pairs(<<x, y>>) = Adjacent(w, x, y)
      <3>1. \A x, y \in ValuePaths :
                {i \in 1..(Len(row) - 1) : <<row[i], row[i + 1]>> = <<x, y>>} = RightAfter(w, x, y)
        BY <2>1, <2>2 DEF RightAfter
      <3> QED
        BY <3>1, Zenon DEF Adjacent
    <2>4. \A x \in ValuePaths : PositionOf(row, x) = Place(w, x)
      BY <2>1 DEF Place
    <2> HIDE DEF label, row, pairs
    <2>5. ASSUME NEW l \in Twins, NEW x \in ValuePaths, NEW y \in ValuePaths, x # y
          PROVE  follows'[l][<<x, y>>] = earlier[l][<<x, y>>]
                    + Tally(l, 1, Adjacent(0, x, y), Adjacent(1, x, y), Adjacent(2, x, y), Adjacent(3, x, y))'
      <3>1. PICK k0 \in Int, k1 \in Int, k2 \in Int, k3 \in Int :
                /\ k0 = Adjacent(0, x, y) /\ k1 = Adjacent(1, x, y)
                /\ k2 = Adjacent(2, x, y) /\ k3 = Adjacent(3, x, y)
                /\ k0 + k1 + k2 + k3 = 1
        <4>1. /\ Adjacent(0, x, y) \in Int /\ Adjacent(1, x, y) \in Int
              /\ Adjacent(2, x, y) \in Int /\ Adjacent(3, x, y) \in Int
              /\ Adjacent(0, x, y) + Adjacent(1, x, y) + Adjacent(2, x, y) + Adjacent(3, x, y) = 1
          BY <2>5, RowNumbers
        <4> QED
          BY <4>1
      <3>2. follows[l][<<x, y>>] = earlier[l][<<x, y>>] + Tally(l, 1, k0, k1, k2, k3)
        BY <1>2, <2>5, <3>1 DEF FollowsInBlock
      <3>3. Adjacent(w, x, y) = <<k0, k1, k2, k3>>[w + 1]
        <4>1. w \in {0, 1, 2, 3}
          OBVIOUS
        <4> QED
          BY <3>1, <4>1
      <3>4. follows'[l][<<x, y>>] = follows[l][<<x, y>>] + IF l = label THEN <<k0, k1, k2, k3>>[w + 1] ELSE 0
        <4>1. <<x, y>> \in Paths(plan) \X Paths(plan)
          BY <2>2
        <4>2. follows[l][<<x, y>>] \in Int
          BY <4>1 DEF BalanceTypes
        <4> QED
          BY <1>1, <2>3, <3>3, <4>1, <4>2
      <3>5. earlier[l][<<x, y>>] \in Int
        BY <2>2 DEF BalanceTypes
      <3>6. /\ Tally(l, 1, k0, k1, k2, k3) \in Int
            /\ Tally(l, 1, k0, k1, k2, k3)' =
                 Tally(l, 1, k0, k1, k2, k3) + IF l = label THEN <<k0, k1, k2, k3>>[w + 1] ELSE 0
        BY <2>1, <3>1
      <3>7. (IF l = label THEN <<k0, k1, k2, k3>>[w + 1] ELSE 0) \in Int
        <4>1. w \in {0, 1, 2, 3}
          OBVIOUS
        <4> QED
          BY <3>1, <4>1
      <3>8. follows'[l][<<x, y>>] = earlier[l][<<x, y>>] + Tally(l, 1, k0, k1, k2, k3)'
        BY <3>2, <3>4, <3>5, <3>6, <3>7
      <3> QED
        BY <3>1, <3>8
    <2>6. FollowsInBlock'
      BY <1>1, <2>5 DEF FollowsInBlock
    <2>7. FollowsBefore'
      <3>1. Own("candidate")' = Own("candidate") /\ Own("control")' = Own("control")
            /\ Half(1)' = Half(1)
        BY <1>1 DEF Own, Begun, Half
      <3>2. PICK c \in Int : \A l \in Twins : \A x, y \in ValuePaths : x # y =>
                earlier[l][<<x, y>>] = c + Half(IF Early(x, y) THEN Own(l) ELSE Others(l))
        BY <1>2 DEF FollowsBefore
      <3>3. \A l \in Twins : \A x, y \in ValuePaths : x # y =>
                earlier'[l][<<x, y>>] = c + Half(IF Early(x, y) THEN Own(l) ELSE Others(l))'
        BY <1>1, <3>2 DEF Half, Own, Others, Other, Begun
      <3> QED
        BY <3>3 DEF FollowsBefore
    <2>8. PlacesAll'
      <3>1. PICK c \in Int : \A l \in Twins : \A x \in ValuePaths :
                places[l][x] = 4 * moment[l] + c
                    + Half(EarlyPlace(x) * Own(l) + (10 - EarlyPlace(x)) * Others(l))
                    + Tally(l, 10, Place(0, x), Place(1, x), Place(2, x), Place(3, x))
        BY <1>2 DEF PlacesAll
      <3> SUFFICES ASSUME NEW l \in Twins, NEW x \in ValuePaths
                   PROVE  places'[l][x] = 4 * moment'[l] + c
                            + Half(EarlyPlace(x) * Own(l) + (10 - EarlyPlace(x)) * Others(l))'
                            + Tally(l, 10, Place(0, x), Place(1, x), Place(2, x), Place(3, x))'
        BY DEF PlacesAll
      <3> DEFINE blocks == Half(EarlyPlace(x) * Own(l) + (10 - EarlyPlace(x)) * Others(l))
      <3>2. PICK k0 \in Int, k1 \in Int, k2 \in Int, k3 \in Int :
                /\ k0 = Place(0, x) /\ k1 = Place(1, x) /\ k2 = Place(2, x) /\ k3 = Place(3, x)
                /\ k0 + k1 + k2 + k3 = 10
        BY RowNumbers
      <3>3. places[l][x] = 4 * moment[l] + c + blocks + Tally(l, 10, k0, k1, k2, k3)
        BY <3>1, <3>2
      <3>4. Place(w, x) = <<k0, k1, k2, k3>>[w + 1]
        <4>1. w \in {0, 1, 2, 3}
          OBVIOUS
        <4> QED
          BY <3>2, <4>1
      <3>5. blocks' = blocks
        BY <1>1 DEF Half, Own, Others, Other, Begun
      <3>6. blocks \in Int
        <4>1. Own(l) \in Int /\ Others(l) \in Int
          <5>1. \A o \in Orders : Begun(o) \in Nat
            BY OrderSteps, Planned DEF Begun, ScheduleInv, ScheduleTypes
          <5> QED
            BY <5>1 DEF Own, Others, Other, Orders
        <4>2. EarlyPlace(x) \in Int
          BY RowNumbers
        <4>3. EarlyPlace(x) * Own(l) \in Int /\ (10 - EarlyPlace(x)) * Others(l) \in Int
          BY <4>1, <4>2
        <4> QED
          BY <4>3 DEF Half
      <3> HIDE DEF blocks
      <3>7. /\ Tally(l, 10, k0, k1, k2, k3) \in Int
            /\ Tally(l, 10, k0, k1, k2, k3)' =
                 Tally(l, 10, k0, k1, k2, k3) + IF l = label THEN <<k0, k1, k2, k3>>[w + 1] ELSE 0
        BY <2>1, <3>2
      <3>8. places'[l][x] = places[l][x] + IF l = label THEN rounds * 4 + <<k0, k1, k2, k3>>[w + 1] ELSE 0
        <4>1. Place(w, x) \in Int
          <5>1. w \in {0, 1, 2, 3}
            OBVIOUS
          <5> QED
            BY <3>2, <3>4, <5>1
        <4>2. places[l][x] \in Int
          BY <2>2 DEF BalanceTypes
        <4> QED
          BY <1>1, <2>2, <2>4, <3>4, <4>1, <4>2
      <3>9. <<k0, k1, k2, k3>>[w + 1] \in Int
        <4>1. w \in {0, 1, 2, 3}
          OBVIOUS
        <4> QED
          BY <3>2, <4>1
      <3>10. places'[l][x] = 4 * moment'[l] + c + blocks' + Tally(l, 10, k0, k1, k2, k3)'
        <4>1. /\ moment[l] \in Int /\ rounds \in Int
              /\ moment'[l] = moment[l] + IF l = label THEN rounds ELSE 0
          BY <1>1
        <4>2. CASE l = label
          BY <3>3, <3>5, <3>6, <3>7, <3>8, <3>9, <4>1, <4>2
        <4>3. CASE l # label
          BY <3>3, <3>5, <3>6, <3>7, <3>8, <4>1, <4>3
        <4> QED
          BY <4>2, <4>3
      <3> QED
        BY <3>2, <3>10 DEF blocks
    <2> QED
      BY <2>6, <2>7, <2>8
  <1>3. ASSUME ~plan.value
        PROVE  PlacesOne'
    <2>1. row = <<0>> /\ Paths(plan) = {0}
      BY <1>3 DEF Row, Paths
    <2>2. PositionOf(row, 0) = 1 /\ Len(row) = 1
      <3>1. \E i \in 1..1 : row[i] = 0
        BY <2>1
      <3>2. PositionOf(row, 0) = CHOOSE i \in 1..1 : row[i] = 0
        BY <2>1 DEF PositionOf
      <3> QED
        BY <2>1, <3>1, <3>2
    <2> HIDE DEF label, row, pairs
    <2>3. PICK c \in Int : \A l \in Twins : places[l][0] = moment[l] + c + counts[l]
      BY <1>3 DEF PlacesOne
    <2>4. \A l \in Twins : places'[l][0] = moment'[l] + c + counts'[l]
      BY <1>1, <2>1, <2>2, <2>3
    <2> QED
      BY <2>4 DEF PlacesOne
  <1> QED
    BY <1>1, <1>2, <1>3

LEMMA InitBalance == ScheduleInit => BalanceInv
  <1> SUFFICES ASSUME ScheduleInit PROVE BalanceInv
    OBVIOUS
  <1>1. /\ places = [l \in Twins |-> [x \in Paths(plan) |-> 0]]
        /\ follows = [l \in Twins |-> [xy \in Paths(plan) \X Paths(plan) |-> 0]]
        /\ earlier = follows
        /\ moment = [l \in Twins |-> 0] /\ counts = [l \in Twins |-> 0] /\ block = 0 /\ InBlock = 0
    BY DEF ScheduleInit, InBlock, Twins
  <1>2. BalanceTypes
    BY <1>1 DEF BalanceTypes
  <1>3. \A l \in Twins : \A k0, k1, k2, k3 \in Int, one \in {1, 10} : Tally(l, one, k0, k1, k2, k3) = 0
    BY <1>1, SumOfWhole
  <1>4. Own("candidate") = 0 /\ Own("control") = 0
    BY <1>1, OrderSteps DEF Own, Begun, Orders
  <1>5. \A l \in Twins : Own(l) = 0 /\ Others(l) = 0
    BY <1>4 DEF Others, Other, Twins
  <1>6. ASSUME plan.value
        PROVE  FollowsInBlock /\ FollowsBefore /\ PlacesAll
    <2>1. Paths(plan) = ValuePaths
      BY <1>6 DEF Paths
    <2>2. FollowsInBlock
      <3> SUFFICES ASSUME NEW l \in Twins, NEW x \in ValuePaths, NEW y \in ValuePaths, x # y
                   PROVE  follows[l][<<x, y>>] = earlier[l][<<x, y>>]
                            + Tally(l, 1, Adjacent(0, x, y), Adjacent(1, x, y), Adjacent(2, x, y), Adjacent(3, x, y))
        BY DEF FollowsInBlock
      <3>1. Tally(l, 1, Adjacent(0, x, y), Adjacent(1, x, y), Adjacent(2, x, y), Adjacent(3, x, y)) = 0
        <4>1. /\ Adjacent(0, x, y) \in Int /\ Adjacent(1, x, y) \in Int
              /\ Adjacent(2, x, y) \in Int /\ Adjacent(3, x, y) \in Int
          BY RowNumbers
        <4> QED
          BY <1>3, <4>1
      <3> QED
        BY <1>1, <2>1, <3>1
    <2>3. FollowsBefore
      <3>1. \A l \in Twins : \A x, y \in ValuePaths : x # y =>
                earlier[l][<<x, y>>] = 0 + Half(IF Early(x, y) THEN Own(l) ELSE Others(l))
        BY <1>1, <1>5, <2>1 DEF Half
      <3> QED
        BY <3>1 DEF FollowsBefore
    <2>4. PlacesAll
      <3>1. ASSUME NEW l \in Twins, NEW x \in ValuePaths
            PROVE  places[l][x] = 4 * moment[l] + 0
                      + Half(EarlyPlace(x) * Own(l) + (10 - EarlyPlace(x)) * Others(l))
                      + Tally(l, 10, Place(0, x), Place(1, x), Place(2, x), Place(3, x))
        <4>1. Tally(l, 10, Place(0, x), Place(1, x), Place(2, x), Place(3, x)) = 0
          BY <1>3, RowNumbers
        <4>2. EarlyPlace(x) * Own(l) + (10 - EarlyPlace(x)) * Others(l) = 0
          BY <1>5, RowNumbers
        <4>3. Half(EarlyPlace(x) * Own(l) + (10 - EarlyPlace(x)) * Others(l)) = 0
          BY <4>2 DEF Half
        <4>4. places[l][x] = 0 /\ moment[l] = 0
          BY <1>1, <2>1
        <4> QED
          BY <4>1, <4>3, <4>4
      <3> QED
        BY <3>1 DEF PlacesAll
    <2> QED
      BY <2>2, <2>3, <2>4
  <1>7. ASSUME ~plan.value
        PROVE  PlacesOne
    <2>1. Paths(plan) = {0}
      BY <1>7 DEF Paths
    <2>2. \A l \in Twins : places[l][0] = moment[l] + 0 + counts[l]
      BY <1>1, <2>1
    <2> QED
      BY <2>2 DEF PlacesOne
  <1> QED
    BY <1>2, <1>6, <1>7 DEF BalanceInv

LEMMA NextBlockBalance == ScheduleInv /\ BalanceInv /\ NextBlock => BalanceInv'
  <1> SUFFICES ASSUME ScheduleInv, BalanceInv, NextBlock PROVE BalanceInv'
    OBVIOUS
  <1>1. /\ plan' = plan /\ follows' = follows /\ earlier' = follows /\ places' = places /\ moment' = moment
        /\ block' = block + 1 /\ counts' = [l \in Twins |-> 0]
        /\ \A l \in Twins : counts[l] = plan.samples
        /\ plan.samples \in Nat
    BY Planned DEF NextBlock, Full, ScheduleInv, ScheduleTypes
  <1>2. BalanceTypes'
    BY <1>1 DEF BalanceTypes, BalanceInv, Paths
  <1>3. ASSUME plan.value
        PROVE  (FollowsInBlock /\ FollowsBefore /\ PlacesAll)'
    <2>1. /\ plan.samples \div 4 \in Int
          /\ \A l \in Twins : \A k0, k1, k2, k3 \in Int, one \in {1, 10} :
                /\ Tally(l, one, k0, k1, k2, k3) =
                      one * (plan.samples \div 4) + Half(IF l = First(block) THEN k0 + k3 ELSE k1 + k2)
                /\ Tally(l, one, k0, k1, k2, k3)' = 0
      <3>1. ASSUME NEW l \in Twins, NEW k0 \in Int, NEW k1 \in Int, NEW k2 \in Int, NEW k3 \in Int,
                   NEW one \in {1, 10}
            PROVE  /\ Tally(l, one, k0, k1, k2, k3) =
                        one * (plan.samples \div 4) + Half(IF l = First(block) THEN k0 + k3 ELSE k1 + k2)
                   /\ Tally(l, one, k0, k1, k2, k3)' = 0
        BY <1>3, BlockSum
      <3>2. plan.samples \div 4 \in Int
        BY <1>1
      <3> QED
        BY <3>1, <3>2
    <2>2. \A l \in Twins :
              /\ Own(l) \in Nat /\ Others(l) \in Nat
              /\ Own(l)' = Own(l) + IF l = First(block) THEN 1 ELSE 0
              /\ Others(l)' = Others(l) + IF l = First(block) THEN 0 ELSE 1
      BY BlockCounts
    <2>3. FollowsInBlock'
      <3> SUFFICES ASSUME NEW l \in Twins, NEW x \in ValuePaths, NEW y \in ValuePaths, x # y
                   PROVE  follows'[l][<<x, y>>] = earlier'[l][<<x, y>>]
                            + Tally(l, 1, Adjacent(0, x, y), Adjacent(1, x, y), Adjacent(2, x, y), Adjacent(3, x, y))'
        BY DEF FollowsInBlock
      <3>1. PICK k0 \in Int, k1 \in Int, k2 \in Int, k3 \in Int :
                k0 = Adjacent(0, x, y) /\ k1 = Adjacent(1, x, y) /\ k2 = Adjacent(2, x, y) /\ k3 = Adjacent(3, x, y)
        BY RowNumbers
      <3>2. Tally(l, 1, k0, k1, k2, k3)' = 0
        BY <2>1
      <3>3. follows[l][<<x, y>>] \in Int
        BY <1>3 DEF BalanceInv, BalanceTypes, Paths
      <3> QED
        BY <1>1, <3>1, <3>2, <3>3
    <2>4. FollowsBefore'
      <3>1. PICK c \in Int : \A l \in Twins : \A x, y \in ValuePaths : x # y =>
                earlier[l][<<x, y>>] = c + Half(IF Early(x, y) THEN Own(l) ELSE Others(l))
        BY <1>3 DEF FollowsBefore, BalanceInv
      <3>2. ASSUME NEW l \in Twins, NEW x \in ValuePaths, NEW y \in ValuePaths, x # y
            PROVE  follows[l][<<x, y>>] = c + plan.samples \div 4
                      + Half(IF Early(x, y) THEN Own(l)' ELSE Others(l)')
        <4>1. PICK k0 \in Int, k1 \in Int, k2 \in Int, k3 \in Int :
                  /\ k0 = Adjacent(0, x, y) /\ k1 = Adjacent(1, x, y)
                  /\ k2 = Adjacent(2, x, y) /\ k3 = Adjacent(3, x, y)
                  /\ k0 + k3 = IF Early(x, y) THEN 1 ELSE 0
                  /\ k1 + k2 = IF Early(x, y) THEN 0 ELSE 1
          <5>1. /\ Adjacent(0, x, y) \in Int /\ Adjacent(1, x, y) \in Int
                /\ Adjacent(2, x, y) \in Int /\ Adjacent(3, x, y) \in Int
                /\ Adjacent(0, x, y) + Adjacent(3, x, y) = IF Early(x, y) THEN 1 ELSE 0
                /\ Adjacent(1, x, y) + Adjacent(2, x, y) = IF Early(x, y) THEN 0 ELSE 1
            BY <3>2, RowNumbers
          <5> QED
            BY <5>1
        <4>2. follows[l][<<x, y>>] = earlier[l][<<x, y>>] + Tally(l, 1, k0, k1, k2, k3)
          BY <1>3, <3>2, <4>1 DEF FollowsInBlock, BalanceInv
        <4>3. Tally(l, 1, k0, k1, k2, k3) =
                  1 * (plan.samples \div 4) + Half(IF l = First(block) THEN k0 + k3 ELSE k1 + k2)
          BY <2>1
        <4>4. earlier[l][<<x, y>>] = c + Half(IF Early(x, y) THEN Own(l) ELSE Others(l))
          BY <3>1, <3>2
        <4> QED
          BY <2>1, <2>2, <4>1, <4>2, <4>3, <4>4 DEF Half
      <3>3. \A l \in Twins : \A x, y \in ValuePaths : x # y =>
                earlier'[l][<<x, y>>] = c + plan.samples \div 4 + Half(IF Early(x, y) THEN Own(l) ELSE Others(l))'
        BY <1>1, <3>2 DEF Half
      <3>4. c + plan.samples \div 4 \in Int
        BY <2>1
      <3> QED
        BY <3>3, <3>4 DEF FollowsBefore
    <2>5. PlacesAll'
      <3>1. PICK c \in Int : \A l \in Twins : \A x \in ValuePaths :
                places[l][x] = 4 * moment[l] + c
                    + Half(EarlyPlace(x) * Own(l) + (10 - EarlyPlace(x)) * Others(l))
                    + Tally(l, 10, Place(0, x), Place(1, x), Place(2, x), Place(3, x))
        BY <1>3 DEF PlacesAll, BalanceInv
      <3> DEFINE d == c + 10 * (plan.samples \div 4)
      <3>2. ASSUME NEW l \in Twins, NEW x \in ValuePaths
            PROVE  places'[l][x] = 4 * moment'[l] + d
                      + Half(EarlyPlace(x) * Own(l) + (10 - EarlyPlace(x)) * Others(l))'
                      + Tally(l, 10, Place(0, x), Place(1, x), Place(2, x), Place(3, x))'
        <4>1. PICK k0 \in Int, k1 \in Int, k2 \in Int, k3 \in Int, e \in {3, 4, 6, 7} :
                  /\ k0 = Place(0, x) /\ k1 = Place(1, x) /\ k2 = Place(2, x) /\ k3 = Place(3, x)
                  /\ e = EarlyPlace(x) /\ k0 + k3 = e /\ k1 + k2 = 10 - e
          BY RowNumbers
        <4>2. /\ Tally(l, 10, k0, k1, k2, k3) =
                    10 * (plan.samples \div 4) + Half(IF l = First(block) THEN k0 + k3 ELSE k1 + k2)
              /\ Tally(l, 10, k0, k1, k2, k3)' = 0
          BY <2>1
        <4>3. places[l][x] = 4 * moment[l] + c + Half(e * Own(l) + (10 - e) * Others(l))
                                + Tally(l, 10, k0, k1, k2, k3)
          BY <3>1, <4>1
        <4>4. moment[l] \in Int
          BY DEF ScheduleInv, ScheduleTypes
        <4>5. PICK own \in Nat, others \in Nat : own = Own(l) /\ others = Others(l)
          BY <2>2
        <4>6. e * own + (10 - e) * others + (IF l = First(block) THEN e ELSE 10 - e)
                = e * Own(l)' + (10 - e) * Others(l)'
          <5>1. CASE l = First(block)
            <6>1. Own(l)' = own + 1 /\ Others(l)' = others
              BY <2>2, <4>5, <5>1
            <6> QED
              BY <5>1, <6>1
          <5>2. CASE l # First(block)
            <6>1. Own(l)' = own /\ Others(l)' = others + 1
              BY <2>2, <4>5, <5>2
            <6> QED
              BY <5>2, <6>1
          <5> QED
            BY <5>1, <5>2
        <4>7. PICK before \in Int, after \in Int :
                  /\ before = e * own + (10 - e) * others
                  /\ after = e * Own(l)' + (10 - e) * Others(l)'
                  /\ after = before + IF l = First(block) THEN k0 + k3 ELSE k1 + k2
          <5>1. e * own + (10 - e) * others \in Int
            OBVIOUS
          <5>2. (IF l = First(block) THEN e ELSE 10 - e) \in Int
            OBVIOUS
          <5> QED
            BY <4>1, <4>6, <5>1, <5>2
        <4>8. places[l][x] = 4 * moment[l] + d + Half(after)
          BY <2>1, <4>1, <4>2, <4>3, <4>4, <4>5, <4>7 DEF Half
        <4>9. Half(EarlyPlace(x) * Own(l) + (10 - EarlyPlace(x)) * Others(l))' = Half(after)
          BY <1>1, <4>1, <4>7 DEF Half
        <4>10. d \in Int /\ Half(after) \in Int
          BY <2>1 DEF Half
        <4> QED
          BY <1>1, <4>1, <4>2, <4>4, <4>8, <4>9, <4>10
      <3>3. d \in Int
        BY <2>1
      <3> HIDE DEF d
      <3> QED
        BY <3>2, <3>3 DEF PlacesAll
    <2> QED
      BY <2>3, <2>4, <2>5
  <1>4. ASSUME ~plan.value
        PROVE  PlacesOne'
    <2>1. PICK c \in Int : \A l \in Twins : places[l][0] = moment[l] + c + counts[l]
      BY <1>4 DEF PlacesOne, BalanceInv
    <2>2. \A l \in Twins : places'[l][0] = moment'[l] + (c + plan.samples) + counts'[l]
      BY <1>1, <2>1 DEF ScheduleInv, ScheduleTypes
    <2>3. c + plan.samples \in Int
      BY <1>1
    <2> QED
      BY <2>2, <2>3 DEF PlacesOne
  <1> QED
    BY <1>1, <1>2, <1>3, <1>4 DEF BalanceInv

LEMMA StepBalance == ScheduleInv /\ BalanceInv /\ [ScheduleNext]_scheduleVars => BalanceInv'
  <1>1. ScheduleInv /\ BalanceInv /\ Skip => BalanceInv'
    <2> SUFFICES ASSUME ScheduleInv, BalanceInv, Skip PROVE BalanceInv'
      OBVIOUS
    <2>1. ~plan.value
      BY NoSkip
    <2> QED
      BY <2>1 DEF BalanceInv, Skip, BalanceTypes, PlacesOne, Paths
  <1>2. BalanceInv /\ UNCHANGED scheduleVars => BalanceInv'
    <2> SUFFICES ASSUME BalanceInv, UNCHANGED scheduleVars PROVE BalanceInv'
      OBVIOUS
    <2>1. UNCHANGED <<plan, block, counts, moment, places, follows, earlier>>
      BY DEF scheduleVars
    <2>2. BalanceTypes' = BalanceTypes
      BY <2>1 DEF BalanceTypes, Paths
    <2>3. FollowsInBlock' = FollowsInBlock
      BY <2>1 DEF FollowsInBlock, Tally, Had, When, First, InBlock
    <2>4. FollowsBefore' = FollowsBefore
      BY <2>1 DEF FollowsBefore, Half, Own, Others, Other, Begun
    <2>5. PlacesAll' = PlacesAll
      BY <2>1 DEF PlacesAll, Tally, Had, When, First, InBlock, Half, Own, Others, Other, Begun
    <2>6. PlacesOne' = PlacesOne
      BY <2>1 DEF PlacesOne
    <2> QED
      BY <2>1, <2>2, <2>3, <2>4, <2>5, <2>6 DEF BalanceInv
  <1> QED
    BY <1>1, <1>2, RoundBalance, NextBlockBalance DEF ScheduleNext

LEMMA BalanceHolds == ScheduleInv /\ BalanceInv => PathsAreBalanced
  <1> SUFFICES ASSUME ScheduleInv, BalanceInv PROVE PathsAreBalanced
    OBVIOUS
  <1> DEFINE total(l, x, y) == follows[l][<<x, y>>]
             inBlock(l, x, y) == follows[l][<<x, y>>] - earlier[l][<<x, y>>]
  <1>1. InBlock \in Nat /\ \A l \in Twins : counts[l] \in Nat /\ moment[l] \in Nat
    BY DEF ScheduleInv, ScheduleTypes, InBlock, Twins
  <1>2. ASSUME NEW l \in Twins, NEW x \in ValuePaths, NEW y \in ValuePaths, x # y,
               plan.value, InBlock % 8 = 0
        PROVE  follows[l][<<x, y>>] = earlier[l][<<x, y>>] + InBlock \div 8
    <2>1. PICK k0 \in Int, k1 \in Int, k2 \in Int, k3 \in Int :
              k0 = Adjacent(0, x, y) /\ k1 = Adjacent(1, x, y) /\ k2 = Adjacent(2, x, y) /\ k3 = Adjacent(3, x, y)
      <3>1. /\ Adjacent(0, x, y) \in Int /\ Adjacent(1, x, y) \in Int
            /\ Adjacent(2, x, y) \in Int /\ Adjacent(3, x, y) \in Int
        BY <1>2, RowNumbers
      <3> QED
        BY <3>1
    <2>2. follows[l][<<x, y>>] = earlier[l][<<x, y>>] + Tally(l, 1, k0, k1, k2, k3)
      BY <1>2, <2>1 DEF BalanceInv, FollowsInBlock
    <2>3. Tally(l, 1, k0, k1, k2, k3) = 1 * (InBlock \div 8)
      BY <1>1, <1>2, SumOfWhole
    <2> QED
      BY <1>1, <2>2, <2>3
  <1>3. ASSUME InBlock % 8 = 0, NEW l \in Twins, NEW k \in Twins,
               NEW x \in Paths(plan), NEW y \in Paths(plan), NEW u \in Paths(plan), NEW v \in Paths(plan),
               x # y, u # v
        PROVE  inBlock(l, x, y) = inBlock(k, u, v)
    <2>1. plan.value /\ Paths(plan) = ValuePaths
      BY <1>3 DEF Paths
    <2>2. /\ follows[l][<<x, y>>] = earlier[l][<<x, y>>] + InBlock \div 8
          /\ follows[k][<<u, v>>] = earlier[k][<<u, v>>] + InBlock \div 8
      BY <1>2, <1>3, <2>1
    <2>3. earlier[l][<<x, y>>] \in Int /\ earlier[k][<<u, v>>] \in Int /\ InBlock \div 8 \in Int
      BY <1>1, <2>1 DEF BalanceInv, BalanceTypes
    <2> QED
      BY <2>2, <2>3
  <1>4. ASSUME Complete
        PROVE  /\ InBlock = 0 /\ \A l \in Twins : counts[l] = 0
               /\ moment["candidate"] = moment["control"]
               /\ \E begun \in Nat : \A l \in Twins : Own(l) = begun /\ Others(l) = begun
    <2>1. counts["candidate"] = 0 /\ counts["control"] = 0
      <3>1. counts[First(block)] = 0 /\ counts[Other(First(block))] = counts[First(block)]
        <4>1. block = plan.blocks
          BY <1>4 DEF Complete
        <4> QED
          BY <4>1 DEF ScheduleInv, Phase
      <3> QED
        BY <3>1 DEF First, Other
    <2>2. moment["candidate"] = moment["control"]
      BY <1>4, BalancedAlike DEF TwinsDriftAlike
    <2>3. Begun("candidate_first") = Begun("control_first") /\ Begun("candidate_first") \in Nat
      <3>1. plan \in Plans /\ block = plan.blocks /\ block \in Nat
        BY <1>4, Planned DEF ScheduleInv, ScheduleTypes, Complete
      <3> QED
        BY <3>1, BalanceAssumption, OrderSteps DEF Begun, Orders
    <2> QED
      BY <2>1, <2>2, <2>3 DEF InBlock, Own, Others, Other, Twins
  <1>5. ASSUME Complete, NEW l \in Twins, NEW k \in Twins, NEW x \in Paths(plan), NEW y \in Paths(plan)
        PROVE  places[l][x] = places[k][y]
    <2>1. PICK begun \in Nat : \A i \in Twins : Own(i) = begun /\ Others(i) = begun
      BY <1>4, <1>5
    <2>2. moment[l] = moment[k]
      BY <1>4, <1>5 DEF Twins
    <2>3. CASE plan.value
      <3>1. PICK c \in Int : \A i \in Twins : \A z \in ValuePaths :
                places[i][z] = 4 * moment[i] + c
                    + Half(EarlyPlace(z) * Own(i) + (10 - EarlyPlace(z)) * Others(i))
                    + Tally(i, 10, Place(0, z), Place(1, z), Place(2, z), Place(3, z))
        BY <2>3 DEF BalanceInv, PlacesAll
      <3>2. ASSUME NEW i \in Twins, NEW z \in ValuePaths
            PROVE  places[i][z] = 4 * moment[i] + c + Half(10 * begun)
        <4>1. Tally(i, 10, Place(0, z), Place(1, z), Place(2, z), Place(3, z)) = 0
          <5>1. PICK k0 \in Int, k1 \in Int, k2 \in Int, k3 \in Int :
                    k0 = Place(0, z) /\ k1 = Place(1, z) /\ k2 = Place(2, z) /\ k3 = Place(3, z)
            BY RowNumbers
          <5>2. InBlock = 0 /\ InBlock \div 8 = 0 /\ InBlock % 8 = 0
            BY <1>4, <1>5
          <5>3. \A j \in Twins : \A m0, m1, m2, m3 \in Int, one \in {1, 10} :
                    Tally(j, one, m0, m1, m2, m3) = one * (InBlock \div 8)
            BY <1>1, <5>2, SumOfWhole
          <5>4. Tally(i, 10, k0, k1, k2, k3) = 10 * (InBlock \div 8)
            BY <5>3
          <5> QED
            BY <5>1, <5>2, <5>4
        <4>2. EarlyPlace(z) * Own(i) + (10 - EarlyPlace(z)) * Others(i) = 10 * begun
          <5>1. PICK e \in {3, 4, 6, 7} : e = EarlyPlace(z)
            BY RowNumbers
          <5>2. e * begun + (10 - e) * begun = 10 * begun
            OBVIOUS
          <5> QED
            BY <2>1, <5>1, <5>2
        <4>3. places[i][z] = 4 * moment[i] + c + Half(10 * begun) + 0
          BY <3>1, <4>1, <4>2
        <4>4. moment[i] \in Int /\ Half(10 * begun) \in Int
          BY <1>1 DEF Half
        <4> QED
          BY <4>3, <4>4
      <3> QED
        BY <2>2, <2>3, <3>2 DEF Paths
    <2>4. CASE ~plan.value
      <3>1. PICK c \in Int : \A i \in Twins : places[i][0] = moment[i] + c + counts[i]
        BY <2>4 DEF BalanceInv, PlacesOne
      <3>2. x = 0 /\ y = 0
        BY <2>4 DEF Paths
      <3> QED
        BY <1>4, <1>5, <2>2, <3>1, <3>2
    <2> QED
      BY <2>3, <2>4
  <1>6. ASSUME Complete, NEW l \in Twins, NEW k \in Twins,
               NEW x \in Paths(plan), NEW y \in Paths(plan), NEW u \in Paths(plan), NEW v \in Paths(plan),
               x # y, u # v
        PROVE  total(l, x, y) = total(k, u, v)
    <2>1. plan.value /\ Paths(plan) = ValuePaths
      BY <1>6 DEF Paths
    <2>2. PICK begun \in Nat : \A i \in Twins : Own(i) = begun /\ Others(i) = begun
      BY <1>4, <1>6
    <2>3. PICK c \in Int : \A i \in Twins : \A z, w \in ValuePaths : z # w =>
              earlier[i][<<z, w>>] = c + Half(IF Early(z, w) THEN Own(i) ELSE Others(i))
      BY <2>1 DEF BalanceInv, FollowsBefore
    <2>4. earlier[l][<<x, y>>] = c + Half(begun) /\ earlier[k][<<u, v>>] = c + Half(begun)
      BY <1>6, <2>1, <2>2, <2>3
    <2>5. InBlock % 8 = 0
      BY <1>4, <1>6
    <2>6. /\ follows[l][<<x, y>>] = earlier[l][<<x, y>>] + InBlock \div 8
          /\ follows[k][<<u, v>>] = earlier[k][<<u, v>>] + InBlock \div 8
      BY <1>2, <1>6, <2>1, <2>5
    <2> QED
      BY <2>4, <2>6
  <1> QED
    BY <1>3, <1>5, <1>6 DEF PathsAreBalanced, Balanced, InBlock

\* Over a whole schedule each path of a twin comes as early as each other path and as each path of
\* the other twin, and after each other path equally often; and so in a block, after each eight
\* rounds (_exact_value_block_schedule, under every balanced assignment and for every even number
\* of samples).
THEOREM WilliamsBalance == ScheduleSpec => []PathsAreBalanced
  <1>1. ScheduleInit => ScheduleInv /\ BalanceInv
    BY ScheduleInitInv, InitBalance
  <1>2. ScheduleInv /\ BalanceInv /\ [ScheduleNext]_scheduleVars => ScheduleInv' /\ BalanceInv'
    BY ScheduleStep, StepBalance
  <1> QED
    BY <1>1, <1>2, BalanceHolds, PTL DEF ScheduleSpec

-----------------------------------------------------------------------------
(* The runner and its workers *)

Places == 1..Len(workers)
MaybePlaces == Places \cup {None}

Children ==
    [pid : Int, life : {"up", "zombie", "reaped"}, well : BOOLEAN, doing : {"read", "work", "write"},
     got : Int, rest : Int, ok : BOOLEAN, input : Int, output : Int, inOpen : BOOLEAN, outOpen : BOOLEAN,
     code : Int, killed : BOOLEAN, terminated : BOOLEAN]

Away == {"exchange", "reap", "kill", "wait", "kill_again", "wait_again", "linger", "linger_again"}
Stations == Away \cup {"next", "finally", "ended", "gone"}

RowLength == IF plan.value THEN 4 ELSE 1

Types ==
    /\ workers \in Seq(Children)
    /\ sessions \in [Cells -> MaybePlaces] /\ closed \subseteq Places
    /\ queue \in Seq(Places) /\ target \in MaybePlaces
    /\ sent \in Int /\ received \in Int /\ column \in 1..RowLength
    /\ closing \in BOOLEAN /\ unwinding \in BOOLEAN /\ cut \in BOOLEAN

\* What the assumptions say of a plan.
LEMMA PlanTypes ==
    ASSUME plan \in Plans
    PROVE  /\ plan.reused \in BOOLEAN /\ plan.twins \in BOOLEAN /\ plan.value \in BOOLEAN
           /\ ~plan.twins => ~plan.value
  BY MeasurementsAssumption, PlansAssumption

LEMMA PathCount == Cardinality(Paths(plan)) = RowLength
  <1>1. ASSUME NEW n \in Nat
        PROVE  Cardinality(0..n) = n + 1
    <2>1. Cardinality(0..n) = IF 0 > n THEN 0 ELSE n - 0 + 1
      BY FS_Interval
    <2> QED
      BY <2>1
  <1>2. {0} = 0..0
    OBVIOUS
  <1>3. 3 \in Nat /\ 0 \in Nat
    OBVIOUS
  <1>4. Cardinality(0..3) = 3 + 1 /\ Cardinality(0..0) = 0 + 1
    BY <1>1, <1>3, Zenon
  <1> QED
    BY <1>2, <1>4 DEF Paths, ValuePaths, RowLength

\* The sessions of a block are created in an order that has each cell once.
LEMMA Creation ==
    ASSUME plan \in Plans
    PROVE  /\ CreationOrder \in Seq(Cells)
           /\ plan.twins => /\ Len(CreationOrder) = 2 * RowLength
                            /\ \A c \in Cells : \E i \in 1..Len(CreationOrder) : CreationOrder[i] = c
           /\ ~plan.twins => CreationOrder = <<<<"candidate", 0>>>>
  <1>1. CASE ~plan.twins
    <2>1. <<"candidate", 0>> \in Cells
      BY PlanTypes, <1>1 DEF Cells, Twins, Paths
    <2> QED
      BY <1>1, <2>1 DEF CreationOrder
  <1>2. CASE plan.twins
    <2> DEFINE first == IF Assignment[block] = "candidate_first" THEN "candidate" ELSE "control"
               cell(i) == <<IF i % 2 = 1 THEN first ELSE Other(first), (i - 1) \div 2>>
    <2>1. CreationOrder = [i \in 1..(2 * RowLength) |-> cell(i)]
      BY <1>2, PathCount DEF CreationOrder
    <2>2. \A i \in 1..(2 * RowLength) : (i - 1) \div 2 \in Paths(plan)
      BY PlanTypes DEF RowLength, Paths, ValuePaths
    <2>3. first \in Twins /\ Other(first) \in Twins /\ \A t \in Twins : t = first \/ t = Other(first)
      BY DEF Twins, Other
    <2>4. \A i \in 1..(2 * RowLength) : cell(i) \in Cells
      BY <2>2, <2>3 DEF Cells
    <2>5. RowLength \in Nat
      BY DEF RowLength
    <2>6. CreationOrder \in Seq(Cells) /\ Len(CreationOrder) = 2 * RowLength
      <3> HIDE DEF cell
      <3> QED
        BY <2>1, <2>4, <2>5
    <2>7. ASSUME NEW t \in Twins, NEW x \in Paths(plan)
          PROVE  \E i \in 1..(2 * RowLength) : cell(i) = <<t, x>>
      <3>1. x \in 0..(RowLength - 1)
        BY <2>7, PlanTypes DEF RowLength, Paths, ValuePaths
      <3>2. 2 * x + 1 \in 1..(2 * RowLength) /\ 2 * x + 2 \in 1..(2 * RowLength)
        BY <3>1, <2>5
      <3>3. (2 * x + 1) % 2 = 1 /\ (2 * x + 2) % 2 = 0 /\ (2 * x + 1 - 1) \div 2 = x
            /\ (2 * x + 2 - 1) \div 2 = x
        BY <3>1, <2>5
      <3> QED
        BY <2>3, <3>2, <3>3
    <2>8. ASSUME NEW c \in Cells
          PROVE  \E i \in 1..(2 * RowLength) : cell(i) = c
      <3>1. PICK t \in Twins, x \in Paths(plan) : c = <<t, x>>
        BY DEF Cells
      <3> QED
        BY <2>7, <3>1
    <2>9. \A i \in 1..(2 * RowLength) : CreationOrder[i] = cell(i)
      BY <2>1
    <2> HIDE DEF cell
    <2> QED
      BY <1>2, <2>6, <2>8, <2>9
  <1> QED
    BY <1>1, <1>2

\* Where the runner is and what it holds there.
Where ==
    /\ at \in Stations
    /\ target # None <=> at \in Away
    /\ at \in {"next", "exchange", "reap"} => ~closing /\ ~unwinding
    /\ at \in {"finally", "linger", "linger_again"} => closing
    /\ at \notin {"exchange", "reap", "gone"} => sent = 0 /\ received = 0
    /\ ~closing /\ at \in {"kill", "wait", "kill_again", "wait_again"} => unwinding
    /\ ~plan.reused => /\ \A c \in Cells : sessions[c] = None
                       /\ closed = {} /\ queue = <<>>
                       /\ at \notin {"linger", "linger_again"}
    /\ plan.reused => at # "reap"
    /\ ~plan.twins => sessions[<<"control", 0>>] = None

LEMMA SetKeeps ==
    ASSUME workers \in Seq(Children), NEW w \in Places, NEW d \in Children, Set(w, d)
    PROVE  /\ workers' \in Seq(Children) /\ Len(workers') = Len(workers) /\ Places' = Places
           /\ workers'[w] = d /\ \A v \in Places : v # w => workers'[v] = workers[v]
  BY DEF Set, Places

LEMMA ChildTypes ==
    /\ \A p \in Int : Child(p) \in Children
    /\ \A c \in Children : Closed(c) \in Children /\ Reaped(c) \in Children
  <1>1. \A p \in Int : Child(p) \in Children
    BY DEF Child, Children
  <1>2. \A c \in Children : Closed(c) \in Children
    BY DEF Closed, Children
  <1>3. ASSUME NEW c \in Children
        PROVE  Reaped(c) \in Children
    <2>1. c.pid \in Int
      BY DEF Children
    <2>2. Child(c.pid) \in Children
      BY <2>1, <1>1
    <2>3. [Child(c.pid) EXCEPT !.life = "reaped"] \in Children
      BY <2>2 DEF Children
    <2> QED
      BY <2>3, <1>2 DEF Reaped
  <1> QED
    BY <1>1, <1>2, <1>3

\* What is left of a child after each of its ends.
LEMMA ChildFields ==
    /\ \A p \in Int : Child(p).life = "up" /\ Child(p).pid = p
    /\ \A c \in Children : /\ Closed(c).life = c.life /\ Closed(c).killed = c.killed
                           /\ Closed(c).pid = c.pid
                           /\ Reaped(c).pid = c.pid
                           /\ c.life = "up" => Reaped(c) = c
                           /\ c.life # "up" => Reaped(c).life = "reaped"
  BY DEF Closed, Reaped, Child, Children

LEMMA SpawnKeeps ==
    ASSUME workers \in Seq(Children), Spawn
    PROVE  \E p \in Int : /\ workers' = Append(workers, Child(p)) /\ Child(p) \in Children
                          /\ workers' \in Seq(Children) /\ Len(workers') = Len(workers) + 1
                          /\ Places' = Places \cup {Len(workers) + 1}
                          /\ workers'[Len(workers) + 1] = Child(p)
                          /\ \A v \in Places : workers'[v] = workers[v]
  <1>1. ASSUME NEW w \in Places
        PROVE  workers[w].pid \in Int
    <2>1. workers[w] \in Children
      BY DEF Places
    <2> QED
      BY <2>1 DEF Children
  <1>2. NewPid \in Int
    <2>1. IsFiniteSet(Places)
      BY FS_Interval DEF Places
    <2> DEFINE numbers == {workers[w].pid : w \in Places}
    <2>2. [w \in Places |-> workers[w].pid] \in Surjection(Places, numbers)
      BY DEF Surjection
    <2>3. IsFiniteSet(numbers)
      BY <2>1, <2>2, FS_Surjection
    <2> QED
      BY <2>3, FS_CardinalityType DEF NewPid, Places
  <1>3. \E p \in Int : workers' = Append(workers, Child(p))
    BY <1>1, <1>2 DEF Spawn, OldPids, Places
  <1> QED
    BY <1>3, ChildTypes DEF Places

\* Nothing more is to be done about a child.
Settled(c) == c.life = "reaped" \/ c.killed

\* The runner has settled what it no longer has in its books or still has to close.
Left ==
    /\ plan.reused /\ ~closing /\ target # None => \E c \in Cells : sessions[c] = target
    /\ at \in {"next", "exchange"} => \A c \in Cells : sessions[c] \notin closed
    /\ at \in {"wait", "kill_again", "wait_again"} => Settled(It)
    /\ ~cut /\ at # "gone" =>
        /\ \A w \in closed : Settled(workers[w]) \/ w = target
        /\ closing => \A c \in Cells :
                sessions[c] # None => \/ Settled(workers[sessions[c]]) \/ sessions[c] = target
                                     \/ \E i \in 1..Len(queue) : queue[i] = sessions[c]
    /\ NobodyLeftBehind

\* A session between two requests, and within one: what was sent and is not yet received is in
\* one of the pipes or in the child.
Idle(c) == c.doing = "read" /\ c.got = 0 /\ c.input = 0 /\ c.output = 0 /\ c.inOpen

Midway(c) ==
    /\ c.inOpen /\ sent <= RequestParts
    /\ c.doing = "read" =>
        \/ sent = c.got + c.input /\ c.got < RequestParts /\ received = 0 /\ c.output = 0
        \/ sent = RequestParts /\ c.got = 0 /\ c.input = 0 /\ c.output > 0 /\ c.output + received = AnswerParts
    /\ c.doing = "work" =>
        sent = RequestParts /\ c.got = sent /\ c.input = 0 /\ c.output = 0 /\ received = 0
    /\ c.doing = "write" =>
        /\ sent = RequestParts /\ c.got = 0 /\ c.input = 0
        /\ c.rest > 0 /\ c.output >= 0 /\ c.rest + c.output + received = AnswerParts

Busy ==
    /\ plan.reused /\ at \in {"next", "exchange"} => \A c \in Cells :
            /\ sessions[c] # None /\ sessions[c] # target
            /\ workers[sessions[c]].life = "up"
            => Idle(workers[sessions[c]])
    /\ plan.reused /\ at = "exchange" /\ It.life = "up" => Midway(It)
    /\ ~plan.reused /\ at = "exchange" /\ It.life = "up" => (It.inOpen <=> sent < RequestParts)
    /\ at = "reap" => It.life # "up"

Inv == ScheduleInv /\ Types /\ Where /\ Left /\ Busy

\* What a step does to the schedule is a step of the schedule.
LEMMA ScheduleSteps == [Next]_vars => [ScheduleNext]_scheduleVars /\ plan' = plan
  <1> SUFFICES ASSUME [Next]_vars PROVE [ScheduleNext]_scheduleVars
    BY DEF ScheduleNext, Round, Skip, NextBlock, scheduleVars
  <1>1. CASE Open
    BY <1>1 DEF Open, progress
  <1>2. CASE PassOver
    BY <1>2 DEF PassOver, ScheduleNext
  <1>3. CASE Request
    BY <1>3 DEF Request, progress
  <1>4. CASE Start
    BY <1>4 DEF Start, progress
  <1>5. CASE Send
    BY <1>5 DEF Send, Exchanging, progress
  <1>6. CASE Receive
    BY <1>6 DEF Receive, Accept, ScheduleNext, progress
  <1>7. CASE EndOfOutput
    BY <1>7 DEF EndOfOutput, Exchanging, progress
  <1>8. CASE Reap
    BY <1>8 DEF Reap, Accept, ScheduleNext, progress
  <1>9. CASE Kill
    BY <1>9 DEF Kill, Ending, progress
  <1>10. CASE Wait
    BY <1>10 DEF Wait, Ending, progress
  <1>11. CASE Close
    BY <1>11 DEF Close, Ending, progress
  <1>12. CASE Linger
    BY <1>12 DEF Linger, Ending, progress
  <1>13. CASE EndBlock
    BY <1>13 DEF EndBlock, progress
  <1>14. CASE AfterBlock
    BY <1>14 DEF AfterBlock, ScheduleNext
  <1>15. CASE Deadline
    BY <1>15 DEF Deadline, Exchanging, progress
  <1>16. CASE Interrupt
    BY <1>16 DEF Interrupt, progress
  <1>17. CASE Exit \/ Crash
    BY <1>17 DEF Exit, Crash, Gone, progress
  <1>18. ASSUME NEW w \in 1..Len(workers), Work(w) \/ Hangs(w) \/ Dies(w)
         PROVE  UNCHANGED scheduleVars
    BY <1>18 DEF Work, Reads, Works, Writes, Hangs, Dies, Childs, progress
  <1>19. CASE UNCHANGED vars
    BY <1>19 DEF vars, progress
  <1> QED
    BY <1>1, <1>2, <1>3, <1>4, <1>5, <1>6, <1>7, <1>8, <1>9, <1>10, <1>11, <1>12, <1>13, <1>14,
       <1>15, <1>16, <1>17, <1>18, <1>19 DEF Next, Runner

LEMMA LineLength ==
    ASSUME Inv
    PROVE  Line \in Seq(Paths(plan)) /\ Len(Line) = RowLength
  <1> plan \in Plans /\ plan.value \in BOOLEAN
    BY PlanTypes DEF Inv, ScheduleInv, ScheduleTypes
  <1>1. counts["candidate"] + counts["control"] \in Nat
    BY DEF Inv, ScheduleInv, ScheduleTypes, Twins
  <1>2. ASSUME NEW n \in Nat
        PROVE  Row(plan, n) \in Seq(Paths(plan)) /\ Len(Row(plan, n)) = RowLength
    <2>1. (n % 8) + 1 \in 1..8
      OBVIOUS
    <2>2. \A k \in 1..8 : RowPattern[k] + 1 \in 1..4
      BY DEF RowPattern
    <2>3. ASSUME NEW k \in 1..4
          PROVE  WilliamsRows[k] \in Seq(0..3) /\ Len(WilliamsRows[k]) = 4
      <3>1. /\ WilliamsRows[1] = <<0, 1, 3, 2>> /\ WilliamsRows[2] = <<1, 2, 0, 3>>
            /\ WilliamsRows[3] = <<2, 3, 1, 0>> /\ WilliamsRows[4] = <<3, 0, 2, 1>>
        BY DEF WilliamsRows
      <3>2. k = 1 \/ k = 2 \/ k = 3 \/ k = 4
        OBVIOUS
      <3>3. \A a, b, c, d \in 0..3 : <<a, b, c, d>> \in Seq(0..3) /\ Len(<<a, b, c, d>>) = 4
        OBVIOUS
      <3>4. \A row : (\E a, b, c, d \in 0..3 : row = <<a, b, c, d>>) => row \in Seq(0..3) /\ Len(row) = 4
        BY <3>3
      <3>5. \E a, b, c, d \in 0..3 : WilliamsRows[k] = <<a, b, c, d>>
        BY <3>1, <3>2
      <3> QED
        BY <3>4, <3>5
    <2>4. CASE plan.value
      <3>1. RowPattern[(n % 8) + 1] + 1 \in 1..4
        BY <2>1, <2>2
      <3>2. Row(plan, n) = WilliamsRows[RowPattern[(n % 8) + 1] + 1]
        BY <2>4 DEF Row
      <3> QED
        BY <2>3, <2>4, <3>1, <3>2 DEF Paths, ValuePaths, RowLength
    <2>5. CASE ~plan.value
      BY <2>5 DEF Row, Paths, RowLength
    <2> QED
      BY <2>4, <2>5
  <1>3. Line \in Seq(Paths(plan)) /\ Len(Line) = RowLength
    BY <1>1, <1>2 DEF Line
  <1> QED
    BY <1>3

\* The label of the observation to be made is a cell.
LEMMA LabelIsCell ==
    ASSUME Inv, Ready
    PROVE  /\ Label \in Cells
           /\ plan.twins => block < plan.blocks /\ Label[1] = Turn /\ Len(Line) = RowLength
           /\ ~plan.twins => Label = <<"candidate", 0>>
  <1> plan \in Plans /\ plan.reused \in BOOLEAN /\ plan.twins \in BOOLEAN /\ plan.value \in BOOLEAN
    BY PlanTypes DEF Inv, ScheduleInv, ScheduleTypes
  <1>1. CASE ~plan.twins
    BY <1>1, PlanTypes DEF Label, Cells, Twins, Paths
  <1>2. CASE plan.twins
    <2>1. block < plan.blocks
      BY <1>2, Planned DEF Inv, ScheduleInv, ScheduleTypes, Ready, Done
    <2>2. Turn \in Twins
      BY <2>1, Labels DEF Inv, ScheduleInv, ScheduleTypes, Turn
    <2>3. Line \in Seq(Paths(plan)) /\ Len(Line) = RowLength
      BY LineLength
    <2>4. Line[column] \in Paths(plan)
      BY <2>3 DEF Inv, Types
    <2> QED
      BY <1>2, <2>1, <2>2, <2>3, <2>4 DEF Label, Cells
  <1> QED
    BY <1>1, <1>2

LEMMA SessionOfLabel ==
    ASSUME Inv, Ready, Missing = {}
    PROVE  Label \in Cells /\ sessions[Label] \in Places
  <1>1. plan \in Plans /\ plan.twins \in BOOLEAN
    BY PlanTypes DEF Inv, ScheduleInv, ScheduleTypes
  <1>2. \E i \in 1..Len(CreationOrder) : CreationOrder[i] = Label
    <2>1. CASE plan.twins
      BY <1>1, <2>1, Creation, LabelIsCell
    <2>2. CASE ~plan.twins
      <3>1. CreationOrder = <<<<"candidate", 0>>>>
        BY <1>1, <2>2, Creation
      <3>2. Label = <<"candidate", 0>>
        BY <2>2, LabelIsCell
      <3> HIDE DEF Label
      <3> QED
        BY <3>1, <3>2
    <2> QED
      BY <1>1, <2>1, <2>2
  <1> QED
    BY <1>2, LabelIsCell DEF Missing, Inv, Types, MaybePlaces

\* What the finally clause will close: each session there is.
LEMMA FinallyCloses ==
    ASSUME Inv, Finally
    PROVE  /\ queue' \in Seq(Places)
           /\ \A c \in Cells : sessions[c] # None => \E i \in 1..Len(queue') : queue'[i] = sessions[c]
           /\ \A i \in 1..Len(queue') : \E c \in Cells : queue'[i] = sessions[c]
  <1>1. plan \in Plans /\ plan.twins \in BOOLEAN
    BY PlanTypes DEF Inv, ScheduleInv, ScheduleTypes
  <1> DEFINE L == Len(CreationOrder)
  <1>2. CreationOrder \in Seq(Cells) /\ L \in Nat
    BY <1>1, Creation
  <1>3. PICK n \in 0..L : /\ Missing = (n + 1)..L
                          /\ queue' = [i \in 1..n |-> sessions[CreationOrder[n + 1 - i]]]
    BY DEF Finally
  <1>4. ASSUME NEW i \in 1..L
        PROVE  /\ CreationOrder[i] \in Cells
               /\ i <= n <=> sessions[CreationOrder[i]] # None
    BY <1>2, <1>3 DEF Missing
  <1>5. \A i \in 1..n : n + 1 - i \in 1..n /\ n + 1 - i \in 1..L /\ n + 1 - (n + 1 - i) = i
    BY <1>2
  <1>6. \A i \in 1..n : sessions[CreationOrder[n + 1 - i]] \in Places
    BY <1>4, <1>5 DEF Inv, Types, MaybePlaces
  <1>7. queue' \in Seq(Places) /\ Len(queue') = n /\ \A i \in 1..n : queue'[i] = sessions[CreationOrder[n + 1 - i]]
    BY <1>2, <1>3, <1>6
  <1>8. ASSUME NEW c \in Cells, sessions[c] # None
        PROVE  \E i \in 1..n : queue'[i] = sessions[c]
    <2>1. PICK j \in 1..L : CreationOrder[j] = c
      <3>1. CASE plan.twins
        BY <1>1, <3>1, Creation
      <3>2. CASE ~plan.twins
        <4>1. CreationOrder = <<<<"candidate", 0>>>> /\ L = 1
          BY <1>1, <3>2, Creation
        <4>2. c \in {<<"candidate", 0>>, <<"control", 0>>}
          BY <1>1, <3>2, PlanTypes DEF Cells, Twins, Paths
        <4> QED
          BY <1>8, <4>1, <4>2, <3>2 DEF Inv, Where
      <3> QED
        BY <1>1, <3>1, <3>2
    <2>2. j \in 1..n
      BY <1>2, <1>4, <1>8, <2>1
    <2> QED
      BY <1>5, <1>7, <2>1, <2>2
  <1>9. \A i \in 1..n : \E c \in Cells : queue'[i] = sessions[c]
    BY <1>4, <1>5, <1>7
  <1> QED
    BY <1>7, <1>8, <1>9

-----------------------------------------------------------------------------
(* What a step does to the workers *)

\* A child only ever gets nearer to its end.
Ages(c, d) ==
    /\ d \in Children /\ d.pid = c.pid
    /\ Settled(c) => Settled(d)
    /\ c.life # "up" => d.life # "up"
    /\ c.life = "reaped" => d.life = "reaped"

Onwards ==
    /\ workers' \in Seq(Children) /\ Places \subseteq Places'
    /\ \A v \in Places : Ages(workers[v], workers'[v])

Doings == {"read", "work", "write"}

\* What the two sides do to a child.
LEMMA Edits ==
    ASSUME NEW c \in Children
    PROVE  /\ \A x, y \in Int, g \in Doings : Ages(c, [c EXCEPT !.input = x, !.got = y, !.doing = g])
           /\ \A x, y \in Int : Ages(c, [c EXCEPT !.output = x, !.rest = y])
           /\ \A x, y \in Int, g \in Doings, b \in BOOLEAN :
                Ages(c, [c EXCEPT !.doing = g, !.got = x, !.rest = y, !.ok = b])
           /\ \A g \in Doings : Ages(c, [c EXCEPT !.doing = g])
           /\ \A x \in Int, b \in BOOLEAN : Ages(c, [c EXCEPT !.input = x, !.inOpen = b])
           /\ \A x \in Int : Ages(c, [c EXCEPT !.output = x])
           /\ c.life = "up" => Ages(c, [c EXCEPT !.life = "zombie"])
           /\ c.life = "up" => \A x \in Int : Ages(c, [c EXCEPT !.life = "zombie", !.code = x])
  <1>1. ASSUME NEW x \in Int, NEW y \in Int, NEW g \in Doings, NEW b \in BOOLEAN
        PROVE  /\ Ages(c, [c EXCEPT !.input = x, !.got = y, !.doing = g])
               /\ Ages(c, [c EXCEPT !.output = x, !.rest = y]) /\ Ages(c, [c EXCEPT !.output = x])
               /\ Ages(c, [c EXCEPT !.doing = g, !.got = x, !.rest = y, !.ok = b])
               /\ Ages(c, [c EXCEPT !.doing = g]) /\ Ages(c, [c EXCEPT !.input = x, !.inOpen = b])
    <2>1. Ages(c, [c EXCEPT !.input = x, !.got = y, !.doing = g])
      BY DEF Ages, Settled, Children, Doings
    <2>2. Ages(c, [c EXCEPT !.output = x, !.rest = y]) /\ Ages(c, [c EXCEPT !.output = x])
      BY DEF Ages, Settled, Children
    <2>3. Ages(c, [c EXCEPT !.doing = g, !.got = x, !.rest = y, !.ok = b])
      BY DEF Ages, Settled, Children, Doings
    <2>4. Ages(c, [c EXCEPT !.doing = g]) /\ Ages(c, [c EXCEPT !.input = x, !.inOpen = b])
      BY DEF Ages, Settled, Children, Doings
    <2> QED
      BY <2>1, <2>2, <2>3, <2>4
  <1>2. c.life = "up" => Ages(c, [c EXCEPT !.life = "zombie"])
    BY DEF Ages, Settled, Children
  <1>3. ASSUME c.life = "up", NEW x \in Int
        PROVE  Ages(c, [c EXCEPT !.life = "zombie", !.code = x])
    BY <1>3 DEF Ages, Settled, Children
  <1>4. "read" \in Doings /\ 1 \in Int /\ TRUE \in BOOLEAN
    BY DEF Doings
  <1> QED
    BY <1>1, <1>2, <1>3, <1>4

LEMMA Endings ==
    ASSUME NEW c \in Children
    PROVE  Ages(c, c) /\ Ages(c, Closed(c)) /\ Ages(c, Reaped(c)) /\ Ages(c, Closed(Reaped(c)))
  <1>1. Ages(c, c)
    BY DEF Ages
  <1>2. \A d \in Children : Ages(d, Closed(d))
    BY ChildTypes DEF Closed, Ages, Settled, Children
  <1>3. Ages(c, Reaped(c))
    <2>1. Reaped(c) \in Children
      BY ChildTypes
    <2> QED
      BY <2>1, ChildFields DEF Ages, Settled, Children
  <1>4. Reaped(c) \in Children /\ Ages(Reaped(c), Closed(Reaped(c)))
    BY <1>2, ChildTypes
  <1>5. Ages(c, Closed(Reaped(c)))
    BY <1>3, <1>4 DEF Ages
  <1> QED
    BY <1>1, <1>2, <1>3, <1>5

LEMMA OneAges ==
    ASSUME Inv, NEW w \in Places, NEW d, Ages(workers[w], d), Set(w, d)
    PROVE  /\ Onwards /\ Places' = Places /\ workers'[w] = d
           /\ \A v \in Places : v # w => workers'[v] = workers[v]
  <1>1. d \in Children
    BY DEF Ages
  <1>2. \A v \in Places : workers[v] \in Children
    BY DEF Inv, Types, Places
  <1> QED
    BY <1>1, <1>2, SetKeeps, Endings DEF Onwards, Inv, Types

LEMMA NoneAges ==
    ASSUME Inv, UNCHANGED workers
    PROVE  Onwards /\ Places' = Places
  <1>1. \A v \in Places : workers[v] \in Children
    BY DEF Inv, Types, Places
  <1> QED
    BY <1>1, Endings DEF Onwards, Inv, Types, Places

LEMMA OneComes ==
    ASSUME Inv, Spawn
    PROVE  Onwards /\ Places' = Places \cup {Len(workers) + 1}
  <1>1. \A v \in Places : workers[v] \in Children
    BY DEF Inv, Types, Places
  <1> QED
    BY <1>1, SpawnKeeps, Endings DEF Onwards, Inv, Types

LEMMA Target ==
    ASSUME Inv, target # None
    PROVE  target \in Places /\ It \in Children
  BY DEF Inv, Types, MaybePlaces, Places, It

\* Where the runner has a target.
LEMMA Aways ==
    ASSUME Inv, at \in Away
    PROVE  target \in Places /\ It \in Children
  BY Target DEF Inv, Where

LEMMA WorkersStep == Inv /\ [Next]_vars => Onwards
  <1> SUFFICES ASSUME Inv, [Next]_vars PROVE Onwards
    OBVIOUS
  <1>1. ASSUME NEW w \in Places, Work(w) \/ Hangs(w) \/ Dies(w)
        PROVE  Onwards
    <2> DEFINE c == workers[w]
    <2>1. c \in Children
      BY DEF Inv, Types, Places
    <2>2. CASE Reads(w)
      <3>1. c.life = "up" /\ c.got \in Int /\ c.input \in Int
        BY <2>1, <2>2 DEF Reads, Runs, Alive, Children
      <3>2. \/ \E g \in Doings : Set(w, [c EXCEPT !.input = c.input - 1, !.got = c.got + 1, !.doing = g])
            \/ Set(w, [c EXCEPT !.life = "zombie"])
            \/ Set(w, [c EXCEPT !.doing = "work"])
        BY <2>2 DEF Reads, Doings
      <3>3. \E d : Set(w, d) /\ Ages(c, d)
        <4> DEFINE e(g) == [c EXCEPT !.input = c.input - 1, !.got = c.got + 1, !.doing = g]
        <4>0. c.input - 1 \in Int /\ c.got + 1 \in Int
          BY <3>1
        <4>1. \A g \in Doings : Ages(c, e(g))
          BY <2>1, <4>0, Edits, Zenon
        <4>2. Ages(c, [c EXCEPT !.life = "zombie"]) /\ Ages(c, [c EXCEPT !.doing = "work"])
          BY <2>1, <3>1, Edits DEF Doings
        <4>3. \/ \E g \in Doings : Set(w, e(g))
              \/ Set(w, [c EXCEPT !.life = "zombie"])
              \/ Set(w, [c EXCEPT !.doing = "work"])
          BY <3>2
        <4> HIDE DEF e, c
        <4> QED
          BY <4>1, <4>2, <4>3
      <3> QED
        BY <3>3, OneAges
    <2>3. CASE Works(w)
      <3>1. \E ok \in BOOLEAN : Set(w, [c EXCEPT !.doing = "write", !.got = 0, !.rest = AnswerParts, !.ok = ok])
        BY <2>3 DEF Works
      <3>2. \A ok \in BOOLEAN : Ages(c, [c EXCEPT !.doing = "write", !.got = 0, !.rest = AnswerParts, !.ok = ok])
        <4>1. 0 \in Int /\ AnswerParts \in Int /\ "write" \in Doings
          BY PartsAssumption DEF Doings
        <4> QED
          BY <2>1, <4>1, Edits, Zenon
      <3> HIDE DEF c
      <3>3. \E d : Set(w, d) /\ Ages(c, d)
        BY <3>1, <3>2
      <3> QED
        BY <3>3, OneAges DEF c
    <2>4. CASE Writes(w)
      <3> DEFINE e == [c EXCEPT !.output = c.output + 1, !.rest = c.rest - 1]
      <3>1. c.life = "up" /\ c.output + 1 \in Int /\ c.rest - 1 \in Int
        BY <2>1, <2>4 DEF Writes, Runs, Alive, Children
      <3>2. \/ Set(w, [c EXCEPT !.life = "zombie", !.code = 1]) \/ Set(w, e)
            \/ Set(w, [e EXCEPT !.doing = "read"]) \/ Set(w, [e EXCEPT !.life = "zombie"])
        BY <2>4 DEF Writes
      <3>3. Ages(c, e) /\ e \in Children /\ e.life = "up"
        <4>1. Ages(c, e)
          BY <2>1, <3>1, Edits DEF Doings
        <4> QED
          BY <2>1, <3>1, <4>1 DEF Ages, Children
      <3>4. Ages(e, [e EXCEPT !.doing = "read"]) /\ Ages(e, [e EXCEPT !.life = "zombie"])
        BY <3>3, Edits DEF Doings
      <3>5. Ages(c, [e EXCEPT !.doing = "read"]) /\ Ages(c, [e EXCEPT !.life = "zombie"])
        <4> HIDE DEF e
        <4> QED
          BY <3>3, <3>4 DEF Ages
      <3>6. Ages(c, [c EXCEPT !.life = "zombie", !.code = 1])
        <4>1. 1 \in Int
          OBVIOUS
        <4> QED
          BY <2>1, <3>1, <4>1, Edits, Zenon
      <3>7. \E d : Set(w, d) /\ Ages(c, d)
        BY <3>2, <3>3, <3>5, <3>6
      <3> QED
        BY <3>7, OneAges
    <2>5. CASE Hangs(w)
      <3>1. Set(w, [c EXCEPT !.well = FALSE])
        BY <2>5 DEF Hangs
      <3>2. Ages(c, [c EXCEPT !.well = FALSE])
        BY <2>1 DEF Ages, Settled, Children
      <3> QED
        BY <3>1, <3>2, OneAges
    <2>6. CASE Dies(w)
      <3>1. Set(w, [c EXCEPT !.life = "zombie", !.code = 1]) /\ c.life = "up"
        BY <2>6 DEF Dies, Alive
      <3>2. Ages(c, [c EXCEPT !.life = "zombie", !.code = 1])
        <4>1. 1 \in Int
          OBVIOUS
        <4> QED
          BY <2>1, <3>1, <4>1, Edits, Zenon
      <3> QED
        BY <3>1, <3>2, OneAges
    <2> QED
      BY <1>1, <2>2, <2>3, <2>4, <2>5, <2>6 DEF Work
  <1>2. CASE Open
    BY <1>2, OneComes, NoneAges DEF Open
  <1>3. CASE Start
    BY <1>3, OneComes, NoneAges DEF Start
  <1>4. CASE Request
    <2>1. sessions[Label] \in Places
      BY <1>4, SessionOfLabel DEF Request
    <2>2. workers[sessions[Label]] \in Children
      BY <2>1 DEF Inv, Types, Places
    <2> QED
      BY <1>4, <2>1, <2>2, OneAges, NoneAges, Endings DEF Request
  <1>5. CASE Send
    <2>1. target \in Places /\ It \in Children
      BY <1>5, Aways DEF Send, Away
    <2>2. \/ UNCHANGED workers
          \/ \E b \in BOOLEAN : Set(target, [It EXCEPT !.input = It.input + 1, !.inOpen = b])
      BY <1>5, PlanTypes DEF Send
    <2>3. It.input + 1 \in Int
      BY <2>1 DEF Children
    <2>4. UNCHANGED workers \/ \E d : Set(target, d) /\ Ages(It, d)
      BY <2>1, <2>2, <2>3, Edits DEF Doings
    <2> QED
      BY <2>1, <2>4, OneAges, NoneAges DEF It
  <1>6. CASE Receive
    <2>1. target \in Places /\ It \in Children
      BY <1>6, Aways DEF Receive, Away
    <2>2. \E d : Set(target, d) /\ Ages(It, d)
      BY <1>6, <2>1 DEF Receive, Ages, Settled, Children
    <2> QED
      BY <2>1, <2>2, OneAges DEF It
  <1>7. CASE Reap
    <2>1. target \in Places /\ It \in Children
      BY <1>7, Aways DEF Reap, Away
    <2> QED
      BY <1>7, <2>1, OneAges, Endings DEF It, Reap
  <1>8. CASE Kill
    <2>1. target \in Places /\ It \in Children
      BY <1>8, Aways DEF Kill, Away
    <2>2. \E d : Set(target, d) /\ Ages(It, d)
      <3>1. CASE It.life = "up"
        BY <1>8, <2>1, <3>1 DEF Kill, Ages, Settled, Children
      <3>2. CASE It.life # "up"
        BY <1>8, <2>1, <3>2, Endings DEF Kill
      <3> QED
        BY <3>1, <3>2
    <2> QED
      BY <2>1, <2>2, OneAges DEF It
  <1>9. CASE Wait
    <2>1. target \in Places /\ It \in Children
      BY <1>9, Aways DEF Wait, Away
    <2>2. UNCHANGED workers \/ \E d : Set(target, d) /\ Ages(It, d)
      BY <1>9, <2>1, Endings DEF Wait, Over
    <2> QED
      BY <2>1, <2>2, OneAges, NoneAges DEF It
  <1>10. CASE Linger
    <2>1. target \in Places /\ It \in Children
      BY <1>10, Aways DEF Linger, Away
    <2>2. Ages(It, [It EXCEPT !.terminated = TRUE])
      BY <2>1 DEF Ages, Settled, Children
    <2>3. UNCHANGED workers \/ \E d : Set(target, d) /\ Ages(It, d)
      BY <1>10, <2>1, <2>2, Endings DEF Linger, Over
    <2> QED
      BY <2>1, <2>3, OneAges, NoneAges DEF It
  <1>11. CASE Close
    <2>1. Head(queue) \in Places
      BY <1>11 DEF Close, Inv, Types
    <2>2. workers[Head(queue)] \in Children
      BY <2>1 DEF Inv, Types, Places
    <2>3. Ages(workers[Head(queue)], [workers[Head(queue)] EXCEPT !.inOpen = FALSE])
      BY <2>2 DEF Ages, Settled, Children
    <2> QED
      BY <1>11, <2>1, <2>3, OneAges, NoneAges DEF Close
  <1>12. CASE Interrupt
    <2>1. CASE target = None
      BY <1>12, <2>1, NoneAges DEF Interrupt
    <2>2. CASE target # None
      BY <1>12, <2>2, Target, OneAges, NoneAges, Endings DEF Interrupt, It
    <2> QED
      BY <2>1, <2>2
  <1>13. CASE Exit \/ Crash
    <2>1. workers' = [w \in Places |-> Closed(workers[w])]
      BY <1>13 DEF Exit, Crash, Gone, Places
    <2>2. \A w \in Places : workers[w] \in Children /\ Closed(workers[w]) \in Children
      BY ChildTypes DEF Inv, Types, Places
    <2>3. \A w \in Places : workers'[w] = Closed(workers[w])
      BY <2>1
    <2>4. workers' \in Seq(Children) /\ Places' = Places
      BY <2>1, <2>2 DEF Places, Inv, Types
    <2> QED
      BY <2>2, <2>3, <2>4, Endings DEF Onwards
  <1>14. CASE PassOver \/ EndOfOutput \/ EndBlock \/ AfterBlock \/ Deadline \/ UNCHANGED vars
    BY <1>14, NoneAges DEF PassOver, EndOfOutput, EndBlock, AfterBlock, Deadline, vars
  <1> QED
    BY <1>1, <1>2, <1>3, <1>4, <1>5, <1>6, <1>7, <1>8, <1>9, <1>10, <1>11, <1>12, <1>13, <1>14
       DEF Next, Runner, Places

\* The plan, and what is written of its cells, stays.
LEMMA PlanStays ==
    ASSUME Inv, [Next]_vars
    PROVE  /\ plan' = plan /\ Cells' = Cells /\ RowLength' = RowLength
           /\ plan \in Plans /\ plan.reused \in BOOLEAN /\ plan.twins \in BOOLEAN
  <1>1. plan' = plan
    BY ScheduleSteps
  <1> QED
    BY <1>1, PlanTypes DEF Cells, Paths, RowLength, Inv, ScheduleInv, ScheduleTypes

LEMMA MoreSessions ==
    ASSUME Inv, Onwards
    PROVE  /\ MaybePlaces \subseteq MaybePlaces' /\ Places \subseteq Places'
           /\ sessions \in [Cells -> MaybePlaces'] /\ closed \subseteq Places'
           /\ queue \in Seq(Places') /\ target \in MaybePlaces'
  <1>1. MaybePlaces \subseteq MaybePlaces'
    BY DEF Onwards, MaybePlaces
  <1>2. queue \in Seq(Places')
    <2>1. \A i \in 1..Len(queue) : queue[i] \in Places'
      BY DEF Inv, Types, Onwards
    <2> QED
      BY <2>1 DEF Inv, Types
  <1> QED
    BY <1>1, <1>2 DEF Inv, Types, Onwards

LEMMA LeaveTypes ==
    ASSUME Inv, Leave, Onwards
    PROVE  queue' \in Seq(Places')
  <1>1. queue' \in Seq(Places)
    BY FinallyCloses DEF Leave
  <1>2. \A i \in 1..Len(queue') : queue'[i] \in Places'
    BY <1>1 DEF Onwards
  <1> QED
    BY <1>1, <1>2

LEMMA TypesStep == Inv /\ [Next]_vars => Types'
  <1> SUFFICES ASSUME Inv, [Next]_vars PROVE Types'
    OBVIOUS
  <1>1. Onwards
    BY WorkersStep
  <1>2. /\ plan' = plan /\ Cells' = Cells /\ RowLength' = RowLength
        /\ plan.reused \in BOOLEAN /\ plan.twins \in BOOLEAN
    BY PlanStays
  <1>3. /\ MaybePlaces \subseteq MaybePlaces' /\ Places \subseteq Places'
        /\ sessions \in [Cells -> MaybePlaces'] /\ closed \subseteq Places'
        /\ queue \in Seq(Places') /\ target \in MaybePlaces' /\ None \in MaybePlaces'
    BY <1>1, MoreSessions DEF MaybePlaces
  <1>4. /\ sent \in Int /\ received \in Int /\ column \in 1..RowLength
        /\ closing \in BOOLEAN /\ unwinding \in BOOLEAN /\ cut \in BOOLEAN
    BY DEF Inv, Types
  <1>5. workers' \in Seq(Children)
    BY <1>1 DEF Onwards
  <1>6. Places' \subseteq MaybePlaces'
    BY DEF MaybePlaces
  <1>7. target # None => target \in Places'
    BY <1>3, Target
  <1>8. Accept => column' \in 1..RowLength
    <2>1. CASE plan.twins
      <3>2. Accept /\ column # Len(Line) => column' = column + 1
        BY <2>1 DEF Accept
      <3>3. Accept /\ column = Len(Line) => column' = 1
        BY <2>1 DEF Accept
      <3>4. Len(Line) = RowLength
        BY <2>1, LineLength
      <3> QED
        BY <1>4, <3>2, <3>3, <3>4 DEF RowLength
    <2>2. CASE ~plan.twins
      BY <2>2 DEF Accept, RowLength
    <2> QED
      BY <2>1, <2>2
  <1>9. CASE Open
    <2>0. UNCHANGED <<progress, cut, closed, target, sent, received>>
      BY <1>9 DEF Open
    <2>1. CASE /\ Spawn /\ UNCHANGED <<queue, closing, unwinding>>
               /\ \E i \in Missing : sessions' = [sessions EXCEPT ![CreationOrder[i]] = Len(workers) + 1]
      <3>1. PICK i \in Missing : sessions' = [sessions EXCEPT ![CreationOrder[i]] = Len(workers) + 1]
        BY <2>1
      <3>2. Len(workers) + 1 \in MaybePlaces'
        BY <1>6, <2>1, OneComes
      <3>3. sessions' \in [Cells -> MaybePlaces']
        BY <1>3, <3>1, <3>2
      <3> QED
        BY <1>2, <1>3, <1>4, <1>5, <2>0, <2>1, <3>3 DEF progress, Types
    <2>2. CASE Leave /\ UNCHANGED <<workers, sessions>> /\ unwinding' = TRUE
      BY <1>1, <1>2, <1>3, <1>4, <1>5, <1>9, <2>2, LeaveTypes DEF Open, progress, Types, Leave
    <2> QED
      BY <1>9, <2>1, <2>2 DEF Open
  <1>10. CASE PassOver
    BY <1>2, <1>3, <1>4, <1>5, <1>10 DEF PassOver, Types
  <1>11. CASE Request
    <2>1. sessions[Label] \in Places' /\ sessions[Label] \in MaybePlaces'
      BY <1>3, <1>6, <1>11, SessionOfLabel DEF Request
    <2> QED
      BY <1>2, <1>3, <1>4, <1>5, <1>11, <2>1 DEF Request, Types, progress
  <1>12. CASE Start
    <2>1. CASE Spawn /\ target' = Len(workers) + 1
      <3>1. Len(workers) + 1 \in MaybePlaces'
        BY <1>6, <2>1, OneComes
      <3> QED
        BY <1>1, <1>2, <1>3, <1>4, <1>5, <1>12, <2>1, <3>1, LeaveTypes DEF Start, progress, Types, Leave
    <2>2. CASE Leave /\ UNCHANGED <<workers, target>> /\ unwinding' = TRUE
      BY <1>1, <1>2, <1>3, <1>4, <1>5, <1>12, <2>2, LeaveTypes DEF Start, progress, Types, Leave
    <2> QED
      BY <1>12, <2>1, <2>2 DEF Start
  <1>13. CASE Send
    <2>1. target \in Places'
      BY <1>3, <1>13, Aways DEF Send, Away
    <2>2. \/ sent' = sent + 1 /\ UNCHANGED <<unwinding, closed, received>>
          \/ unwinding' = TRUE /\ sent' = 0 /\ received' = 0 /\ closed' \in {closed, closed \cup {target}}
      BY <1>13 DEF Send, Fail
    <2>3. UNCHANGED <<progress, cut, sessions, queue, closing, target>>
      BY <1>13 DEF Send, Exchanging
    <2>4. sent' \in Int /\ received' \in Int /\ closed' \subseteq Places'
      BY <1>3, <1>4, <2>1, <2>2
    <2>5. unwinding' \in BOOLEAN
      BY <1>4, <2>2
    <2> QED
      BY <1>2, <1>3, <1>4, <1>5, <2>1, <2>3, <2>4, <2>5 DEF progress, Types
  <1>14. CASE Receive
    <2>1. target \in Places'
      BY <1>3, <1>14, Aways DEF Receive, Away
    <2>2. CASE Accept
      BY <1>2, <1>3, <1>4, <1>5, <1>8, <1>14, <2>2 DEF Receive, Accept, Fail, Types, progress
    <2>3. CASE Fail /\ UNCHANGED <<progress, target>>
      BY <1>2, <1>3, <1>4, <1>5, <1>14, <2>1, <2>3 DEF Receive, Fail, Types, progress
    <2>4. CASE received' = received + 1 /\ UNCHANGED <<at, unwinding, closed, progress, target, sent>>
      BY <1>2, <1>3, <1>4, <1>5, <1>14, <2>4 DEF Receive, Types, progress
    <2> QED
      BY <1>14, <2>2, <2>3, <2>4 DEF Receive
  <1>15. CASE EndOfOutput
    <2>1. target \in Places'
      BY <1>3, <1>15, Aways DEF EndOfOutput, Away
    <2>2. \/ UNCHANGED <<unwinding, closed, sent, received>>
          \/ unwinding' = TRUE /\ sent' = 0 /\ received' = 0 /\ closed' \in {closed, closed \cup {target}}
      BY <1>15 DEF EndOfOutput, Fail
    <2>3. UNCHANGED <<progress, cut, sessions, queue, closing, target>>
      BY <1>15 DEF EndOfOutput, Exchanging
    <2>4. sent' \in Int /\ received' \in Int /\ closed' \subseteq Places'
      BY <1>3, <1>4, <2>1, <2>2
    <2>5. unwinding' \in BOOLEAN
      BY <1>4, <2>2
    <2> QED
      BY <1>2, <1>3, <1>4, <1>5, <2>1, <2>3, <2>4, <2>5 DEF progress, Types
  <1>16. CASE Reap
    <2>1. target \in Places'
      BY <1>3, <1>16, Aways DEF Reap, Away
    <2>2. CASE Accept
      BY <1>2, <1>3, <1>4, <1>5, <1>8, <1>16, <2>2 DEF Reap, Accept, Fail, Types, progress
    <2>3. CASE Fail /\ UNCHANGED <<progress, target>>
      BY <1>2, <1>3, <1>4, <1>5, <1>16, <2>1, <2>3 DEF Reap, Fail, Types, progress
    <2> QED
      BY <1>16, <2>2, <2>3 DEF Reap
  <1>17. CASE Deadline
    <2>1. target \in Places'
      BY <1>3, <1>17, Aways DEF Deadline, Away
    <2> QED
      BY <1>2, <1>3, <1>4, <1>5, <1>17, <2>1 DEF Deadline, Fail, Exchanging, progress, Types
  <1>18. CASE Kill
    BY <1>2, <1>3, <1>4, <1>5, <1>18 DEF Kill, Ending, progress, Types
  <1>19. CASE Wait \/ Linger
    <2>1. Leave \/ UNCHANGED <<queue, closing>>
      BY <1>19 DEF Wait, Linger, Over
    <2>2. queue' \in Seq(Places') /\ closing' \in BOOLEAN
      BY <1>1, <1>3, <1>4, <2>1, LeaveTypes DEF Leave
    <2>3. target' = None \/ target' = target
      BY <1>19 DEF Wait, Linger, Over
    <2>4. UNCHANGED <<progress, sessions, sent, received, cut, unwinding, closed>>
      BY <1>19 DEF Wait, Linger, Ending
    <2> HIDE DEF Wait, Linger
    <2> QED
      BY <1>2, <1>3, <1>4, <1>5, <2>2, <2>3, <2>4 DEF Types, progress
  <1>20. CASE Close
    <2>1. Head(queue) \in Places' /\ Tail(queue) \in Seq(Places') /\ Head(queue) \in MaybePlaces'
      BY <1>3, <1>6, <1>20 DEF Close
    <2> QED
      BY <1>2, <1>3, <1>4, <1>5, <1>20, <2>1 DEF Close, Ending, progress, Types
  <1>21. CASE EndBlock
    BY <1>1, <1>2, <1>3, <1>4, <1>5, <1>21, LeaveTypes DEF EndBlock, Leave, progress, Types
  <1>22. CASE AfterBlock
    <2>1. sessions' \in [Cells -> MaybePlaces']
      BY <1>2, <1>3, <1>22 DEF AfterBlock, NextBlock, Cells
    <2> QED
      BY <1>2, <1>3, <1>4, <1>5, <1>22, <2>1 DEF AfterBlock, Types
  <1>23. CASE Interrupt
    <2>1. Leave \/ UNCHANGED <<queue, closing>>
      BY <1>23 DEF Interrupt
    <2>2. queue' \in Seq(Places') /\ closing' \in BOOLEAN
      BY <1>1, <1>3, <1>4, <2>1, LeaveTypes DEF Leave
    <2>3. cut' \in BOOLEAN
      BY <1>4, <1>23, PlanTypes DEF Interrupt
    <2> QED
      BY <1>2, <1>3, <1>4, <1>5, <1>23, <2>2, <2>3 DEF Interrupt, progress, Types
  <1>24. CASE Exit \/ Crash
    BY <1>2, <1>3, <1>4, <1>5, <1>24 DEF Exit, Crash, Gone, progress, Types
  <1>25. ASSUME NEW w \in 1..Len(workers), Work(w) \/ Hangs(w) \/ Dies(w)
         PROVE  Types'
    <2>1. UNCHANGED Childs
      BY <1>25 DEF Work, Reads, Works, Writes, Hangs, Dies
    <2> QED
      BY <1>2, <1>3, <1>4, <1>5, <2>1 DEF Childs, progress, Types
  <1>26. CASE UNCHANGED vars
    BY <1>2, <1>3, <1>4, <1>5, <1>26 DEF vars, progress, Types
  <1> QED
    BY <1>9, <1>10, <1>11, <1>12, <1>13, <1>14, <1>15, <1>16, <1>17, <1>18, <1>19, <1>20, <1>21,
       <1>22, <1>23, <1>24, <1>25, <1>26 DEF Next, Runner

LEMMA NoPlace == None \notin Places /\ \A w \in Places : w # None
  BY NoneAssumption DEF Places

\* Without sessions there is nothing to close.
LEMMA LeaveWhere ==
    ASSUME Inv, Leave
    PROVE  /\ at' = "finally" /\ closing' = TRUE
           /\ ~plan.reused => queue' = <<>>
  <1>1. ASSUME ~plan.reused
        PROVE  queue' = <<>>
    <2>1. queue' \in Seq(Places) /\ \A i \in 1..Len(queue') : \E c \in Cells : queue'[i] = sessions[c]
      BY FinallyCloses DEF Leave
    <2>2. \A c \in Cells : sessions[c] = None
      BY <1>1 DEF Inv, Where
    <2>3. 1..Len(queue') = {}
      BY <2>1, <2>2, NoPlace
    <2> QED
      BY <2>1, <2>3
  <1> QED
    BY <1>1 DEF Leave, Proceed

LEMMA WhereStep == Inv /\ [Next]_vars => Where'
  <1> SUFFICES ASSUME Inv, [Next]_vars PROVE Where'
    OBVIOUS
  <1>1. /\ plan' = plan /\ Cells' = Cells /\ RowLength' = RowLength
        /\ plan.reused \in BOOLEAN /\ plan.twins \in BOOLEAN /\ plan \in Plans
    BY PlanStays
  <1>2. Where /\ Places \in SUBSET Nat /\ None \notin Places
    BY NoPlace DEF Inv, Places
  <1>3. CASE Open
    <2>1. CASE /\ Spawn /\ UNCHANGED <<at, queue, closing, unwinding>>
               /\ \E i \in Missing : sessions' = [sessions EXCEPT ![CreationOrder[i]] = Len(workers) + 1]
      <3>1. PICK i \in Missing : sessions' = [sessions EXCEPT ![CreationOrder[i]] = Len(workers) + 1]
        BY <2>1
      <3>2. ~plan.twins => CreationOrder[i] = <<"candidate", 0>>
        <4>1. CASE ~plan.twins
          <5>1. CreationOrder = <<<<"candidate", 0>>>>
            BY <1>1, <4>1, Creation
          <5>2. i = 1
            BY <5>1 DEF Missing
          <5> QED
            BY <5>1, <5>2
        <4> QED
          BY <4>1
      <3>3. ~plan.twins => sessions'[<<"control", 0>>] = None
        BY <1>2, <3>1, <3>2 DEF Where, Inv, Types
      <3>4. plan.reused /\ UNCHANGED <<closed, target, sent, received>>
        BY <1>3 DEF Open
      <3> QED
        BY <1>1, <1>2, <2>1, <3>3, <3>4 DEF Where
    <2>2. CASE unwinding' = TRUE /\ Leave /\ UNCHANGED <<workers, sessions>>
      BY <1>1, <1>2, <1>3, <2>2, LeaveWhere DEF Open, Where, Stations, Away
    <2> QED
      BY <1>3, <2>1, <2>2 DEF Open
  <1>4. CASE PassOver
    BY <1>1, <1>2, <1>4 DEF PassOver, Where
  <1>5. CASE Request
    <2>1. sessions[Label] # None
      BY <1>5, SessionOfLabel, NoPlace DEF Request
    <2> QED
      BY <1>1, <1>2, <1>5, <2>1 DEF Request, Proceed, Where, Stations, Away, Ready
  <1>6. CASE Start
    <2>1. CASE Spawn /\ target' = Len(workers) + 1 /\ Proceed("exchange") /\ UNCHANGED <<unwinding, queue, closing>>
      <3>1. target' # None
        BY <2>1, NoneAssumption DEF Inv, Types
      <3> QED
        BY <1>1, <1>2, <1>6, <2>1, <3>1 DEF Start, Proceed, Where, Stations, Away, Ready
    <2>2. CASE unwinding' = TRUE /\ Leave /\ UNCHANGED <<workers, target>>
      BY <1>1, <1>2, <1>6, <2>2, LeaveWhere DEF Start, Where, Stations, Away, Ready
    <2> QED
      BY <1>6, <2>1, <2>2 DEF Start
  <1>7. CASE Send
    BY <1>1, <1>2, <1>7 DEF Send, Fail, Proceed, Exchanging, Where, Stations, Away
  <1>8. CASE Receive
    BY <1>1, <1>2, <1>8 DEF Receive, Accept, Fail, Proceed, Where, Stations, Away
  <1>9. CASE EndOfOutput
    BY <1>1, <1>2, <1>9 DEF EndOfOutput, Fail, Proceed, Exchanging, Where, Stations, Away
  <1>10. CASE Reap
    BY <1>1, <1>2, <1>10 DEF Reap, Accept, Fail, Proceed, Where, Stations, Away
  <1>11. CASE Deadline
    BY <1>1, <1>2, <1>11 DEF Deadline, Fail, Proceed, Exchanging, Where, Stations, Away
  <1>12. CASE Kill
    BY <1>1, <1>2, <1>12 DEF Kill, Proceed, Ending, Where, Stations, Away
  <1>13. CASE Wait
    <2>1. \/ at' = "kill_again" /\ at = "wait" /\ UNCHANGED <<target, queue, closing>>
          \/ target' = None /\ closing /\ at' = "finally" /\ UNCHANGED <<queue, closing>>
          \/ target' = None /\ ~closing /\ Leave
      BY <1>13 DEF Wait, Over, Proceed
    <2> QED
      BY <1>1, <1>2, <1>13, <2>1, LeaveWhere DEF Wait, Ending, Where, Stations, Away
  <1>14. CASE Linger
    <2>1. \/ at' = "linger_again" /\ UNCHANGED <<target, queue, closing>>
          \/ at' = "kill" /\ UNCHANGED <<target, queue, closing>>
          \/ target' = None /\ closing /\ at' = "finally" /\ UNCHANGED <<queue, closing>>
          \/ target' = None /\ ~closing /\ Leave
      BY <1>14 DEF Linger, Over, Proceed
    <2> QED
      BY <1>1, <1>2, <1>14, <2>1, LeaveWhere DEF Linger, Ending, Where, Stations, Away
  <1>15. CASE Close
    <2>1. Head(queue) \in Places /\ plan.reused
      BY <1>1, <1>2, <1>15 DEF Close, Inv, Types, Where
    <2> QED
      BY <1>1, <1>2, <1>15, <2>1 DEF Close, Proceed, Ending, Where, Stations, Away
  <1>16. CASE EndBlock
    BY <1>1, <1>2, <1>16, LeaveWhere DEF EndBlock, Where, Stations, Away
  <1>17. CASE AfterBlock
    <2>1. <<"control", 0>> \in Cells
      BY <1>1 DEF Cells, Twins, Paths, ValuePaths
    <2>2. plan.reused' = plan.reused /\ plan.twins' = plan.twins
      BY <1>1
    <2>3. at' \in {"ended", "next"} /\ closing' = FALSE /\ target' = None /\ sent' = 0 /\ received' = 0
      BY <1>2, <1>17 DEF AfterBlock, Proceed, Where, Away
    <2>4. unwinding' = unwinding /\ (at' = "next" => ~unwinding)
      BY <1>17 DEF AfterBlock, Proceed
    <2>5. closed' = closed /\ queue' = queue
      BY <1>17 DEF AfterBlock
    <2>6. \/ sessions' = sessions
          \/ sessions' = [c \in Cells |-> None]
      BY <1>1, <1>17 DEF AfterBlock, NextBlock, Cells
    <2>7. ~plan.reused => \A c \in Cells : sessions'[c] = None
      BY <1>2, <2>6 DEF Where
    <2>8. ~plan.twins => sessions'[<<"control", 0>>] = None
      BY <1>2, <2>1, <2>6 DEF Where
    <2> QED
      BY <1>1, <1>2, <2>2, <2>3, <2>4, <2>5, <2>7, <2>8 DEF Where, Stations, Away
  <1>18. CASE Interrupt
    <2>1. \/ closing /\ at' = "ended" /\ UNCHANGED <<queue, closing>>
          \/ ~closing /\ Leave
      BY <1>18 DEF Interrupt, Proceed
    <2> QED
      BY <1>1, <1>2, <1>18, <2>1, LeaveWhere DEF Interrupt, Where, Stations, Away
  <1>19. CASE Exit \/ Crash
    BY <1>1, <1>2, <1>19 DEF Exit, Crash, Gone, Proceed, Where, Stations, Away
  <1>20. ASSUME NEW w \in 1..Len(workers), Work(w) \/ Hangs(w) \/ Dies(w)
         PROVE  Where'
    <2>1. UNCHANGED Childs
      BY <1>20 DEF Work, Reads, Works, Writes, Hangs, Dies
    <2> QED
      BY <1>1, <1>2, <2>1 DEF Childs, Where
  <1>21. CASE UNCHANGED vars
    BY <1>1, <1>2, <1>21 DEF vars, Where
  <1> QED
    BY <1>3, <1>4, <1>5, <1>6, <1>7, <1>8, <1>9, <1>10, <1>11, <1>12, <1>13, <1>14, <1>15, <1>16,
       <1>17, <1>18, <1>19, <1>20, <1>21 DEF Next, Runner

-----------------------------------------------------------------------------
(* No worker is left behind *)

\* A step of a worker, or of the runner with it, that leaves the books as they are, but for a
\* session given up.
LEMMA LeftKept ==
    ASSUME Inv, Onwards, Places' = Places, Cells' = Cells, plan' = plan,
           UNCHANGED <<sessions, queue, closing, target, cut>>,
           closed \subseteq closed', closed' \subseteq closed \cup {target},
           at' \in {"next", "exchange"} => at \in {"next", "exchange"} /\ closed' = closed,
           at' \in {"wait", "kill_again", "wait_again"} => target \in Places /\ Settled(workers'[target]),
           at' = "ended" => at = "ended", at = "gone" => at' = "gone"
    PROVE  Left'
  <1>1. \A w \in Places : Settled(workers[w]) => Settled(workers'[w])
    BY DEF Onwards, Ages
  <1>2. Left /\ closed \subseteq Places /\ sessions \in [Cells -> MaybePlaces]
    BY DEF Inv, Types
  <1>3. plan.reused /\ ~closing /\ target # None => \E c \in Cells : sessions[c] = target
    BY <1>2 DEF Left
  <1>4. at' \in {"next", "exchange"} => \A c \in Cells : sessions[c] \notin closed'
    BY <1>2 DEF Left
  <1>5. ASSUME ~cut, at' # "gone"
        PROVE  /\ \A w \in closed' : Settled(workers'[w]) \/ w = target
               /\ closing => \A c \in Cells :
                     sessions[c] # None => \/ Settled(workers'[sessions[c]]) \/ sessions[c] = target
                                          \/ \E i \in 1..Len(queue) : queue[i] = sessions[c]
               /\ \A w \in Places : (w \in InUse /\ at' # "ended") \/ workers'[w].life = "reaped" \/ workers'[w].killed
    <2>1. \A w \in closed : Settled(workers[w]) \/ w = target
      BY <1>2, <1>5 DEF Left
    <2>2. closing => \A c \in Cells :
             sessions[c] # None => \/ Settled(workers[sessions[c]]) \/ sessions[c] = target
                                  \/ \E i \in 1..Len(queue) : queue[i] = sessions[c]
      BY <1>2, <1>5 DEF Left
    <2>3. \A w \in Places : (w \in InUse /\ at # "ended") \/ Settled(workers[w])
      BY <1>2, <1>5 DEF Left, NobodyLeftBehind, Settled, Places
    <2>4. \A w \in closed' : Settled(workers'[w]) \/ w = target
      BY <1>1, <1>2, <2>1
    <2>5. ASSUME closing, NEW c \in Cells, sessions[c] # None
          PROVE  \/ Settled(workers'[sessions[c]]) \/ sessions[c] = target
                 \/ \E i \in 1..Len(queue) : queue[i] = sessions[c]
      <3>1. sessions[c] \in Places
        BY <1>2, <2>5 DEF MaybePlaces
      <3> QED
        BY <1>1, <2>2, <2>5, <3>1
    <2>6. \A w \in Places : (w \in InUse /\ at' # "ended") \/ Settled(workers'[w])
      BY <1>1, <2>3
    <2> QED
      BY <2>4, <2>5, <2>6 DEF Settled
  <1>6. InUse' = InUse
    BY DEF InUse
  <1>7. NobodyLeftBehind'
    BY <1>5, <1>6 DEF NobodyLeftBehind, Places
  <1> QED
    BY <1>3, <1>4, <1>5, <1>7 DEF Left, It

\* The runner turns to its finally clause.
LEMMA LeftLeaves ==
    ASSUME Inv, Onwards, Places' = Places, Cells' = Cells, plan' = plan, Leave, ~closing,
           UNCHANGED <<sessions, closed>>, target' = None, at \notin {"ended", "gone"},
           ~cut' => /\ ~cut
                    /\ \/ target = None
                       \/ target \in Places /\ Settled(workers'[target])
                       \/ plan.reused /\ at = "exchange"
    PROVE  Left'
  <1>1. \A w \in Places : Settled(workers[w]) => Settled(workers'[w])
    BY DEF Onwards, Ages
  <1>2. Left /\ closed \subseteq Places /\ sessions \in [Cells -> MaybePlaces]
    BY DEF Inv, Types
  <1>3. at' = "finally" /\ closing' = TRUE
    BY DEF Leave, Proceed
  <1>4. \A c \in Cells : sessions[c] # None => \E i \in 1..Len(queue') : queue'[i] = sessions[c]
    BY FinallyCloses DEF Leave
  <1>5. ASSUME ~cut'
        PROVE  /\ \A w \in closed : Settled(workers'[w])
               /\ \A w \in Places : w \in InUse' \/ Settled(workers'[w])
    <2>1. \A w \in closed : Settled(workers[w]) \/ w = target
      BY <1>2, <1>5 DEF Left
    <2>2. \A w \in Places : w \in InUse \/ Settled(workers[w])
      BY <1>2, <1>5 DEF Left, NobodyLeftBehind, Settled, Places
    <2>3. InUse \subseteq InUse' \cup {target}
      BY DEF InUse
    <2>4. CASE target = None \/ (target \in Places /\ Settled(workers'[target]))
      BY <1>1, <1>2, <2>1, <2>2, <2>3, <2>4, NoPlace
    <2>5. CASE target # None /\ plan.reused /\ at = "exchange"
      <3>1. PICK c \in Cells : sessions[c] = target
        BY <1>2, <2>5 DEF Left
      <3>2. target \notin closed
        BY <1>2, <2>5, <3>1 DEF Left
      <3>3. target \in InUse'
        BY <3>1 DEF InUse
      <3> QED
        BY <1>1, <1>2, <2>1, <2>2, <2>3, <3>2, <3>3
    <2> QED
      BY <1>5, <2>4, <2>5
  <1>6. NobodyLeftBehind'
    BY <1>3, <1>5 DEF NobodyLeftBehind, Places, Settled
  <1> QED
    BY <1>3, <1>4, <1>5, <1>6 DEF Left

\* A session is closed, and the runner goes on with its finally clause.
LEMMA LeftBack ==
    ASSUME Inv, Onwards, Places' = Places, Cells' = Cells, plan' = plan, closing,
           UNCHANGED <<sessions, closed, queue, closing, cut>>, target' = None, at' = "finally",
           at \notin {"ended", "gone"}, target \in Places, Settled(workers'[target])
    PROVE  Left'
  <1>1. \A w \in Places : Settled(workers[w]) => Settled(workers'[w])
    BY DEF Onwards, Ages
  <1>2. Left /\ closed \subseteq Places /\ sessions \in [Cells -> MaybePlaces]
    BY DEF Inv, Types
  <1>3. ASSUME ~cut
        PROVE  /\ \A w \in closed : Settled(workers'[w])
               /\ \A c \in Cells :
                     sessions[c] # None => \/ Settled(workers'[sessions[c]])
                                          \/ \E i \in 1..Len(queue) : queue[i] = sessions[c]
               /\ \A w \in Places : w \in InUse' \/ Settled(workers'[w])
    <2>1. \A w \in closed : Settled(workers[w]) \/ w = target
      BY <1>2, <1>3 DEF Left
    <2>2. \A w \in Places : w \in InUse \/ Settled(workers[w])
      BY <1>2, <1>3 DEF Left, NobodyLeftBehind, Settled, Places
    <2>3. InUse \subseteq InUse' \cup {target}
      BY DEF InUse
    <2>4. ASSUME NEW c \in Cells, sessions[c] # None
          PROVE  Settled(workers'[sessions[c]]) \/ \E i \in 1..Len(queue) : queue[i] = sessions[c]
      <3>1. sessions[c] \in Places
        BY <1>2, <2>4 DEF MaybePlaces
      <3>2. \/ Settled(workers[sessions[c]]) \/ sessions[c] = target
            \/ \E i \in 1..Len(queue) : queue[i] = sessions[c]
        BY <1>2, <1>3, <2>4 DEF Left
      <3> QED
        BY <1>1, <3>1, <3>2
    <2> QED
      BY <1>1, <1>2, <2>1, <2>2, <2>3, <2>4
  <1>4. NobodyLeftBehind'
    BY <1>3 DEF NobodyLeftBehind, Places, Settled
  <1> QED
    BY <1>3, <1>4 DEF Left

\* What the books say, in full.
LEMMA Books ==
    ASSUME Inv
    PROVE  /\ closed \subseteq Places /\ \A c \in Cells : sessions[c] = None \/ sessions[c] \in Places
           /\ \A w \in Places : workers[w] \in Children
           /\ ~cut /\ at \notin {"ended", "gone"} =>
                 \A w \in Places : (\E c \in Cells : sessions[c] = w) \/ w = target \/ Settled(workers[w])
           /\ ~cut /\ at = "ended" => \A w \in Places : Settled(workers[w])
  <1>1. closed \subseteq Places /\ \A c \in Cells : sessions[c] = None \/ sessions[c] \in Places
    BY DEF Inv, Types, MaybePlaces
  <1>2. \A w \in Places : workers[w] \in Children
    BY DEF Inv, Types, Places
  <1>3. ~cut /\ at # "gone" => \A w \in Places : (w \in InUse /\ at # "ended") \/ Settled(workers[w])
    BY DEF Inv, Left, NobodyLeftBehind, Settled, Places
  <1>4. \A w \in InUse : w = target \/ \E c \in Cells : sessions[c] = w
    BY DEF InUse
  <1> QED
    BY <1>1, <1>2, <1>3, <1>4

\* What is to be shown of a step, worker by worker.
LEMMA Behind ==
    ASSUME ~cut' /\ at' # "gone" =>
             \A w \in Places' : \/ at' # "ended" /\ (w = target' \/ \E c \in Cells' : sessions'[c] = w)
                                \/ Settled(workers'[w])
    PROVE  NobodyLeftBehind'
  BY DEF NobodyLeftBehind, Settled, InUse, Places

LEMMA LeftOpen == Inv /\ [Next]_vars /\ Open => Left'
  <1> SUFFICES ASSUME Inv, [Next]_vars, Open PROVE Left'
    OBVIOUS
  <1>1. Onwards /\ plan' = plan /\ Cells' = Cells /\ plan \in Plans
    BY WorkersStep, PlanStays
  <1>2. at = "next" /\ UNCHANGED <<progress, cut, closed, target, sent, received>>
    BY DEF Open
  <1>3. ~closing /\ target = None
    BY <1>2 DEF Inv, Where, Away
  <1>4. CASE /\ Spawn /\ UNCHANGED <<at, queue, closing, unwinding>>
             /\ \E i \in Missing : sessions' = [sessions EXCEPT ![CreationOrder[i]] = Len(workers) + 1]
    <2> DEFINE N == Len(workers) + 1
    <2>1. PICK i \in Missing : sessions' = [sessions EXCEPT ![CreationOrder[i]] = N]
      BY <1>4
    <2>2. Places' = Places \cup {N} /\ N \notin Places
      BY <1>4, OneComes DEF Places, Inv, Types
    <2>3. CreationOrder[i] \in Cells /\ sessions[CreationOrder[i]] = None
      BY <1>1, Creation DEF Missing
    <2>4. sessions \in [Cells -> MaybePlaces]
      BY DEF Inv, Types
    <2> HIDE DEF N
    <2>5. \A c \in Cells : sessions'[c] = IF c = CreationOrder[i] THEN N ELSE sessions[c]
      BY <2>1, <2>3, <2>4
    <2>6. \A c \in Cells : sessions'[c] \notin closed'
      BY <1>2, <2>2, <2>5, Books DEF Inv, Left
    <2>7. ASSUME ~cut
          PROVE  \A w \in Places' : (\E c \in Cells : sessions'[c] = w) \/ Settled(workers'[w])
      <3>1. \A w \in Places : (\E c \in Cells : sessions[c] = w) \/ Settled(workers[w])
        BY <1>2, <1>3, <2>7, Books, NoPlace
      <3>2. \A w \in Places : Settled(workers[w]) => Settled(workers'[w])
        BY <1>1 DEF Onwards, Ages
      <3>3. \A w \in Places : \A c \in Cells : sessions[c] = w => sessions'[c] = w
        BY <2>3, <2>5, NoPlace
      <3> QED
        BY <2>2, <2>3, <2>5, <3>1, <3>2, <3>3
    <2>8. NobodyLeftBehind'
      BY <1>1, <1>2, <1>4, <2>7, Behind
    <2>9. ~cut => \A w \in closed : Settled(workers'[w])
      <3>1. ~cut => \A w \in closed : Settled(workers[w]) \/ w = target
        BY <1>2 DEF Inv, Left
      <3> QED
        BY <1>1, <1>3, <3>1, Books, NoPlace DEF Onwards, Ages
    <2> QED
      BY <1>1, <1>2, <1>3, <1>4, <2>6, <2>8, <2>9 DEF Left
  <1>5. CASE Leave /\ UNCHANGED <<workers, sessions>>
    BY <1>1, <1>2, <1>3, <1>5, NoneAges, LeftLeaves
  <1> QED
    BY <1>4, <1>5 DEF Open

LEMMA LeftStart == Inv /\ [Next]_vars /\ Start => Left'
  <1> SUFFICES ASSUME Inv, [Next]_vars, Start PROVE Left'
    OBVIOUS
  <1>1. Onwards /\ plan' = plan /\ Cells' = Cells
    BY WorkersStep, PlanStays
  <1>2. at = "next" /\ ~plan.reused /\ UNCHANGED <<progress, cut, sessions, closed, sent, received>>
    BY DEF Start, Ready
  <1>3. ~closing /\ target = None /\ closed = {} /\ \A c \in Cells : sessions[c] = None
    BY <1>2 DEF Inv, Where, Away
  <1>4. CASE Spawn /\ target' = Len(workers) + 1 /\ Proceed("exchange") /\ UNCHANGED <<unwinding, queue, closing>>
    <2>1. Places' = Places \cup {target'}
      BY <1>4, OneComes
    <2>2. ~cut => \A w \in Places : Settled(workers'[w])
      BY <1>1, <1>2, <1>3, Books, NoPlace DEF Onwards, Ages
    <2>3. NobodyLeftBehind'
      BY <1>2, <1>4, <2>1, <2>2, Behind DEF Proceed
    <2> QED
      BY <1>1, <1>2, <1>3, <1>4, <2>3 DEF Left, Proceed
  <1>5. CASE Leave /\ UNCHANGED <<workers, target>>
    BY <1>1, <1>2, <1>3, <1>5, NoneAges, LeftLeaves
  <1> QED
    BY <1>4, <1>5 DEF Start

LEMMA LeftRequest == Inv /\ [Next]_vars /\ Request => Left'
  <1> SUFFICES ASSUME Inv, [Next]_vars, Request PROVE Left'
    OBVIOUS
  <1> DEFINE S == sessions[Label]
  <1>1. Onwards /\ plan' = plan /\ Cells' = Cells
    BY WorkersStep, PlanStays
  <1>2. /\ at = "next" /\ target' = S /\ UNCHANGED <<progress, cut, sessions, queue, closing>>
        /\ at' \in {"exchange", "kill"} /\ closed \subseteq closed' /\ closed' \subseteq closed \cup {S}
        /\ at' = "exchange" => closed' = closed
    BY DEF Request, Ready, Proceed
  <1>3. ~closing /\ target = None
    BY <1>2 DEF Inv, Where, Away
  <1>4. Label \in Cells /\ S \in Places
    BY SessionOfLabel DEF Request
  <1>5. Places' = Places
    <2>1. workers[S] \in Children
      BY <1>4, Books
    <2>2. UNCHANGED workers \/ Set(S, Reaped(workers[S]))
      BY DEF Request
    <2> QED
      BY <1>4, <2>1, <2>2, NoneAges, OneAges, Endings
  <1> HIDE DEF S
  <1>6. \A w \in Places : Settled(workers[w]) => Settled(workers'[w])
    BY <1>1 DEF Onwards, Ages
  <1>7. ~cut => \A w \in Places : (\E c \in Cells : sessions[c] = w) \/ Settled(workers'[w])
    BY <1>2, <1>3, <1>6, Books, NoPlace
  <1>8. NobodyLeftBehind'
    BY <1>1, <1>2, <1>5, <1>7, Behind
  <1>9. ~cut => \A w \in closed' : Settled(workers'[w]) \/ w = S
    <2>1. ~cut => \A w \in closed : Settled(workers[w]) \/ w = target
      BY <1>2 DEF Inv, Left
    <2> QED
      BY <1>2, <1>3, <1>6, <2>1, Books, NoPlace
  <1>10. at' = "exchange" => \A c \in Cells : sessions[c] \notin closed'
    BY <1>2 DEF Inv, Left
  <1> QED
    BY <1>1, <1>2, <1>3, <1>4, <1>8, <1>9, <1>10 DEF Left, S

\* The answer is taken: a session stays in the books, the other child was reaped.
LEMMA LeftAccept ==
    ASSUME Inv, Onwards, Places' = Places, Cells' = Cells, plan' = plan, Accept,
           UNCHANGED <<cut, sessions, closed, queue, closing>>, at \in {"exchange", "reap"},
           ~plan.reused => Settled(workers'[target])
    PROVE  Left'
  <1>1. at' = "next" /\ target' = None /\ target \in Places /\ ~closing
    BY Aways DEF Accept, Proceed, Away, Inv, Where
  <1>2. \A w \in Places : Settled(workers[w]) => Settled(workers'[w])
    BY DEF Onwards, Ages
  <1>3. (\E c \in Cells : sessions[c] = target) \/ Settled(workers'[target])
    BY <1>1, NoPlace DEF Inv, Left
  <1>4. \A c \in Cells : sessions[c] \notin closed
    BY <1>1, NoPlace, Books DEF Inv, Left, Where
  <1>5. ~cut => \A w \in Places : (\E c \in Cells : sessions[c] = w) \/ Settled(workers'[w])
    BY <1>2, <1>3, Books
  <1>6. NobodyLeftBehind'
    BY <1>1, <1>5, Behind
  <1>7. ~cut => \A w \in closed : Settled(workers'[w])
    <2>1. ~cut => \A w \in closed : Settled(workers[w]) \/ w = target
      BY DEF Inv, Left
    <2> QED
      BY <1>2, <1>3, <1>4, <2>1, Books
  <1> QED
    BY <1>1, <1>4, <1>6, <1>7 DEF Left

\* Steps that deal with one worker keep the others' places.
LEMMA SamePlaces ==
    ASSUME Inv, NEW w \in Places, NEW d, Set(w, d)
    PROVE  Places' = Places
  BY DEF Set, Places, Inv, Types

LEMMA OverLeft ==
    ASSUME Inv, [Next]_vars, Over(Reaped(It)), UNCHANGED <<progress, cut, sessions, closed>>,
           at \in Away, It.life # "up" \/ Settled(It)
    PROVE  Left'
  <1>1. Onwards /\ plan' = plan /\ Cells' = Cells
    BY WorkersStep, PlanStays
  <1>2. target \in Places /\ It \in Children /\ at \notin {"ended", "gone"}
    BY Aways DEF Away
  <1>3. Places' = Places
    BY <1>2, SamePlaces DEF Over
  <1>4. Settled(workers'[target])
    <2>1. CASE It.life # "up"
      <3>1. workers'[target] = Closed(Reaped(It))
        BY <1>2 DEF Over, Set, Places, Inv, Types
      <3>2. Reaped(It) \in Children /\ Reaped(It).life = "reaped"
        BY <1>2, <2>1, ChildTypes, ChildFields
      <3> QED
        BY <3>1, <3>2, ChildFields DEF Settled
    <2>2. CASE Settled(It)
      BY <1>1, <1>2, <2>2 DEF Onwards, Ages, It
    <2> QED
      BY <2>1, <2>2
  <1>5. target' = None
    BY DEF Over
  <1>6. CASE closing
    BY <1>1, <1>2, <1>3, <1>4, <1>5, <1>6, LeftBack DEF Over, Proceed
  <1>7. CASE ~closing
    BY <1>1, <1>2, <1>3, <1>4, <1>5, <1>7, LeftLeaves DEF Over
  <1> QED
    BY <1>6, <1>7

LEMMA LeftClose == Inv /\ [Next]_vars /\ Close => Left'
  <1> SUFFICES ASSUME Inv, [Next]_vars, Close PROVE Left'
    OBVIOUS
  <1> DEFINE h == Head(queue)
  <1>1. Onwards /\ plan' = plan /\ Cells' = Cells
    BY WorkersStep, PlanStays
  <1>2. at = "finally" /\ queue # <<>> /\ queue' = Tail(queue) /\ UNCHANGED <<cut, sessions, closing>>
    BY DEF Close, Ending
  <1>3. closing /\ target = None
    BY <1>2 DEF Inv, Where, Away
  <1>4. h \in Places /\ queue \in Seq(Places) /\ Len(queue) > 0
    BY <1>2 DEF Inv, Types
  <1>5. /\ Len(queue') = Len(queue) - 1 /\ h = queue[1]
        /\ \A i \in 1..Len(queue) : i = 1 \/ (i - 1 \in 1..Len(queue') /\ queue[i] = queue'[i - 1])
    BY <1>2, <1>4
  <1>6. Places' = Places
    BY <1>4, SamePlaces DEF Close, Places
  <1> HIDE DEF h
  <1>7. \/ h \in closed /\ UNCHANGED <<closed, target, at>>
        \/ h \notin closed /\ closed' = closed \cup {h} /\ target' = h /\ at' = "linger"
    BY DEF Close, Proceed, h
  <1>8. \A w \in Places : Settled(workers[w]) => Settled(workers'[w])
    BY <1>1 DEF Onwards, Ages
  <1>9. ~cut => \A w \in closed : Settled(workers[w])
    BY <1>2, <1>3, Books, NoPlace DEF Inv, Left
  <1>10. ASSUME ~cut, NEW c \in Cells, sessions[c] # None
         PROVE  \/ Settled(workers'[sessions[c]]) \/ sessions[c] = target'
                \/ \E i \in 1..Len(queue') : queue'[i] = sessions[c]
    <2>1. \/ Settled(workers[sessions[c]]) \/ sessions[c] = target
          \/ \E i \in 1..Len(queue) : queue[i] = sessions[c]
      BY <1>2, <1>3, <1>10 DEF Inv, Left
    <2>2. sessions[c] \in Places
      BY <1>10, Books
    <2>3. sessions[c] = h => Settled(workers'[sessions[c]]) \/ sessions[c] = target'
      BY <1>7, <1>8, <1>9, <1>10, <2>2
    <2> QED
      BY <1>3, <1>5, <1>8, <1>10, <2>1, <2>2, <2>3
  <1>11. ~cut => \A w \in closed' : Settled(workers'[w]) \/ w = target'
    BY <1>7, <1>8, <1>9, Books
  <1>12. ~cut => \A w \in Places : (\E c \in Cells : sessions[c] = w) \/ Settled(workers'[w])
    BY <1>2, <1>3, <1>8, Books, NoPlace
  <1>13. NobodyLeftBehind'
    BY <1>1, <1>2, <1>6, <1>7, <1>12, Behind
  <1> QED
    BY <1>1, <1>2, <1>3, <1>7, <1>10, <1>11, <1>13 DEF Left

LEMMA LeftAfterBlock == Inv /\ [Next]_vars /\ AfterBlock => Left'
  <1> SUFFICES ASSUME Inv, [Next]_vars, AfterBlock PROVE Left'
    OBVIOUS
  <1>1. Onwards /\ plan' = plan /\ Cells' = Cells
    BY WorkersStep, PlanStays
  <1>2. at = "finally" /\ queue = <<>> /\ closing' = FALSE /\ UNCHANGED <<cut, closed, target, queue, workers>>
    BY DEF AfterBlock
  <1>3. closing /\ target = None
    BY <1>2 DEF Inv, Where, Away
  <1>4. at' = "ended" \/ (at' = "next" /\ sessions' = [c \in Cells |-> None])
    BY <1>1 DEF AfterBlock, Proceed, NextBlock, Cells
  <1>5. Places' = Places
    BY <1>2 DEF Places
  <1>6. ~cut => \A w \in Places : Settled(workers'[w])
    <2>1. ~cut => \A w \in Places : (\E c \in Cells : sessions[c] = w) \/ Settled(workers[w])
      BY <1>2, <1>3, Books, NoPlace
    <2>2. ~cut => \A c \in Cells : sessions[c] # None => Settled(workers[sessions[c]])
      <3>1. 1..Len(queue) = {}
        BY <1>2
      <3>2. ~cut => \A c \in Cells :
                sessions[c] # None => \/ Settled(workers[sessions[c]]) \/ sessions[c] = target
                                     \/ \E i \in 1..Len(queue) : queue[i] = sessions[c]
        BY <1>2, <1>3 DEF Inv, Left
      <3> QED
        BY <1>3, <3>1, <3>2
    <2> QED
      BY <1>2, <2>1, <2>2, NoPlace
  <1>7. NobodyLeftBehind'
    BY <1>2, <1>5, <1>6, Behind
  <1>8. None \notin closed
    BY Books, NoPlace
  <1> QED
    BY <1>1, <1>2, <1>3, <1>4, <1>6, <1>7, <1>8, Books DEF Left

LEMMA LeftInterrupt == Inv /\ [Next]_vars /\ Interrupt => Left'
  <1> SUFFICES ASSUME Inv, [Next]_vars, Interrupt PROVE Left'
    OBVIOUS
  <1>1. Onwards /\ plan' = plan /\ Cells' = Cells
    BY WorkersStep, PlanStays
  <1>2. at \notin {"ended", "gone"} /\ target' = None /\ UNCHANGED <<sessions, closed>>
    BY DEF Interrupt
  <1>3. ~cut' => /\ ~cut
                 /\ target = None \/ (~closing /\ plan.reused /\ at = "exchange")
                 /\ ~(closing /\ queue # <<>>)
    BY DEF Interrupt
  <1>4. Places' = Places
    <2>1. target # None => target \in Places
      BY Target
    <2>2. UNCHANGED workers \/ (target # None /\ Set(target, Closed(It)))
      BY DEF Interrupt
    <2> QED
      BY <2>1, <2>2, SamePlaces DEF Places
  <1>5. CASE closing
    <2>1. at' = "ended" /\ UNCHANGED <<queue, closing>>
      BY <1>5 DEF Interrupt, Proceed
    <2>2. \A w \in Places : Settled(workers[w]) => Settled(workers'[w])
      BY <1>1 DEF Onwards, Ages
    <2>3. ~cut' => \A c \in Cells : sessions[c] # None => Settled(workers[sessions[c]])
      <3>1. queue = <<>> => 1..Len(queue) = {}
        OBVIOUS
      <3>2. ~cut => \A c \in Cells :
                sessions[c] # None => \/ Settled(workers[sessions[c]]) \/ sessions[c] = target
                                     \/ \E i \in 1..Len(queue) : queue[i] = sessions[c]
        BY <1>2, <1>5 DEF Inv, Left
      <3> QED
        BY <1>3, <1>5, <3>1, <3>2
    <2>4. ~cut' => \A w \in Places : Settled(workers'[w])
      BY <1>2, <1>3, <1>5, <2>2, <2>3, Books, NoPlace
    <2>5. NobodyLeftBehind'
      BY <1>4, <2>4, Behind
    <2> QED
      BY <1>1, <1>2, <1>5, <2>1, <2>4, <2>5, Books DEF Left
  <1>6. CASE ~closing
    BY <1>1, <1>2, <1>3, <1>4, <1>6, LeftLeaves DEF Interrupt
  <1> QED
    BY <1>5, <1>6

LEMMA LeftStep == Inv /\ [Next]_vars => Left'
  <1> SUFFICES ASSUME Inv, [Next]_vars PROVE Left'
    OBVIOUS
  <1>1. Onwards /\ plan' = plan /\ Cells' = Cells
    BY WorkersStep, PlanStays
  <1>2. at \in Away => target \in Places /\ It \in Children
    BY Aways
  <1>3. CASE Open \/ Start \/ Request \/ Close \/ AfterBlock \/ Interrupt
    BY <1>3, LeftOpen, LeftStart, LeftRequest, LeftClose, LeftAfterBlock, LeftInterrupt
  <1>4. CASE PassOver
    BY <1>1, <1>4, LeftKept DEF PassOver, Places
  <1>5. CASE Send
    <2>1. Places' = Places
      BY <1>2, <1>5, SamePlaces DEF Send, Away, Places
    <2>2. /\ at' \in {"exchange", "kill"} /\ (at' = "exchange" => closed' = closed) /\ closed \subseteq closed'
          /\ closed' \subseteq closed \cup {target}
      BY <1>5 DEF Send, Fail, Proceed
    <2> QED
      BY <1>1, <1>5, <2>1, <2>2, LeftKept DEF Send, Exchanging
  <1>6. CASE Receive
    <2>1. Places' = Places /\ at = "exchange" /\ UNCHANGED <<cut, sessions, queue, closing>>
      BY <1>2, <1>6, SamePlaces DEF Receive, Away
    <2>2. CASE plan.reused /\ Accept /\ UNCHANGED closed
      BY <1>1, <2>1, <2>2, LeftAccept
    <2>3. CASE Fail /\ UNCHANGED target
      BY <1>1, <2>1, <2>3, LeftKept DEF Fail, Proceed
    <2>4. CASE UNCHANGED <<at, closed, target>>
      BY <1>1, <2>1, <2>4, LeftKept
    <2> QED
      BY <1>6, <2>2, <2>3, <2>4 DEF Receive
  <1>7. CASE EndOfOutput
    BY <1>1, <1>7, LeftKept DEF EndOfOutput, Exchanging, Fail, Proceed, Places
  <1>8. CASE Reap
    <2>1. Places' = Places /\ at = "reap" /\ UNCHANGED <<cut, sessions, queue, closing>>
      BY <1>2, <1>8, SamePlaces DEF Reap, Away
    <2>2. CASE Accept /\ UNCHANGED closed
      <3>1. workers'[target] = Reaped(It) /\ It.life # "up"
        BY <1>2, <1>8 DEF Reap, Away, Set, Places, Inv, Types
      <3>2. Settled(workers'[target])
        BY <1>2, <2>1, <3>1, ChildFields DEF Settled, Away
      <3> QED
        BY <1>1, <2>1, <2>2, <3>2, LeftAccept
    <2>3. CASE Fail /\ UNCHANGED target
      BY <1>1, <2>1, <2>3, LeftKept DEF Fail, Proceed
    <2> QED
      BY <1>8, <2>2, <2>3 DEF Reap
  <1>9. CASE Deadline
    BY <1>1, <1>9, LeftKept DEF Deadline, Exchanging, Fail, Proceed, Places
  <1>10. CASE Kill
    <2>1. target \in Places /\ It \in Children /\ Places' = Places
      BY <1>2, <1>10, SamePlaces DEF Kill, Away
    <2>2. workers'[target] = IF It.life = "up" THEN [It EXCEPT !.killed = TRUE] ELSE Reaped(It)
      BY <1>10, <2>1 DEF Kill, Set, Places, Inv, Types
    <2>3. Settled(workers'[target])
      <3>1. [It EXCEPT !.killed = TRUE].killed = TRUE
        BY <2>1 DEF Children
      <3> QED
        BY <2>1, <2>2, <3>1, ChildFields DEF Settled
    <2> QED
      BY <1>1, <1>10, <2>1, <2>3, LeftKept DEF Kill, Ending, Proceed
  <1>11. CASE Wait
    <2>1. target \in Places /\ Settled(It) /\ at \in Away /\ UNCHANGED <<progress, cut, sessions, closed>>
      BY <1>2, <1>11 DEF Wait, Away, Inv, Left, Ending
    <2>2. CASE at' = "kill_again" /\ UNCHANGED <<workers, target, queue, closing>>
      <3>1. Settled(workers'[target])
        BY <2>1, <2>2 DEF It
      <3> QED
        BY <1>1, <2>1, <2>2, <3>1, LeftKept DEF Places, Away
    <2>3. CASE Over(Reaped(It))
      BY <2>1, <2>3, OverLeft
    <2> QED
      BY <1>11, <2>2, <2>3 DEF Wait, Proceed
  <1>12. CASE Linger
    <2>1. at \in Away /\ at \in {"linger", "linger_again"} /\ UNCHANGED <<progress, cut, sessions, closed>>
      BY <1>12 DEF Linger, Away, Ending
    <2>2. CASE It.life # "up" /\ Over(Reaped(It))
      BY <2>1, <2>2, OverLeft
    <2>3. CASE /\ at' \in {"linger_again", "kill"} /\ UNCHANGED <<target, queue, closing>>
               /\ UNCHANGED workers \/ Set(target, [It EXCEPT !.terminated = TRUE])
      <3>1. Places' = Places
        BY <1>2, <2>1, <2>3, SamePlaces DEF Places
      <3> QED
        BY <1>1, <2>1, <2>3, <3>1, LeftKept
    <2> QED
      BY <1>12, <2>2, <2>3 DEF Linger, Proceed
  <1>13. CASE EndBlock
    <2>1. ~closing /\ target = None
      BY <1>13 DEF EndBlock, Inv, Where, Away
    <2> QED
      BY <1>1, <1>13, <2>1, NoneAges, LeftLeaves DEF EndBlock
  <1>14. CASE Exit \/ Crash
    BY <1>1, <1>14 DEF Exit, Crash, Gone, Proceed, Left, NobodyLeftBehind
  <1>15. ASSUME NEW w \in 1..Len(workers), Work(w) \/ Hangs(w) \/ Dies(w)
         PROVE  Left'
    <2>1. UNCHANGED Childs
      BY <1>15 DEF Work, Reads, Works, Writes, Hangs, Dies
    <2>2. Places' = Places
      <3>1. \E d : Set(w, d)
        <4>1. CASE Reads(w)
          BY <4>1 DEF Reads
        <4>2. CASE Works(w)
          BY <4>2 DEF Works
        <4>3. CASE Writes(w)
          BY <4>3 DEF Writes
        <4>4. CASE Hangs(w) \/ Dies(w)
          BY <4>4 DEF Hangs, Dies
        <4> QED
          BY <1>15, <4>1, <4>2, <4>3, <4>4 DEF Work
      <3>2. w \in Places
        BY DEF Places
      <3> QED
        BY <3>1, <3>2, SamePlaces
    <2>3. at' \in {"wait", "kill_again", "wait_again"} => target \in Places /\ Settled(workers'[target])
      BY <1>1, <1>2, <2>1 DEF Childs, Away, Inv, Left, It, Onwards, Ages
    <2> QED
      BY <1>1, <2>1, <2>2, <2>3, LeftKept DEF Childs
  <1>16. CASE UNCHANGED vars
    <2>1. at' \in {"wait", "kill_again", "wait_again"} => target \in Places /\ Settled(workers'[target])
      BY <1>2, <1>16 DEF vars, Away, Inv, Left, It
    <2> QED
      BY <1>1, <1>16, <2>1, LeftKept DEF vars, Places
  <1> QED
    BY <1>3, <1>4, <1>5, <1>6, <1>7, <1>8, <1>9, <1>10, <1>11, <1>12, <1>13, <1>14, <1>15, <1>16
       DEF Next, Runner

-----------------------------------------------------------------------------
(* Request and answer *)

LEMMA Parts ==
    /\ RequestParts \in Nat \ {0} /\ AnswerParts \in Nat \ {0} /\ Capacity \in Nat \ {0}
  BY PartsAssumption

\* What a child does by itself keeps a session idle, and an exchange consistent.
LEMMA ChildSteps ==
    ASSUME Inv, NEW w \in Places, Work(w) \/ Hangs(w) \/ Dies(w)
    PROVE  /\ Places' = Places /\ \A v \in Places : v # w => workers'[v] = workers[v]
           /\ workers'[w].life = "up" =>
                /\ workers[w].life = "up" /\ workers'[w].inOpen = workers[w].inOpen
                /\ Idle(workers[w]) => Idle(workers'[w])
                /\ plan.reused /\ Midway(workers[w]) => Midway(workers'[w])
  <1> DEFINE c == workers[w]
             Good(d) == d.life = "up" => /\ c.life = "up" /\ d.inOpen = c.inOpen
                                         /\ Idle(c) => Idle(d)
                                         /\ plan.reused /\ Midway(c) => Midway(d)
  <1>1. c \in Children /\ sent \in Int /\ received \in Int
    BY Books DEF Inv, Types
  <1>2. ASSUME NEW d, Set(w, d), Good(d)
        PROVE  /\ Places' = Places /\ \A v \in Places : v # w => workers'[v] = workers[v]
               /\ Good(workers'[w])
    <2>1. workers'[w] = d /\ \A v \in Places : v # w => workers'[v] = workers[v]
      BY <1>2 DEF Set, Places, Inv, Types
    <2> HIDE DEF Good
    <2> QED
      BY <1>2, <2>1, SamePlaces
  <1>3. CASE Reads(w)
    <2>1. CASE c.input > 0
      <3> DEFINE g == IF plan.reused /\ c.got + 1 = RequestParts THEN "work" ELSE "read"
                 d == [c EXCEPT !.input = @ - 1, !.got = @ + 1, !.doing = g]
      <3>1. c.doing = "read" /\ c.life = "up"
        BY <1>3 DEF Reads, Runs, Alive
      <3>2. Set(w, d)
        BY <1>3, <2>1, <3>1 DEF Reads
      <3> HIDE DEF g
      <3>3. /\ d.inOpen = c.inOpen /\ d.doing = g /\ d.input = c.input - 1 /\ d.got = c.got + 1
            /\ d.output = c.output
        BY <1>1 DEF Children
      <3>4. c.input \in Int /\ c.got \in Int /\ c.output \in Int
        BY <1>1 DEF Children
      <3> HIDE DEF c, d
      <3>5. ~Idle(c)
        BY <2>1 DEF Idle
      <3>6. plan.reused /\ Midway(c) => Midway(d)
        BY <1>1, <2>1, <3>1, <3>3, <3>4, Parts DEF Midway, g
      <3>7. Good(d)
        BY <3>1, <3>3, <3>5, <3>6
      <3> QED
        BY <1>2, <3>2, <3>7 DEF c
    <2>2. CASE ~(c.input > 0)
      <3>1. ~c.inOpen /\ c.life = "up"
        BY <1>3, <2>2 DEF Reads, Runs, Alive
      <3>2. Set(w, [c EXCEPT !.life = "zombie"]) \/ Set(w, [c EXCEPT !.doing = "work"])
        BY <1>3, <2>2 DEF Reads
      <3>3. Good([c EXCEPT !.life = "zombie"]) /\ Good([c EXCEPT !.doing = "work"])
        BY <1>1, <3>1 DEF Idle, Midway, Children
      <3> HIDE DEF Good, c
      <3> QED
        BY <1>2, <3>2, <3>3 DEF Good, c
    <2> QED
      BY <2>1, <2>2
  <1>4. CASE Works(w)
    <2>1. PICK ok \in BOOLEAN : Set(w, [c EXCEPT !.doing = "write", !.got = 0, !.rest = AnswerParts, !.ok = ok])
      BY <1>4 DEF Works
    <2> DEFINE d == [c EXCEPT !.doing = "write", !.got = 0, !.rest = AnswerParts, !.ok = ok]
    <2>2. c.doing = "work" /\ c.life = "up"
      BY <1>4 DEF Works, Runs, Alive
    <2>3. /\ d.inOpen = c.inOpen /\ d.doing = "write" /\ d.input = c.input /\ d.got = 0
          /\ d.output = c.output /\ d.rest = AnswerParts
      BY <1>1 DEF Children
    <2>4. Set(w, d)
      BY <2>1
    <2> HIDE DEF c, d
    <2>5. Good(d)
      BY <1>1, <2>2, <2>3, Parts DEF Idle, Midway
    <2> QED
      BY <1>2, <2>4, <2>5 DEF c
  <1>5. CASE Writes(w)
    <2> DEFINE e == [c EXCEPT !.output = @ + 1, !.rest = @ - 1]
    <2>1. c.doing = "write" /\ c.life = "up"
      BY <1>5 DEF Writes, Runs, Alive
    <2>2. c.output \in Int /\ c.rest \in Int
      BY <1>1 DEF Children
    <2>3. /\ e.inOpen = c.inOpen /\ e.doing = "write" /\ e.input = c.input /\ e.got = c.got
          /\ e.output = c.output + 1 /\ e.rest = c.rest - 1 /\ e \in Children
      <3>1. c.output + 1 \in Int /\ c.rest - 1 \in Int
        BY <2>2
      <3> QED
        BY <1>1, <2>1, <3>1 DEF Children
    <2>4. \/ Set(w, [c EXCEPT !.life = "zombie", !.code = 1])
          \/ e.rest > 0 /\ Set(w, e)
          \/ ~(e.rest > 0) /\ plan.reused /\ Set(w, [e EXCEPT !.doing = "read"])
          \/ Set(w, [e EXCEPT !.life = "zombie"])
      BY <1>5 DEF Writes
    <2>5. Good([c EXCEPT !.life = "zombie", !.code = 1])
      BY <1>1 DEF Children
    <2> HIDE DEF e
    <2>6. Good([e EXCEPT !.life = "zombie"])
      BY <2>3 DEF Children
    <2>7. ~Idle(c)
      BY <2>1 DEF Idle
    <2>8. e.rest > 0 => Good(e)
      <3> HIDE DEF c
      <3>1. e.rest > 0 /\ Midway(c) => Midway(e)
        BY <1>1, <2>1, <2>2, <2>3, Parts DEF Midway
      <3> QED
        BY <2>1, <2>3, <2>7, <3>1
    <2>9. ~(e.rest > 0) => Good([e EXCEPT !.doing = "read"])
      <3> DEFINE d == [e EXCEPT !.doing = "read"]
      <3>1. /\ d.inOpen = c.inOpen /\ d.doing = "read" /\ d.input = c.input /\ d.got = c.got
            /\ d.output = c.output + 1
        BY <2>3 DEF Children
      <3> HIDE DEF c, d
      <3>2. ~(e.rest > 0) /\ Midway(c) => Midway(d)
        BY <1>1, <2>1, <2>2, <2>3, <3>1, Parts DEF Midway
      <3>3. ~(e.rest > 0) => Good(d)
        BY <2>1, <2>7, <3>1, <3>2
      <3> QED
        BY <3>3 DEF d
    <2> HIDE DEF Good, c
    <2> QED
      BY <1>2, <2>4, <2>5, <2>6, <2>8, <2>9 DEF Good, c
  <1>6. CASE Hangs(w)
    <2> DEFINE d == [c EXCEPT !.well = FALSE]
    <2>1. Set(w, d) /\ c.life = "up"
      BY <1>6 DEF Hangs, Runs, Alive
    <2>2. /\ d.inOpen = c.inOpen /\ d.doing = c.doing /\ d.input = c.input /\ d.got = c.got
          /\ d.output = c.output /\ d.rest = c.rest
      BY <1>1 DEF Children
    <2> HIDE DEF c, d
    <2>3. Good(d)
      BY <2>1, <2>2 DEF Idle, Midway
    <2> QED
      BY <1>2, <2>1, <2>3 DEF c
  <1>7. CASE Dies(w)
    <2>1. Set(w, [c EXCEPT !.life = "zombie", !.code = 1])
      BY <1>7 DEF Dies
    <2>2. Good([c EXCEPT !.life = "zombie", !.code = 1])
      BY <1>1 DEF Children
    <2> HIDE DEF Good, c
    <2> QED
      BY <1>2, <2>1, <2>2 DEF Good, c
  <1> QED
    BY <1>3, <1>4, <1>5, <1>6, <1>7 DEF Work

\* The runner deals with its target, the other sessions stay idle.
LEMMA BusyTarget ==
    ASSUME Inv, Onwards, plan' = plan, Cells' = Cells, target \in Places, UNCHANGED sessions,
           at = "exchange", at' \in {"next", "exchange"},
           \A v \in Places : v # target => workers'[v] = workers[v],
           at' = "exchange" => target' = target, at' = "next" => target' = None,
           workers'[target].life = "up" /\ at' = "exchange" =>
                IF plan.reused THEN Midway(workers[target])' ELSE (workers'[target].inOpen <=> sent' < RequestParts),
           workers'[target].life = "up" /\ at' = "next" /\ plan.reused => Idle(workers'[target])
    PROVE  Busy'
  <1>1. plan.reused' = plan.reused
    OBVIOUS
  <1>2. ASSUME plan.reused, NEW c \in Cells, sessions[c] # None, sessions[c] # target',
               workers'[sessions[c]].life = "up"
        PROVE  Idle(workers'[sessions[c]])
    <2>1. sessions[c] \in Places
      BY <1>2, Books
    <2>2. CASE sessions[c] = target
      BY <1>2, <2>2
    <2>3. CASE sessions[c] # target
      <3>1. workers'[sessions[c]] = workers[sessions[c]]
        BY <2>1, <2>3
      <3> QED
        BY <1>2, <2>3, <3>1 DEF Inv, Busy
    <2> QED
      BY <2>2, <2>3
  <1>3. at' = "exchange" => It' = workers'[target]
    BY DEF It
  <1>4. plan.reused /\ at' = "exchange" /\ It'.life = "up" => Midway(It)'
    BY <1>3 DEF Midway
  <1> QED
    BY <1>1, <1>2, <1>3, <1>4 DEF Busy

LEMMA BusyOpen == Inv /\ [Next]_vars /\ Open => Busy'
  <1> SUFFICES ASSUME Inv, [Next]_vars, Open PROVE Busy'
    OBVIOUS
  <1>1. plan' = plan /\ Cells' = Cells /\ plan \in Plans
    BY PlanStays
  <1>2. at = "next" /\ plan.reused /\ target' = target /\ target = None
    BY DEF Open, Inv, Where, Away
  <1>3. CASE /\ Spawn /\ UNCHANGED <<at, queue, closing, unwinding>>
             /\ \E i \in Missing : sessions' = [sessions EXCEPT ![CreationOrder[i]] = Len(workers) + 1]
    <2> DEFINE N == Len(workers) + 1
    <2>1. PICK i \in Missing : sessions' = [sessions EXCEPT ![CreationOrder[i]] = N]
      BY <1>3
    <2>2. PICK p \in Int : workers'[N] = Child(p) /\ \A v \in Places : workers'[v] = workers[v]
      BY <1>3, SpawnKeeps DEF Inv, Types
    <2>3. Idle(workers'[N])
      BY <2>2 DEF Child, Idle
    <2>4. sessions \in [Cells -> MaybePlaces]
      BY DEF Inv, Types
    <2> HIDE DEF N
    <2>5. \A c \in Cells : sessions'[c] = N \/ sessions'[c] = sessions[c]
      BY <2>1, <2>4
    <2>6. ASSUME NEW c \in Cells, sessions'[c] # None, workers'[sessions'[c]].life = "up"
          PROVE  Idle(workers'[sessions'[c]])
      <3>1. CASE sessions'[c] = N
        BY <2>3, <3>1
      <3>2. CASE sessions'[c] = sessions[c]
        <4>1. sessions[c] \in Places
          BY <2>6, <3>2, Books
        <4> QED
          BY <1>2, <2>2, <2>6, <3>2, <4>1 DEF Inv, Busy
      <3> QED
        BY <2>5, <3>1, <3>2
    <2> QED
      BY <1>1, <1>2, <1>3, <2>6 DEF Busy
  <1>4. CASE Leave
    BY <1>4 DEF Leave, Proceed, Busy
  <1> QED
    BY <1>3, <1>4 DEF Open

LEMMA BusySend == Inv /\ [Next]_vars /\ Send => Busy'
  <1> SUFFICES ASSUME Inv, [Next]_vars, Send PROVE Busy'
    OBVIOUS
  <1>1. Onwards /\ plan' = plan /\ Cells' = Cells /\ plan.reused \in BOOLEAN
    BY WorkersStep, PlanStays
  <1>2. /\ at = "exchange" /\ sent < RequestParts /\ target \in Places /\ It \in Children
        /\ UNCHANGED <<sessions, target>>
    BY Aways DEF Send, Away, Exchanging
  <1>3. CASE /\ It.life = "up" /\ sent' = sent + 1 /\ UNCHANGED <<at, received>>
             /\ Set(target, [It EXCEPT !.input = @ + 1, !.inOpen = plan.reused \/ sent + 1 < RequestParts])
    <2> DEFINE d == [It EXCEPT !.input = @ + 1, !.inOpen = plan.reused \/ sent + 1 < RequestParts]
    <2>1. workers'[target] = d /\ \A v \in Places : v # target => workers'[v] = workers[v]
      BY <1>2, <1>3 DEF Set, Places, Inv, Types
    <2>2. /\ d.input = It.input + 1 /\ d.got = It.got /\ d.doing = It.doing /\ d.output = It.output
          /\ d.rest = It.rest /\ (d.inOpen <=> plan.reused \/ sent + 1 < RequestParts)
      BY <1>2 DEF Children
    <2>3. It.input \in Int /\ It.got \in Int /\ sent \in Int /\ It.doing \in Doings
      BY <1>2 DEF Children, Inv, Types, Doings
    <2> HIDE DEF d
    <2>4. plan.reused => Midway(workers[target])'
      <3>1. plan.reused => Midway(It)
        BY <1>2, <1>3 DEF Inv, Busy
      <3> QED
        BY <1>2, <1>3, <2>1, <2>2, <2>3, <3>1, Parts DEF Midway
    <2>5. ~plan.reused => (workers'[target].inOpen <=> sent' < RequestParts)
      BY <1>3, <2>1, <2>2
    <2> QED
      BY <1>1, <1>2, <1>3, <2>1, <2>4, <2>5, BusyTarget
  <1>4. CASE at' = "kill"
    BY <1>4 DEF Busy
  <1> QED
    BY <1>3, <1>4 DEF Send, Fail, Proceed

LEMMA BusyReceive == Inv /\ [Next]_vars /\ Receive => Busy'
  <1> SUFFICES ASSUME Inv, [Next]_vars, Receive PROVE Busy'
    OBVIOUS
  <1>1. Onwards /\ plan' = plan /\ Cells' = Cells /\ plan.reused \in BOOLEAN
    BY WorkersStep, PlanStays
  <1>2. /\ at = "exchange" /\ It.output > 0 /\ target \in Places /\ It \in Children /\ UNCHANGED sessions
        /\ Set(target, [It EXCEPT !.output = @ - 1])
    BY Aways DEF Receive, Away
  <1> DEFINE d == [It EXCEPT !.output = @ - 1]
  <1>3. workers'[target] = d /\ \A v \in Places : v # target => workers'[v] = workers[v]
    BY <1>2 DEF Set, Places, Inv, Types
  <1>4. /\ d.input = It.input /\ d.got = It.got /\ d.doing = It.doing /\ d.output = It.output - 1
        /\ d.rest = It.rest /\ d.inOpen = It.inOpen /\ d.life = It.life
    BY <1>2 DEF Children
  <1>5. /\ It.input \in Int /\ It.got \in Int /\ sent \in Int /\ It.doing \in Doings
        /\ It.output \in Int /\ It.rest \in Int /\ received \in Int
    BY <1>2 DEF Children, Inv, Types, Doings
  <1>6. It.life = "up" => IF plan.reused THEN Midway(It) ELSE (It.inOpen <=> sent < RequestParts)
    BY <1>2 DEF Inv, Busy
  <1> HIDE DEF d
  <1>7. CASE plan.reused /\ received + 1 = AnswerParts /\ Accept
    <2>1. at' = "next" /\ target' = None
      BY <1>7 DEF Accept, Proceed
    <2>2. d.life = "up" => Idle(d)
      BY <1>2, <1>4, <1>5, <1>6, <1>7, Parts DEF Midway, Idle, Doings
    <2> QED
      BY <1>1, <1>2, <1>3, <2>1, <2>2, BusyTarget
  <1>8. CASE at' = "kill"
    BY <1>8 DEF Busy
  <1>9. CASE /\ ~(plan.reused /\ received + 1 = AnswerParts) /\ received' = received + 1
             /\ UNCHANGED <<at, target, sent>>
    <2>1. d.life = "up" /\ plan.reused => Midway(workers[target])'
      BY <1>2, <1>3, <1>4, <1>5, <1>6, <1>9, Parts DEF Midway, Doings
    <2> QED
      BY <1>1, <1>2, <1>3, <1>4, <1>6, <1>9, <2>1, BusyTarget
  <1> QED
    BY <1>7, <1>8, <1>9 DEF Receive, Fail, Proceed

LEMMA BusyBegins == Inv /\ [Next]_vars /\ (Request \/ Start) => Busy'
  <1> SUFFICES ASSUME Inv, [Next]_vars, Request \/ Start PROVE Busy'
    OBVIOUS
  <1>1. plan' = plan /\ Cells' = Cells /\ plan.reused \in BOOLEAN
    BY PlanStays
  <1>2. at = "next" /\ sent = 0 /\ received = 0 /\ target = None /\ UNCHANGED <<sessions, sent, received>>
    BY DEF Request, Start, Ready, Inv, Where, Away
  <1>3. CASE at' \in {"kill", "finally"}
    BY <1>3 DEF Busy
  <1>4. CASE Request /\ at' = "exchange"
    <2>1. plan.reused /\ target' = sessions[Label] /\ UNCHANGED workers
      BY <1>4 DEF Request, Proceed
    <2>2. Label \in Cells /\ sessions[Label] \in Places /\ sessions[Label] # None
      BY <1>4, SessionOfLabel, NoPlace DEF Request
    <2>3. It' = workers[sessions[Label]]
      BY <2>1 DEF It
    <2> DEFINE c == workers[sessions[Label]]
    <2>4. c.life = "up" => Idle(c)
      BY <1>2, <2>1, <2>2 DEF Inv, Busy
    <2> HIDE DEF c
    <2>5. c.life = "up" => Midway(c)
      BY <1>2, <2>4, Parts DEF Idle, Midway
    <2>6. It'.life = "up" => Midway(It)'
      BY <1>2, <2>3, <2>5 DEF Midway, c
    <2>7. \A x \in Cells : sessions[x] # None /\ workers[sessions[x]].life = "up" => Idle(workers[sessions[x]])
      BY <1>2, <2>1 DEF Inv, Busy
    <2> QED
      BY <1>1, <1>2, <1>4, <2>1, <2>6, <2>7 DEF Busy
  <1>5. CASE Start /\ at' = "exchange"
    <2>1. ~plan.reused /\ Spawn /\ target' = Len(workers) + 1
      BY <1>5 DEF Start, Leave, Proceed, Ready
    <2>2. \E p \in Int : It' = Child(p)
      BY <2>1, SpawnKeeps DEF Inv, Types, It
    <2>3. It'.inOpen
      BY <2>2 DEF Child
    <2> QED
      BY <1>1, <1>2, <1>5, <2>1, <2>3, Parts DEF Busy
  <1> QED
    BY <1>3, <1>4, <1>5 DEF Request, Start, Leave, Proceed

LEMMA BusyStep == Inv /\ [Next]_vars => Busy'
  <1> SUFFICES ASSUME Inv, [Next]_vars PROVE Busy'
    OBVIOUS
  <1>1. Onwards /\ plan' = plan /\ Cells' = Cells /\ plan.reused \in BOOLEAN
    BY WorkersStep, PlanStays
  <1>2. CASE at' \notin {"next", "exchange", "reap"}
    BY <1>2 DEF Busy
  <1>3. CASE Open \/ Send \/ Receive \/ Request \/ Start
    BY <1>3, BusyOpen, BusySend, BusyReceive, BusyBegins
  <1>4. CASE PassOver \/ UNCHANGED vars
    <2>1. UNCHANGED <<at, sessions, target, workers, sent, received>>
      BY <1>4 DEF PassOver, vars
    <2>2. It' = It
      BY <2>1 DEF It
    <2> QED
      BY <1>1, <2>1, <2>2 DEF Inv, Busy, Midway
  <1>5. CASE EndOfOutput /\ at' \in {"next", "exchange", "reap"}
    <2>1. ~plan.reused /\ at' = "reap" /\ It.life # "up" /\ UNCHANGED <<workers, target>>
      BY <1>5 DEF EndOfOutput, Fail, Proceed, Exchanging
    <2>2. It' = It
      BY <2>1 DEF It
    <2> QED
      BY <1>1, <2>1, <2>2 DEF Busy
  <1>6. CASE Reap /\ at' \in {"next", "exchange", "reap"}
    <2>1. ~plan.reused /\ at' = "next"
      BY <1>1, <1>6 DEF Reap, Accept, Fail, Proceed, Inv, Where
    <2> QED
      BY <1>1, <2>1 DEF Busy
  <1>7. CASE AfterBlock /\ at' \in {"next", "exchange", "reap"}
    <2>1. at' = "next" /\ sessions' = [c \in Cells |-> None]
      BY <1>1, <1>7 DEF AfterBlock, Proceed, NextBlock, Cells
    <2> QED
      BY <1>1, <2>1 DEF Busy
  <1>8. ASSUME NEW w \in Places, Work(w) \/ Hangs(w) \/ Dies(w)
        PROVE  Busy'
    <2>1. UNCHANGED <<at, sessions, target, sent, received>>
      BY <1>8 DEF Work, Reads, Works, Writes, Hangs, Dies, Childs
    <2>2. /\ Places' = Places /\ \A v \in Places : v # w => workers'[v] = workers[v]
          /\ workers'[w].life = "up" =>
                /\ workers[w].life = "up" /\ workers'[w].inOpen = workers[w].inOpen
                /\ Idle(workers[w]) => Idle(workers'[w])
                /\ plan.reused /\ Midway(workers[w]) => Midway(workers'[w])
      BY <1>8, ChildSteps
    <2>3. \A c \in Cells : sessions[c] = None \/ sessions[c] \in Places
      BY Books
    <2>4. at = "exchange" \/ at = "reap" => target \in Places
      BY Aways DEF Away
    <2>5. ASSUME plan.reused, at \in {"next", "exchange"}, NEW c \in Cells, sessions[c] # None,
                 sessions[c] # target, workers'[sessions[c]].life = "up"
          PROVE  Idle(workers'[sessions[c]])
      <3>1. workers[sessions[c]].life = "up" => Idle(workers[sessions[c]])
        BY <2>5 DEF Inv, Busy
      <3> QED
        BY <2>2, <2>3, <2>5, <3>1
    <2>6. ASSUME plan.reused, at = "exchange", workers'[target].life = "up"
          PROVE  Midway(workers'[target])
      <3>1. workers[target].life = "up" => Midway(workers[target])
        BY <2>6 DEF Inv, Busy, It
      <3> QED
        BY <2>2, <2>4, <2>6, <3>1
    <2>7. ASSUME ~plan.reused, at = "exchange", workers'[target].life = "up"
          PROVE  workers'[target].inOpen <=> sent < RequestParts
      <3>1. workers[target].life = "up" => (workers[target].inOpen <=> sent < RequestParts)
        BY <2>7 DEF Inv, Busy, It
      <3> QED
        BY <2>2, <2>4, <2>7, <3>1
    <2>8. at = "reap" => workers'[target].life # "up"
      <3>1. at = "reap" => workers[target].life # "up"
        BY DEF Inv, Busy, It
      <3> QED
        BY <2>2, <2>4, <3>1
    <2>9. It' = workers'[target]
      BY <2>1 DEF It
    <2>10. plan.reused /\ at' = "exchange" /\ It'.life = "up" => Midway(It)'
      BY <2>1, <2>6, <2>9 DEF Midway
    <2> QED
      BY <1>1, <2>1, <2>5, <2>7, <2>8, <2>9, <2>10 DEF Busy
  <1>9. CASE Kill \/ Wait \/ Linger \/ Close \/ EndBlock \/ Deadline \/ Interrupt \/ Exit \/ Crash
    <2>1. CASE Kill \/ Wait
      BY <2>1 DEF Kill, Wait, Over, Leave, Proceed, Busy
    <2>2. CASE Linger
      BY <2>2 DEF Linger, Over, Leave, Proceed, Busy
    <2>3. CASE Close
      BY <2>3 DEF Close, Proceed, Busy
    <2>4. CASE EndBlock \/ Deadline \/ Interrupt
      BY <2>4 DEF EndBlock, Deadline, Fail, Interrupt, Leave, Proceed, Busy
    <2>5. CASE Exit \/ Crash
      BY <2>5 DEF Exit, Crash, Gone, Proceed, Busy
    <2> QED
      BY <1>9, <2>1, <2>2, <2>3, <2>4, <2>5
  <1> QED
    BY <1>2, <1>3, <1>4, <1>5, <1>6, <1>7, <1>8, <1>9 DEF Next, Runner, Places

-----------------------------------------------------------------------------
(* The theorems *)

LEMMA InitInv == Init => Inv
  <1> SUFFICES ASSUME Init PROVE Inv
    OBVIOUS
  <1>1. ScheduleInv
    BY ScheduleInitInv DEF Init
  <1>2. plan \in Plans /\ plan.reused \in BOOLEAN /\ plan.twins \in BOOLEAN
    BY <1>1, PlanTypes DEF ScheduleInv, ScheduleTypes
  <1>3. /\ column = 1 /\ closed = {} /\ at = "next" /\ target = None /\ sent = 0 /\ received = 0
        /\ queue = <<>> /\ closing = FALSE /\ unwinding = FALSE /\ workers = <<>> /\ cut = FALSE
        /\ sessions = [c \in Cells |-> None]
    BY DEF Init
  <1>4. Types
    <2>1. workers \in Seq(Children) /\ queue \in Seq(Places) /\ column \in 1..RowLength
      BY <1>3 DEF RowLength
    <2>2. sessions \in [Cells -> MaybePlaces] /\ target \in MaybePlaces
      BY <1>3 DEF MaybePlaces
    <2>3. closed \subseteq Places /\ sent \in Int /\ received \in Int
      BY <1>3
    <2>4. closing \in BOOLEAN /\ unwinding \in BOOLEAN /\ cut \in BOOLEAN
      BY <1>3
    <2> QED
      BY <2>1, <2>2, <2>3, <2>4 DEF Types
  <1>5. <<"control", 0>> \in Cells
    BY DEF Cells, Twins, Paths, ValuePaths
  <1>6. Where
    BY <1>2, <1>3, <1>5 DEF Where, Stations, Away
  <1>7. Left
    BY <1>3 DEF Left, NobodyLeftBehind
  <1>8. Busy
    BY <1>3 DEF Busy
  <1> QED
    BY <1>1, <1>4, <1>6, <1>7, <1>8 DEF Inv

\* The runner's books, its workers and what is in their pipes agree, whatever children, faults,
\* interrupts and plans: the types and the invariant behind the three theorems below.
THEOREM WorkersInvariant == Spec => []Inv
  <1>1. Init => Inv
    BY InitInv
  <1>2. Inv /\ [Next]_vars => Inv'
    <2> SUFFICES ASSUME Inv, [Next]_vars PROVE Inv'
      OBVIOUS
    <2>1. ScheduleInv'
      BY ScheduleStep, ScheduleSteps DEF Inv
    <2> QED
      BY <2>1, TypesStep, WhereStep, LeftStep, BusyStep DEF Inv
  <1> QED
    BY <1>1, <1>2, PTL DEF Spec

\* The twins' rounds have one centre of gravity in the measurements themselves too, with workers
\* that hang, die or answer late: a failure ends a schedule, and never bends it.
THEOREM MeasuredAlike == Spec => []TwinsDriftAlike
  <1>1. Inv => TwinsDriftAlike
    BY BalancedAlike DEF Inv
  <1> QED
    BY <1>1, WorkersInvariant, PTL

\* A failure ends a schedule of value paths too, and never bends it: what was measured of whole
\* patterns is balanced, and a complete schedule as a whole.
THEOREM PathsMeasuredAlike == Spec => []PathsAreBalanced
  <1>1. Init => Inv /\ BalanceInv
    BY InitInv, InitBalance DEF Init
  <1>2. Inv /\ BalanceInv /\ [Next]_vars => BalanceInv'
    BY StepBalance, ScheduleSteps DEF Inv
  <1>3. Inv /\ BalanceInv => PathsAreBalanced
    BY BalanceHolds DEF Inv
  <1> QED
    BY <1>1, <1>2, <1>3, WorkersInvariant, PTL DEF Spec

\* _kill_and_reap, _WorkerSession.close and the finally clauses around them leave no worker
\* behind that was neither reaped nor sent a SIGKILL, unless an interrupt cut a cleanup.
THEOREM NobodyIsLeftBehind == Spec => []NobodyLeftBehind
  <1>1. Inv => NobodyLeftBehind
    BY DEF Inv, Left
  <1> QED
    BY <1>1, WorkersInvariant, PTL

\* Request and answer pass through pipes of any capacity without a state in which the runner and
\* a healthy child wait for each other.
THEOREM ExchangeNeverStalls == Spec => []NeverStalls
  <1>1. ASSUME Inv
        PROVE  NeverStalls
    <2> SUFFICES ASSUME at \in {"exchange", "reap"}, It.life = "up"
                 PROVE  (sent < RequestParts /\ It.input < Capacity) \/ It.output > 0 \/ Moves(It)
      BY DEF NeverStalls
    <2>1. target \in Places /\ It \in Children /\ plan.reused \in BOOLEAN
      BY <1>1, Aways, PlanTypes DEF Away, Inv, ScheduleInv, ScheduleTypes
    <2>2. /\ It.input \in Int /\ It.output \in Int /\ It.got \in Int /\ It.doing \in Doings
          /\ It.inOpen \in BOOLEAN
      BY <2>1 DEF Children, Doings
    <2>3. at = "exchange"
      BY <1>1 DEF Inv, Busy
    <2>4. CASE It.doing = "read" /\ It.inOpen /\ ~(It.input > 0)
      <3>1. sent < RequestParts \/ It.output > 0
        <4>1. CASE plan.reused
          <5>1. Midway(It)
            BY <1>1, <2>3, <4>1 DEF Inv, Busy
          <5>2. sent \in Int
            BY <1>1 DEF Inv, Types
          <5> QED
            BY <2>2, <2>4, <5>1, <5>2, Parts DEF Midway
        <4>2. CASE ~plan.reused
          BY <1>1, <2>3, <2>4, <4>2 DEF Inv, Busy
        <4> QED
          BY <2>1, <4>1, <4>2
      <3> QED
        BY <2>2, <2>4, <3>1, Parts
    <2>5. CASE It.doing = "read" /\ (It.input > 0 \/ ~It.inOpen)
      BY <2>5 DEF Moves
    <2>6. CASE It.doing # "read"
      BY <2>2, <2>6, Parts DEF Moves, Doings
    <2> QED
      BY <2>2, <2>4, <2>5, <2>6
  <1> QED
    BY <1>1, WorkersInvariant, PTL

-----------------------------------------------------------------------------
(* What the runner enters in its audit, and the verdict on it *)

Observations == [cell : Cells, worker : Places, block : BlocksOf]
Entries == 1..Len(audit)
Number(i) == workers[audit[i].worker].pid
Has(c, b) == \E i \in Entries : audit[i].cell = c /\ audit[i].block = b

\* A round is under way or may begin.
Ongoing == block < plan.blocks /\ counts[Turn] < plan.samples

\* The numbers the system has given are the first ones, and of the workers not yet reaped no two
\* have the same.
Numbered ==
    /\ \E k \in Nat : {workers[w].pid : w \in Places} = 1..k
    /\ \A v, w \in Places :
         workers[v].pid = workers[w].pid /\ workers[v].life # "reaped" /\ workers[w].life # "reaped" => v = w

\* Where the runner stands in its schedule.
Underway ==
    /\ ~plan.twins => block = 0
    /\ plan.twins /\ (at \in {"exchange", "reap"} \/ column > 1) => Ongoing
    /\ plan.twins /\ at = "ended" /\ ~unwinding => block = plan.blocks

\* The sessions of the block are distinct processes, none of them reaped while it measures.
Occupied ==
    plan.reused =>
        /\ at = "exchange" => target = sessions[Label]
        /\ \A c, d \in Cells :
             sessions[c] # None /\ sessions[d] # None /\ c # d =>
                workers[sessions[c]].pid # workers[sessions[d]].pid
        /\ at \in {"next", "exchange"} =>
             \A c \in Cells : sessions[c] # None => workers[sessions[c]].life # "reaped"

\* Each cell is measured by one session per block, or by a worker per observation.
Entered ==
    /\ audit \in Seq(Observations)
    /\ \A i \in Entries : audit[i].block <= block
    /\ plan.reused =>
        /\ \A i \in Entries :
             /\ audit[i].block = block => audit[i].worker = sessions[audit[i].cell]
             /\ audit[i].block # block => \A c \in Cells : sessions[c] # audit[i].worker
        /\ \A i, j \in Entries :
             /\ audit[i].worker = audit[j].worker
                  <=> audit[i].cell = audit[j].cell /\ audit[i].block = audit[j].block
             /\ audit[i].block = audit[j].block /\ audit[i].cell # audit[j].cell => Number(i) # Number(j)
    /\ ~plan.reused =>
        /\ \A i, j \in Entries : audit[i].worker = audit[j].worker => i = j
        /\ at \in {"exchange", "reap"} => \A i \in Entries : audit[i].worker # target

\* What has been measured of the finished blocks, of this one, and of the row under way.
Measured ==
    plan.twins =>
        /\ \A c \in Cells, b \in Nat : b < block => Has(c, b)
        /\ \A c \in Cells : counts[c[1]] > 0 => Has(c, block)
        /\ \A j \in 1..(column - 1) : Has(<<Turn, Line[j]>>, block)

AuditInv == Numbered /\ Underway /\ Occupied /\ Entered /\ Measured

\* Only a spawn adds a place.
LEMMA NewPlaces ==
    ASSUME Inv, [Next]_vars
    PROVE  Spawn \/ Places' = Places
  <1>1. Onwards /\ workers \in Seq(Children)
    BY WorkersStep DEF Inv, Types
  <1>2. workers' \in Seq(Children)
    BY <1>1 DEF Onwards
  <1>3. Spawn \/ DOMAIN workers' = DOMAIN workers
    <2>1. \A w, d : Set(w, d) => DOMAIN workers' = DOMAIN workers
      BY DEF Set
    <2>2. CASE Open \/ Request \/ Start \/ PassOver \/ EndBlock \/ AfterBlock \/ UNCHANGED vars
      BY <2>1, <2>2 DEF Open, Request, Start, PassOver, EndBlock, AfterBlock, vars
    <2>3. CASE Send \/ Receive \/ EndOfOutput \/ Reap \/ Deadline
      BY <2>1, <2>3 DEF Send, Receive, EndOfOutput, Reap, Deadline
    <2>4. CASE Kill \/ Wait \/ Close \/ Linger \/ Interrupt
      BY <2>1, <2>4 DEF Kill, Wait, Close, Linger, Over, Interrupt
    <2>5. CASE Exit \/ Crash
      <3>1. workers' = [w \in 1..Len(workers) |-> Closed(workers[w])]
        BY <2>5 DEF Exit, Crash, Gone
      <3> QED
        BY <1>1, <3>1
    <2>6. ASSUME NEW w \in 1..Len(workers), Work(w) \/ Hangs(w) \/ Dies(w)
          PROVE  DOMAIN workers' = DOMAIN workers
      BY <2>1, <2>6 DEF Work, Reads, Works, Writes, Hangs, Dies
    <2> QED
      BY <2>2, <2>3, <2>4, <2>5, <2>6 DEF Next, Runner
  <1> QED
    BY <1>1, <1>2, <1>3 DEF Places

\* A worker that comes has a number of no worker that is there.
LEMMA ComesNumbered ==
    ASSUME Inv, Numbered, Spawn
    PROVE  /\ Numbered' /\ Len(workers) + 1 \notin Places
           /\ Places' = Places \cup {Len(workers) + 1}
           /\ \A v \in Places : workers'[v] = workers[v]
           /\ workers'[Len(workers) + 1].life = "up"
           /\ \A v \in Places : workers[v].life # "reaped" =>
                workers'[Len(workers) + 1].pid # workers[v].pid
  <1> DEFINE N == Len(workers) + 1
             pids == {workers[w].pid : w \in Places}
  <1>1. workers \in Seq(Children)
    BY DEF Inv, Types
  <1>2. N \in Nat /\ N \notin Places
    BY <1>1 DEF Places
  <1>3. PICK k \in Nat : pids = 1..k
    BY DEF Numbered
  <1>4. NewPid = k + 1
    <2>1. Cardinality(1..k) = IF 1 > k THEN 0 ELSE k - 1 + 1
      BY FS_Interval
    <2>2. Cardinality(1..k) = k
      BY <2>1
    <2>3. {workers[w].pid : w \in 1..Len(workers)} = 1..k
      BY <1>3 DEF Places
    <2>4. NewPid = 1 + Cardinality(1..k)
      BY <2>3, Zenon DEF NewPid
    <2> QED
      BY <2>2, <2>4
  <1>5. PICK p : /\ workers' = Append(workers, Child(p))
                 /\ p = NewPid \/ p \in OldPids
    BY DEF Spawn
  <1>6. p \in Int /\ p \in pids \cup {k + 1} /\ \A v \in Places : workers[v].life # "reaped" => p # workers[v].pid
    <2>1. CASE p = NewPid
      BY <1>3, <1>4, <2>1
    <2>2. CASE p \in OldPids
      <3>1. p \in pids
        BY <2>2 DEF OldPids, Places
      <3>2. p \notin {workers[w].pid : w \in {x \in 1..Len(workers) : workers[x].life # "reaped"}}
        BY <2>2 DEF OldPids
      <3> QED
        BY <1>3, <3>1, <3>2 DEF Places
    <2> QED
      BY <1>5, <2>1, <2>2
  <1>7. Child(p) \in Children /\ Child(p).life = "up" /\ Child(p).pid = p
    BY <1>6, ChildTypes, ChildFields
  <1>8. /\ Places' = Places \cup {N} /\ workers'[N] = Child(p)
        /\ \A v \in Places : workers'[v] = workers[v]
    BY <1>1, <1>5, <1>7 DEF Places
  <1> HIDE DEF N
  <1>9. {workers'[w].pid : w \in Places'} = pids \cup {p}
    BY <1>7, <1>8, <1>2
  <1>10. \E m \in Nat : {workers'[w].pid : w \in Places'} = 1..m
    <2>1. CASE p \in pids
      BY <1>3, <1>9, <2>1
    <2>2. CASE p = k + 1
      <3>1. pids \cup {p} = 1..(k + 1) /\ k + 1 \in Nat
        BY <1>3, <2>2
      <3> QED
        BY <1>9, <3>1
    <2> QED
      BY <1>6, <2>1, <2>2
  <1>11. \A v, w \in Places' :
           workers'[v].pid = workers'[w].pid /\ workers'[v].life # "reaped" /\ workers'[w].life # "reaped"
             => v = w
    BY <1>6, <1>7, <1>8 DEF Numbered
  <1>12. Numbered'
    BY <1>10, <1>11 DEF Numbered
  <1> QED
    BY <1>2, <1>6, <1>7, <1>8, <1>12 DEF N

LEMMA NumberedStep == Inv /\ Numbered /\ [Next]_vars => Numbered'
  <1> SUFFICES ASSUME Inv, Numbered, [Next]_vars PROVE Numbered'
    OBVIOUS
  <1>1. CASE Spawn
    BY <1>1, ComesNumbered
  <1>2. CASE Places' = Places
    <2>1. \A v \in Places : /\ workers'[v].pid = workers[v].pid
                            /\ workers[v].life = "reaped" => workers'[v].life = "reaped"
      BY WorkersStep DEF Onwards, Ages
    <2>2. {workers'[w].pid : w \in Places'} = {workers[w].pid : w \in Places}
      BY <1>2, <2>1
    <2> QED
      BY <1>2, <2>1, <2>2 DEF Numbered
  <1> QED
    BY <1>1, <1>2, NewPlaces

\* While the runner measures, nobody is reaped.
LEMMA NoneReaped ==
    ASSUME Inv, [Next]_vars, plan.reused, at \in {"next", "exchange"}, at' \in {"next", "exchange"}
    PROVE  \A v \in Places : workers'[v].life = "reaped" => workers[v].life = "reaped"
  <1>1. \A v \in Places : workers[v] \in Children
    BY DEF Inv, Types, Places
  <1>2. ASSUME NEW w \in Places, NEW d, Set(w, d), d.life = "reaped" => workers[w].life = "reaped"
        PROVE  \A v \in Places : workers'[v].life = "reaped" => workers[v].life = "reaped"
    BY <1>2 DEF Set, Places, Inv, Types
  <1>3. ASSUME NEW w \in Places, Work(w) \/ Hangs(w) \/ Dies(w)
        PROVE  \E d : Set(w, d) /\ (d.life = "reaped" => workers[w].life = "reaped")
    <2> DEFINE c == workers[w]
    <2>1. c \in Children
      BY <1>1
    <2>6. ASSUME NEW d, Set(w, d), d.life \in {c.life, "zombie"}
          PROVE  \E e : Set(w, e) /\ (e.life = "reaped" => c.life = "reaped")
      BY <2>6
    <2>2. CASE Reads(w)
      <3> DEFINE g == IF plan.reused /\ c.got + 1 = RequestParts THEN "work" ELSE c.doing
                 e == [c EXCEPT !.input = c.input - 1, !.got = c.got + 1, !.doing = g]
                 z == [c EXCEPT !.life = "zombie"]
                 a == [c EXCEPT !.doing = "work"]
      <3>1. Set(w, e) \/ Set(w, z) \/ Set(w, a)
        BY <2>2 DEF Reads
      <3>2. e.life = c.life /\ z.life = "zombie" /\ a.life = c.life
        BY <2>1 DEF Children
      <3> HIDE DEF c, e, z, a
      <3>3. \E d : Set(w, d) /\ (d.life = "reaped" => c.life = "reaped")
        BY <2>6, <3>1, <3>2
      <3> QED
        BY <3>3 DEF c
    <2>3. CASE Works(w)
      <3> DEFINE e(u) == [c EXCEPT !.doing = "write", !.got = 0, !.rest = AnswerParts, !.ok = u]
      <3>1. PICK u : Set(w, e(u))
        BY <2>3 DEF Works
      <3>2. e(u).life = c.life
        BY <2>1 DEF Children
      <3> HIDE DEF c, e
      <3>3. \E d : Set(w, d) /\ (d.life = "reaped" => c.life = "reaped")
        BY <2>6, <3>1, <3>2
      <3> QED
        BY <3>3 DEF c
    <2>4. CASE Writes(w)
      <3> DEFINE e == [c EXCEPT !.output = c.output + 1, !.rest = c.rest - 1]
                 f == [e EXCEPT !.doing = "read"]
                 g == [e EXCEPT !.life = "zombie"]
                 z == [c EXCEPT !.life = "zombie", !.code = 1]
      <3>1. Set(w, e) \/ Set(w, f) \/ Set(w, g) \/ Set(w, z)
        BY <2>4 DEF Writes
      <3>2. e.life = c.life /\ f.life = c.life /\ g.life = "zombie" /\ z.life = "zombie"
        BY <2>1 DEF Children
      <3> HIDE DEF c, e, f, g, z
      <3>3. \E d : Set(w, d) /\ (d.life = "reaped" => c.life = "reaped")
        BY <2>6, <3>1, <3>2
      <3> QED
        BY <3>3 DEF c
    <2>5. CASE Hangs(w) \/ Dies(w)
      <3> DEFINE e == [c EXCEPT !.well = FALSE]
                 z == [c EXCEPT !.life = "zombie", !.code = 1]
      <3>1. Set(w, e) \/ Set(w, z)
        BY <2>5 DEF Hangs, Dies
      <3>2. e.life = c.life /\ z.life = "zombie"
        BY <2>1 DEF Children
      <3> HIDE DEF c, e, z
      <3>3. \E d : Set(w, d) /\ (d.life = "reaped" => c.life = "reaped")
        BY <2>6, <3>1, <3>2
      <3> QED
        BY <3>3 DEF c
    <2> QED
      BY <1>3, <2>2, <2>3, <2>4, <2>5 DEF Work
  <1>4. CASE Open
    <2>1. Spawn
      BY <1>4 DEF Open, Leave, Proceed
    <2> QED
      BY <2>1, SpawnKeeps DEF Inv, Types
  <1>5. CASE Request
    BY <1>5 DEF Request, Proceed
  <1>6. CASE Send \/ Receive
    <2>1. target \in Places
      BY <1>6, Aways DEF Send, Receive, Away
    <2>2. It \in Children /\ It = workers[target]
      BY <1>1, <2>1 DEF It
    <2>3. \/ UNCHANGED workers
          \/ \E x, b : Set(target, [It EXCEPT !.input = x, !.inOpen = b])
          \/ \E x : Set(target, [It EXCEPT !.output = x])
      BY <1>6 DEF Send, Receive
    <2>4. \A x, b : /\ [It EXCEPT !.input = x, !.inOpen = b].life = It.life
                    /\ [It EXCEPT !.output = x].life = It.life
      BY <2>2 DEF Children
    <2> QED
      BY <1>2, <2>1, <2>2, <2>3, <2>4
  <1>7. CASE PassOver \/ UNCHANGED vars
    BY <1>7 DEF PassOver, vars
  <1>8. ~(\/ Start \/ EndOfOutput \/ Reap \/ Kill \/ Wait \/ Close \/ Linger \/ EndBlock \/ AfterBlock
          \/ Deadline \/ Interrupt \/ Exit \/ Crash)
    <2>1. at \notin {"reap", "kill", "wait", "kill_again", "wait_again", "linger", "linger_again",
                     "finally", "ended", "gone"}
      OBVIOUS
    <2>2. ~(Start \/ EndOfOutput \/ Reap \/ Kill \/ Wait)
      BY <2>1 DEF Start, EndOfOutput, Fail, Proceed, Reap, Kill, Wait
    <2>3. ~(Close \/ Linger \/ EndBlock \/ AfterBlock \/ Deadline)
      BY <2>1 DEF Close, Linger, EndBlock, Leave, Proceed, AfterBlock, Deadline, Fail
    <2>4. ~(Interrupt \/ Exit \/ Crash)
      BY <2>1 DEF Interrupt, Leave, Proceed, Exit, Crash, Gone
    <2> QED
      BY <2>2, <2>3, <2>4
  <1> QED
    BY <1>2, <1>3, <1>4, <1>5, <1>6, <1>7, <1>8 DEF Next, Runner, Places

\* A step that leaves the audit and the schedule as they are.
Quiet ==
    /\ UNCHANGED <<scheduleVars, column, audit, sessions>>
    /\ at' \in {"exchange", "reap"} =>
         \/ at \in {"exchange", "reap"} /\ target' = target
         \/ /\ Ready /\ at' = "exchange"
            /\ plan.reused => target' = sessions[Label]
            /\ ~plan.reused => target' \notin Places
    /\ at' = "next" => at = "next"
    /\ at' = "ended" => unwinding' \/ ~plan.twins \/ (at = "ended" /\ unwinding' = unwinding)

LEMMA Sorts ==
    ASSUME Inv, [Next]_vars
    PROVE  \/ Quiet \/ PassOver
           \/ AfterBlock /\ plan.twins /\ ~unwinding
           \/ Open /\ Spawn
           \/ (Receive \/ Reap) /\ Accept
  <1>1. CASE Open \/ Request \/ Start
    <2>1. CASE Open /\ ~Spawn
      BY <2>1 DEF Open, Leave, Proceed, progress, Quiet
    <2>2. CASE Request
      BY <2>2 DEF Request, Ready, Proceed, progress, Quiet
    <2>3. CASE Start
      <3>1. Len(workers) + 1 \notin Places
        BY DEF Places, Inv, Types
      <3> QED
        BY <2>3, <3>1 DEF Start, Leave, Proceed, progress, Quiet
    <2> QED
      BY <1>1, <2>1, <2>2, <2>3
  <1>2. CASE Send \/ EndOfOutput \/ Deadline
    <2>1. CASE Send
      BY <2>1 DEF Send, Exchanging, Fail, Proceed, progress, Quiet
    <2>2. CASE EndOfOutput
      BY <2>2 DEF EndOfOutput, Exchanging, Fail, Proceed, progress, Quiet
    <2>3. CASE Deadline
      BY <2>3 DEF Deadline, Exchanging, Fail, Proceed, progress, Quiet
    <2> QED
      BY <1>2, <2>1, <2>2, <2>3
  <1>8. CASE AfterBlock /\ (unwinding \/ ~plan.twins)
    BY <1>8 DEF AfterBlock, Proceed, Quiet
  <1>7. CASE (Receive \/ Reap) /\ ~Accept
    BY <1>7 DEF Receive, Reap, Fail, Proceed, progress, Quiet
  <1>3. CASE Kill \/ Wait \/ Close \/ Linger \/ EndBlock
    <2>1. CASE Kill
      BY <2>1 DEF Kill, Ending, Proceed, progress, Quiet
    <2>2. CASE Wait
      BY <2>2 DEF Wait, Over, Leave, Ending, Proceed, progress, Quiet
    <2>3. CASE Close
      BY <2>3 DEF Close, Ending, Proceed, progress, Quiet
    <2>4. CASE Linger
      BY <2>4 DEF Linger, Over, Leave, Ending, Proceed, progress, Quiet
    <2>5. CASE EndBlock
      BY <2>5 DEF EndBlock, Leave, Proceed, progress, Quiet
    <2> QED
      BY <1>3, <2>1, <2>2, <2>3, <2>4, <2>5
  <1>4. CASE Interrupt \/ Exit \/ Crash
    BY <1>4 DEF Interrupt, Exit, Crash, Gone, Leave, Proceed, progress, Quiet
  <1>5. ASSUME NEW w \in 1..Len(workers), Work(w) \/ Hangs(w) \/ Dies(w)
        PROVE  Quiet
    <2>1. UNCHANGED Childs
      BY <1>5 DEF Work, Reads, Works, Writes, Hangs, Dies
    <2> QED
      BY <2>1 DEF Childs, progress, Quiet
  <1>6. CASE UNCHANGED vars
    BY <1>6 DEF vars, progress, Quiet
  <1> QED
    BY <1>1, <1>2, <1>3, <1>4, <1>5, <1>6, <1>7, <1>8 DEF Next, Runner

LEMMA Steady ==
    ASSUME UNCHANGED <<scheduleVars, column>>
    PROVE  /\ Turn' = Turn /\ Line' = Line /\ Label' = Label /\ Ongoing' = Ongoing
           /\ UNCHANGED <<plan, block, turn, counts>>
  <1>1. UNCHANGED <<plan, block, turn, counts, column>>
    BY DEF scheduleVars
  <1>2. Turn' = Turn /\ Line' = Line
    BY <1>1 DEF Turn, Line
  <1> QED
    BY <1>1, <1>2 DEF Label, Ongoing

\* What holds of the entries and their workers in any step.
LEMMA Settings ==
    ASSUME Inv, Entered, [Next]_vars
    PROVE  /\ \A i \in Entries : /\ audit[i].cell \in Cells /\ audit[i].worker \in Places
                                 /\ audit[i].block \in BlocksOf /\ audit[i].block \in Nat
           /\ \A v \in Places : /\ workers'[v].pid = workers[v].pid /\ v # None
                                /\ workers[v].life = "reaped" => workers'[v].life = "reaped"
           /\ \A c \in Cells : sessions[c] = None \/ sessions[c] \in Places
           /\ plan' = plan /\ Cells' = Cells /\ BlocksOf' = BlocksOf /\ Places \subseteq Places'
           /\ plan.reused \in BOOLEAN /\ plan.twins \in BOOLEAN
           /\ plan.samples \in Nat \ {0} /\ plan.blocks \in Nat /\ block \in Nat /\ block <= plan.blocks
           /\ column \in Nat /\ column >= 1
           /\ Observations \subseteq Observations'
  <1>1. \A i \in Entries : audit[i] \in Observations
    BY DEF Entered, Entries
  <1>2. plan' = plan /\ Cells' = Cells /\ plan \in Plans /\ plan.reused \in BOOLEAN /\ plan.twins \in BOOLEAN
    BY PlanStays
  <1>3. plan.samples \in Nat \ {0} /\ plan.blocks \in Nat /\ block \in 0..plan.blocks
    BY <1>2, Planned DEF Inv, ScheduleInv, ScheduleTypes
  <1>4. BlocksOf \subseteq Nat /\ BlocksOf' = BlocksOf
    BY <1>2, <1>3 DEF BlocksOf
  <1>5. \A i \in Entries : /\ audit[i].cell \in Cells /\ audit[i].worker \in Places
                           /\ audit[i].block \in BlocksOf /\ audit[i].block \in Nat
    BY <1>1, <1>4 DEF Observations
  <1>6. \A v \in Places : /\ workers'[v].pid = workers[v].pid /\ v # None
                          /\ workers[v].life = "reaped" => workers'[v].life = "reaped"
    BY WorkersStep, NoPlace DEF Onwards, Ages
  <1>7. Places \subseteq Places'
    BY WorkersStep DEF Onwards
  <1>8. \A c \in Cells : sessions[c] = None \/ sessions[c] \in Places
    BY Books
  <1>9. column \in Nat /\ column >= 1
    BY DEF Inv, Types, RowLength
  <1>10. Observations \subseteq Observations'
    BY <1>2, <1>4, <1>7 DEF Observations
  <1> QED
    BY <1>2, <1>3, <1>4, <1>5, <1>6, <1>7, <1>8, <1>9, <1>10

\* A step without a new entry keeps the numbers and the entries.
LEMMA AuditStays ==
    ASSUME Inv, Entered, [Next]_vars, audit' = audit
    PROVE  /\ audit' \in Seq(Observations)' /\ Entries' = Entries
           /\ \A i \in Entries : Number(i)' = Number(i)
           /\ \A c, b : Has(c, b)' <=> Has(c, b)
  <1>1. audit \in Seq(Observations)'
    BY Settings DEF Entered
  <1>2. Entries' = Entries /\ \A c, b : Has(c, b)' <=> Has(c, b)
    BY DEF Entries, Has
  <1>3. \A i \in Entries : Number(i)' = Number(i)
    BY Settings DEF Number
  <1> QED
    BY <1>1, <1>2, <1>3

LEMMA ReadyGoes ==
    ASSUME Inv, Ready, plan.twins
    PROVE  Ongoing
  BY Planned DEF Inv, ScheduleInv, ScheduleTypes, Ready, Done, Ongoing

LEMMA QuietStep ==
    ASSUME Inv, AuditInv, [Next]_vars, Quiet
    PROVE  AuditInv'
  <1>1. Underway /\ Occupied /\ Entered /\ Measured
    BY DEF AuditInv
  <1>2. /\ Turn' = Turn /\ Line' = Line /\ Label' = Label /\ Ongoing' = Ongoing
        /\ UNCHANGED <<plan, block, turn, counts, column, audit, sessions>>
    BY Steady DEF Quiet
  <1>3. /\ audit' \in Seq(Observations)' /\ Entries' = Entries
        /\ \A i \in Entries : Number(i)' = Number(i)
        /\ \A c, b : Has(c, b)' <=> Has(c, b)
    BY <1>1, <1>2, AuditStays
  <1>4. Cells' = Cells /\ plan.reused \in BOOLEAN /\ plan.twins \in BOOLEAN
    BY <1>1, Settings
  <1>5. Underway'
    <2>1. plan.twins /\ at' \in {"exchange", "reap"} => Ongoing
      BY <1>1, ReadyGoes DEF Quiet, Underway
    <2> QED
      BY <1>1, <1>2, <2>1 DEF Quiet, Underway
  <1>6. Occupied'
    <2> SUFFICES ASSUME plan.reused
                 PROVE  /\ at' = "exchange" => target' = sessions[Label]
                        /\ \A c, d \in Cells :
                             sessions[c] # None /\ sessions[d] # None /\ c # d =>
                                workers'[sessions[c]].pid # workers'[sessions[d]].pid
                        /\ at' \in {"next", "exchange"} =>
                             \A c \in Cells : sessions[c] # None => workers'[sessions[c]].life # "reaped"
      BY <1>2, <1>4 DEF Occupied
    <2>1. at # "reap"
      BY DEF Inv, Where
    <2>2. at' = "exchange" => target' = sessions[Label]
      BY <1>1, <2>1 DEF Quiet, Occupied
    <2>3. \A c, d \in Cells :
             sessions[c] # None /\ sessions[d] # None /\ c # d =>
                workers'[sessions[c]].pid # workers'[sessions[d]].pid
      BY <1>1, Settings DEF Occupied
    <2>4. at' \in {"next", "exchange"} => at \in {"next", "exchange"}
      BY <2>1 DEF Quiet, Ready
    <2>5. ASSUME at' \in {"next", "exchange"}
          PROVE  \A c \in Cells : sessions[c] # None => workers'[sessions[c]].life # "reaped"
      <3>1. \A v \in Places : workers'[v].life = "reaped" => workers[v].life = "reaped"
        BY <2>4, <2>5, NoneReaped
      <3> QED
        BY <1>1, <2>4, <2>5, <3>1, Settings DEF Occupied
    <2> QED
      BY <2>2, <2>3, <2>5
  <1>7. Entered'
    <2>1. ~plan.reused /\ at' \in {"exchange", "reap"} => \A i \in Entries : audit[i].worker # target'
      BY <1>1, Settings DEF Quiet, Entered
    <2> QED
      BY <1>1, <1>2, <1>3, <1>4, <2>1 DEF Entered
  <1>8. Measured'
    BY <1>1, <1>2, <1>3, <1>4 DEF Measured
  <1> QED
    BY <1>5, <1>6, <1>7, <1>8, NumberedStep DEF AuditInv

LEMMA OpenStep ==
    ASSUME Inv, AuditInv, [Next]_vars, Open, Spawn
    PROVE  AuditInv'
  <1> DEFINE N == Len(workers) + 1
  <1>1. Underway /\ Occupied /\ Entered /\ Measured /\ Numbered
    BY DEF AuditInv
  <1>2. /\ at = "next" /\ plan.reused
        /\ UNCHANGED <<progress, cut, closed, target, sent, received>>
    BY DEF Open
  <1>16. UNCHANGED workers => FALSE
    BY ComesNumbered, <1>1 DEF Places
  <1>3. /\ at' = "next" /\ UNCHANGED unwinding
        /\ \E i \in Missing : sessions' = [sessions EXCEPT ![CreationOrder[i]] = N]
    BY <1>2, <1>16 DEF Open
  <1>4. PICK i \in Missing : sessions' = [sessions EXCEPT ![CreationOrder[i]] = N]
    BY <1>3
  <1>5. CreationOrder[i] \in Cells /\ sessions[CreationOrder[i]] = None
    BY PlanStays, Creation DEF Missing
  <1> DEFINE n == CreationOrder[i]
  <1>6. sessions \in [Cells -> MaybePlaces]
    BY DEF Inv, Types
  <1>7. \A c \in Cells : sessions'[c] = IF c = n THEN N ELSE sessions[c]
    BY <1>4, <1>5, <1>6
  <1>8. /\ Turn' = Turn /\ Line' = Line /\ Label' = Label /\ Ongoing' = Ongoing
        /\ UNCHANGED <<plan, block, turn, counts, column, audit>>
    BY <1>2, Steady DEF progress
  <1>9. /\ audit' \in Seq(Observations)' /\ Entries' = Entries
        /\ \A j \in Entries : Number(j)' = Number(j)
        /\ \A c, b : Has(c, b)' <=> Has(c, b)
    BY <1>1, <1>8, AuditStays
  <1>10. Cells' = Cells /\ plan.reused \in BOOLEAN /\ plan.twins \in BOOLEAN
    BY <1>1, Settings
  <1>11. /\ N \notin Places /\ workers'[N].life = "up"
         /\ \A v \in Places : workers'[v] = workers[v]
         /\ \A v \in Places : workers[v].life # "reaped" => workers'[N].pid # workers[v].pid
    BY <1>1, ComesNumbered
  <1> HIDE DEF N, n
  <1>12. Underway'
    BY <1>1, <1>2, <1>3, <1>8 DEF Underway
  <1>13. Occupied'
    <2>1. \A c \in Cells : sessions[c] # None =>
             /\ sessions[c] \in Places /\ workers'[sessions[c]] = workers[sessions[c]]
             /\ workers[sessions[c]].life # "reaped"
      BY <1>1, <1>2, <1>11, Settings DEF Occupied
    <2>2. ASSUME NEW c \in Cells, NEW d \in Cells, sessions'[c] # None, sessions'[d] # None, c # d
          PROVE  workers'[sessions'[c]].pid # workers'[sessions'[d]].pid
      <3>1. CASE c # n /\ d # n
        BY <1>1, <1>2, <1>7, <2>1, <2>2, <3>1 DEF Occupied
      <3>2. CASE c = n
        BY <1>7, <1>11, <2>1, <2>2, <3>2
      <3>3. CASE d = n
        BY <1>7, <1>11, <2>1, <2>2, <3>3
      <3> QED
        BY <3>1, <3>2, <3>3
    <2>3. \A c \in Cells : sessions'[c] # None => workers'[sessions'[c]].life # "reaped"
      BY <1>7, <1>11, <2>1
    <2> QED
      BY <1>3, <1>10, <2>2, <2>3 DEF Occupied
  <1>14. Entered'
    <2>1. ASSUME NEW j \in Entries
          PROVE  /\ audit[j].block = block => audit[j].worker = sessions'[audit[j].cell]
                 /\ audit[j].block # block => \A c \in Cells : sessions'[c] # audit[j].worker
      <3>1. audit[j].cell \in Cells /\ audit[j].worker \in Places /\ audit[j].worker # None
        BY <1>1, Settings
      <3>2. audit[j].block = block => audit[j].worker = sessions'[audit[j].cell]
        BY <1>1, <1>2, <1>5, <1>7, <3>1 DEF Entered, n
      <3>3. audit[j].block # block => \A c \in Cells : sessions'[c] # audit[j].worker
        BY <1>1, <1>2, <1>7, <1>11, <3>1 DEF Entered
      <3> QED
        BY <3>2, <3>3
    <2> QED
      BY <1>1, <1>2, <1>8, <1>9, <1>10, <2>1 DEF Entered
  <1>15. Measured'
    BY <1>1, <1>8, <1>9, <1>10 DEF Measured
  <1> QED
    BY <1>12, <1>13, <1>14, <1>15, NumberedStep, <1>1 DEF AuditInv

LEMMA PassStep ==
    ASSUME Inv, AuditInv, [Next]_vars, PassOver
    PROVE  AuditInv'
  <1>1. Underway /\ Occupied /\ Entered /\ Measured
    BY DEF AuditInv
  <1>2. /\ at = "next" /\ at' = "next" /\ plan.twins /\ counts[Turn] = plan.samples
        /\ UNCHANGED <<plan, block, counts, column, audit, sessions, target, workers>>
    BY DEF PassOver, Skip, Turn
  <1>3. /\ audit' \in Seq(Observations)' /\ Entries' = Entries
        /\ \A i \in Entries : Number(i)' = Number(i)
        /\ \A c, b : Has(c, b)' <=> Has(c, b)
    BY <1>1, <1>2, AuditStays
  <1>4. /\ Cells' = Cells /\ plan.reused \in BOOLEAN /\ plan.twins \in BOOLEAN
        /\ plan.samples \in Nat /\ column \in Nat /\ column >= 1
    BY <1>1, Settings
  <1>5. column = 1
    <2>1. ~Ongoing
      BY <1>2, <1>4 DEF Ongoing
    <2> QED
      BY <1>1, <1>2, <1>4, <2>1 DEF Underway
  <1>6. Underway'
    BY <1>1, <1>2, <1>5 DEF Underway
  <1>7. Occupied'
    BY <1>1, <1>2, <1>4 DEF Occupied
  <1>8. Entered'
    BY <1>1, <1>2, <1>3, <1>4 DEF Entered
  <1>9. Measured'
    <2>1. 1..(column' - 1) = {}
      BY <1>2, <1>5
    <2>2. \A c \in Cells, b \in Nat : b < block => Has(c, b)
      BY <1>1, <1>2 DEF Measured
    <2>3. \A c \in Cells : counts[c[1]] > 0 => Has(c, block)
      BY <1>1, <1>2 DEF Measured
    <2> QED
      BY <1>2, <1>3, <1>4, <2>1, <2>2, <2>3 DEF Measured
  <1> QED
    BY <1>6, <1>7, <1>8, <1>9, NumberedStep DEF AuditInv

\* Each row of the square visits each path.
LEMMA RowIsWhole ==
    ASSUME Inv
    PROVE  \A x \in Paths(plan) : \E j \in 1..Len(Line) : Line[j] = x
  <1> plan \in Plans /\ plan.value \in BOOLEAN
    BY PlanTypes DEF Inv, ScheduleInv, ScheduleTypes
  <1>1. counts["candidate"] + counts["control"] \in Nat
    BY DEF Inv, ScheduleInv, ScheduleTypes, Twins
  <1>2. ASSUME NEW k \in 1..4, NEW x \in 0..3
        PROVE  \E j \in 1..4 : WilliamsRows[k][j] = x
    <2>1. /\ WilliamsRows[1] = <<0, 1, 3, 2>> /\ WilliamsRows[2] = <<1, 2, 0, 3>>
          /\ WilliamsRows[3] = <<2, 3, 1, 0>> /\ WilliamsRows[4] = <<3, 0, 2, 1>>
      BY DEF WilliamsRows
    <2>2. \A a, b, c, d : /\ <<a, b, c, d>>[1] = a /\ <<a, b, c, d>>[2] = b
                          /\ <<a, b, c, d>>[3] = c /\ <<a, b, c, d>>[4] = d
      OBVIOUS
    <2>3. x \in {0, 1, 2, 3} /\ k \in {1, 2, 3, 4}
      OBVIOUS
    <2>4. 1 \in 1..4 /\ 2 \in 1..4 /\ 3 \in 1..4 /\ 4 \in 1..4
      OBVIOUS
    <2>5. ASSUME NEW row, {row[1], row[2], row[3], row[4]} = {0, 1, 2, 3}
          PROVE  \E j \in 1..4 : row[j] = x
      <3>1. x \in {row[1], row[2], row[3], row[4]}
        BY <2>3, <2>5
      <3> QED
        BY <2>4, <3>1
    <2>6. CASE k = 1
      BY <2>1, <2>2, <2>5, <2>6
    <2>7. CASE k = 2
      BY <2>1, <2>2, <2>5, <2>7
    <2>8. CASE k = 3
      BY <2>1, <2>2, <2>5, <2>8
    <2>9. CASE k = 4
      BY <2>1, <2>2, <2>5, <2>9
    <2> QED
      BY <2>3, <2>6, <2>7, <2>8, <2>9
  <1>3. ASSUME NEW n \in Nat
        PROVE  \A x \in Paths(plan) : \E j \in 1..RowLength : Row(plan, n)[j] = x
    <2>1. CASE plan.value
      <3>1. (n % 8) + 1 \in 1..8 /\ \A k \in 1..8 : RowPattern[k] + 1 \in 1..4
        BY DEF RowPattern
      <3>2. RowPattern[(n % 8) + 1] + 1 \in 1..4
        BY <3>1
      <3>3. Row(plan, n) = WilliamsRows[RowPattern[(n % 8) + 1] + 1]
        BY <2>1 DEF Row
      <3> QED
        BY <1>2, <2>1, <3>2, <3>3 DEF Paths, ValuePaths, RowLength
    <2>2. CASE ~plan.value
      <3>1. Row(plan, n) = <<0>> /\ Paths(plan) = {0} /\ RowLength = 1 /\ <<0>>[1] = 0 /\ 1 \in 1..1
        BY <2>2 DEF Row, Paths, RowLength
      <3> QED
        BY <3>1
    <2> QED
      BY <2>1, <2>2
  <1> QED
    BY <1>1, <1>3, LineLength DEF Line

\* The cell of the observation that is being made.
LEMMA LabelCell ==
    ASSUME Inv, Underway, at \in {"exchange", "reap"}
    PROVE  /\ Label \in Cells
           /\ plan.twins => /\ Ongoing /\ Turn \in Twins
                            /\ Label = <<Turn, Line[column]>> /\ column \in 1..Len(Line)
           /\ block \in BlocksOf
  <1> /\ plan \in Plans /\ plan.twins \in BOOLEAN /\ plan.value \in BOOLEAN /\ plan.blocks \in Nat
      /\ block \in Nat
    BY PlanTypes, Planned DEF Inv, ScheduleInv, ScheduleTypes
  <1>1. CASE ~plan.twins
    BY <1>1, PlanTypes DEF Label, Cells, Twins, Paths, Underway, BlocksOf
  <1>2. CASE plan.twins
    <2>1. Ongoing /\ block < plan.blocks
      BY <1>2 DEF Underway, Ongoing
    <2>2. Turn \in Twins
      BY <2>1, Labels DEF Inv, ScheduleInv, ScheduleTypes, Turn
    <2>3. Line \in Seq(Paths(plan)) /\ column \in 1..Len(Line)
      BY LineLength DEF Inv, Types
    <2>4. Line[column] \in Paths(plan)
      BY <2>3
    <2>5. block \in BlocksOf
      BY <1>2, <2>1 DEF BlocksOf
    <2> QED
      BY <1>2, <2>1, <2>2, <2>3, <2>4, <2>5 DEF Label, Cells
  <1> QED
    BY <1>1, <1>2

\* An entry is made.
LEMMA EntryMade ==
    ASSUME Inv, Underway, Entered, [Next]_vars, at \in {"exchange", "reap"}, Accept
    PROVE  LET n == Len(audit) + 1 IN
           /\ audit' \in Seq(Observations)' /\ Entries' = Entries \cup {n} /\ n \notin Entries
           /\ \A i \in Entries : audit'[i] = audit[i] /\ Number(i)' = Number(i)
           /\ audit'[n].cell = Label /\ audit'[n].worker = target /\ audit'[n].block = block
           /\ target \in Places /\ Label \in Cells /\ block \in BlocksOf
           /\ \A c, b : Has(c, b) => Has(c, b)'
           /\ \A c, b : c = Label /\ b = block => Has(c, b)'
  <1> DEFINE n == Len(audit) + 1
             e == [cell |-> Label, worker |-> target, block |-> block]
  <1>1. target \in Places /\ Label \in Cells /\ block \in BlocksOf
    BY Aways, LabelCell DEF Away
  <1>2. e \in Observations /\ e.cell = Label /\ e.worker = target /\ e.block = block
    BY <1>1 DEF Observations
  <1>3. audit' = Append(audit, e)
    BY DEF Accept
  <1> HIDE DEF e
  <1>4. audit \in Seq(Observations)
    BY DEF Entered
  <1>5. /\ audit' \in Seq(Observations) /\ Entries' = Entries \cup {n} /\ n \notin Entries
        /\ \A i \in Entries : audit'[i] = audit[i]
        /\ audit'[n] = e
    BY <1>2, <1>3, <1>4 DEF Entries
  <1> HIDE DEF n
  <1>6. audit' \in Seq(Observations)'
    BY <1>5, Settings
  <1>7. \A i \in Entries : Number(i)' = Number(i)
    BY <1>5, Settings DEF Number
  <1>8. \A c, b : Has(c, b) => Has(c, b)'
    BY <1>5 DEF Has
  <1>9. \A c, b : c = Label /\ b = block => Has(c, b)'
    BY <1>2, <1>5 DEF Has
  <1> QED
    BY <1>1, <1>2, <1>5, <1>6, <1>7, <1>8, <1>9 DEF n

LEMMA AcceptStep ==
    ASSUME Inv, AuditInv, [Next]_vars, Receive \/ Reap, Accept
    PROVE  AuditInv'
  <1>0. PICK n : n = Len(audit) + 1
    OBVIOUS
  <1>1. Underway /\ Occupied /\ Entered /\ Measured
    BY DEF AuditInv
  <1>2. at \in {"exchange", "reap"} /\ at' = "next" /\ UNCHANGED sessions
    BY DEF Receive, Reap, Accept, Proceed
  <1>3. /\ plan' = plan /\ Cells' = Cells /\ plan.reused \in BOOLEAN /\ plan.twins \in BOOLEAN
        /\ block \in Nat /\ column \in Nat /\ column >= 1
    BY <1>1, Settings
  <1>4. /\ audit' \in Seq(Observations)' /\ Entries' = Entries \cup {n} /\ n \notin Entries
        /\ \A i \in Entries : audit'[i] = audit[i] /\ Number(i)' = Number(i)
        /\ audit'[n].cell = Label /\ audit'[n].worker = target /\ audit'[n].block = block
        /\ target \in Places /\ Label \in Cells /\ block \in BlocksOf
        /\ \A c, b : Has(c, b) => Has(c, b)'
        /\ \A c, b : c = Label /\ b = block => Has(c, b)'
    BY <1>0, <1>1, <1>2, EntryMade
  <1>5. plan.twins => /\ Ongoing /\ Turn \in Twins
                      /\ Label = <<Turn, Line[column]>> /\ column \in 1..Len(Line)
    BY <1>1, <1>2, LabelCell
  <1>6. \/ /\ plan.twins /\ column = Len(Line) /\ column' = 1 /\ block' = block
           /\ counts' = [counts EXCEPT ![Turn] = @ + 1]
        \/ plan.twins /\ column # Len(Line) /\ column' = column + 1 /\ UNCHANGED scheduleVars
        \/ ~plan.twins /\ column' = 1 /\ UNCHANGED scheduleVars
    BY <1>3 DEF Accept, Round, Turn
  <1>7. block' = block
    BY <1>6 DEF scheduleVars
  <1>8. Underway'
    <2>1. ~plan.twins => block' = 0
      BY <1>1, <1>7 DEF Underway
    <2>2. ASSUME plan.twins, column' > 1
          PROVE  Ongoing'
      <3>1. UNCHANGED scheduleVars
        BY <1>6, <2>2
      <3> QED
        BY <1>5, <2>2, <3>1 DEF scheduleVars, Ongoing, Turn
    <2> QED
      BY <1>2, <1>3, <2>1, <2>2 DEF Underway
  <1>9. Occupied'
    <2> SUFFICES ASSUME plan.reused
                 PROVE  /\ \A c, d \in Cells :
                             sessions[c] # None /\ sessions[d] # None /\ c # d =>
                                workers'[sessions[c]].pid # workers'[sessions[d]].pid
                        /\ \A c \in Cells : sessions[c] # None => workers'[sessions[c]].life # "reaped"
      BY <1>2, <1>3 DEF Occupied
    <2>1. \A c, d \in Cells :
             sessions[c] # None /\ sessions[d] # None /\ c # d =>
                workers'[sessions[c]].pid # workers'[sessions[d]].pid
      BY <1>1, Settings DEF Occupied
    <2>2. at = "exchange"
      BY <1>2 DEF Inv, Where
    <2>3. \A v \in Places : workers'[v].life = "reaped" => workers[v].life = "reaped"
      BY <1>2, <2>2, NoneReaped
    <2> QED
      BY <1>1, <2>1, <2>2, <2>3, Settings DEF Occupied
  <1>10. Entered'
    <2>1. \A i \in Entries' : audit'[i].block <= block'
      BY <1>1, <1>3, <1>4, <1>7 DEF Entered
    <2>2. ASSUME plan.reused
          PROVE  /\ target = sessions[Label]
                 /\ \A i \in Entries' :
                      /\ audit'[i].block = block => audit'[i].worker = sessions[audit'[i].cell]
                      /\ audit'[i].block # block => \A c \in Cells : sessions[c] # audit'[i].worker
      <3>1. at = "exchange"
        BY <1>2, <2>2 DEF Inv, Where
      <3>2. target = sessions[Label]
        BY <1>1, <2>2, <3>1 DEF Occupied
      <3> QED
        BY <1>1, <1>4, <2>2, <3>2 DEF Entered
    <2>3. ASSUME plan.reused, NEW i \in Entries
          PROVE  /\ audit[i].worker = target <=> audit[i].cell = Label /\ audit[i].block = block
                 /\ audit[i].block = block /\ audit[i].cell # Label => Number(i) # workers[target].pid
      <3>1. audit[i].cell \in Cells /\ audit[i].worker \in Places /\ target # None
        BY <1>1, <1>4, Settings
      <3>2. CASE audit[i].block = block
        <4>1. audit[i].worker = sessions[audit[i].cell]
          BY <1>1, <2>3, <3>2 DEF Entered
        <4>2. audit[i].cell # Label => workers[audit[i].worker].pid # workers[target].pid
          BY <1>1, <1>4, <2>2, <2>3, <3>1, <4>1, Settings DEF Occupied
        <4> QED
          BY <2>2, <2>3, <3>2, <4>1, <4>2 DEF Number
      <3>3. CASE audit[i].block # block
        <4>1. audit[i].worker # target
          BY <1>1, <1>4, <2>2, <2>3, <3>3 DEF Entered
        <4> QED
          BY <3>3, <4>1
      <3> QED
        BY <3>2, <3>3
    <2>4. Number(n)' = workers[target].pid
      <3>1. audit'[n].worker = target /\ workers'[target].pid = workers[target].pid
        BY <1>1, <1>4, Settings
      <3>2. \A m : Number(m)' = workers'[audit'[m].worker].pid
        BY DEF Number
      <3> QED
        BY <3>1, <3>2
    <2>5. ASSUME plan.reused, NEW i \in Entries', NEW j \in Entries'
          PROVE  /\ audit'[i].worker = audit'[j].worker
                      <=> audit'[i].cell = audit'[j].cell /\ audit'[i].block = audit'[j].block
                 /\ audit'[i].block = audit'[j].block /\ audit'[i].cell # audit'[j].cell
                      => Number(i)' # Number(j)'
      <3>1. CASE i \in Entries /\ j \in Entries
        BY <1>1, <1>4, <2>5, <3>1 DEF Entered
      <3>2. CASE i = n /\ j = n
        BY <3>2
      <3>3. CASE i = n /\ j \in Entries
        BY <1>4, <2>3, <2>4, <2>5, <3>3
      <3>4. CASE i \in Entries /\ j = n
        BY <1>4, <2>3, <2>4, <2>5, <3>4
      <3> QED
        BY <1>4, <3>1, <3>2, <3>3, <3>4
    <2>6. ASSUME ~plan.reused
          PROVE  \A i, j \in Entries' : audit'[i].worker = audit'[j].worker => i = j
      BY <1>1, <1>2, <1>4, <2>6 DEF Entered
    <2> QED
      BY <1>2, <1>3, <1>4, <1>7, <2>1, <2>2, <2>5, <2>6 DEF Entered
  <1>11. Measured'
    <2> SUFFICES ASSUME plan.twins
                 PROVE  /\ \A c \in Cells, b \in Nat : b < block => Has(c, b)'
                        /\ \A c \in Cells : counts'[c[1]] > 0 => \A b : b = block => Has(c, b)'
                        /\ \A j \in 1..(column' - 1) :
                             \A c, b : c = <<Turn', Line'[j]>> /\ b = block => Has(c, b)'
      BY <1>3, <1>7 DEF Measured
    <2>1. \A c \in Cells, b \in Nat : b < block => Has(c, b)'
      BY <1>1, <1>4 DEF Measured
    <2>2. \A j \in 1..column : \A c, b : c = <<Turn, Line[j]>> /\ b = block => Has(c, b)'
      <3> TAKE j \in 1..column
      <3>1. CASE j = column
        BY <1>4, <1>5, <3>1
      <3>2. CASE j # column
        <4>1. j \in 1..(column - 1)
          BY <1>3, <3>2
        <4> QED
          BY <1>1, <1>4, <4>1 DEF Measured
      <3> QED
        BY <3>1, <3>2
    <2>3. CASE column = Len(Line)
      <3>1. column' = 1 /\ counts' = [counts EXCEPT ![Turn] = @ + 1]
        BY <1>6, <2>3
      <3>2. ASSUME NEW c \in Cells, counts'[c[1]] > 0, NEW b, b = block
            PROVE  Has(c, b)'
        <4>1. PICK t \in Twins, x \in Paths(plan) : c = <<t, x>>
          BY DEF Cells
        <4>2. CASE t = Turn
          <5>1. PICK j \in 1..Len(Line) : Line[j] = x
            BY RowIsWhole
          <5> QED
            BY <2>2, <2>3, <3>2, <4>1, <4>2, <5>1
        <4>3. CASE t # Turn
          <5>1. counts'[t] = counts[t]
            BY <3>1, <4>3 DEF Inv, ScheduleInv, ScheduleTypes
          <5> QED
            BY <1>1, <1>4, <3>2, <4>1, <5>1 DEF Measured
        <4> QED
          BY <4>2, <4>3
      <3>3. 1..(column' - 1) = {}
        BY <3>1
      <3> QED
        BY <2>1, <3>2, <3>3
    <2>4. CASE column # Len(Line)
      <3>1. column' = column + 1 /\ UNCHANGED scheduleVars
        BY <1>6, <2>4
      <3>2. counts' = counts /\ Turn' = Turn /\ Line' = Line /\ column' - 1 = column
        BY <1>3, <3>1 DEF scheduleVars, Turn, Line
      <3>3. \A c \in Cells : counts'[c[1]] > 0 => \A b : b = block => Has(c, b)'
        BY <1>1, <1>4, <3>2 DEF Measured
      <3> QED
        BY <2>1, <2>2, <3>2, <3>3
    <2> QED
      BY <2>3, <2>4
  <1> QED
    BY <1>8, <1>9, <1>10, <1>11, NumberedStep DEF AuditInv

LEMMA AfterStep ==
    ASSUME Inv, AuditInv, [Next]_vars, AfterBlock, plan.twins, ~unwinding
    PROVE  AuditInv'
  <1>1. Underway /\ Occupied /\ Entered /\ Measured
    BY DEF AuditInv
  <1>2. /\ at' \in {"ended", "next"} /\ (at' = "ended" => LastBlock)
        /\ sessions' = [c \in Cells |-> None]
        /\ UNCHANGED <<column, audit, workers>> /\ NextBlock
    BY DEF AfterBlock, Proceed
  <1>3. /\ block < plan.blocks /\ block' = block + 1 /\ plan' = plan
        /\ counts' = [l \in Twins |-> 0] /\ \A l \in Twins : counts[l] = plan.samples
    BY <1>2 DEF NextBlock, Full
  <1>4. /\ Cells' = Cells /\ plan.reused \in BOOLEAN
        /\ plan.samples \in Nat \ {0} /\ plan.blocks \in Nat /\ block \in Nat
        /\ column \in Nat /\ column >= 1
    BY <1>1, Settings
  <1>5. column = 1
    <2>1. Turn \in Twins
      BY <1>3, Labels DEF Inv, ScheduleInv, ScheduleTypes, Turn
    <2>2. ~Ongoing
      BY <1>3, <1>4, <2>1 DEF Ongoing
    <2> QED
      BY <1>1, <1>4, <2>2 DEF Underway
  <1>6. /\ audit' \in Seq(Observations)' /\ Entries' = Entries
        /\ \A i \in Entries : Number(i)' = Number(i)
        /\ \A c, b : Has(c, b)' <=> Has(c, b)
    BY <1>1, <1>2, AuditStays
  <1>7. \A c \in Cells : sessions'[c] = None
    BY <1>2, <1>4
  <1>8. Underway'
    <2>1. at' = "ended" => block' = plan.blocks
      BY <1>2, <1>3, <1>4 DEF LastBlock
    <2> QED
      BY <1>2, <1>3, <1>5, <2>1 DEF Underway
  <1>9. Occupied'
    BY <1>2, <1>3, <1>4, <1>7 DEF Occupied
  <1>10. Entered'
    <2>1. \A i \in Entries : audit[i].block \in Nat /\ audit[i].block <= block /\ audit[i].worker # None
      BY <1>1, Settings DEF Entered
    <2>2. \A i \in Entries : audit[i].block <= block' /\ audit[i].block # block'
      BY <1>3, <1>4, <2>1
    <2> QED
      BY <1>1, <1>2, <1>3, <1>4, <1>6, <1>7, <2>1, <2>2 DEF Entered
  <1>11. Measured'
    <2>1. ASSUME NEW c \in Cells, NEW b \in Nat, b < block'
          PROVE  Has(c, b)
      <3>1. CASE b < block
        BY <1>1, <3>1 DEF Measured
      <3>2. CASE b = block
        <4>1. c[1] \in Twins
          BY DEF Cells
        <4>2. counts[c[1]] > 0
          BY <1>3, <1>4, <4>1
        <4> QED
          BY <1>1, <3>2, <4>2 DEF Measured
      <3> QED
        BY <1>3, <1>4, <2>1, <3>1, <3>2
    <2>2. \A c \in Cells : ~(counts'[c[1]] > 0)
      BY <1>3 DEF Cells
    <2>3. 1..(column' - 1) = {}
      BY <1>2, <1>5
    <2> QED
      BY <1>3, <1>4, <1>6, <2>1, <2>2, <2>3 DEF Measured
  <1> QED
    BY <1>8, <1>9, <1>10, <1>11, NumberedStep DEF AuditInv

LEMMA AuditStep == Inv /\ AuditInv /\ [Next]_vars => AuditInv'
  BY Sorts, QuietStep, PassStep, AfterStep, OpenStep, AcceptStep

LEMMA InitAudit == Init => AuditInv
  <1> SUFFICES ASSUME Init PROVE AuditInv
    OBVIOUS
  <1>1. plan \in Plans /\ plan.blocks \in Nat /\ plan.reused \in BOOLEAN
    BY Planned, PlanTypes DEF Init, ScheduleInit
  <1>2. /\ block = 0 /\ counts = [l \in Twins |-> 0] /\ column = 1 /\ audit = <<>> /\ at = "next"
        /\ workers = <<>> /\ sessions = [c \in Cells |-> None]
    BY DEF Init, ScheduleInit
  <1>3. Numbered
    <2>1. Places = {} /\ {workers[w].pid : w \in Places} = 1..0
      BY <1>2 DEF Places
    <2> QED
      BY <2>1 DEF Numbered
  <1>4. Underway
    BY <1>2 DEF Underway
  <1>5. Occupied
    BY <1>2 DEF Occupied
  <1>6. Entered
    <2>1. Entries = {} /\ audit \in Seq(Observations)
      BY <1>2 DEF Entries
    <2> QED
      BY <1>2, <2>1 DEF Entered
  <1>7. Measured
    <2>1. \A c \in Cells : c[1] \in Twins
      BY DEF Cells
    <2> QED
      BY <1>2, <2>1 DEF Measured
  <1> QED
    BY <1>3, <1>4, <1>5, <1>6, <1>7 DEF AuditInv

\* A function on a finite set has as many values as arguments when no two arguments share one.
LEMMA AsMany ==
    ASSUME NEW S, NEW T, NEW f, IsFiniteSet(S), f \in [S -> T], \A t \in T : \E x \in S : f[x] = t
    PROVE  Cardinality(T) = Cardinality(S) <=> \A x, y \in S : f[x] = f[y] => x = y
  <1>1. f \in Surjection(S, T)
    BY DEF Surjection
  <1>2. Cardinality(T) = Cardinality(S) <=> f \in Injection(S, T)
    BY <1>1, FS_Surjection
  <1>3. f \in Injection(S, T) <=> \A x, y \in S : f[x] = f[y] => x = y
    BY DEF Injection, IsInjective
  <1> QED
    BY <1>2, <1>3

Of(c) == {i \in Entries : audit[i].cell = c}

\* No two of the workers of a cell share a number.
Lone(c) == \A i, j \in Of(c) : Number(i) = Number(j) => audit[i].worker = audit[j].worker

LEMMA EntryTypes ==
    ASSUME Entered
    PROVE  /\ Len(audit) \in Nat
           /\ \A i \in Entries : /\ audit[i].cell \in Cells /\ audit[i].worker \in Places
                                 /\ audit[i].block \in BlocksOf
  <1>1. audit \in Seq(Observations)
    BY DEF Entered
  <1>2. \A i \in Entries : audit[i] \in Observations
    BY <1>1 DEF Entries
  <1> QED
    BY <1>1, <1>2 DEF Observations

\* The numbers of a cell.
LEMMA NumbersOf ==
    ASSUME Entered, BlocksOf \subseteq Nat
    PROVE  \A c : /\ \A b : Numbers(c, b) = {Number(i) : i \in {j \in Of(c) : audit[j].block = b}}
                  /\ AllNumbers(c) = {Number(i) : i \in Of(c)}
  <1> TAKE c
  <1>1. \A b : Numbers(c, b) = {Number(i) : i \in {j \in Of(c) : audit[j].block = b}}
    BY DEF Numbers, Number, Of, Entries
  <1>2. \A i \in Of(c) : audit[i].block \in BlocksOf
    BY EntryTypes DEF Of
  <1>3. AllNumbers(c) = {Number(i) : i \in Of(c)}
    <2>1. \A b : Numbers(c, b) \subseteq {Number(i) : i \in Of(c)}
      BY <1>1
    <2>2. \A i \in Of(c) : Number(i) \in Numbers(c, audit[i].block)
      BY <1>1
    <2> QED
      BY <1>2, <2>1, <2>2 DEF AllNumbers
  <1> QED
    BY <1>1, <1>3

\* A cell of sessions: one number per block, and as many as there are blocks.
LEMMA SessionsVerify ==
    ASSUME Inv, AuditInv, plan.reused, NEW c \in Cells, \A b \in BlocksOf : Has(c, b)
    PROVE  /\ \A b \in BlocksOf : Cardinality(Numbers(c, b)) = 1
           /\ Cardinality(AllNumbers(c)) = Cardinality(BlocksOf) <=> Lone(c)
  <1>1. Entered /\ plan \in Plans /\ plan.blocks \in Nat
    BY Planned DEF AuditInv, Inv, ScheduleInv, ScheduleTypes
  <1>2. BlocksOf \subseteq Nat /\ IsFiniteSet(BlocksOf)
    <2>1. plan.blocks - 1 \in Int /\ 0 \in Int
      BY <1>1
    <2>2. IsFiniteSet(0..(plan.blocks - 1)) /\ IsFiniteSet({0})
      BY <2>1, FS_Interval, FS_Singleton
    <2> QED
      BY <1>1, <2>2 DEF BlocksOf
  <1>3. \A i, j \in Of(c) : audit[i].worker = audit[j].worker <=> audit[i].block = audit[j].block
    BY <1>1 DEF Entered, Of
  <1> DEFINE f == [b \in BlocksOf |-> Number(CHOOSE i \in Of(c) : audit[i].block = b)]
  <1>4. ASSUME NEW b \in BlocksOf, NEW i \in Of(c), audit[i].block = b
        PROVE  f[b] = Number(i)
    <2> DEFINE j == CHOOSE j \in Of(c) : audit[j].block = b
    <2>1. j \in Of(c) /\ audit[j].block = b
      BY <1>4
    <2>2. audit[i].worker = audit[j].worker
      BY <1>3, <1>4, <2>1
    <2> QED
      BY <2>2 DEF Number
  <1>5. \A b \in BlocksOf : \E i \in Of(c) : audit[i].block = b
    BY DEF Has, Of
  <1>6. \A i \in Of(c) : audit[i].block \in BlocksOf
    BY <1>1, EntryTypes DEF Of
  <1> HIDE DEF f
  <1>7. \A b \in BlocksOf : Numbers(c, b) = {f[b]}
    BY <1>1, <1>2, <1>4, <1>5, NumbersOf
  <1>8. AllNumbers(c) = {Number(i) : i \in Of(c)}
    BY <1>1, <1>2, NumbersOf
  <1>9. f \in [BlocksOf -> AllNumbers(c)] /\ \A p \in AllNumbers(c) : \E b \in BlocksOf : f[b] = p
    <2>1. \A b \in BlocksOf : f[b] \in AllNumbers(c)
      BY <1>4, <1>5, <1>8
    <2>2. \A p \in AllNumbers(c) : \E b \in BlocksOf : f[b] = p
      BY <1>4, <1>6, <1>8
    <2> QED
      BY <2>1, <2>2 DEF f
  <1>10. Cardinality(AllNumbers(c)) = Cardinality(BlocksOf)
           <=> \A b, d \in BlocksOf : f[b] = f[d] => b = d
    <2> DEFINE T == AllNumbers(c)
    <2>1. IsFiniteSet(BlocksOf) /\ f \in [BlocksOf -> T] /\ \A p \in T : \E b \in BlocksOf : f[b] = p
      BY <1>2, <1>9
    <2> HIDE DEF T
    <2>2. Cardinality(T) = Cardinality(BlocksOf) <=> \A b, d \in BlocksOf : f[b] = f[d] => b = d
      BY <2>1, AsMany
    <2> QED
      BY <2>2 DEF T
  <1>11. (\A b, d \in BlocksOf : f[b] = f[d] => b = d) <=> Lone(c)
    <2>1. ASSUME \A b, d \in BlocksOf : f[b] = f[d] => b = d, NEW i \in Of(c), NEW j \in Of(c),
                 Number(i) = Number(j)
          PROVE  audit[i].worker = audit[j].worker
      BY <1>3, <1>4, <1>6, <2>1
    <2>2. ASSUME Lone(c), NEW b \in BlocksOf, NEW d \in BlocksOf, f[b] = f[d]
          PROVE  b = d
      <3>1. PICK i \in Of(c), j \in Of(c) : audit[i].block = b /\ audit[j].block = d
        BY <1>5
      <3>2. Number(i) = Number(j)
        BY <1>4, <2>2, <3>1
      <3> QED
        BY <1>3, <2>2, <3>1, <3>2 DEF Lone
    <2> QED
      BY <2>1, <2>2 DEF Lone
  <1>12. \A b \in BlocksOf : Cardinality(Numbers(c, b)) = 1
    BY <1>7, FS_Singleton
  <1> QED
    BY <1>10, <1>11, <1>12

\* A cell of workers of its own: as many numbers as observations.
LEMMA WorkersVerify ==
    ASSUME Inv, AuditInv, ~plan.reused, NEW c \in Cells
    PROVE  Cardinality(AllNumbers(c)) = Cardinality({i \in Entries : audit[i].cell = c}) <=> Lone(c)
  <1>1. Entered /\ plan \in Plans /\ plan.blocks \in Nat
    BY Planned DEF AuditInv, Inv, ScheduleInv, ScheduleTypes
  <1>2. BlocksOf \subseteq Nat
    BY <1>1 DEF BlocksOf
  <1>3. IsFiniteSet(Of(c))
    <2>1. IsFiniteSet(Entries) /\ Of(c) \subseteq Entries
      <3>1. 1 \in Int /\ Len(audit) \in Int
        BY <1>1, EntryTypes
      <3> QED
        BY <3>1, FS_Interval DEF Entries, Of
    <2> QED
      BY <2>1, FS_Subset
  <1>4. AllNumbers(c) = {Number(i) : i \in Of(c)}
    BY <1>1, <1>2, NumbersOf
  <1> DEFINE f == [i \in Of(c) |-> Number(i)]
  <1>5. f \in [Of(c) -> AllNumbers(c)] /\ \A p \in AllNumbers(c) : \E i \in Of(c) : f[i] = p
    BY <1>4
  <1>6. Cardinality(AllNumbers(c)) = Cardinality(Of(c)) <=> \A i, j \in Of(c) : f[i] = f[j] => i = j
    <2> DEFINE T == AllNumbers(c)
               S == Of(c)
    <2>1. IsFiniteSet(S) /\ f \in [S -> T] /\ \A p \in T : \E i \in S : f[i] = p
      BY <1>3, <1>5
    <2> HIDE DEF T, S, f
    <2>2. Cardinality(T) = Cardinality(S) <=> \A i, j \in S : f[i] = f[j] => i = j
      BY <2>1, AsMany
    <2> QED
      BY <2>2 DEF T, S
  <1>7. \A i, j \in Of(c) : audit[i].worker = audit[j].worker => i = j
    BY <1>1 DEF Entered, Of
  <1>8. (\A i, j \in Of(c) : f[i] = f[j] => i = j) <=> Lone(c)
    BY <1>7 DEF Lone
  <1> QED
    BY <1>6, <1>8 DEF Of

\* Nothing shared by the twins of a path.
Apart ==
    \A i, j \in Entries :
        audit[i].cell[2] = audit[j].cell[2] /\ audit[i].cell # audit[j].cell => Number(i) # Number(j)

LEMMA TwinsApart ==
    ASSUME Inv, Entered
    PROVE  (\A x \in Paths(plan) : AllNumbers(<<"candidate", x>>) \cap AllNumbers(<<"control", x>>) = {})
              <=> Apart
  <1>1. BlocksOf \subseteq Nat
    BY Planned DEF BlocksOf, Inv, ScheduleInv, ScheduleTypes
  <1>2. \A c : AllNumbers(c) = {Number(i) : i \in Of(c)}
    BY <1>1, NumbersOf
  <1>3. ASSUME NEW i \in Entries
        PROVE  \E t \in {"candidate", "control"}, x \in Paths(plan) :
                  audit[i].cell = <<t, x>> /\ audit[i].cell[2] = x
    BY EntryTypes DEF Cells, Twins
  <1>4. ASSUME Apart, NEW x \in Paths(plan), NEW p,
               p \in AllNumbers(<<"candidate", x>>), p \in AllNumbers(<<"control", x>>)
        PROVE  FALSE
    <2>1. PICK i \in Of(<<"candidate", x>>), j \in Of(<<"control", x>>) : p = Number(i) /\ p = Number(j)
      BY <1>2, <1>4
    <2>2. /\ i \in Entries /\ j \in Entries
          /\ audit[i].cell = <<"candidate", x>> /\ audit[j].cell = <<"control", x>>
      BY DEF Of
    <2>3. audit[i].cell[2] = audit[j].cell[2] /\ audit[i].cell # audit[j].cell
      BY <2>2
    <2>4. Number(i) # Number(j)
      BY <1>4, <2>2, <2>3, Zenon DEF Apart
    <2> QED
      BY <2>1, <2>4
  <1>5. ASSUME \A x \in Paths(plan) : AllNumbers(<<"candidate", x>>) \cap AllNumbers(<<"control", x>>) = {},
               NEW i \in Entries, NEW j \in Entries,
               audit[i].cell[2] = audit[j].cell[2], audit[i].cell # audit[j].cell, Number(i) = Number(j)
        PROVE  FALSE
    <2>1. PICK t \in {"candidate", "control"}, x \in Paths(plan) :
                  audit[i].cell = <<t, x>> /\ audit[i].cell[2] = x
      BY <1>3
    <2>2. PICK u \in {"candidate", "control"}, y \in Paths(plan) :
                  audit[j].cell = <<u, y>> /\ audit[j].cell[2] = y
      BY <1>3
    <2>3. x = y /\ t # u
      BY <1>5, <2>1, <2>2
    <2>4. Number(i) \in AllNumbers(<<t, x>>) /\ Number(i) \in AllNumbers(<<u, x>>)
      BY <1>2, <1>5, <2>1, <2>2, <2>3 DEF Of
    <2> QED
      BY <1>5, <2>3, <2>4
  <1> QED
    BY <1>4, <1>5 DEF Apart

\* No worker measures twice what it should measure once.
LEMMA FreshNumbers ==
    ASSUME Inv, Entered
    PROVE  (\A x \in Paths(plan) : \A v, w \in Measuring(x) : workers[v].pid = workers[w].pid => v = w)
              <=> Apart /\ \A c \in Cells : Lone(c)
  <1>1. \A x : Measuring(x) = {audit[i].worker : i \in {j \in Entries : audit[j].cell[2] = x}}
    BY DEF Measuring, Entries
  <1>2. \A i \in Entries : audit[i].cell \in Cells /\ audit[i].cell[2] \in Paths(plan)
    BY EntryTypes DEF Cells
  <1>3. \A i, j \in Entries : audit[i].worker = audit[j].worker => audit[i].cell = audit[j].cell
    BY PlanTypes DEF Entered, Inv, ScheduleInv, ScheduleTypes
  <1>4. ASSUME \A x \in Paths(plan) : \A v, w \in Measuring(x) : workers[v].pid = workers[w].pid => v = w,
               NEW i \in Entries, NEW j \in Entries,
               audit[i].cell[2] = audit[j].cell[2], Number(i) = Number(j)
        PROVE  audit[i].worker = audit[j].worker
    <2>1. audit[i].worker \in Measuring(audit[i].cell[2]) /\ audit[j].worker \in Measuring(audit[i].cell[2])
      BY <1>1, <1>4
    <2> QED
      BY <1>2, <1>4, <2>1 DEF Number
  <1>5. ASSUME \A x \in Paths(plan) : \A v, w \in Measuring(x) : workers[v].pid = workers[w].pid => v = w
        PROVE  Apart /\ \A c \in Cells : Lone(c)
    <2>1. Apart
      BY <1>3, <1>4, <1>5 DEF Apart
    <2>2. \A c \in Cells : Lone(c)
      BY <1>4, <1>5 DEF Lone, Of
    <2> QED
      BY <2>1, <2>2
  <1>6. ASSUME Apart, \A c \in Cells : Lone(c), NEW x \in Paths(plan),
               NEW v \in Measuring(x), NEW w \in Measuring(x), workers[v].pid = workers[w].pid
        PROVE  v = w
    <2>1. PICK i \in Entries, j \in Entries :
                 /\ audit[i].worker = v /\ audit[i].cell[2] = x
                 /\ audit[j].worker = w /\ audit[j].cell[2] = x
      BY <1>1
    <2>2. Number(i) = Number(j)
      BY <1>6, <2>1 DEF Number
    <2>3. audit[i].cell = audit[j].cell
      BY <1>6, <2>1, <2>2 DEF Apart
    <2>4. Lone(audit[i].cell) /\ i \in Of(audit[i].cell) /\ j \in Of(audit[i].cell)
      BY <1>2, <1>6, <2>3 DEF Of
    <2> QED
      BY <2>1, <2>2, <2>4 DEF Lone
  <1> QED
    BY <1>5, <1>6

\* A schedule that came to its end has measured each cell in each block.
LEMMA AllMeasured ==
    ASSUME Inv, AuditInv, at = "ended", ~unwinding, NEW i \in Entries
    PROVE  \A b \in BlocksOf : Has(audit[i].cell, b)
  <1>1. Entered /\ Underway /\ Measured
    BY DEF AuditInv
  <1>2. plan.twins \in BOOLEAN /\ plan.blocks \in Nat
    BY PlanTypes, Planned DEF Inv, ScheduleInv, ScheduleTypes
  <1>3. audit[i].cell \in Cells /\ audit[i].block \in BlocksOf
    BY <1>1, EntryTypes
  <1>4. CASE plan.twins
    <2>1. \A b \in BlocksOf : b \in Nat /\ b < block
      BY <1>1, <1>2, <1>4 DEF Underway, BlocksOf
    <2> QED
      BY <1>1, <1>3, <1>4, <2>1 DEF Measured
  <1>5. CASE ~plan.twins
    BY <1>3, <1>5 DEF BlocksOf, Has
  <1> QED
    BY <1>2, <1>4, <1>5

\* In a block the numbers of two sessions differ.
LEMMA SessionsDiffer ==
    ASSUME Inv, Entered, plan.reused, NEW b \in BlocksOf, NEW c \in Cells, NEW d \in Cells, c # d
    PROVE  Numbers(c, b) \cap Numbers(d, b) = {}
  <1>1. BlocksOf \subseteq Nat
    BY Planned DEF BlocksOf, Inv, ScheduleInv, ScheduleTypes
  <1>2. ASSUME NEW p, p \in Numbers(c, b), p \in Numbers(d, b)
        PROVE  FALSE
    <2>1. PICK i \in {j \in Of(c) : audit[j].block = b}, k \in {j \in Of(d) : audit[j].block = b} :
                 p = Number(i) /\ p = Number(k)
      BY <1>1, <1>2, NumbersOf
    <2>2. /\ i \in Entries /\ k \in Entries /\ audit[i].block = audit[k].block
          /\ audit[i].cell # audit[k].cell
      BY DEF Of
    <2>3. Number(i) # Number(k)
      BY <2>2, Zenon DEF Entered
    <2> QED
      BY <2>1, <2>3
  <1> QED
    BY <1>2

LEMMA Verdict ==
    ASSUME Inv, AuditInv
    PROVE  EvidenceVerifies
  <1> SUFFICES ASSUME at = "ended", ~unwinding
               PROVE  Verifies <=> Apart /\ \A c \in Cells : Lone(c)
    BY FreshNumbers DEF EvidenceVerifies, AuditInv
  <1>1. Entered /\ plan.reused \in BOOLEAN /\ plan.value \in BOOLEAN
    BY PlanTypes DEF AuditInv, Inv, ScheduleInv, ScheduleTypes
  <1> DEFINE Audited == {audit[i].cell : i \in 1..Len(audit)}
  <1>2. Audited \subseteq Cells /\ \A c \in Audited : \E i \in Entries : audit[i].cell = c
    BY <1>1, EntryTypes DEF Entries
  <1>3. \A c \in Cells : c \notin Audited => Lone(c)
    BY DEF Lone, Of, Entries
  <1>4. \A c \in Audited : \A b \in BlocksOf : Has(c, b)
    BY <1>2, AllMeasured
  <1> DEFINE One(c) ==
               IF plan.reused
               THEN /\ \A b \in BlocksOf : Cardinality(Numbers(c, b)) = 1
                    /\ Cardinality(AllNumbers(c)) = Cardinality(BlocksOf)
               ELSE Cardinality(AllNumbers(c)) = Cardinality({i \in 1..Len(audit) : audit[i].cell = c})
  <1>5. \A c \in Audited : One(c) <=> Lone(c)
    <2> SUFFICES ASSUME NEW c \in Audited PROVE One(c) <=> Lone(c)
      OBVIOUS
    <2>1. CASE plan.reused
      BY <1>2, <1>4, <2>1, SessionsVerify
    <2>2. CASE ~plan.reused
      BY <1>2, <2>2, WorkersVerify DEF Entries
    <2> QED
      BY <1>1, <2>1, <2>2
  <1>6. plan.value /\ plan.reused =>
          \A b \in BlocksOf : \A c, d \in Cells : c # d => Numbers(c, b) \cap Numbers(d, b) = {}
    BY <1>1, SessionsDiffer
  <1>7. Verifies <=> Apart /\ \A c \in Audited : One(c)
    <2>1. Verifies <=>
            /\ \A c \in Audited : One(c)
            /\ \A x \in Paths(plan) : AllNumbers(<<"candidate", x>>) \cap AllNumbers(<<"control", x>>) = {}
            /\ plan.value /\ plan.reused =>
                 \A b \in BlocksOf : \A c, d \in Cells : c # d => Numbers(c, b) \cap Numbers(d, b) = {}
      BY DEF Verifies
    <2> HIDE DEF Audited, One
    <2> QED
      BY <1>1, <1>6, <2>1, TwinsApart
  <1> HIDE DEF Audited, One
  <1> QED
    BY <1>2, <1>3, <1>5, <1>7

\* What the runner measured to the end verifies exactly when the system gave no number twice to
\* the workers of a path: for every plan, in sessions or not, whatever children and faults.
THEOREM EvidenceIsVerified == Spec => []EvidenceVerifies
  <1>1. Init => AuditInv
    BY InitAudit
  <1>2. Inv /\ AuditInv /\ [Next]_vars => AuditInv'
    BY AuditStep
  <1>3. Inv /\ AuditInv => EvidenceVerifies
    BY Verdict
  <1> QED
    BY <1>1, <1>2, <1>3, WorkersInvariant, PTL DEF Spec
===============================================================================
