------------------------------- MODULE CapacityProofs -------------------------------
(***************************************************************************)
(* Proofs about the capacity command.  First the ledger in which its       *)
(* processes meet, for any number of runs, parents, crashes and failures   *)
(* and any limits: one receipt for each attempt, payload that is never out *)
(* of reach, what a receipt says, and in which order.  One of the theorems *)
(* has a hypothesis besides LedgerAssumption, a limit of the code itself   *)
(* and not of the proof.  Then the exchange of one worker with its         *)
(* launcher, for any requests, samples, deadlines and schedules.           *)
(***************************************************************************)
EXTENDS AttemptLedger, ResourceObserver, FiniteSetTheorems, WellFoundedInduction, SequenceTheorems, TLAPS


Locking == {"temps", "recover", "judge", "clear", "quarantine", "attest", "allocate", "attach",
    "write", "sync", "undo", "boundary", "retire"}
Writing == {"write", "sync", "undo"}
Charged == {"judge", "clear", "quarantine", "attest"}
Before == {"idle", "ready", "early", "allocate", "recover"} \cup Charged
Underway == {"begun", "staged", "bound", "filled", "full", "sealed", "promoted", "settle", "settling"}

Intact(r) == place[r] = "final" /\ payload[r] = "whole"
Dead(r) == r \in Runs /\ pc[r] \in {"ended", "crashed"}
Pending(r) == Marker(r) \in live /\ Receipts(r) = {}
Bound(r) == Binding(r) \in live
Wiped(r) == payload[r] \in {"none", "zero"}

\* The run has done nothing yet, but that its marker may be visible.
Blank(r) ==
    /\ place[r] = "none" /\ payload[r] = "none" /\ verdict[r] = "none"
    /\ Receipts(r) = {} /\ r \notin appended /\ r \notin retried
\* It has done nothing yet but a receipt, for want of a marker.
Unmarked(r) ==
    /\ place[r] = "none" /\ payload[r] = "none" /\ Marker(r) \notin live
    /\ r \notin appended /\ r \notin retried
Fresh(r) == Blank(r) /\ Marker(r) \notin live

\* The attempt is at work, and not judged yet.
Ongoing(r) == verdict[r] = "none" /\ Pending(r) /\ r \notin appended /\ r \notin retried

\* The attempt may be receipted: it never had a marker, or it is judged.
Ripe(r) ==
    \/ verdict[r] = "none" /\ Fresh(r)
    \/ verdict[r] # "none" /\ Pending(r) /\ (verdict[r] = "passed" => Intact(r) /\ Bound(r))

Held == \A p \in Processes : lock = p <=> pc[p] \in Locking

\* What the file that p publishes is for, and where p goes on.
Task(p) ==
    LET j == job[p]
        m == subject[p]
    IN
    /\ pc[p] = "temps" =>
          \/ j.then = "recover"
          \/ p \in Runs /\ j.then = "allocate"
          \/ p \in Runs /\ j.then = "attach" /\ m = p
    /\ pc[p] = "allocate" => p \in Runs
    /\ pc[p] = "attach" => p \in Runs /\ m = p /\ temps = {}
    /\ pc[p] \in Writing =>
          \/ p \in Runs /\ j.name = Marker(p) /\ j.then = "begun" /\ j.else = "early"
          \/ p \in Runs /\ j.name = Binding(p) /\ j.then = "bound" /\ j.else = "settle"
          \/ p \in Runs /\ j.name = Inventory(p) /\ j.then = "sealed" /\ j.else = "settle"
          \/ /\ m # p /\ j.then = "clear" /\ j.else = "ended"
             /\ \E g \in 1..MaxGenerations : j.name = Intent(m, g)
          \/ /\ m \in Runs /\ j.then = "boundary" /\ j.else = IF m = p THEN "unwind" ELSE "ended"
             /\ \E n \in Numbers : j.name = Receipt(n)
          \/ /\ p \in Runs /\ m = p /\ j.then = "ended" /\ j.else = "unwind"
             /\ \E n \in Numbers : j.name = Receipt(n)
    /\ pc[p] \in Writing /\ m = p /\ j.then \in {"boundary", "ended"} => temps = {}
    /\ pc[p] = "boundary" /\ m = p => temps = {}

\* What a run knows of its own attempt.
Course(r) ==
    LET then == job[r].then
        own == subject[r] = r
    IN
    /\ pc[r] \in Before => Fresh(r)
    /\ pc[r] = "temps" => IF then = "attach" THEN Ripe(r) ELSE Fresh(r)
    /\ pc[r] = "attach" => Ripe(r)
    /\ pc[r] = "append" => verdict[r] # "none" /\ Ripe(r)
    /\ pc[r] \in Underway => Ongoing(r)
    /\ pc[r] \in {"begun", "staged"} => payload[r] = "none"
    /\ pc[r] \in {"bound", "filled", "full", "sealed", "promoted"} => Bound(r)
    /\ pc[r] \in {"full", "sealed", "promoted"} => payload[r] = "whole"
    /\ pc[r] = "promoted" => place[r] = "final"
    /\ pc[r] = "settling" => Wiped(r)
    /\ pc[r] \in Writing =>
          /\ then = "begun" => IF pc[r] = "sync" THEN Blank(r) /\ Marker(r) \in live ELSE Fresh(r)
          /\ then \in {"bound", "sealed"} => Ongoing(r)
          /\ then = "bound" => payload[r] = "none" /\ (pc[r] = "sync" => Bound(r))
          /\ then = "sealed" => Bound(r) /\ payload[r] = "whole"
          /\ then = "clear" \/ (then = "boundary" /\ ~own) => Fresh(r)
          /\ then = "boundary" /\ own => verdict[r] # "none"
          /\ then = "ended" => verdict[r] = "none"
          /\ then \in {"boundary", "ended"} /\ own =>
                IF pc[r] # "sync" THEN Ripe(r)
                ELSE IF verdict[r] = "none" THEN Unmarked(r)
                ELSE Marker(r) \in live /\ (verdict[r] = "passed" => Intact(r) /\ Bound(r))
    /\ pc[r] \in {"boundary", "retire"} =>
          IF ~own THEN Fresh(r)
          ELSE /\ verdict[r] # "none" /\ Marker(r) \in live
               /\ verdict[r] = "passed" => Intact(r) /\ Passed(r) /\ (r \in appended \/ Bound(r))
               /\ pc[r] = "retire" => r \in appended
    /\ pc[r] = "unwind" /\ verdict[r] = "passed" /\ r \notin appended =>
          /\ Marker(r) \in live /\ Bound(r)
          /\ Receipts(r) = {} \/ (r \in retried /\ faults > 1)
    /\ r \in retried => faults > 0

\* A receipt says what is so.
Truthful(n) ==
    LET e == said[n] IN
    /\ e.attempt \in Runs
    /\ e.outcome \in {"passed", "failed", "interrupted"}
    /\ e.outcome = "passed" => e.root /\ verdict[e.attempt] = "passed"
    /\ e.outcome # "passed" /\ ~e.root => Wiped(e.attempt)

\* What whoever terminates an attempt knows of it.
Charge(p) ==
    LET m == subject[p]
        then == job[p].then
    IN
    /\ pc[p] \in Charged => m # p /\ Dead(m) /\ Pending(m)
    /\ pc[p] = "quarantine" => Wiped(m)
    /\ pc[p] = "attest" => Absent(m)
    /\ pc[p] = "write" /\ then = "begun" => Marked = {}
    /\ pc[p] \in Writing /\ then = "clear" => Dead(m) /\ Pending(m)
    /\ pc[p] \in Writing /\ then \in {"boundary", "ended"} =>
          /\ m # p => Dead(m) /\ Marker(m) \in live /\ Absent(m)
          /\ pc[p] # "sync" => Receipts(m) = {}
          /\ \A n \in Numbers : job[p].name = Receipt(n) =>
                /\ pc[p] = "sync" => n = Cardinality(Published) /\ n \in Published
                /\ pc[p] = "write" => n = Cardinality(Published) + 1 /\ Truthful(n)
                /\ pc[p] # "undo" =>
                      /\ said[n].attempt = m
                      /\ said[n].outcome = IF m # p THEN "interrupted"
                                           ELSE IF then = "ended" THEN "failed" ELSE verdict[p]
    /\ pc[p] \in {"boundary", "retire"} =>
          m \in Runs /\ (m # p => Dead(m)) /\ Marker(m) \in live /\ Receipts(m) # {}
    /\ pc[p] = "retire" => Passed(m) \/ Absent(m)

\* One receipt of each attempt, numbered without a gap.
Chained ==
    /\ Published = 1..Cardinality(Published)
    /\ \A n, k \in Published : said[n].attempt = said[k].attempt => n = k
    /\ \A n \in Published : Truthful(n)

Single == \A r, s \in Marked : r = s

\* Its own reconciliation was interrupted twice, and it gave the output up.
Twice(r) == /\ r \in retried /\ r \notin appended /\ faults > 1
            /\ pc[r] \in {"unwind", "ended", "crashed"}
Stands(r) == Passed(r) => Intact(r) \/ Twice(r)
Accounted(r) == Passed(r) \/ Absent(r) \/ (Marker(r) \in live /\ (Bound(r) \/ payload[r] = "none"))

Inv ==
    /\ TypeOK /\ Held /\ Chained /\ Single
    /\ \A p \in Processes : Task(p) /\ Charge(p)
    /\ \A r \in Runs : Course(r) /\ Stands(r) /\ Accounted(r)

\* An attempt in flight is due the number that follows, or the last one when a run without a
\* marker overtook it.
Due(m) == seq[m] = IF ChainInOrder THEN Cardinality(Published) + 1 ELSE Cardinality(Published)

\* Process p holds the flock but need not have seen the receipts in order: it syncs a receipt
\* of its own that was written without a marker, or binds its stage.
Aside(p) ==
    \/ pc[p] = "sync" /\ job[p].then = "ended"
    \/ pc[p] \in Writing /\ job[p].then \in {"bound", "sealed"}

\* The receipt a process publishes is in order, or a run without a marker overtakes the
\* attempt in flight.
Drafted(p, n) ==
    IF job[p].then = "boundary" THEN said[n].sequence = n
    ELSE IF said[n].sequence = n THEN \A m \in Marked : Receipts(m) # {}
    ELSE Marked # {}

\* The order of the receipts, and what whoever holds the flock knows of it.
InOrder ==
    /\ OnlyTheLastBreaks
    /\ \A m \in Marked : IF Receipts(m) = {} THEN Due(m) ELSE \A n \in Receipts(m) : seq[m] = n
    /\ \A p \in Processes : pc[p] \in Locking \ {"temps"} => ChainInOrder \/ Aside(p)
    /\ \A p \in Processes, n \in Numbers :
          pc[p] \in {"write", "sync"} /\ job[p].name = Receipt(n) => Drafted(p, n)
    /\ \A p \in Runs : pc[p] = "write" /\ job[p].then = "begun" => seq[p] = Cardinality(Published) + 1

-----------------------------------------------------------------------------
(* Names and numbers of the ledger *)

\* There are finitely many receipts, and their numbers are counted from one.
LEMMA Finite ==
    /\ Cardinality(Runs) \in Nat
    /\ Numbers \subseteq Nat /\ 0 \notin Numbers
    /\ IsFiniteSet(Published) /\ Cardinality(Published) \in Nat
    /\ Published \subseteq Numbers
  <1>1. Cardinality(Runs) \in Nat
    BY LedgerAssumption, FS_CardinalityType
  <1>2. IsFiniteSet(Numbers)
    BY <1>1, FS_Interval DEF Numbers
  <1>3. Published \in SUBSET Numbers
    BY DEF Published
  <1>4. IsFiniteSet(Published)
    BY <1>2, <1>3, FS_Subset
  <1> QED
    BY <1>1, <1>3, <1>4, FS_CardinalityType DEF Numbers

\* A receipt can still be numbered as long as a run is without one.
LEMMA Room ==
    ASSUME TypeOK, Chained, NEW m \in Runs, Receipts(m) = {}
    PROVE  Cardinality(Published) + 1 \in Numbers
  <1> DEFINE of == [n \in Published |-> said[n].attempt]
  <1>1. of \in Injection(Published, Runs \ {m})
    <2>1. \A n \in Published : said[n].attempt \in Runs \ {m}
      BY DEF Chained, Truthful, Receipts
    <2>2. \A n, k \in Published : of[n] = of[k] => n = k
      BY DEF Chained
    <2> QED
      BY <2>1, <2>2 DEF Injection, IsInjective
  <1>2. IsFiniteSet(Runs \ {m}) /\ Cardinality(Runs \ {m}) = Cardinality(Runs) - 1
    BY LedgerAssumption, FS_RemoveElement
  <1>3. Cardinality(Published) <= Cardinality(Runs \ {m})
    <2> HIDE DEF of
    <2> QED
      BY <1>1, <1>2, FS_Injection
  <1> QED
    BY <1>2, <1>3, Finite DEF Numbers

\* An attempt has no more intents than generations.
LEMMA Generations ==
    ASSUME NEW r
    PROVE  Generation(r) \in 0..MaxGenerations
  <1> DEFINE intent == [g \in 1..MaxGenerations |-> Intent(r, g)]
  <1>1. MaxGenerations \in Nat
    BY LedgerAssumption
  <1>2. IsFiniteSet(1..MaxGenerations) /\ Cardinality(1..MaxGenerations) = MaxGenerations
    BY <1>1, FS_Interval
  <1>3. intent \in Surjection(1..MaxGenerations, Intents(r))
    BY DEF Surjection, Intents
  <1>4. IsFiniteSet(Intents(r)) /\ Cardinality(Intents(r)) <= MaxGenerations
    <2> HIDE DEF intent
    <2> QED
      BY <1>2, <1>3, FS_Surjection
  <1>5. IsFiniteSet(Intents(r) \cap live) /\ Cardinality(Intents(r) \cap live) <= Cardinality(Intents(r))
    BY <1>4, FS_Subset
  <1>6. Cardinality(Intents(r)) \in Nat /\ Cardinality(Intents(r) \cap live) \in Nat
    BY <1>4, <1>5, FS_CardinalityType
  <1> QED
    BY <1>1, <1>4, <1>5, <1>6 DEF Generation

\* Finitely many numbers have a greatest.
LEMMA Greatest ==
    ASSUME NEW S \in SUBSET Nat, IsFiniteSet(S), S # {}
    PROVE  Max(S) \in S /\ \A n \in S : n <= Max(S)
  <1> DEFINE above(n) == {m \in S : m > n}
             tails == {above(n) : n \in S}
  <1>1. tails \subseteq FiniteSubsetsOf(S) /\ tails # {}
    <2>1. \A t \in tails : t \in SUBSET S
      OBVIOUS
    <2>2. PICK n \in S : TRUE
      OBVIOUS
    <2>3. above(n) \in tails
      OBVIOUS
    <2> HIDE DEF tails
    <2> QED
      BY <2>1, <2>3, FS_FiniteSubsetsOfFinite
  <1>2. PICK t \in tails : \A u \in tails : <<u, t>> \notin StrictSubsetOrdering(S)
    <2> HIDE DEF tails
    <2>1. IsWellFoundedOn(StrictSubsetOrdering(S), FiniteSubsetsOf(S))
      BY FS_StrictSubsetOrderingWellFounded
    <2> QED
      BY <1>1, <2>1, WFMin
  <1>3. PICK n \in S : t = above(n)
    OBVIOUS
  <1>4. above(n) = {}
    <2> SUFFICES ASSUME NEW m \in above(n) PROVE FALSE
      OBVIOUS
    <2>1. m \in S /\ m > n /\ m \in Nat /\ n \in Nat
      OBVIOUS
    <2>2. \A k \in above(m) : k \in above(n)
      <3> SUFFICES ASSUME NEW k \in above(m) PROVE k \in above(n)
        OBVIOUS
      <3>1. k \in S /\ k > m /\ k \in Nat
        OBVIOUS
      <3> QED
        BY <2>1, <3>1
    <2>3. m \notin above(m)
      BY <2>1
    <2>4. above(m) \subseteq above(n) /\ above(m) # above(n)
      BY <2>2, <2>3
    <2>5. <<above(m), above(n)>> \in StrictSubsetOrdering(S)
      BY <2>4 DEF StrictSubsetOrdering
    <2> QED
      BY <1>2, <1>3, <2>1, <2>5
  <1>5. \A m \in S : n >= m
    <2> SUFFICES ASSUME NEW m \in S PROVE n >= m
      OBVIOUS
    <2>1. m \in Nat /\ n \in Nat /\ ~(m > n)
      BY <1>4
    <2> QED
      BY <2>1
  <1>6. Max(S) \in S /\ \A y \in S : Max(S) >= y
    BY <1>5 DEF Max
  <1>7. Max(S) \in Nat /\ \A y \in S : y \in Nat
    BY <1>6
  <1> QED
    BY <1>6, <1>7

\* The sequence of a new marker is a number: one above every sequence of a marker or receipt.
LEMMA NextSequence ==
    ASSUME TypeOK
    PROVE  /\ Max(Sequences \cup {0}) \in Nat /\ Max(Sequences \cup {0}) + 1 \in Nat
           /\ \A n \in Sequences : n <= Max(Sequences \cup {0})
  <1> DEFINE saying == [n \in Published |-> said[n].sequence]
             marking == [r \in Marked |-> seq[r]]
             A == {said[n].sequence : n \in Published}
             B == {seq[r] : r \in Marked}
  <1>1. A \subseteq Nat /\ B \subseteq Nat
    BY DEF TypeOK, Published, Marked
  <1>2. IsFiniteSet(A)
    <2>1. saying \in Surjection(Published, A)
      BY DEF Surjection
    <2> HIDE DEF saying, A
    <2> QED
      BY <2>1, Finite, FS_Surjection
  <1>3. IsFiniteSet(B)
    <2>1. marking \in Surjection(Marked, B)
      BY DEF Surjection
    <2>2. IsFiniteSet(Marked)
      BY LedgerAssumption, FS_Subset DEF Marked
    <2> HIDE DEF marking, B
    <2> QED
      BY <2>1, <2>2, FS_Surjection
  <1>4. IsFiniteSet(Sequences \cup {0}) /\ Sequences \cup {0} \in SUBSET Nat
    <2>1. IsFiniteSet(A \cup B)
      <3> HIDE DEF A, B
      <3> QED
        BY <1>2, <1>3, FS_Union
    <2>2. Sequences = A \cup B
      BY DEF Sequences
    <2> QED
      BY <1>1, <2>1, <2>2, FS_AddElement
  <1>5. /\ Max(Sequences \cup {0}) \in Sequences \cup {0}
        /\ \A n \in Sequences \cup {0} : n <= Max(Sequences \cup {0})
    <2> HIDE DEF A, B
    <2> QED
      BY <1>4, Greatest
  <1>6. Max(Sequences \cup {0}) \in Nat
    BY <1>4, <1>5
  <1> QED
    BY <1>5, <1>6

\* No two files have one name.
LEMMA Naming ==
    /\ \A r, s : Marker(r) = Marker(s) => r = s
    /\ \A r, s : Binding(r) = Binding(s) => r = s
    /\ \A n, k : Receipt(n) = Receipt(k) => n = k
    /\ \A r, s : Marker(r) # Binding(s) /\ Marker(r) # Inventory(s) /\ Binding(r) # Inventory(s)
    /\ \A r, n : Receipt(n) # Marker(r) /\ Receipt(n) # Binding(r) /\ Receipt(n) # Inventory(r)
    /\ \A r, s, g : Intent(s, g) # Marker(r) /\ Intent(s, g) # Binding(r)
    /\ \A n, s, g : Intent(s, g) # Receipt(n)
  <1> QED
    BY SMTT(30) DEF Marker, Binding, Inventory, Intent, Receipt

LEMMA NamesTyped ==
    /\ \A r \in Runs : Marker(r) \in Names /\ Binding(r) \in Names /\ Inventory(r) \in Names
    /\ \A r \in Runs, g \in 1..MaxGenerations : Intent(r, g) \in Names
    /\ \A n \in Numbers : Receipt(n) \in Names
  <1> QED
    BY DEF Names, Companions, Intents

-----------------------------------------------------------------------------
(* What a step of one process leaves alone *)

LEMMA SameFiles ==
    ASSUME live' = live, said' = said
    PROVE  /\ Published' = Published /\ Marked' = Marked
           /\ \A r : Receipts(r)' = Receipts(r)
           /\ \A r : Generation(r)' = Generation(r)
  <1>1. Published' = Published
    BY DEF Published
  <1> QED
    BY <1>1 DEF Marked, Receipts, Generation

\* A step of p changes what others know only of dead runs, and under the flock.
Apart(p) ==
    /\ ~Dead(p) /\ faults \in Nat /\ faults' \in Nat /\ faults' >= faults
    /\ \A q \in Processes \ {p} : pc'[q] = pc[q] /\ job'[q] = job[q] /\ subject'[q] = subject[q]
    /\ \A r \in Runs \ {p} :
          /\ verdict'[r] = verdict[r]
          /\ r \in appended' <=> r \in appended
          /\ r \in retried' <=> r \in retried
          /\ ~Dead(r) => /\ place'[r] = place[r] /\ payload'[r] = payload[r]
                         /\ Marker(r) \in live' <=> Marker(r) \in live
                         /\ Binding(r) \in live' <=> Binding(r) \in live
                         /\ Receipts(r)' = Receipts(r)
    /\ lock # p => /\ live' = live /\ said' = said /\ temps' = temps
                   /\ \A r \in Runs \ {p} : place'[r] = place[r] /\ payload'[r] = payload[r]

\* A step under the flock is a step of its holder.
LEMMA UnderLock ==
    ASSUME Inv, NEW p \in Processes, lock = p, Apart(p), NEW q \in Processes, q # p
    PROVE  Task(q)' /\ Charge(q)' /\ (q \in Runs => Course(q)')
  <1>1. pc[q] \notin Locking /\ pc'[q] = pc[q] /\ job'[q] = job[q] /\ subject'[q] = subject[q]
    BY DEF Inv, Held, Apart
  <1>2. Task(q)' /\ Charge(q)'
    BY <1>1 DEF Task, Charge, Locking, Writing, Charged
  <1>3. ASSUME q \in Runs
        PROVE  Course(q)'
    <2>1. Course(q) /\ q \in Runs \ {p}
      BY <1>3 DEF Inv
    <2>2. CASE Dead(q)
      <3>1. pc[q] \in {"ended", "crashed"} /\ (q \in retried' <=> q \in retried)
        BY <2>1, <2>2 DEF Dead, Apart
      <3>2. q \in retried => faults > 0
        BY <2>1 DEF Course
      <3>3. faults' >= faults /\ faults \in Nat /\ faults' \in Nat
        BY DEF Apart
      <3> QED
        BY <1>1, <3>1, <3>2, <3>3 DEF Course, Before, Charged, Underway, Writing
    <2>3. CASE ~Dead(q)
      <3>1. /\ verdict'[q] = verdict[q] /\ place'[q] = place[q] /\ payload'[q] = payload[q]
            /\ q \in appended' <=> q \in appended
            /\ q \in retried' <=> q \in retried
            /\ Marker(q) \in live' <=> Marker(q) \in live
            /\ Binding(q) \in live' <=> Binding(q) \in live
            /\ Receipts(q)' = Receipts(q)
        BY <2>1, <2>3 DEF Apart
      <3>2. /\ Fresh(q)' <=> Fresh(q)
            /\ Ongoing(q)' <=> Ongoing(q)
            /\ Ripe(q)' <=> Ripe(q)
            /\ Bound(q)' <=> Bound(q)
            /\ Wiped(q)' <=> Wiped(q)
        BY <3>1 DEF Fresh, Blank, Ongoing, Ripe, Pending, Bound, Wiped, Intact
      <3>3. faults' >= faults /\ faults \in Nat /\ faults' \in Nat
        BY DEF Apart
      <3> QED
        BY <1>1, <2>1, <3>1, <3>2, <3>3 DEF Course, Locking, Before, Charged, Underway, Writing
    <2> QED
      BY <2>2, <2>3
  <1> QED
    BY <1>2, <1>3

LEMMA Outside ==
    ASSUME Inv, NEW p \in Processes, lock # p, Apart(p), NEW q \in Processes, q # p
    PROVE  Task(q)' /\ Charge(q)' /\ (q \in Runs => Course(q)')
  <1>1. pc'[q] = pc[q] /\ job'[q] = job[q] /\ subject'[q] = subject[q]
    BY DEF Apart
  <1>2. live' = live /\ said' = said /\ temps' = temps
    BY DEF Apart
  <1>3. Published' = Published /\ Marked' = Marked /\ \A r : Receipts(r)' = Receipts(r)
    BY <1>2, SameFiles
  <1>4. \A r \in Runs \ {p} : place'[r] = place[r] /\ payload'[r] = payload[r] /\ verdict'[r] = verdict[r]
    BY DEF Apart
  <1>5. \A r \in Runs \ {p} :
          /\ Wiped(r)' <=> Wiped(r)
          /\ Absent(r)' <=> Absent(r)
          /\ Pending(r)' <=> Pending(r)
          /\ Passed(r)' <=> Passed(r)
          /\ Dead(r) => Dead(r)'
    BY <1>2, <1>3, <1>4 DEF Wiped, Absent, Pending, Passed, Dead, Apart, Processes
  <1>6. Task(q)'
    <2>1. Task(q)
      BY DEF Inv
    <2> QED
      BY <1>1, <1>2, <2>1 DEF Task
  <1>7. subject[q] # q /\ Dead(subject[q]) => subject[q] \in Runs \ {p}
    BY DEF Apart, Dead
  <1>8. Charge(q)'
    <2>1. Charge(q) /\ Task(q)
      BY DEF Inv
    <2>0. PICK m : m = subject[q]
      OBVIOUS
    <2>2. pc[q] \in Writing /\ job[q].then \in {"boundary", "ended"} => m \in Runs \ {p}
      BY <1>7, <2>0, <2>1 DEF Charge, Task
    <2>3. ASSUME pc[q] = "write", job[q].then \in {"boundary", "ended"}, NEW n \in Numbers, Truthful(n), said[n].attempt = m
          PROVE  Truthful(n)'
      BY <1>2, <1>4, <1>5, <2>2, <2>3 DEF Truthful, Writing
    <2>4. m \in Runs \ {p} \/ ~(pc[q] \in Charged \cup Writing \cup {"boundary", "retire"})
          \/ (pc[q] \in Writing /\ job[q].then \in {"begun", "bound", "sealed"})
      BY <1>7, <2>0, <2>1 DEF Charge, Task
    <2>5. subject'[q] = m /\ job[q].then = job'[q].then /\ job'[q].name = job[q].name
      BY <1>1, <2>0
    <2>6. CASE m \in Runs \ {p}
      <3>1. /\ Receipts(m)' = Receipts(m)
            /\ Wiped(m)' <=> Wiped(m)
            /\ Absent(m)' <=> Absent(m)
            /\ Pending(m)' <=> Pending(m)
            /\ Passed(m)' <=> Passed(m)
            /\ Marker(m) \in live' <=> Marker(m) \in live
            /\ Dead(m) => Dead(m)'
        BY <1>2, <1>3, <1>5, <2>6
      <3>2. q \in Runs => verdict'[q] = verdict[q]
        BY DEF Apart
      <3>4. pc[q] \in Writing /\ job[q].then \in {"boundary", "ended"} =>
              \A n \in Numbers : job[q].name = Receipt(n) =>
                /\ pc[q] = "sync" => n = Cardinality(Published') /\ n \in Published'
                /\ pc[q] = "write" => n = Cardinality(Published') + 1 /\ Truthful(n)'
                /\ pc[q] # "undo" =>
                      /\ said'[n].attempt = m
                      /\ said'[n].outcome = IF m # q THEN "interrupted"
                                           ELSE IF job[q].then = "ended" THEN "failed" ELSE verdict'[q]
        BY <1>2, <1>3, <2>0, <2>1, <2>3, <2>6, <3>2 DEF Charge, Writing
      <3> QED
        BY <1>1, <1>2, <1>3, <2>0, <2>1, <2>5, <3>1, <3>4 DEF Charge
    <2>7. CASE m \notin Runs \ {p}
      BY <1>1, <1>3, <2>0, <2>1, <2>4, <2>5, <2>7 DEF Charge, Charged, Writing
    <2> QED
      BY <2>6, <2>7
  <1>9. ASSUME q \in Runs
        PROVE  Course(q)'
    <2>1. Course(q) /\ q \in Runs \ {p}
      BY <1>9 DEF Inv
    <2>2. /\ verdict'[q] = verdict[q] /\ place'[q] = place[q] /\ payload'[q] = payload[q]
          /\ q \in appended' <=> q \in appended
          /\ q \in retried' <=> q \in retried
          /\ Receipts(q)' = Receipts(q)
      BY <1>3, <2>1 DEF Apart
    <2>3. /\ Fresh(q)' <=> Fresh(q)
          /\ Blank(q)' <=> Blank(q)
          /\ Ongoing(q)' <=> Ongoing(q)
          /\ Ripe(q)' <=> Ripe(q)
          /\ Bound(q)' <=> Bound(q)
          /\ Intact(q)' <=> Intact(q)
          /\ Unmarked(q)' <=> Unmarked(q)
      BY <1>2, <2>2 DEF Unmarked, Fresh, Blank, Ongoing, Ripe, Pending, Bound, Wiped, Intact
    <2>4. faults' >= faults /\ faults \in Nat /\ faults' \in Nat
      BY DEF Apart
    <2> QED
      BY <1>1, <1>2, <1>5, <2>1, <2>2, <2>3, <2>4 DEF Course
  <1> QED
    BY <1>6, <1>8, <1>9

\* A step of p that writes and removes no file, and touches at most the output of m.
LEMMA Unfiled ==
    ASSUME Inv, NEW p \in Processes, Apart(p), live' = live, said' = said, NEW m,
           \A r \in Runs \ {p, m} : place'[r] = place[r] /\ payload'[r] = payload[r],
           \A r \in Runs \cap {p, m} :
              /\ Receipts(r) = {} \/ (verdict'[r] = verdict[r] /\ (Wiped(r) => Wiped(r)'))
              /\ Stands(r)' /\ Accounted(r)',
           TypeOK', Held', Task(p)', Charge(p)', p \in Runs => Course(p)'
    PROVE  Inv'
  <1>1. Published' = Published /\ Marked' = Marked /\ \A r : Receipts(r)' = Receipts(r)
    BY SameFiles
  <1>2. \A q \in Processes : Task(q)' /\ Charge(q)' /\ (q \in Runs => Course(q)')
    BY UnderLock, Outside
  <1>3. \A r \in Runs \ {p, m} :
          /\ Wiped(r)' <=> Wiped(r)
          /\ Absent(r)' <=> Absent(r)
          /\ Passed(r)' <=> Passed(r)
          /\ Intact(r)' <=> Intact(r)
          /\ Bound(r)' <=> Bound(r)
          /\ Twice(r) => Twice(r)'
          /\ verdict'[r] = verdict[r]
    BY <1>1 DEF Wiped, Absent, Passed, Intact, Bound, Twice, Apart, Processes
  <1>4. \A r \in Runs : Stands(r)' /\ Accounted(r)'
    <2> SUFFICES ASSUME NEW r \in Runs PROVE Stands(r)' /\ Accounted(r)'
      OBVIOUS
    <2>1. CASE r \in {p, m}
      BY <2>1
    <2>2. CASE r \notin {p, m}
      <3>1. Stands(r) /\ Accounted(r) /\ payload'[r] = payload[r]
        BY <2>2 DEF Inv
      <3> QED
        BY <1>3, <2>2, <3>1 DEF Stands, Accounted
    <2> QED
      BY <2>1, <2>2
  <1>5. Chained'
    <2>1. ASSUME NEW n \in Published
          PROVE  Truthful(n)'
      <3>1. PICK r : r = said[n].attempt
        OBVIOUS
      <3>2. r \in Runs /\ n \in Receipts(r) /\ Truthful(n)
        BY <2>1, <3>1 DEF Inv, Chained, Truthful, Receipts
      <3>3. verdict'[r] = verdict[r] /\ (Wiped(r) => Wiped(r)')
        BY <1>3, <3>2
      <3> QED
        BY <3>1, <3>2, <3>3 DEF Truthful
    <2> QED
      BY <1>1, <2>1 DEF Inv, Chained
  <1>6. Single'
    BY <1>1 DEF Inv, Single
  <1> QED
    BY <1>2, <1>4, <1>5, <1>6 DEF Inv, Processes

-----------------------------------------------------------------------------
(* The flock, and the types *)

LEMMA Owner ==
    ASSUME Inv, NEW p \in Processes, pc[p] \in Locking
    PROVE  lock = p /\ \A q \in Processes \ {p} : pc[q] \notin Locking
  BY DEF Inv, Held

LEMMA HeldGoto ==
    ASSUME TypeOK, Held, NEW p \in Processes, NEW l, Goto(p, l), lock' = lock,
           l \in Locking <=> pc[p] \in Locking
    PROVE  Held'
  BY DEF Held, TypeOK, Goto, Processes

LEMMA HeldProceed ==
    ASSUME TypeOK, Held, NEW p \in Processes, NEW l, Proceed(p, l),
           \/ l \in Unlocked
           \/ l \in Locking /\ pc[p] \in Locking
    PROVE  Held'
  <1>1. Nobody \notin Processes
    BY LedgerAssumption DEF Processes
  <1>2. Unlocked \cap Locking = {}
    BY DEF Unlocked, Locking, Ended
  <1>3. pc'[p] = l /\ \A q \in Processes \ {p} : pc'[q] = pc[q]
    BY DEF TypeOK, Proceed, Goto
  <1>4. lock = p <=> pc[p] \in Locking
    BY DEF Held
  <1>5. \A q \in Processes \ {p} : lock = q <=> pc[q] \in Locking
    BY DEF Held
  <1>6. lock' = IF lock = p /\ l \in Unlocked THEN Nobody ELSE lock
    BY DEF Proceed
  <1>7. Processes' = Processes
    BY DEF Processes
  <1> QED
    BY <1>1, <1>2, <1>3, <1>4, <1>5, <1>6, <1>7 DEF Held

LEMMA HeldTake ==
    ASSUME TypeOK, Held, NEW p \in Processes, NEW l, NEW m, Take(p, l, m), m \in Locking
    PROVE  Held'
  <1>1. Nobody \notin Processes
    BY LedgerAssumption DEF Processes
  <1>2. pc'[p] = m /\ \A q \in Processes \ {p} : pc'[q] = pc[q]
    BY DEF TypeOK, Take, Goto
  <1>3. \A q \in Processes : pc[q] \notin Locking
    BY <1>1 DEF Held, Take
  <1> QED
    BY <1>2, <1>3 DEF Held, Take, Processes

\* Where the error of a process surfaces, it holds no flock.
LEMMA HeldFail ==
    ASSUME TypeOK, Held, NEW p \in Processes, Fail(p)
    PROVE  Held'
  <1>1. Proceed(p, "unwind") \/ Proceed(p, "ended")
    BY DEF Fail
  <1>2. "unwind" \in Unlocked /\ "ended" \in Unlocked
    BY DEF Unlocked, Ended
  <1> QED
    BY <1>1, <1>2, HeldProceed

LEMMA HeldLocked ==
    ASSUME Inv, NEW p \in Processes, Locked(p)
    PROVE  Held'
  <1> USE DEF Locking
  <1>0. TypeOK /\ Held /\ Task(p)
    BY DEF Inv
  <1>1. CASE Write(p)
    BY <1>0, <1>1, HeldGoto DEF Write
  <1>2. CASE Sync(p)
    <2>1. job[p].then \in Unlocked \/ job[p].then \in Locking
      BY <1>0, <1>2 DEF Sync, Task, Writing, Unlocked, Ended
    <2> QED
      BY <1>0, <1>2, <2>1, HeldProceed DEF Sync
  <1>3. CASE WriteFails(p) \/ Undo(p)
    <2>1. job[p].else \in Unlocked
      BY <1>0, <1>3 DEF WriteFails, Undo, Task, Writing, Unlocked, Ended
    <2> QED
      BY <1>0, <1>3, <2>1, HeldProceed DEF WriteFails, Undo
  <1>4. CASE SyncFails(p)
    BY <1>0, <1>4, HeldGoto DEF SyncFails
  <1>5. CASE WipeTemp(p)
    <2>1. CASE Fail(p)
      BY <1>0, <2>1, HeldFail
    <2>2. CASE UNCHANGED <<pc, lock>>
      BY <1>0, <2>2 DEF Held, Processes
    <2> QED
      BY <1>5, <2>1, <2>2 DEF WipeTemp
  <1>6. CASE Read(p)
    <2>1. CASE Fail(p)
      BY <1>0, <2>1, HeldFail
    <2>2. CASE Proceed(p, job[p].then)
      <3>1. job[p].then \in Locking
        BY <1>0, <1>6 DEF Read, Task
      <3> QED
        BY <1>0, <1>6, <2>2, <3>1, HeldProceed DEF Read
    <2> QED
      BY <1>6, <2>1, <2>2 DEF Read
  <1>7. CASE Boundary(p)
    <2>1. CASE Fail(p)
      BY <1>0, <2>1, HeldFail
    <2>2. CASE Proceed(p, "retire")
      BY <1>0, <1>7, <2>2, HeldProceed DEF Boundary
    <2> QED
      BY <1>7, <2>1, <2>2 DEF Boundary
  <1>8. CASE Retire(p)
    <2>1. CASE Fail(p)
      BY <1>0, <2>1, HeldFail
    <2>2. CASE Proceed(p, "retire") \/ Proceed(p, "recover") \/ Proceed(p, "ended")
      <3>1. "ended" \in Unlocked
        BY DEF Unlocked, Ended
      <3> QED
        BY <1>0, <1>8, <2>2, <3>1, HeldProceed DEF Retire
    <2> QED
      BY <1>8, <2>1, <2>2 DEF Retire
  <1>9. CASE TerminateFails(p)
    <2>1. CASE Fail(p)
      BY <1>0, <2>1, HeldFail
    <2>2. CASE Goto(p, "boundary") /\ UNCHANGED lock
      BY <1>0, <1>9, <2>2, HeldGoto DEF TerminateFails
    <2> QED
      BY <1>9, <2>1, <2>2 DEF TerminateFails
  <1> QED
    BY <1>1, <1>2, <1>3, <1>4, <1>5, <1>6, <1>7, <1>8, <1>9 DEF Locked, Publish

LEMMA HeldRecovery ==
    ASSUME Inv, NEW p \in Processes, Recovery(p) \/ Crash(p) \/ Again(p)
    PROVE  Held'
  <1> USE DEF Locking
  <1>0. TypeOK /\ Held
    BY DEF Inv
  <1>1. \A l \in {"ready", "idle", "ended", "crashed"} : l \in Unlocked
    BY DEF Unlocked, Ended
  <1>2. CASE Open(p)
    BY <1>0, <1>2, HeldTake DEF Open
  <1>3. CASE Recover(p)
    <2>1. \E l \in {"ready", "idle", "judge", "ended", "boundary"} : Proceed(p, l)
      BY <1>3 DEF Recover
    <2> QED
      BY <1>0, <1>1, <1>3, <2>1, HeldProceed DEF Recover
  <1>4. CASE RemoveUnbound(p) \/ WipeRenamed(p) \/ InstallIntent(p) \/ Attest(p)
    <2>1. \E l \in {"ended", "attest", "write"} : Proceed(p, l)
      BY <1>4 DEF RemoveUnbound, WipeRenamed, InstallIntent, Attest
    <2>2. pc[p] \in {"judge", "attest"}
      BY <1>4 DEF RemoveUnbound, WipeRenamed, InstallIntent, Attest
    <2> QED
      BY <1>0, <1>1, <2>1, <2>2, HeldProceed
  <1>5. CASE ClearStage(p) \/ Quarantine(p)
    BY <1>0, <1>5, HeldGoto DEF ClearStage, Quarantine
  <1>6. CASE Crash(p)
    BY <1>0, <1>1, <1>6, HeldProceed DEF Crash
  <1>7. CASE Again(p)
    BY <1>0, <1>7, HeldGoto DEF Again
  <1> QED
    BY <1>2, <1>3, <1>4, <1>5, <1>6, <1>7 DEF Recovery

LEMMA HeldAttempt ==
    ASSUME Inv, NEW r \in Runs, Attempt(r)
    PROVE  Held'
  <1> USE DEF Locking
  <1>0. TypeOK /\ Held /\ r \in Processes
    BY DEF Inv, Processes
  <1>1. CASE Begin(r)
    BY <1>0, <1>1, HeldTake DEF Begin
  <1>2. CASE BindStage(r)
    BY <1>0, <1>2, HeldTake DEF BindStage
  <1>3. CASE BindInventory(r)
    BY <1>0, <1>3, HeldTake DEF BindInventory
  <1>4. CASE AppendReceipt(r)
    <2>1. Take(r, "append", "temps") \/ Take(r, "early", "temps")
      BY <1>4 DEF AppendReceipt
    <2> QED
      BY <1>0, <2>1, HeldTake
  <1>5. CASE Allocate(r) \/ Attach(r)
    <2>1. \E l \in {"ended", "unwind", "write"} : Proceed(r, l)
      BY <1>5 DEF Allocate, Attach
    <2>2. pc[r] \in {"allocate", "attach"}
      BY <1>5 DEF Allocate, Attach
    <2>3. "ended" \in Unlocked /\ "unwind" \in Unlocked
      BY DEF Unlocked, Ended
    <2> QED
      BY <1>0, <2>1, <2>2, <2>3, HeldProceed
  <1>6. CASE FailEarly(r) \/ MakeStage(r) \/ Fill(r) \/ Promote(r) \/ Pass(r) \/ Abandon(r) \/ SettleFails(r)
    <2>1. \E l \in {"early", "staged", "filled", "full", "promoted", "append", "settle"} : Goto(r, l)
      BY <1>6 DEF FailEarly, MakeStage, Fill, Promote, Pass, Abandon, SettleFails
    <2>2. pc[r] \notin Locking /\ lock' = lock
      BY <1>6 DEF FailEarly, MakeStage, Fill, Promote, Pass, Abandon, SettleFails
    <2> QED
      BY <1>0, <2>1, <2>2, HeldGoto
  <1>7. CASE Settle(r)
    <2>1. Goto(r, "settling") \/ Goto(r, "append")
      BY <1>7 DEF Settle
    <2> QED
      BY <1>0, <1>7, <2>1, HeldGoto DEF Settle
  <1>8. CASE Unwind(r)
    <2>1. Goto(r, "ended") \/ UNCHANGED pc
      BY <1>8 DEF Unwind
    <2>2. CASE UNCHANGED pc
      BY <1>0, <1>8, <2>2 DEF Unwind, Held, Processes
    <2>3. CASE Goto(r, "ended")
      BY <1>0, <1>8, <2>3, HeldGoto DEF Unwind
    <2> QED
      BY <2>1, <2>2, <2>3
  <1> QED
    BY <1>1, <1>2, <1>3, <1>4, <1>5, <1>6, <1>7, <1>8 DEF Attempt

LEMMA Labelled ==
    ASSUME Inv, NEW p \in Processes
    PROVE  /\ pc[p] \in Writing => job[p].name \in Names
           /\ pc[p] \in Writing \cup {"temps"} => job[p].then \in Labels /\ job[p].else \in Labels
  <1>1. Task(p) /\ job[p] \in [name : Names \cup {NoName}, then : Labels, else : Labels]
    BY DEF Inv, TypeOK
  <1>2. pc[p] \in Writing =>
            \/ p \in Runs /\ job[p].name \in {Marker(p), Binding(p), Inventory(p)}
            \/ \E n \in Numbers : job[p].name = Receipt(n)
            \/ \E g \in 1..MaxGenerations : job[p].name = Intent(subject[p], g)
    BY <1>1 DEF Task
  <1>3. pc[p] \in Writing /\ subject[p] \notin Runs =>
            \/ p \in Runs /\ job[p].name \in {Marker(p), Binding(p), Inventory(p)}
            \/ \E n \in Numbers : job[p].name = Receipt(n)
    <2>1. job[p].name # NoName => job[p].name \in Names
      BY <1>1
    <2>2. Charge(p)
      BY DEF Inv
    <2> QED
      BY <1>1, <2>2 DEF Task, Charge, Dead
  <1>4. pc[p] \in Writing => job[p].name \in Names
    BY <1>2, <1>3, NamesTyped
  <1> QED
    BY <1>1, <1>4

\* Steps move one process, and type what they say of it.
LEMMA Moved ==
    ASSUME TypeOK, NEW p \in Processes, NEW l \in Labels, Goto(p, l)
    PROVE  pc' \in [Processes -> Labels]
  BY DEF TypeOK, Goto

LEMMA TypedProceed ==
    ASSUME TypeOK, NEW p \in Processes, NEW l \in Labels, Proceed(p, l)
    PROVE  pc' \in [Processes -> Labels] /\ lock' \in Processes \cup {Nobody}
  BY DEF TypeOK, Goto, Proceed

LEMMA TypedFail ==
    ASSUME TypeOK, NEW p \in Processes, Fail(p)
    PROVE  pc' \in [Processes -> Labels] /\ lock' \in Processes \cup {Nobody}
  <1>1. "unwind" \in Labels /\ "ended" \in Labels
    BY DEF Labels
  <1> QED
    BY <1>1, TypedProceed DEF Fail

LEMMA TypedSet ==
    ASSUME TypeOK, NEW p \in Processes, NEW n \in Names \cup {NoName},
           NEW l \in Labels, NEW m \in Labels, Set(p, n, l, m)
    PROVE  job' \in [Processes -> [name : Names \cup {NoName}, then : Labels, else : Labels]]
  BY DEF TypeOK, Set

LEMMA TypedZero ==
    ASSUME TypeOK, NEW m, Zero(m)
    PROVE  payload' \in [Runs -> {"none", "part", "whole", "zero"}]
  BY DEF TypeOK, Zero

LEMMA TypedSay ==
    ASSUME TypeOK, NEW m \in Runs, NEW s \in Nat, NEW o \in {"passed", "failed", "interrupted"},
           NEW b \in BOOLEAN, Say(m, s, o, b)
    PROVE  said' \in [Numbers -> [attempt : Runs \cup {Nobody}, sequence : Nat, root : BOOLEAN,
                                 outcome : {"none", "passed", "failed", "interrupted"}]]
  BY DEF TypeOK, Say

LEMMA TypedNoJob ==
    ASSUME TypeOK, NEW p \in Processes, job' = [job EXCEPT ![p] = NoJob]
    PROVE  job' \in [Processes -> [name : Names \cup {NoName}, then : Labels, else : Labels]]
  <1>1. NoJob \in [name : Names \cup {NoName}, then : Labels, else : Labels]
    BY DEF NoJob, Labels
  <1> QED
    BY <1>1 DEF TypeOK

LEMMA TypedFault ==
    ASSUME TypeOK, Fault
    PROVE  crashes' \in Nat /\ faults' \in 0..MaxFaults /\ crashes' + faults' <= MaxTroubles
  BY LedgerAssumption DEF TypeOK, Fault

LEMMA TypedRewipe ==
    ASSUME TypeOK, NEW m, Rewipe(m)
    PROVE  payload' \in [Runs -> {"none", "part", "whole", "zero"}]
  <1>1. payload' = payload \/ Zero(m)
    BY DEF Rewipe
  <1> QED
    BY <1>1, TypedZero DEF TypeOK

LEMMA Retiring ==
    ASSUME Inv, NEW m \in Runs
    PROVE  NextRetired(m) \in Names
  <1>1. Generation(m) > 0 => Generation(m) \in 1..MaxGenerations
    BY Generations, LedgerAssumption
  <1> QED
    BY <1>1, NamesTyped DEF NextRetired

\* What an interrupted retirement leaves is a name less, or a temporary name more.
LEMMA TypedInterrupted ==
    ASSUME Inv, NEW p \in Processes, Interrupted(p)
    PROVE  live' \subseteq live /\ temps' \subseteq [name : Names, whole : BOOLEAN]
  <1>1. temps \subseteq [name : Names, whole : BOOLEAN]
    BY DEF Inv, TypeOK
  <1>2. CASE UNCHANGED <<live, temps>>
    BY <1>1, <1>2
  <1>3. CASE ~UNCHANGED <<live, temps>>
    <2>1. PICK n : n = NextRetired(subject[p])
      OBVIOUS
    <2>2. pc[p] = "retire" /\ live' = live \ {n} /\ temps' = temps \cup {[name |-> n, whole |-> TRUE]}
      BY <1>3, <2>1 DEF Interrupted
    <2>3. subject[p] \in Runs
      BY <2>2 DEF Inv, Charge
    <2>4. n \in Names
      BY <2>1, <2>3, Retiring
    <2>5. [name |-> n, whole |-> TRUE] \in [name : Names, whole : BOOLEAN]
      BY <2>4
    <2>6. temps' \subseteq [name : Names, whole : BOOLEAN]
      BY <1>1, <2>2, <2>5
    <2> QED
      BY <2>2, <2>6
  <1> QED
    BY <1>2, <1>3

LEMMA TypedLocked ==
    ASSUME Inv, NEW p \in Processes, Locked(p)
    PROVE  TypeOK'
  <1>0. TypeOK
    BY DEF Inv
  <1> USE DEF directory, output, control, bounds
  <1>1. CASE Write(p)
    <2>1. job[p].name \in Names
      BY <1>1, Labelled DEF Write, Writing
    <2>2. pc' \in [Processes -> Labels]
      <3>1. "sync" \in Labels
        BY DEF Labels
      <3> QED
        BY <1>0, <1>1, <3>1, Moved DEF Write
    <2> QED
      BY <1>0, <1>1, <2>1, <2>2 DEF Write, TypeOK
  <1>2. CASE Sync(p)
    <2>1. job[p].then \in Labels
      BY <1>2, Labelled DEF Sync, Writing
    <2>2. pc' \in [Processes -> Labels] /\ lock' \in Processes \cup {Nobody}
      BY <1>0, <1>2, <2>1, TypedProceed DEF Sync
    <2>3. job' \in [Processes -> [name : Names \cup {NoName}, then : Labels, else : Labels]]
      BY <1>0, <1>2, TypedNoJob DEF Sync
    <2> QED
      BY <1>0, <1>2, <2>2, <2>3 DEF Sync, TypeOK
  <1>3. CASE WriteFails(p)
    <2>1. job[p].else \in Labels
      BY <1>3, Labelled DEF WriteFails, Writing
    <2>2. pc' \in [Processes -> Labels] /\ lock' \in Processes \cup {Nobody}
      BY <1>0, <1>3, <2>1, TypedProceed DEF WriteFails
    <2>3. job' \in [Processes -> [name : Names \cup {NoName}, then : Labels, else : Labels]]
      BY <1>0, <1>3, TypedNoJob DEF WriteFails
    <2>4. crashes' \in Nat /\ faults' \in 0..MaxFaults /\ crashes' + faults' <= MaxTroubles
      BY <1>0, <1>3, TypedFault DEF WriteFails
    <2> QED
      BY <1>0, <1>3, <2>2, <2>3, <2>4 DEF WriteFails, TypeOK
  <1>4. CASE SyncFails(p)
    <2>1. job[p].name \in Names
      BY <1>4, Labelled DEF SyncFails, Writing
    <2>2. pc' \in [Processes -> Labels]
      <3>1. "undo" \in Labels
        BY DEF Labels
      <3> QED
        BY <1>0, <1>4, <3>1, Moved DEF SyncFails
    <2>4. crashes' \in Nat /\ faults' \in 0..MaxFaults /\ crashes' + faults' <= MaxTroubles
      BY <1>0, <1>4, TypedFault DEF SyncFails
    <2> QED
      BY <1>0, <1>4, <2>1, <2>2, <2>4 DEF SyncFails, TypeOK
  <1>5. CASE Undo(p)
    <2>1. job[p].else \in Labels
      BY <1>5, Labelled DEF Undo, Writing
    <2>2. pc' \in [Processes -> Labels] /\ lock' \in Processes \cup {Nobody}
      BY <1>0, <1>5, <2>1, TypedProceed DEF Undo
    <2>3. job' \in [Processes -> [name : Names \cup {NoName}, then : Labels, else : Labels]]
      BY <1>0, <1>5, TypedNoJob DEF Undo
    <2> QED
      BY <1>0, <1>5, <2>2, <2>3 DEF Undo, TypeOK
  <1>6. CASE WipeTemp(p)
    <2>1. pc' \in [Processes -> Labels] /\ lock' \in Processes \cup {Nobody}
      <3>1. Fail(p) \/ UNCHANGED <<pc, lock>>
        BY <1>6 DEF WipeTemp
      <3> QED
        BY <1>0, <3>1, TypedFail DEF TypeOK
    <2>2. temps' \subseteq temps /\ tombs' = tombs + 1
      BY <1>6 DEF WipeTemp
    <2> QED
      BY <1>0, <1>6, <2>1, <2>2 DEF WipeTemp, TypeOK
  <1>7. CASE Read(p)
    <2>1. job[p].then \in Labels
      BY <1>7, Labelled DEF Read
    <2>2. pc' \in [Processes -> Labels] /\ lock' \in Processes \cup {Nobody}
      <3>1. Fail(p) \/ Proceed(p, job[p].then)
        BY <1>7 DEF Read
      <3> QED
        BY <1>0, <2>1, <3>1, TypedFail, TypedProceed
    <2>3. job' \in [Processes -> [name : Names \cup {NoName}, then : Labels, else : Labels]]
      BY <1>0, <1>7, TypedNoJob DEF Read
    <2> QED
      BY <1>0, <1>7, <2>2, <2>3 DEF Read, TypeOK
  <1>8. CASE Boundary(p)
    <2>1. payload' \in [Runs -> {"none", "part", "whole", "zero"}]
      BY <1>0, <1>8, TypedRewipe DEF Boundary
    <2>2. pc' \in [Processes -> Labels] /\ lock' \in Processes \cup {Nobody}
      <3>1. Fail(p) \/ Proceed(p, "retire")
        BY <1>8 DEF Boundary
      <3>2. "retire" \in Labels
        BY DEF Labels
      <3> QED
        BY <1>0, <3>1, <3>2, TypedFail, TypedProceed
    <2>3. appended' \subseteq Runs
      <3>1. subject[p] \in Runs
        BY <1>8 DEF Inv, Charge, Boundary
      <3> QED
        BY <1>0, <1>8, <3>1 DEF Boundary, TypeOK
    <2> QED
      BY <1>0, <1>8, <2>1, <2>2, <2>3 DEF Boundary, TypeOK
  <1>9. CASE Retire(p)
    <2>1. payload' \in [Runs -> {"none", "part", "whole", "zero"}]
      <3>1. payload' = payload \/ Rewipe(subject[p])
        BY <1>9 DEF Retire
      <3> QED
        BY <1>0, <3>1, TypedRewipe DEF TypeOK
    <2>2. pc' \in [Processes -> Labels] /\ lock' \in Processes \cup {Nobody}
      <3>1. \/ Fail(p)
            \/ \E l \in {"retire", "ended", "recover"} : Proceed(p, l)
        BY <1>9 DEF Retire
      <3>2. {"retire", "ended", "recover"} \subseteq Labels
        BY DEF Labels
      <3> QED
        BY <1>0, <3>1, <3>2, TypedFail, TypedProceed
    <2>3. live' \subseteq live /\ tombs' \in {tombs, tombs + 1}
      BY <1>9 DEF Retire
    <2> QED
      BY <1>0, <1>9, <2>1, <2>2, <2>3 DEF Retire, TypeOK
  <1>10. CASE TerminateFails(p)
    <2>1. pc' \in [Processes -> Labels] /\ lock' \in Processes \cup {Nobody}
      <3>1. Fail(p) \/ (Goto(p, "boundary") /\ UNCHANGED lock)
        BY <1>10 DEF TerminateFails
      <3>2. "boundary" \in Labels
        BY DEF Labels
      <3> QED
        BY <1>0, <3>1, <3>2, TypedFail, Moved DEF TypeOK
    <2>2. live' \subseteq live /\ temps' \subseteq [name : Names, whole : BOOLEAN]
      BY <1>10, TypedInterrupted DEF TerminateFails
    <2>3. retried' \subseteq Runs
      <3>1. subject[p] \in Runs
        BY <1>10 DEF Inv, Charge, TerminateFails
      <3> QED
        BY <1>0, <1>10, <3>1 DEF TerminateFails, TypeOK
    <2>4. crashes' \in Nat /\ faults' \in 0..MaxFaults /\ crashes' + faults' <= MaxTroubles
      BY <1>0, <1>10, TypedFault DEF TerminateFails
    <2> QED
      BY <1>0, <1>10, <2>1, <2>2, <2>3, <2>4 DEF TerminateFails, TypeOK
  <1> QED
    BY <1>1, <1>2, <1>3, <1>4, <1>5, <1>6, <1>7, <1>8, <1>9, <1>10 DEF Locked, Publish

LEMMA TypedRecovery ==
    ASSUME Inv, NEW p \in Processes, Recovery(p) \/ Crash(p) \/ Again(p)
    PROVE  TypeOK'
  <1>0. TypeOK
    BY DEF Inv
  <1> USE DEF directory, output, control, bounds
  <1>1. CASE Open(p)
    <2>1. pc' \in [Processes -> Labels] /\ lock' \in Processes \cup {Nobody}
      <3>1. "temps" \in Labels
        BY DEF Labels
      <3> QED
        BY <1>0, <1>1, <3>1, Moved DEF Open, Take
    <2>2. job' \in [Processes -> [name : Names \cup {NoName}, then : Labels, else : Labels]]
      <3>1. "recover" \in Labels /\ "ended" \in Labels
        BY DEF Labels
      <3> QED
        BY <1>0, <1>1, <3>1, TypedSet DEF Open
    <2> QED
      BY <1>0, <1>1, <2>1, <2>2 DEF Open, TypeOK
  <1>2. CASE Recover(p)
    <2>1. \E l \in {"ready", "idle", "ended", "judge", "boundary"} : Proceed(p, l)
      BY <1>2 DEF Recover
    <2>2. pc' \in [Processes -> Labels] /\ lock' \in Processes \cup {Nobody}
      <3>1. {"ready", "idle", "ended", "judge", "boundary"} \subseteq Labels
        BY DEF Labels
      <3> QED
        BY <1>0, <2>1, <3>1, TypedProceed
    <2>3. subject' \in [Processes -> Runs \cup {Nobody}]
      <3>1. UNCHANGED subject \/ \E m \in Marked : subject' = [subject EXCEPT ![p] = m]
        BY <1>2 DEF Recover
      <3> QED
        BY <1>0, <3>1 DEF TypeOK, Marked
    <2> QED
      BY <1>0, <1>2, <2>2, <2>3 DEF Recover, TypeOK
  <1>3. CASE RemoveUnbound(p)
    <2>1. \E l \in {"ended", "attest"} : Proceed(p, l)
      BY <1>3 DEF RemoveUnbound
    <2>2. pc' \in [Processes -> Labels] /\ lock' \in Processes \cup {Nobody}
      <3>1. {"ended", "attest"} \subseteq Labels
        BY DEF Labels
      <3> QED
        BY <1>0, <2>1, <3>1, TypedProceed
    <2>3. place' \in [Runs -> {"none", "stage", "final", "tomb"}]
      BY <1>0, <1>3 DEF RemoveUnbound, TypeOK
    <2> QED
      BY <1>0, <1>3, <2>2, <2>3 DEF RemoveUnbound, TypeOK
  <1>4. CASE WipeRenamed(p)
    <2>1. \E l \in {"ended", "attest"} : Proceed(p, l)
      BY <1>4 DEF WipeRenamed
    <2>2. pc' \in [Processes -> Labels] /\ lock' \in Processes \cup {Nobody}
      <3>1. {"ended", "attest"} \subseteq Labels
        BY DEF Labels
      <3> QED
        BY <1>0, <2>1, <3>1, TypedProceed
    <2>3. payload' \in [Runs -> {"none", "part", "whole", "zero"}]
      BY <1>0, <1>4, TypedZero DEF WipeRenamed
    <2> QED
      BY <1>0, <1>4, <2>2, <2>3 DEF WipeRenamed, TypeOK
  <1>5. CASE InstallIntent(p)
    <2>0. PICK m : m = subject[p]
      OBVIOUS
    <2>1. \E l \in {"ended", "write"} : Proceed(p, l)
      BY <1>5 DEF InstallIntent
    <2>2. pc' \in [Processes -> Labels] /\ lock' \in Processes \cup {Nobody}
      <3>1. {"ended", "write"} \subseteq Labels
        BY DEF Labels
      <3> QED
        BY <1>0, <2>1, <3>1, TypedProceed
    <2>3. job' \in [Processes -> [name : Names \cup {NoName}, then : Labels, else : Labels]]
      <3>1. CASE UNCHANGED job
        BY <1>0, <3>1 DEF TypeOK
      <3>2. CASE ~UNCHANGED job
        <4>1. ~(Generation(m) + 1 > MaxGenerations) /\ Set(p, Intent(m, Generation(m) + 1), "clear", "ended")
          BY <1>5, <2>0, <3>2 DEF InstallIntent
        <4>2. Generation(m) + 1 \in 1..MaxGenerations
          BY <4>1, Generations, LedgerAssumption
        <4>3. m \in Runs
          BY <1>5, <2>0 DEF InstallIntent, Inv, Charge, Charged, Dead
        <4>4. Intent(m, Generation(m) + 1) \in Names
          BY <4>2, <4>3, NamesTyped
        <4>5. "clear" \in Labels /\ "ended" \in Labels
          BY DEF Labels
        <4> QED
          BY <1>0, <4>1, <4>4, <4>5, TypedSet
      <3> QED
        BY <3>1, <3>2
    <2> QED
      BY <1>0, <1>5, <2>2, <2>3 DEF InstallIntent, TypeOK
  <1>6. CASE ClearStage(p)
    <2>1. pc' \in [Processes -> Labels]
      <3>1. "quarantine" \in Labels
        BY DEF Labels
      <3> QED
        BY <1>0, <1>6, <3>1, Moved DEF ClearStage
    <2>2. payload' \in [Runs -> {"none", "part", "whole", "zero"}]
      BY <1>0, <1>6, TypedZero DEF ClearStage
    <2> QED
      BY <1>0, <1>6, <2>1, <2>2 DEF ClearStage, TypeOK
  <1>7. CASE Quarantine(p)
    <2>0. PICK m : m = subject[p]
      OBVIOUS
    <2>1. pc' \in [Processes -> Labels]
      <3>1. "attest" \in Labels
        BY DEF Labels
      <3> QED
        BY <1>0, <1>7, <3>1, Moved DEF Quarantine
    <2>2. Generation(m) \in 0..MaxGenerations
      BY Generations
    <2>3. place' = [place EXCEPT ![m] = "tomb"] /\ under' = [under EXCEPT ![m] = Generation(m)]
      BY <1>7, <2>0 DEF Quarantine
    <2>4. /\ place' \in [Runs -> {"none", "stage", "final", "tomb"}]
          /\ under' \in [Runs -> 0..MaxGenerations]
      BY <1>0, <2>2, <2>3 DEF TypeOK
    <2> QED
      BY <1>0, <1>7, <2>1, <2>4 DEF Quarantine, TypeOK
  <1>8. CASE Attest(p)
    <2>0. PICK m : m = subject[p]
      OBVIOUS
    <2>1. \E l \in {"ended", "write"} : Proceed(p, l)
      BY <1>8 DEF Attest
    <2>2. pc' \in [Processes -> Labels] /\ lock' \in Processes \cup {Nobody}
      <3>1. {"ended", "write"} \subseteq Labels
        BY DEF Labels
      <3> QED
        BY <1>0, <2>1, <3>1, TypedProceed
    <2>3. m \in Runs /\ Receipts(m) = {}
      BY <1>8, <2>0 DEF Attest, Inv, Charge, Charged, Dead, Pending
    <2>4. Cardinality(Published) + 1 \in Numbers
      BY <2>3, Room DEF Inv
    <2>5. /\ job' \in [Processes -> [name : Names \cup {NoName}, then : Labels, else : Labels]]
          /\ said' \in [Numbers -> [attempt : Runs \cup {Nobody}, sequence : Nat, root : BOOLEAN,
                             outcome : {"none", "passed", "failed", "interrupted"}]]
      <3>1. CASE UNCHANGED <<said, job>>
        BY <1>0, <3>1 DEF TypeOK
      <3>2. CASE ~UNCHANGED <<said, job>>
        <4>1. /\ Say(m, seq[m], "interrupted", Binding(m) \in live)
              /\ Set(p, Receipt(Cardinality(Published) + 1), "boundary", "ended")
          BY <1>8, <2>0, <3>2 DEF Attest
        <4>2. Receipt(Cardinality(Published) + 1) \in Names
          BY <2>4, NamesTyped
        <4>3. "boundary" \in Labels /\ "ended" \in Labels
          BY DEF Labels
        <4>4. seq[m] \in Nat /\ (Binding(m) \in live) \in BOOLEAN
          BY <1>0, <2>3 DEF TypeOK
        <4>5. job' \in [Processes -> [name : Names \cup {NoName}, then : Labels, else : Labels]]
          BY <1>0, <4>1, <4>2, <4>3, TypedSet
        <4> QED
          BY <1>0, <2>3, <4>1, <4>4, <4>5, TypedSay
      <3> QED
        BY <3>1, <3>2
    <2> QED
      BY <1>0, <1>8, <2>2, <2>5 DEF Attest, TypeOK
  <1>9. CASE Crash(p)
    <2>1. pc' \in [Processes -> Labels] /\ lock' \in Processes \cup {Nobody}
      <3>1. \E l \in {"crashed", "ended"} : Proceed(p, l)
        BY <1>9 DEF Crash
      <3>2. {"crashed", "ended"} \subseteq Labels
        BY DEF Labels
      <3> QED
        BY <1>0, <3>1, <3>2, TypedProceed
    <2>2. job' \in [Processes -> [name : Names \cup {NoName}, then : Labels, else : Labels]]
      BY <1>0, <1>9, TypedNoJob DEF Crash
    <2>3. live' \subseteq live /\ temps' \subseteq [name : Names, whole : BOOLEAN]
      <3>1. CASE Interrupted(p)
        BY <3>1, TypedInterrupted
      <3>2. CASE /\ pc[p] = "write" /\ UNCHANGED live
                 /\ \E whole \in BOOLEAN : temps' = temps \cup {[name |-> job[p].name, whole |-> whole]}
        <4>1. job[p].name \in Names
          BY <3>2, Labelled DEF Writing
        <4> QED
          BY <1>0, <3>2, <4>1 DEF TypeOK
      <3> QED
        BY <1>9, <3>1, <3>2 DEF Crash
    <2>4. subject' \in [Processes -> Runs \cup {Nobody}]
      BY <1>0, <1>9 DEF Crash, TypeOK
    <2>5. crashes' \in Nat /\ faults' \in 0..MaxFaults /\ crashes' + faults' <= MaxTroubles
      BY <1>0, <1>9, LedgerAssumption DEF Crash, TypeOK
    <2> QED
      BY <1>0, <1>9, <2>1, <2>2, <2>3, <2>4, <2>5 DEF Crash, TypeOK
  <1>10. CASE Again(p)
    <2>1. pc' \in [Processes -> Labels]
      <3>1. "idle" \in Labels
        BY DEF Labels
      <3> QED
        BY <1>0, <1>10, <3>1, Moved DEF Again
    <2> QED
      BY <1>0, <1>10, <2>1 DEF Again, TypeOK
  <1> QED
    BY <1>1, <1>2, <1>3, <1>4, <1>5, <1>6, <1>7, <1>8, <1>9, <1>10 DEF Recovery

LEMMA TypedAttempt ==
    ASSUME Inv, NEW r \in Runs, Attempt(r)
    PROVE  TypeOK'
  <1>0. TypeOK /\ r \in Processes
    BY DEF Inv, Processes
  <1> USE DEF directory, output, control, bounds
  <1>1. CASE FailEarly(r) \/ MakeStage(r) \/ Fill(r) \/ Promote(r) \/ Pass(r) \/ Abandon(r) \/ SettleFails(r)
    <2>1. \E l \in {"early", "staged", "filled", "full", "promoted", "append", "settle"} : Goto(r, l)
      BY <1>1 DEF FailEarly, MakeStage, Fill, Promote, Pass, Abandon, SettleFails
    <2>2. pc' \in [Processes -> Labels]
      <3>1. {"early", "staged", "filled", "full", "promoted", "append", "settle"} \subseteq Labels
        BY DEF Labels
      <3> QED
        BY <1>0, <2>1, <3>1, Moved
    <2>3. /\ place' \in [Runs -> {"none", "stage", "final", "tomb"}]
          /\ payload' \in [Runs -> {"none", "part", "whole", "zero"}]
          /\ verdict' \in [Runs -> {"none", "passed", "failed"}]
      BY <1>0, <1>1 DEF FailEarly, MakeStage, Fill, Promote, Pass, Abandon, SettleFails, TypeOK
    <2>4. crashes' \in Nat /\ faults' \in 0..MaxFaults /\ crashes' + faults' <= MaxTroubles
      <3>1. Fault \/ UNCHANGED <<crashes, faults>>
        BY <1>1 DEF FailEarly, MakeStage, Fill, Promote, Pass, Abandon, SettleFails
      <3> QED
        BY <1>0, <3>1, TypedFault DEF TypeOK
    <2>5. UNCHANGED <<directory, under, lock, job, subject, appended, retried>>
      BY <1>1 DEF FailEarly, MakeStage, Fill, Promote, Pass, Abandon, SettleFails
    <2> QED
      BY <1>0, <2>2, <2>3, <2>4, <2>5 DEF TypeOK
  <1>2. CASE Begin(r) \/ BindStage(r) \/ BindInventory(r) \/ AppendReceipt(r)
    <2>1. pc' \in [Processes -> Labels] /\ lock' = r
      <3>1. \E l, m \in {"ready", "staged", "full", "append", "early", "temps", "write"} :
                Take(r, l, m)
        BY <1>2 DEF Begin, BindStage, BindInventory, AppendReceipt
      <3>2. {"ready", "staged", "full", "append", "early", "temps", "write"} \subseteq Labels
        BY DEF Labels
      <3> QED
        BY <1>0, <3>1, <3>2, Moved DEF Take
    <2>2. job' \in [Processes -> [name : Names \cup {NoName}, then : Labels, else : Labels]]
      <3>1. \E n \in {NoName, Binding(r), Inventory(r)} :
            \E l, m \in {"allocate", "ended", "bound", "settle", "sealed", "attach", "unwind"} :
                Set(r, n, l, m)
        BY <1>2 DEF Begin, BindStage, BindInventory, AppendReceipt
      <3>2. {"allocate", "ended", "bound", "settle", "sealed", "attach", "unwind"} \subseteq Labels
        BY DEF Labels
      <3>3. {NoName, Binding(r), Inventory(r)} \subseteq Names \cup {NoName}
        BY NamesTyped
      <3> QED
        BY <1>0, <3>1, <3>2, <3>3, TypedSet
    <2>3. subject' \in [Processes -> Runs \cup {Nobody}]
      BY <1>0, <1>2 DEF Begin, BindStage, BindInventory, AppendReceipt, TypeOK
    <2>4. UNCHANGED <<directory, output, verdict, appended, retried, bounds>>
      BY <1>2 DEF Begin, BindStage, BindInventory, AppendReceipt
    <2> QED
      BY <1>0, <2>1, <2>2, <2>3, <2>4 DEF TypeOK
  <1>3. CASE Allocate(r)
    <2>1. pc' \in [Processes -> Labels] /\ lock' \in Processes \cup {Nobody}
      <3>1. \E l \in {"ended", "write"} : Proceed(r, l)
        BY <1>3 DEF Allocate
      <3>2. {"ended", "write"} \subseteq Labels
        BY DEF Labels
      <3> QED
        BY <1>0, <3>1, <3>2, TypedProceed
    <2>2. seq' \in [Runs -> Nat]
      BY <1>0, <1>3, NextSequence DEF Allocate, TypeOK
    <2>3. job' \in [Processes -> [name : Names \cup {NoName}, then : Labels, else : Labels]]
      <3>1. UNCHANGED job \/ Set(r, Marker(r), "begun", "early")
        BY <1>3 DEF Allocate
      <3>2. "begun" \in Labels /\ "early" \in Labels /\ Marker(r) \in Names
        BY NamesTyped DEF Labels
      <3> QED
        BY <1>0, <3>1, <3>2, TypedSet DEF TypeOK
    <2> QED
      BY <1>0, <1>3, <2>1, <2>2, <2>3 DEF Allocate, TypeOK
  <1>4. CASE Settle(r)
    <2>1. pc' \in [Processes -> Labels]
      <3>1. Goto(r, "settling") \/ Goto(r, "append")
        BY <1>4 DEF Settle
      <3>2. "settling" \in Labels /\ "append" \in Labels
        BY DEF Labels
      <3> QED
        BY <1>0, <3>1, <3>2, Moved
    <2>2. /\ place' \in [Runs -> {"none", "stage", "final", "tomb"}]
          /\ verdict' \in [Runs -> {"none", "passed", "failed"}]
      BY <1>0, <1>4 DEF Settle, TypeOK
    <2>3. payload' \in [Runs -> {"none", "part", "whole", "zero"}]
      <3>1. UNCHANGED payload \/ Zero(r)
        BY <1>4 DEF Settle
      <3> QED
        BY <1>0, <3>1, TypedZero DEF TypeOK
    <2> QED
      BY <1>0, <1>4, <2>1, <2>2, <2>3 DEF Settle, TypeOK
  <1>5. CASE Unwind(r)
    <2>1. pc' \in [Processes -> Labels]
      <3>1. UNCHANGED pc \/ Goto(r, "ended")
        BY <1>5 DEF Unwind
      <3>2. "ended" \in Labels
        BY DEF Labels
      <3> QED
        BY <1>0, <3>1, <3>2, Moved DEF TypeOK
    <2>2. place' \in [Runs -> {"none", "stage", "final", "tomb"}]
      BY <1>0, <1>5 DEF Unwind, TypeOK
    <2>3. payload' \in [Runs -> {"none", "part", "whole", "zero"}]
      <3>1. UNCHANGED payload \/ Zero(r)
        BY <1>5 DEF Unwind
      <3> QED
        BY <1>0, <3>1, TypedZero DEF TypeOK
    <2> QED
      BY <1>0, <1>5, <2>1, <2>2, <2>3 DEF Unwind, TypeOK
  <1>6. CASE Attach(r)
    <2>1. pc' \in [Processes -> Labels] /\ lock' \in Processes \cup {Nobody}
      <3>1. \E l \in {"unwind", "write"} : Proceed(r, l)
        BY <1>6 DEF Attach
      <3>2. {"unwind", "write"} \subseteq Labels
        BY DEF Labels
      <3> QED
        BY <1>0, <3>1, <3>2, TypedProceed
    <2>2. Receipts(r) = {}
      BY <1>6 DEF Attach, Inv, Course, Ripe, Fresh, Blank, Pending
    <2>3. Cardinality(Published) + 1 \in Numbers
      BY <2>2, Room DEF Inv
    <2>4. CASE UNCHANGED <<said, job>>
      BY <1>0, <1>6, <2>1, <2>4 DEF Attach, TypeOK
    <2>5. CASE ~UNCHANGED <<said, job>>
      <3>1. /\ IF verdict[r] # "none"
               THEN Say(r, seq[r], verdict[r], verdict[r] = "passed" \/ Binding(r) \in live)
               ELSE Say(r, Max(Sequences \cup {0}) + 1, "failed", FALSE)
            /\ Set(r, Receipt(Cardinality(Published) + 1),
                      IF verdict[r] # "none" THEN "boundary" ELSE "ended", "unwind")
        BY <1>6, <2>5 DEF Attach
      <3>2. job' \in [Processes -> [name : Names \cup {NoName}, then : Labels, else : Labels]]
        <4>1. Receipt(Cardinality(Published) + 1) \in Names
          BY <2>3, NamesTyped
        <4>2. "boundary" \in Labels /\ "ended" \in Labels /\ "unwind" \in Labels
          BY DEF Labels
        <4> QED
          BY <1>0, <3>1, <4>1, <4>2, TypedSet
      <3>3. said' \in [Numbers -> [attempt : Runs \cup {Nobody}, sequence : Nat, root : BOOLEAN,
                             outcome : {"none", "passed", "failed", "interrupted"}]]
        <4>1. CASE verdict[r] # "none"
          <5>1. seq[r] \in Nat /\ (verdict[r] = "passed" \/ Binding(r) \in live) \in BOOLEAN
                /\ verdict[r] \in {"passed", "failed"}
            BY <1>0, <4>1 DEF TypeOK
          <5> QED
            BY <1>0, <3>1, <4>1, <5>1, TypedSay
        <4>2. CASE verdict[r] = "none"
          BY <1>0, <3>1, <4>2, NextSequence, TypedSay
        <4> QED
          BY <4>1, <4>2
      <3> QED
        BY <1>0, <1>6, <2>1, <3>2, <3>3 DEF Attach, TypeOK
    <2> QED
      BY <2>4, <2>5
  <1> QED
    BY <1>1, <1>2, <1>3, <1>4, <1>5, <1>6 DEF Attempt

-----------------------------------------------------------------------------
(* The steps that leave the files, the outputs and the verdicts alone *)

books == <<live, said, place, payload, verdict, appended, retried>>

LEMMA Same ==
    ASSUME UNCHANGED books
    PROVE  /\ Published' = Published /\ Marked' = Marked
           /\ \A r : /\ Receipts(r)' = Receipts(r) /\ Generation(r)' = Generation(r)
                     /\ Fresh(r)' <=> Fresh(r)
                     /\ Blank(r)' <=> Blank(r)
                     /\ Ongoing(r)' <=> Ongoing(r)
                     /\ Ripe(r)' <=> Ripe(r)
                     /\ Bound(r)' <=> Bound(r)
                     /\ Wiped(r)' <=> Wiped(r)
                     /\ Intact(r)' <=> Intact(r)
                     /\ Pending(r)' <=> Pending(r)
                     /\ Passed(r)' <=> Passed(r)
                     /\ Absent(r)' <=> Absent(r)
           /\ \A n : Truthful(n)' <=> Truthful(n)
  <1>1. /\ Published' = Published /\ Marked' = Marked
        /\ \A r : Receipts(r)' = Receipts(r) /\ Generation(r)' = Generation(r)
    BY SameFiles DEF books
  <1>2. UNCHANGED <<live, said, place, payload, verdict, appended, retried>>
    BY DEF books
  <1>3. \A r : /\ Fresh(r)' <=> Fresh(r)
               /\ Blank(r)' <=> Blank(r)
               /\ Ongoing(r)' <=> Ongoing(r)
               /\ Ripe(r)' <=> Ripe(r)
               /\ Bound(r)' <=> Bound(r)
               /\ Wiped(r)' <=> Wiped(r)
               /\ Intact(r)' <=> Intact(r)
               /\ Pending(r)' <=> Pending(r)
               /\ Passed(r)' <=> Passed(r)
               /\ Absent(r)' <=> Absent(r)
    BY <1>1, <1>2 DEF Fresh, Blank, Ongoing, Ripe, Bound, Wiped, Intact, Pending, Passed, Absent
  <1>4. \A n : Truthful(n)' <=> Truthful(n)
    BY <1>2, <1>3 DEF Truthful
  <1> QED
    BY <1>1, <1>3, <1>4

LEMMA Quiet ==
    ASSUME Inv, NEW p \in Processes, ~Dead(p), UNCHANGED books,
           faults' \in Nat, faults' >= faults,
           \A q \in Processes \ {p} : pc'[q] = pc[q] /\ job'[q] = job[q] /\ subject'[q] = subject[q],
           lock # p => temps' = temps,
           pc[p] = "unwind" => pc'[p] \in {"ended", "crashed"},
           TypeOK', Held', Task(p)', Charge(p)', p \in Runs => Course(p)'
    PROVE  Inv'
  <1>1. UNCHANGED <<live, said, place, payload, verdict, appended, retried>>
    BY DEF books
  <1>2. /\ \A r : Receipts(r)' = Receipts(r)
        /\ \A r : (Wiped(r)' <=> Wiped(r)) /\ (Intact(r)' <=> Intact(r)) /\ (Bound(r)' <=> Bound(r))
        /\ \A r : (Passed(r)' <=> Passed(r)) /\ (Absent(r)' <=> Absent(r))
    BY Same
  <1>3. faults \in Nat
    BY LedgerAssumption DEF Inv, TypeOK
  <1>4. Apart(p)
    BY <1>1, <1>2, <1>3 DEF Apart
  <1>5. ASSUME p \in Runs
        PROVE  Stands(p)' /\ Accounted(p)'
    <2>1. Stands(p) /\ Accounted(p)
      BY <1>5 DEF Inv
    <2>2. Twice(p) => Twice(p)'
      BY <1>1, <1>3, <1>5 DEF Twice, Dead
    <2> QED
      BY <1>1, <1>2, <2>1, <2>2 DEF Stands, Accounted
  <1> QED
    BY <1>1, <1>2, <1>4, <1>5, Unfiled

LEMMA Moving ==
    ASSUME TypeOK, NEW p \in Processes, NEW l,
           Goto(p, l) \/ Proceed(p, l) \/ \E k : Take(p, k, l)
    PROVE  pc'[p] = l /\ \A q \in Processes \ {p} : pc'[q] = pc[q]
  BY DEF TypeOK, Goto, Proceed, Take

LEMMA Setting ==
    ASSUME TypeOK, NEW p \in Processes, NEW n, NEW l, NEW m, Set(p, n, l, m)
    PROVE  /\ job'[p] = [name |-> n, then |-> l, else |-> m]
           /\ \A q \in Processes \ {p} : job'[q] = job[q]
  BY DEF TypeOK, Set

LEMMA Jobless ==
    ASSUME TypeOK, NEW p \in Processes, job' = [job EXCEPT ![p] = NoJob]
    PROVE  job'[p] = NoJob /\ \A q \in Processes \ {p} : job'[q] = job[q]
  BY DEF TypeOK

\* The steps of an attempt that decide what it publishes or does next.
LEMMA KeepsAttempt ==
    ASSUME Inv, NEW r \in Runs,
           FailEarly(r) \/ Begin(r) \/ Allocate(r) \/ BindStage(r) \/ BindInventory(r) \/ Abandon(r) \/ AppendReceipt(r)
    PROVE  Inv'
  <1> USE DEF directory, output, control, bounds
  <1>1. r \in Processes /\ TypeOK /\ Course(r) /\ faults \in Nat
    BY LedgerAssumption DEF Inv, TypeOK, Processes
  <1>2. TypeOK' /\ Held'
    BY TypedAttempt, HeldAttempt DEF Attempt
  <1>3. UNCHANGED books /\ UNCHANGED <<faults, temps>>
    BY DEF books, FailEarly, Begin, Allocate, BindStage, BindInventory, Abandon, AppendReceipt
  <1>4. /\ Published' = Published /\ Marked' = Marked
        /\ Fresh(r)' <=> Fresh(r)
        /\ Ongoing(r)' <=> Ongoing(r)
        /\ Ripe(r)' <=> Ripe(r)
        /\ Bound(r)' <=> Bound(r)
    BY <1>3, Same
  <1>5. verdict'[r] = verdict[r] /\ payload'[r] = payload[r] /\ retried' = retried
    BY <1>3 DEF books
  <1>6. r \in retried => faults > 0
    BY <1>1 DEF Course
  <1>7. CASE FailEarly(r)
    <2>1. pc[r] = "ready" /\ pc'[r] = "early" /\ (\A q \in Processes \ {r} : pc'[q] = pc[q])
      BY <1>1, <1>7, Moving DEF FailEarly
    <2>2. UNCHANGED <<job, subject>>
      BY <1>7 DEF FailEarly
    <2>3. Fresh(r)
      BY <1>1, <2>1 DEF Course, Before
    <2>4. Task(r)' /\ Charge(r)' /\ Course(r)'
      <3>1. Task(r)' /\ Charge(r)'
        BY <2>1 DEF Task, Charge, Writing, Charged
      <3> QED
        BY <1>3, <1>4, <1>5, <1>6, <2>1, <2>3, <3>1 DEF Course, Before, Underway, Writing
    <2> QED
      BY <1>1, <1>2, <1>3, <2>1, <2>2, <2>4, Quiet DEF Dead
  <1>8. CASE Begin(r)
    <2>1. pc[r] = "ready" /\ pc'[r] = "temps" /\ (\A q \in Processes \ {r} : pc'[q] = pc[q])
      BY <1>1, <1>8, Moving DEF Begin, Take
    <2>2. /\ job'[r] = [name |-> NoName, then |-> "allocate", else |-> "ended"]
          /\ \A q \in Processes \ {r} : job'[q] = job[q]
          /\ UNCHANGED subject
      BY <1>1, <1>8, Setting DEF Begin
    <2>3. Fresh(r)
      BY <1>1, <2>1 DEF Course, Before
    <2>4. Task(r)' /\ Charge(r)' /\ Course(r)'
      <3>1. Task(r)' /\ Charge(r)'
        BY <2>1, <2>2 DEF Task, Charge, Writing, Charged
      <3> QED
        BY <1>3, <1>4, <1>5, <1>6, <2>1, <2>2, <2>3, <3>1 DEF Course, Before, Charged, Underway, Writing
    <2> QED
      BY <1>1, <1>2, <1>3, <2>1, <2>2, <2>4, Quiet DEF Dead
  <1>9. CASE Allocate(r)
    <2>1. pc[r] = "allocate" /\ Fresh(r) /\ UNCHANGED subject
      BY <1>1, <1>9 DEF Allocate, Course, Before
    <2>2. CASE Marked # {}
      <3>1. pc'[r] = "ended" /\ (\A q \in Processes \ {r} : pc'[q] = pc[q]) /\ UNCHANGED job
        BY <1>1, <1>9, <2>2, Moving DEF Allocate
      <3>2. Task(r)' /\ Charge(r)'
        BY <3>1 DEF Task, Charge, Writing, Charged
      <3>3. Course(r)'
        BY <1>3, <1>4, <1>5, <1>6, <3>1 DEF Course, Before, Charged, Underway, Writing
      <3> QED
        BY <1>1, <1>2, <1>3, <2>1, <3>1, <3>2, <3>3, Quiet DEF Dead
    <2>3. CASE Marked = {}
      <3>1. pc'[r] = "write" /\ (\A q \in Processes \ {r} : pc'[q] = pc[q])
        BY <1>1, <1>9, <2>3, Moving DEF Allocate
      <3>2. /\ job'[r] = [name |-> Marker(r), then |-> "begun", else |-> "early"]
            /\ \A q \in Processes \ {r} : job'[q] = job[q]
        BY <1>1, <1>9, <2>3, Setting DEF Allocate
      <3>3. Task(r)'
        BY <3>1, <3>2 DEF Task, Writing
      <3>4. Charge(r)'
        BY <1>4, <2>3, <3>1, <3>2 DEF Charge, Writing, Charged
      <3>5. Course(r)'
        BY <1>3, <1>4, <1>5, <1>6, <2>1, <3>1, <3>2 DEF Course, Before, Charged, Underway, Writing
      <3> QED
        BY <1>1, <1>2, <1>3, <2>1, <3>1, <3>2, <3>3, <3>4, <3>5, Quiet DEF Dead
    <2> QED
      BY <2>2, <2>3
  <1>10. CASE BindStage(r)
    <2>1. /\ pc[r] = "staged" /\ pc'[r] = "write" /\ (\A q \in Processes \ {r} : pc'[q] = pc[q])
          /\ UNCHANGED subject
      BY <1>1, <1>10, Moving DEF BindStage, Take
    <2>2. /\ job'[r] = [name |-> Binding(r), then |-> "bound", else |-> "settle"]
          /\ \A q \in Processes \ {r} : job'[q] = job[q]
      BY <1>1, <1>10, Setting DEF BindStage
    <2>3. Ongoing(r) /\ payload[r] = "none"
      BY <1>1, <2>1 DEF Course, Underway
    <2>4. Task(r)' /\ Charge(r)'
      BY <2>1, <2>2 DEF Task, Charge, Writing, Charged
    <2>5. Course(r)'
      BY <1>3, <1>4, <1>5, <1>6, <2>1, <2>2, <2>3 DEF Course, Before, Charged, Underway, Writing
    <2> QED
      BY <1>1, <1>2, <1>3, <2>1, <2>2, <2>4, <2>5, Quiet DEF Dead
  <1>11. CASE BindInventory(r)
    <2>1. /\ pc[r] = "full" /\ pc'[r] = "write" /\ (\A q \in Processes \ {r} : pc'[q] = pc[q])
          /\ UNCHANGED subject
      BY <1>1, <1>11, Moving DEF BindInventory, Take
    <2>2. /\ job'[r] = [name |-> Inventory(r), then |-> "sealed", else |-> "settle"]
          /\ \A q \in Processes \ {r} : job'[q] = job[q]
      BY <1>1, <1>11, Setting DEF BindInventory
    <2>3. Ongoing(r) /\ Bound(r) /\ payload[r] = "whole"
      BY <1>1, <2>1 DEF Course, Underway
    <2>4. Task(r)' /\ Charge(r)'
      BY <2>1, <2>2 DEF Task, Charge, Writing, Charged
    <2>5. Course(r)'
      BY <1>3, <1>4, <1>5, <1>6, <2>1, <2>2, <2>3 DEF Course, Before, Charged, Underway, Writing
    <2> QED
      BY <1>1, <1>2, <1>3, <2>1, <2>2, <2>4, <2>5, Quiet DEF Dead
  <1>12. CASE Abandon(r)
    <2>1. /\ pc[r] \in Underway /\ pc'[r] = "settle" /\ (\A q \in Processes \ {r} : pc'[q] = pc[q])
          /\ UNCHANGED <<job, subject>>
      BY <1>1, <1>12, Moving DEF Abandon, Underway
    <2>2. Ongoing(r)
      BY <1>1, <2>1 DEF Course
    <2>3. Task(r)' /\ Charge(r)'
      BY <2>1 DEF Task, Charge, Writing, Charged
    <2>4. Course(r)'
      BY <1>3, <1>4, <1>5, <1>6, <2>1, <2>2 DEF Course, Before, Charged, Underway, Writing
    <2> QED
      BY <1>1, <1>2, <1>3, <2>1, <2>3, <2>4, Quiet DEF Dead, Underway
  <1>13. CASE AppendReceipt(r)
    <2>1. pc[r] \in {"append", "early"} /\ pc'[r] = "temps" /\ (\A q \in Processes \ {r} : pc'[q] = pc[q])
      <3>1. Take(r, "append", "temps") \/ Take(r, "early", "temps")
        BY <1>13 DEF AppendReceipt
      <3> QED
        BY <1>1, <3>1, Moving DEF Take
    <2>2. /\ job'[r] = [name |-> NoName, then |-> "attach", else |-> "unwind"]
          /\ \A q \in Processes \ {r} : job'[q] = job[q]
          /\ subject'[r] = r /\ (\A q \in Processes \ {r} : subject'[q] = subject[q])
      BY <1>1, <1>13, Setting DEF AppendReceipt, TypeOK
    <2>3. Ripe(r)
      BY <1>1, <2>1 DEF Course, Before, Ripe, Fresh, Blank
    <2>4. Task(r)' /\ Charge(r)'
      BY <2>1, <2>2 DEF Task, Charge, Writing, Charged
    <2>5. Course(r)'
      BY <1>3, <1>4, <1>5, <1>6, <2>1, <2>2, <2>3 DEF Course, Before, Charged, Underway, Writing
    <2> QED
      BY <1>1, <1>2, <1>3, <2>1, <2>2, <2>4, <2>5, Quiet DEF Dead
  <1> QED
    BY <1>7, <1>8, <1>9, <1>10, <1>11, <1>12, <1>13

LEMMA KeepsReading ==
    ASSUME Inv, NEW p \in Processes, Open(p) \/ Read(p) \/ WipeTemp(p) \/ Again(p)
    PROVE  Inv'
  <1> USE DEF directory, output, control, bounds
  <1>1. TypeOK /\ Held /\ Task(p) /\ Charge(p) /\ (p \in Runs => Course(p)) /\ faults \in Nat
    BY LedgerAssumption DEF Inv, TypeOK
  <1>2. TypeOK' /\ Held'
    BY TypedLocked, HeldLocked, TypedRecovery, HeldRecovery DEF Locked, Recovery
  <1>3. UNCHANGED books /\ UNCHANGED <<faults, subject, retried, appended, verdict>>
    BY DEF books, Open, Read, WipeTemp, Again
  <1>4. \A r : /\ Fresh(r)' <=> Fresh(r)
               /\ Ripe(r)' <=> Ripe(r)
               /\ Bound(r)' <=> Bound(r)
               /\ Pending(r)' <=> Pending(r)
               /\ Receipts(r)' = Receipts(r)
    BY <1>3, Same
  <1>5. UNCHANGED live
    BY <1>3 DEF books
  <1>6. CASE Open(p)
    <2>1. pc[p] = "idle" /\ pc'[p] = "temps" /\ (\A q \in Processes \ {p} : pc'[q] = pc[q]) /\ UNCHANGED temps
      BY <1>1, <1>6, Moving DEF Open, Take
    <2>2. /\ job'[p] = [name |-> NoName, then |-> "recover", else |-> "ended"]
          /\ \A q \in Processes \ {p} : job'[q] = job[q]
      BY <1>1, <1>6, Setting DEF Open
    <2>3. Task(p)' /\ Charge(p)'
      BY <2>1, <2>2 DEF Task, Charge, Writing, Charged
    <2>4. p \in Runs => Course(p)'
      BY <1>1, <1>3, <1>4, <2>1, <2>2 DEF Course, Before, Charged, Underway, Writing
    <2> QED
      BY <1>1, <1>2, <1>3, <2>1, <2>2, <2>3, <2>4, Quiet DEF Dead
  <1>7. CASE Again(p)
    <2>1. /\ pc[p] = "ended" /\ pc'[p] = "idle" /\ (\A q \in Processes \ {p} : pc'[q] = pc[q])
          /\ UNCHANGED <<temps, job>> /\ p \in Parents
      BY <1>1, <1>7, Moving DEF Again
    <2>2. p \notin Runs
      BY <2>1, LedgerAssumption
    <2>3. Task(p)' /\ Charge(p)'
      BY <2>1 DEF Task, Charge, Writing, Charged
    <2> QED
      BY <1>1, <1>2, <1>3, <2>1, <2>2, <2>3, Quiet DEF Dead
  <1>8. ASSUME Fail(p), pc[p] = "temps", \A q \in Processes \ {p} : job'[q] = job[q]
        PROVE  Inv'
    <2>1. /\ pc'[p] = IF subject[p] = p THEN "unwind" ELSE "ended"
          /\ \A q \in Processes \ {p} : pc'[q] = pc[q]
      <3>1. Proceed(p, IF subject[p] = p THEN "unwind" ELSE "ended")
        BY <1>8 DEF Fail
      <3> QED
        BY <1>1, <3>1, Moving
    <2>2. Task(p)' /\ Charge(p)'
      BY <2>1 DEF Task, Charge, Writing, Charged
    <2>3. p \in Runs => Course(p)'
      <3>1. p \in Runs => Ripe(p) \/ verdict[p] = "none"
        BY <1>1, <1>8 DEF Course, Fresh, Blank
      <3> QED
        BY <1>1, <1>3, <1>4, <1>5, <2>1, <3>1
        DEF Course, Before, Charged, Underway, Writing, Ripe, Pending
    <2>4. lock = p
      BY <1>1, <1>8 DEF Held, Locking
    <2> QED
      BY <1>1, <1>2, <1>3, <1>8, <2>1, <2>2, <2>3, <2>4, Quiet DEF Dead
  <1>9. CASE WipeTemp(p)
    <2>1. CASE Fail(p)
      BY <1>8, <1>9, <2>1 DEF WipeTemp
    <2>2. CASE UNCHANGED <<pc, lock>>
      <3>1. pc[p] = "temps" /\ UNCHANGED job
        BY <1>9 DEF WipeTemp
      <3>2. Task(p)' /\ Charge(p)'
        BY <1>1, <1>3, <2>2, <3>1 DEF Task, Charge, Writing, Charged
      <3>3. p \in Runs => Course(p)'
        BY <1>1, <1>3, <1>4, <2>2, <3>1 DEF Course, Before, Charged, Underway, Writing
      <3>4. lock = p
        BY <1>1, <3>1 DEF Held, Locking
      <3> QED
        BY <1>1, <1>2, <1>3, <2>2, <3>1, <3>2, <3>3, <3>4, Quiet DEF Dead
    <2> QED
      BY <1>9, <2>1, <2>2 DEF WipeTemp
  <1>10. CASE Read(p)
    <2>0. job'[p] = NoJob /\ \A q \in Processes \ {p} : job'[q] = job[q]
      BY <1>1, <1>10, Jobless DEF Read
    <2>1. CASE Fail(p)
      BY <1>8, <1>10, <2>0, <2>1 DEF Read
    <2>2. CASE Proceed(p, job[p].then)
      <3>1. /\ pc[p] = "temps" /\ pc'[p] = job[p].then /\ \A q \in Processes \ {p} : pc'[q] = pc[q]
            /\ temps = {} /\ temps' = {}
        BY <1>1, <1>10, <2>2, Moving DEF Read
      <3>2. \/ job[p].then = "recover"
            \/ p \in Runs /\ job[p].then = "allocate"
            \/ p \in Runs /\ job[p].then = "attach" /\ subject[p] = p
        BY <1>1, <3>1 DEF Task
      <3>3. Task(p)' /\ Charge(p)'
        BY <1>3, <3>1, <3>2 DEF Task, Charge, Writing, Charged
      <3>4. p \in Runs => Course(p)'
        BY <1>1, <1>3, <1>4, <3>1, <3>2 DEF Course, Before, Charged, Underway, Writing
      <3> QED
        BY <1>1, <1>2, <1>3, <2>0, <3>1, <3>3, <3>4, Quiet DEF Dead
    <2> QED
      BY <1>10, <2>1, <2>2 DEF Read
  <1> QED
    BY <1>6, <1>7, <1>9, <1>10

\* The attempt of a marker whose flock is free is dead, and it is not the reader's own.
LEMMA Orphan ==
    ASSUME Inv, NEW p \in Processes, pc[p] = "recover", NEW m \in Marked, ~Alive(m)
    PROVE  m # p /\ Dead(m)
  <1>1. m \in Runs /\ Marker(m) \in live /\ Course(m) /\ pc[m] \in {"idle", "ended", "crashed"}
    BY DEF Marked, Alive, Ended, Inv
  <1> QED
    BY <1>1 DEF Course, Before, Fresh, Dead

\* A recovery, and a process's own claim to reconcile, under the flock.
LEMMA KeepsRecovering ==
    ASSUME Inv, NEW p \in Processes, Recover(p) \/ InstallIntent(p)
    PROVE  Inv'
  <1> USE DEF directory, output, control, bounds
  <1>1. TypeOK /\ Held /\ Task(p) /\ Charge(p) /\ (p \in Runs => Course(p)) /\ faults \in Nat
    BY LedgerAssumption DEF Inv, TypeOK
  <1>2. TypeOK' /\ Held'
    BY TypedRecovery, HeldRecovery DEF Recovery
  <1>3. UNCHANGED books /\ UNCHANGED <<faults, temps, retried>>
    BY DEF books, Recover, InstallIntent
  <1>4. \A r : /\ Fresh(r)' <=> Fresh(r)
               /\ Pending(r)' <=> Pending(r)
               /\ Receipts(r)' = Receipts(r)
    BY <1>3, Same
  <1>5. UNCHANGED live
    BY <1>3 DEF books
  <1>6. p \in Runs => Fresh(p) /\ (p \in retried => faults > 0)
    BY <1>1 DEF Recover, InstallIntent, Course, Before, Charged
  <1>7. CASE Recover(p)
    <2>1. CASE Marked = {}
      <3>1. /\ pc[p] = "recover" /\ pc'[p] = (IF p \in Runs THEN "ready" ELSE "idle")
            /\ \A q \in Processes \ {p} : pc'[q] = pc[q]
            /\ UNCHANGED <<job, subject>>
        BY <1>1, <1>7, <2>1, Moving DEF Recover
      <3>2. Task(p)' /\ Charge(p)'
        BY <3>1 DEF Task, Charge, Writing, Charged
      <3>3. p \in Runs => Course(p)'
        BY <1>3, <1>4, <1>6, <3>1 DEF Course, Before, Charged, Underway, Writing
      <3> QED
        BY <1>1, <1>2, <1>3, <3>1, <3>2, <3>3, Quiet DEF Dead
    <2>2. CASE Marked # {}
      <3>1. PICK m \in Marked :
              /\ subject' = [subject EXCEPT ![p] = m]
              /\ IF Alive(m) THEN Proceed(p, "ended")
                 ELSE IF Receipts(m) = {} THEN Proceed(p, "judge")
                 ELSE IF \E n \in Receipts(m) : said[n].outcome = "passed" /\ Generation(m) > 0
                 THEN Proceed(p, "ended") ELSE Proceed(p, "boundary")
        BY <1>7, <2>2 DEF Recover
      <3>2. pc[p] = "recover" /\ UNCHANGED job
        BY <1>7 DEF Recover
      <3>3. subject'[p] = m /\ \A q \in Processes \ {p} : subject'[q] = subject[q]
        BY <1>1, <3>1 DEF TypeOK
      <3>4. CASE Proceed(p, "ended")
        <4>1. pc'[p] = "ended" /\ \A q \in Processes \ {p} : pc'[q] = pc[q]
          BY <1>1, <3>4, Moving
        <4>2. Task(p)' /\ Charge(p)'
          BY <4>1 DEF Task, Charge, Writing, Charged
        <4>3. p \in Runs => Course(p)'
          BY <1>3, <1>6, <4>1 DEF Course, Before, Charged, Underway, Writing
        <4> QED
          BY <1>1, <1>2, <1>3, <3>2, <3>3, <4>1, <4>2, <4>3, Quiet DEF Dead
      <3>5. CASE ~Proceed(p, "ended")
        <4>1. ~Alive(m) /\ (Receipts(m) = {} => Proceed(p, "judge")) /\ (Receipts(m) # {} => Proceed(p, "boundary"))
          BY <3>1, <3>5
        <4>2. m # p /\ Dead(m) /\ Marker(m) \in live /\ m \in Runs
          BY <3>2, <4>1, Orphan DEF Marked
        <4>3. /\ pc'[p] = (IF Receipts(m) = {} THEN "judge" ELSE "boundary")
              /\ \A q \in Processes \ {p} : pc'[q] = pc[q]
          BY <1>1, <4>1, Moving
        <4>4. Dead(m)'
          BY <4>2, <4>3 DEF Dead, Processes
        <4>5. Task(p)'
          BY <3>3, <4>2, <4>3 DEF Task, Writing, Charged
        <4>6. Charge(p)'
          BY <1>4, <1>5, <3>3, <4>2, <4>3, <4>4 DEF Charge, Writing, Charged, Pending
        <4>7. p \in Runs => Course(p)'
          BY <1>3, <1>4, <1>6, <3>3, <4>2, <4>3 DEF Course, Before, Charged, Underway, Writing
        <4> QED
          BY <1>1, <1>2, <1>3, <3>2, <3>3, <4>3, <4>5, <4>6, <4>7, Quiet DEF Dead
      <3> QED
        BY <3>4, <3>5
    <2> QED
      BY <2>1, <2>2
  <1>8. CASE InstallIntent(p)
    <2>0. PICK m : m = subject[p]
      OBVIOUS
    <2>1. pc[p] = "judge" /\ UNCHANGED subject /\ m # p /\ Dead(m) /\ Pending(m)
      BY <1>1, <1>8, <2>0 DEF InstallIntent, Charge, Charged
    <2>2. CASE Generation(m) + 1 > MaxGenerations
      <3>1. pc'[p] = "ended" /\ (\A q \in Processes \ {p} : pc'[q] = pc[q]) /\ UNCHANGED job
        BY <1>1, <1>8, <2>0, <2>2, Moving DEF InstallIntent
      <3>2. Task(p)' /\ Charge(p)'
        BY <3>1 DEF Task, Charge, Writing, Charged
      <3>3. p \in Runs => Course(p)'
        BY <1>3, <1>6, <3>1 DEF Course, Before, Charged, Underway, Writing
      <3> QED
        BY <1>1, <1>2, <1>3, <2>1, <3>1, <3>2, <3>3, Quiet DEF Dead
    <2>3. CASE ~(Generation(m) + 1 > MaxGenerations)
      <3>1. Set(p, Intent(m, Generation(m) + 1), "clear", "ended") /\ Proceed(p, "write")
        BY <1>8, <2>0, <2>3 DEF InstallIntent
      <3>2. pc'[p] = "write" /\ (\A q \in Processes \ {p} : pc'[q] = pc[q])
        BY <1>1, <3>1, Moving
      <3>3. /\ job'[p] = [name |-> Intent(m, Generation(m) + 1), then |-> "clear", else |-> "ended"]
            /\ \A q \in Processes \ {p} : job'[q] = job[q]
        BY <1>1, <3>1, Setting
      <3>4. Generation(m) + 1 \in 1..MaxGenerations
        BY <2>3, Generations, LedgerAssumption
      <3>5. Task(p)'
        BY <2>0, <2>1, <3>2, <3>3, <3>4 DEF Task, Writing
      <3>6. Charge(p)'
        <4>1. Dead(m)'
          BY <2>1, <3>2 DEF Dead, Processes
        <4> QED
          BY <1>4, <2>0, <2>1, <3>2, <3>3, <4>1 DEF Charge, Writing, Charged
      <3>7. p \in Runs => Course(p)'
        BY <1>3, <1>4, <1>6, <3>2, <3>3 DEF Course, Before, Charged, Underway, Writing
      <3> QED
        BY <1>1, <1>2, <1>3, <2>1, <3>2, <3>3, <3>5, <3>6, <3>7, Quiet DEF Dead
    <2> QED
      BY <2>2, <2>3
  <1> QED
    BY <1>7, <1>8

LEMMA KeepsSync ==
    ASSUME Inv, NEW p \in Processes, Sync(p)
    PROVE  Inv'
  <1> USE DEF directory, output, control, bounds
  <1>1. TypeOK /\ Held /\ Task(p) /\ Charge(p) /\ (p \in Runs => Course(p)) /\ faults \in Nat
    BY LedgerAssumption DEF Inv, TypeOK
  <1>2. TypeOK' /\ Held'
    BY TypedLocked, HeldLocked DEF Locked, Publish
  <1>3. UNCHANGED books /\ UNCHANGED <<faults, temps, subject, retried, appended, verdict, payload>>
    BY DEF books, Sync
  <1>4. /\ Published' = Published
        /\ \A r : /\ Fresh(r)' <=> Fresh(r)
                  /\ Ongoing(r)' <=> Ongoing(r)
                  /\ Ripe(r)' <=> Ripe(r)
                  /\ Bound(r)' <=> Bound(r)
                  /\ Pending(r)' <=> Pending(r)
                  /\ Intact(r)' <=> Intact(r)
                  /\ Passed(r)' <=> Passed(r)
                  /\ Receipts(r)' = Receipts(r)
    BY <1>3, Same
  <1>5. UNCHANGED live
    BY <1>3 DEF books
  <1>6. PICK m : m = subject[p]
    OBVIOUS
  <1>7. /\ pc[p] = "sync" /\ pc'[p] = job[p].then /\ \A q \in Processes \ {p} : pc'[q] = pc[q]
        /\ job'[p] = NoJob /\ \A q \in Processes \ {p} : job'[q] = job[q]
        /\ subject'[p] = m
    BY <1>1, <1>3, <1>6, Moving, Jobless DEF Sync
  <1>8. p \in Runs => (p \in retried => faults > 0)
    BY <1>1 DEF Course
  <1>9. CASE p \in Runs /\ job[p].then \in {"begun", "bound", "sealed"}
    <2>1. /\ Ongoing(p)
          /\ job[p].then \in {"begun", "bound"} => payload[p] = "none"
          /\ job[p].then \in {"bound", "sealed"} => Bound(p)
          /\ job[p].then = "sealed" => payload[p] = "whole"
      BY <1>1, <1>7, <1>9 DEF Course, Writing, Ongoing, Blank, Pending
    <2>2. Task(p)' /\ Charge(p)'
      BY <1>7, <1>9 DEF Task, Charge, Writing, Charged
    <2>3. Course(p)'
      BY <1>3, <1>4, <1>7, <1>8, <1>9, <2>1 DEF Course, Before, Charged, Underway, Writing
    <2> QED
      BY <1>1, <1>2, <1>3, <1>7, <2>2, <2>3, Quiet DEF Dead
  <1>10. CASE m # p /\ job[p].then = "clear"
    <2>1. Dead(m) /\ Pending(m) /\ (p \in Runs => Fresh(p))
      BY <1>1, <1>6, <1>7, <1>10 DEF Charge, Course, Writing
    <2>2. Dead(m)'
      BY <1>7, <1>10, <2>1 DEF Dead, Processes
    <2>3. Task(p)' /\ Charge(p)'
      BY <1>4, <1>7, <1>10, <2>1, <2>2 DEF Task, Charge, Writing, Charged
    <2>4. p \in Runs => Course(p)'
      BY <1>3, <1>4, <1>7, <1>8, <1>10, <2>1 DEF Course, Before, Charged, Underway, Writing
    <2> QED
      BY <1>1, <1>2, <1>3, <1>7, <2>3, <2>4, Quiet DEF Dead
  <1>11. CASE m \in Runs /\ job[p].then = "boundary" /\ \E n \in Numbers : job[p].name = Receipt(n)
    <2>1. PICK n \in Numbers : job[p].name = Receipt(n)
      BY <1>11
    <2>2. /\ n \in Published /\ said[n].attempt = m
          /\ said[n].outcome = IF m # p THEN "interrupted" ELSE verdict[p]
          /\ m # p => Dead(m) /\ Marker(m) \in live
      BY <1>1, <1>6, <1>7, <1>11, <2>1 DEF Charge, Writing
    <2>3. n \in Receipts(m)
      BY <2>2 DEF Receipts
    <2>4. m # p => Dead(m)'
      BY <1>7, <2>2 DEF Dead, Processes
    <2>5. /\ m = p => verdict[p] # "none" /\ Marker(p) \in live /\ temps = {}
                      /\ (verdict[p] = "passed" => Intact(p) /\ Bound(p) /\ Passed(p))
          /\ m # p /\ p \in Runs => Fresh(p)
      <3>1. CASE m = p
        <4>1. verdict[p] # "none" /\ Marker(p) \in live /\ (verdict[p] = "passed" => Intact(p) /\ Bound(p))
          BY <1>1, <1>6, <1>7, <1>11, <3>1 DEF Course, Writing
        <4>2. temps = {}
          BY <1>1, <1>6, <1>7, <1>11, <3>1 DEF Task, Writing
        <4>3. verdict[p] = "passed" => Passed(p)
          BY <2>2, <2>3, <3>1 DEF Passed
        <4> QED
          BY <3>1, <4>1, <4>2, <4>3
      <3>2. CASE m # p
        BY <1>1, <1>6, <1>7, <1>11, <3>2 DEF Course, Writing
      <3> QED
        BY <3>1, <3>2
    <2>6. Task(p)'
      BY <1>3, <1>7, <1>11, <2>5 DEF Task, Writing
    <2>7. Charge(p)'
      BY <1>4, <1>5, <1>7, <1>11, <2>2, <2>3, <2>4, <2>5 DEF Charge, Writing, Charged
    <2>8. p \in Runs => Course(p)'
      BY <1>3, <1>4, <1>5, <1>7, <1>8, <1>11, <2>5 DEF Course, Before, Charged, Underway, Writing
    <2> QED
      BY <1>1, <1>2, <1>3, <1>7, <2>6, <2>7, <2>8, Quiet DEF Dead
  <1>12. CASE job[p].then = "ended"
    <2>1. Task(p)' /\ Charge(p)'
      BY <1>7, <1>12 DEF Task, Charge, Writing, Charged
    <2>2. p \in Runs => Course(p)'
      BY <1>3, <1>7, <1>8, <1>12 DEF Course, Before, Charged, Underway, Writing
    <2> QED
      BY <1>1, <1>2, <1>3, <1>7, <2>1, <2>2, Quiet DEF Dead
  <1> QED
    BY <1>1, <1>6, <1>7, <1>9, <1>10, <1>11, <1>12 DEF Task, Writing

\* A publication that fails, before its rename or after it was undone, leaves its process
\* where it may still terminate its attempt.
LEMMA KeepsFailedWrite ==
    ASSUME Inv, NEW p \in Processes, WriteFails(p) \/ Undo(p)
    PROVE  Inv'
  <1> USE DEF directory, output, control, bounds
  <1>1. TypeOK /\ Held /\ Task(p) /\ Charge(p) /\ (p \in Runs => Course(p)) /\ faults \in Nat
    BY LedgerAssumption DEF Inv, TypeOK
  <1>2. TypeOK' /\ Held'
    BY TypedLocked, HeldLocked DEF Locked, Publish
  <1>3. UNCHANGED books /\ UNCHANGED <<temps, subject, retried, appended, verdict, payload>>
    BY DEF books, WriteFails, Undo
  <1>4. \A r : /\ Fresh(r)' <=> Fresh(r)
               /\ Ongoing(r)' <=> Ongoing(r)
               /\ Bound(r)' <=> Bound(r)
               /\ Receipts(r)' = Receipts(r)
    BY <1>3, Same
  <1>5. UNCHANGED live
    BY <1>3 DEF books
  <1>6. faults' \in Nat /\ faults' >= faults
    BY <1>1 DEF WriteFails, Undo, Fault
  <1>7. /\ pc[p] \in {"write", "undo"} /\ pc'[p] = job[p].else /\ \A q \in Processes \ {p} : pc'[q] = pc[q]
        /\ job'[p] = NoJob /\ \A q \in Processes \ {p} : job'[q] = job[q]
    BY <1>1, Moving, Jobless DEF WriteFails, Undo
  <1>8. p \in Runs => (p \in retried => faults' > 0)
    BY <1>1, <1>6 DEF Course
  <1>9. CASE p \in Runs /\ job[p].then = "begun" /\ job[p].else = "early"
    <2>1. Fresh(p)
      BY <1>1, <1>7, <1>9 DEF Course, Writing
    <2>2. Task(p)' /\ Charge(p)'
      BY <1>7, <1>9 DEF Task, Charge, Writing, Charged
    <2>3. Course(p)'
      BY <1>3, <1>4, <1>7, <1>8, <1>9, <2>1 DEF Course, Before, Charged, Underway, Writing
    <2> QED
      BY <1>1, <1>2, <1>3, <1>6, <1>7, <2>2, <2>3, Quiet DEF Dead
  <1>10. CASE p \in Runs /\ job[p].then \in {"bound", "sealed"} /\ job[p].else = "settle"
    <2>1. Ongoing(p)
      BY <1>1, <1>7, <1>10 DEF Course, Writing
    <2>2. Task(p)' /\ Charge(p)'
      BY <1>7, <1>10 DEF Task, Charge, Writing, Charged
    <2>3. Course(p)'
      BY <1>3, <1>4, <1>7, <1>8, <1>10, <2>1 DEF Course, Before, Charged, Underway, Writing
    <2> QED
      BY <1>1, <1>2, <1>3, <1>6, <1>7, <2>2, <2>3, Quiet DEF Dead
  <1>11. CASE job[p].else = "ended"
    <2>1. Task(p)' /\ Charge(p)'
      BY <1>7, <1>11 DEF Task, Charge, Writing, Charged
    <2>2. p \in Runs => Course(p)'
      BY <1>3, <1>7, <1>8, <1>11 DEF Course, Before, Charged, Underway, Writing
    <2> QED
      BY <1>1, <1>2, <1>3, <1>6, <1>7, <2>1, <2>2, Quiet DEF Dead
  <1>12. CASE p \in Runs /\ subject[p] = p /\ job[p].then \in {"boundary", "ended"} /\ job[p].else = "unwind"
    <2>1. Ripe(p)
      BY <1>1, <1>7, <1>12 DEF Course, Writing
    <2>2. Task(p)' /\ Charge(p)'
      BY <1>7, <1>12 DEF Task, Charge, Writing, Charged
    <2>3. Course(p)'
      BY <1>3, <1>4, <1>5, <1>7, <1>8, <1>12, <2>1
      DEF Course, Before, Charged, Underway, Writing, Ripe, Pending
    <2> QED
      BY <1>1, <1>2, <1>3, <1>6, <1>7, <2>2, <2>3, Quiet DEF Dead
  <1>13. \/ p \in Runs /\ job[p].then = "begun" /\ job[p].else = "early"
         \/ p \in Runs /\ job[p].then \in {"bound", "sealed"} /\ job[p].else = "settle"
         \/ job[p].else = "ended"
         \/ p \in Runs /\ subject[p] = p /\ job[p].then \in {"boundary", "ended"} /\ job[p].else = "unwind"
    BY <1>1, <1>7 DEF Task, Writing
  <1> QED
    BY <1>9, <1>10, <1>11, <1>12, <1>13

-----------------------------------------------------------------------------
(* The steps that change an output or a verdict *)

\* A step of a run on its own attempt.
LEMMA Alone ==
    ASSUME Inv, NEW r \in Runs, ~Dead(r),
           UNCHANGED <<live, said, temps, appended, retried>>, faults' \in Nat, faults' >= faults,
           \A q \in Processes \ {r} : pc'[q] = pc[q] /\ job'[q] = job[q] /\ subject'[q] = subject[q],
           \A q \in Runs \ {r} : place'[q] = place[q] /\ payload'[q] = payload[q] /\ verdict'[q] = verdict[q],
           Receipts(r) = {} \/ (verdict'[r] = verdict[r] /\ (Wiped(r) => Wiped(r)')),
           Stands(r)', Accounted(r)', TypeOK', Held', Task(r)', Charge(r)', Course(r)'
    PROVE  Inv'
  <1>1. faults \in Nat
    BY LedgerAssumption DEF Inv, TypeOK
  <1>2. \A q : Receipts(q)' = Receipts(q)
    BY SameFiles
  <1>3. Apart(r)
    BY <1>1, <1>2 DEF Apart
  <1> QED
    BY <1>3, Unfiled DEF Processes

LEMMA KeepsOutput ==
    ASSUME Inv, NEW r \in Runs,
           MakeStage(r) \/ Fill(r) \/ Promote(r) \/ Pass(r) \/ Settle(r) \/ SettleFails(r)
    PROVE  Inv'
  <1> USE DEF directory, output, control, bounds
  <1>1. r \in Processes /\ TypeOK /\ Course(r) /\ Accounted(r) /\ faults \in Nat
    BY LedgerAssumption DEF Inv, TypeOK, Processes
  <1>2. TypeOK' /\ Held'
    BY TypedAttempt, HeldAttempt DEF Attempt
  <1>3. UNCHANGED <<live, said, temps, appended, retried, job, subject>>
    BY DEF MakeStage, Fill, Promote, Pass, Settle, SettleFails
  <1>4. pc[r] \in Underway /\ Ongoing(r) /\ (r \in retried => faults > 0)
    BY <1>1 DEF MakeStage, Fill, Promote, Pass, Settle, SettleFails, Underway, Course
  <1>5. faults' \in Nat /\ faults' >= faults
    BY <1>1 DEF MakeStage, Fill, Promote, Pass, Settle, SettleFails, Fault
  <1>6. Receipts(r)' = {} /\ Receipts(r) = {} /\ Marker(r) \in live /\ Stands(r)'
    BY <1>3, <1>4, SameFiles DEF Ongoing, Pending, Stands, Passed
  <1>7. (Bound(r)' <=> Bound(r)) /\ ~Dead(r)
    BY <1>3, <1>4 DEF Bound, Dead, Underway
  <1>8. \E l \in Underway \cup {"append"} : Goto(r, l)
    BY DEF MakeStage, Fill, Promote, Pass, Settle, SettleFails, Underway
  <1>9. pc'[r] \in Underway \cup {"append"} /\ \A q \in Processes \ {r} : pc'[q] = pc[q]
    BY <1>1, <1>8, Moving
  <1>10. \A q \in Runs \ {r} : place'[q] = place[q] /\ payload'[q] = payload[q] /\ verdict'[q] = verdict[q]
    BY <1>1 DEF MakeStage, Fill, Promote, Pass, Settle, SettleFails, Zero, TypeOK
  <1>11. Task(r)' /\ Charge(r)'
    BY <1>9 DEF Task, Charge, Writing, Charged, Underway
  <1>12. ASSUME verdict'[r] = "none", Accounted(r)', pc'[r] \in Underway,
                pc'[r] \in {"begun", "staged"} => payload'[r] = "none",
                pc'[r] \in {"bound", "filled", "full", "sealed", "promoted"} => Bound(r),
                pc'[r] \in {"full", "sealed", "promoted"} => payload'[r] = "whole",
                pc'[r] = "promoted" => place'[r] = "final",
                pc'[r] = "settling" => payload'[r] \in {"none", "zero"}
         PROVE  Inv'
    <2>1. Ongoing(r)'
      BY <1>3, <1>4, <1>6, <1>12 DEF Ongoing, Pending
    <2>2. Course(r)'
      <3> USE DEF Underway
      <3>1. pc'[r] = "settling" => Wiped(r)'
        BY <1>12 DEF Wiped
      <3> QED
        BY <1>1, <1>3, <1>4, <1>5, <1>7, <1>12, <2>1, <3>1 DEF Course, Before, Charged, Writing
    <2> QED
      BY <1>2, <1>3, <1>5, <1>6, <1>7, <1>9, <1>10, <1>11, <1>12, <2>2, Alone
  <1>13. ASSUME verdict'[r] \in {"passed", "failed"}, pc'[r] = "append", Accounted(r)',
                verdict'[r] = "passed" => Intact(r)' /\ Bound(r)
         PROVE  Inv'
    <2>1. Ripe(r)'
      BY <1>3, <1>6, <1>7, <1>13 DEF Ripe, Pending
    <2>2. Course(r)'
      BY <1>1, <1>3, <1>4, <1>5, <1>13, <2>1 DEF Course, Before, Charged, Underway, Writing
    <2> QED
      BY <1>2, <1>3, <1>5, <1>6, <1>7, <1>9, <1>10, <1>11, <1>13, <2>2, Alone
  <1>14. CASE MakeStage(r)
    <2>1. pc[r] = "begun" /\ pc'[r] = "staged" /\ payload'[r] = payload[r] /\ verdict'[r] = verdict[r]
      BY <1>1, <1>14, Moving DEF MakeStage
    <2>2. payload[r] = "none" /\ verdict[r] = "none"
      BY <1>1, <1>4, <2>1 DEF Course, Ongoing
    <2>3. Accounted(r)'
      BY <1>3, <1>6, <2>1, <2>2 DEF Accounted
    <2> QED
      BY <1>12, <2>1, <2>2, <2>3 DEF Underway
  <1>15. CASE Fill(r)
    <2>1. /\ pc[r] \in {"bound", "filled"} /\ verdict'[r] = verdict[r]
          /\ pc'[r] = (IF pc[r] = "bound" THEN "filled" ELSE "full")
          /\ payload'[r] = (IF pc[r] = "bound" THEN "part" ELSE "whole")
      BY <1>1, <1>15, Moving DEF Fill, TypeOK
    <2>2. Bound(r) /\ verdict[r] = "none"
      BY <1>1, <1>4, <2>1 DEF Course, Ongoing
    <2>3. Accounted(r)'
      BY <1>3, <1>6, <1>7, <2>2 DEF Accounted
    <2> QED
      BY <1>12, <2>1, <2>2, <2>3 DEF Underway
  <1>16. CASE Promote(r)
    <2>1. /\ pc[r] = "sealed" /\ pc'[r] = "promoted" /\ verdict'[r] = verdict[r]
          /\ payload'[r] = payload[r] /\ place'[r] = "final"
      BY <1>1, <1>16, Moving DEF Promote, TypeOK
    <2>2. Bound(r) /\ verdict[r] = "none" /\ payload[r] = "whole"
      BY <1>1, <1>4, <2>1 DEF Course, Ongoing
    <2>3. Accounted(r)'
      BY <1>3, <1>6, <1>7, <2>2 DEF Accounted
    <2> QED
      BY <1>12, <2>1, <2>2, <2>3 DEF Underway
  <1>17. CASE Pass(r)
    <2>1. /\ pc[r] = "promoted" /\ pc'[r] = "append" /\ verdict'[r] = "passed"
          /\ payload'[r] = payload[r] /\ place'[r] = place[r]
      BY <1>1, <1>17, Moving DEF Pass, TypeOK
    <2>2. Bound(r) /\ payload[r] = "whole" /\ place[r] = "final"
      BY <1>1, <2>1 DEF Course
    <2>3. Accounted(r)'
      BY <1>3, <1>6, <1>7, <2>2 DEF Accounted
    <2>4. Intact(r)'
      BY <2>1, <2>2 DEF Intact
    <2> QED
      BY <1>13, <2>1, <2>2, <2>3, <2>4
  <1>18. CASE Settle(r)
    <2>0. pc[r] \in {"settle", "settling"} /\ verdict[r] = "none"
      BY <1>4, <1>18 DEF Settle, Ongoing
    <2>1. /\ place'[r] = place[r] \/ place'[r] = "tomb"
          /\ payload'[r] = payload[r] \/ (payload[r] # "none" /\ payload'[r] = "zero")
      BY <1>1, <1>18 DEF Settle, Zero, TypeOK
    <2>2. ~Passed(r)
      BY <1>6 DEF Passed
    <2>3. Accounted(r)'
      <3>1. CASE Absent(r)
        <4>1. Absent(r)'
          BY <2>1, <3>1 DEF Absent
        <4> QED
          BY <4>1 DEF Accounted
      <3>2. CASE Marker(r) \in live /\ (Bound(r) \/ payload[r] = "none")
        BY <1>3, <1>7, <2>1, <3>2 DEF Accounted
      <3> QED
        BY <1>1, <2>2, <3>1, <3>2 DEF Accounted
    <2>4. CASE pc[r] = "settle" /\ place[r] # "none"
      <3>1. Zero(r) /\ pc'[r] = "settling" /\ verdict'[r] = verdict[r]
        BY <1>1, <1>18, <2>4, Moving DEF Settle
      <3>2. payload'[r] \in {"none", "zero"}
        BY <1>1, <3>1 DEF Zero, TypeOK
      <3> QED
        BY <1>12, <2>0, <2>3, <3>1, <3>2 DEF Underway
    <2>5. CASE ~(pc[r] = "settle" /\ place[r] # "none")
      <3>1. pc'[r] = "append" /\ verdict'[r] = "failed"
        BY <1>1, <1>18, <2>5, Moving DEF Settle, TypeOK
      <3> QED
        BY <1>13, <2>3, <3>1
    <2> QED
      BY <2>4, <2>5
  <1>19. CASE SettleFails(r)
    <2>1. pc'[r] = "append" /\ verdict'[r] = "failed" /\ UNCHANGED <<place, payload>>
      BY <1>1, <1>19, Moving DEF SettleFails, TypeOK
    <2>2. ~Passed(r)
      BY <1>6 DEF Passed
    <2>3. Accounted(r)'
      BY <1>1, <1>3, <1>7, <2>1, <2>2 DEF Accounted, Absent
    <2> QED
      BY <1>13, <2>1, <2>3
  <1> QED
    BY <1>14, <1>15, <1>16, <1>17, <1>18, <1>19

LEMMA KeepsUnwind ==
    ASSUME Inv, NEW r \in Runs, Unwind(r)
    PROVE  Inv'
  <1> USE DEF directory, output, control, bounds
  <1>1. r \in Processes /\ TypeOK /\ Course(r) /\ faults \in Nat /\ Stands(r) /\ Accounted(r)
    BY LedgerAssumption DEF Inv, TypeOK, Processes
  <1>2. TypeOK' /\ Held'
    BY TypedAttempt, HeldAttempt DEF Attempt
  <1>3. UNCHANGED <<live, said, temps, appended, retried, job, subject, verdict, faults>>
    BY DEF Unwind
  <1>4. pc[r] = "unwind" /\ pc'[r] \in {"unwind", "ended"} /\ \A q \in Processes \ {r} : pc'[q] = pc[q]
    BY <1>1 DEF Unwind, Goto, TypeOK
  <1>5. r \in retried => faults > 0
    BY <1>1 DEF Course
  <1>6. Task(r)' /\ Charge(r)'
    BY <1>4 DEF Task, Charge, Writing, Charged
  <1>7. /\ Receipts(r)' = Receipts(r)
        /\ Bound(r)' <=> Bound(r)
    BY <1>3, SameFiles DEF Bound
  <1>8. Course(r)'
    BY <1>1, <1>3, <1>4, <1>7 DEF Course, Before, Charged, Underway, Writing
  <1>9. \A q \in Runs \ {r} : place'[q] = place[q] /\ payload'[q] = payload[q]
    BY <1>1 DEF Unwind, Zero, TypeOK
  <1>10. CASE verdict[r] = "passed" /\ r \notin appended /\ place[r] = "final"
    <2>1. Marker(r) \in live /\ Bound(r) /\ (Receipts(r) = {} \/ (r \in retried /\ faults > 1))
      BY <1>1, <1>4, <1>10 DEF Course
    <2>2. Accounted(r)'
      BY <1>3, <1>7, <2>1 DEF Accounted
    <2>3. Stands(r)'
      <3>1. CASE Receipts(r) = {}
        BY <1>7, <3>1 DEF Stands, Passed
      <3>2. CASE r \in retried /\ faults > 1
        BY <1>3, <1>4, <1>10, <3>2 DEF Stands, Twice
      <3> QED
        BY <2>1, <3>1, <3>2
    <2>4. Wiped(r) => Wiped(r)'
      BY <1>1, <1>10 DEF Unwind, Zero, TypeOK, Wiped
    <2> QED
      BY <1>1, <1>2, <1>3, <1>4, <1>6, <1>8, <1>9, <2>2, <2>3, <2>4, Alone DEF Dead
  <1>11. CASE ~(verdict[r] = "passed" /\ r \notin appended /\ place[r] = "final")
    <2>1. UNCHANGED <<place, payload>> /\ pc'[r] = "ended"
      BY <1>1, <1>11, Moving DEF Unwind
    <2>2. UNCHANGED books
      BY <1>3, <2>1 DEF books
    <2> QED
      BY <1>1, <1>2, <1>3, <1>4, <1>6, <1>8, <2>1, <2>2, Quiet DEF Dead
  <1> QED
    BY <1>10, <1>11

\* The receipt of an attempt is the only one, and says what it says of it.
LEMMA TheReceipt ==
    ASSUME Inv, NEW m \in Runs, Receipts(m) # {}
    PROVE  \E n \in Receipts(m) :
              /\ Terminal(m) = said[n] /\ Truthful(n) /\ said[n].attempt = m
              /\ \A k \in Receipts(m) : k = n
              /\ Passed(m) <=> said[n].outcome = "passed"
  <1>1. PICK n : n = CHOOSE k \in Receipts(m) : TRUE
    OBVIOUS
  <1>2. n \in Receipts(m)
    BY <1>1
  <1>3. \A k \in Receipts(m) : k = n
    BY <1>2 DEF Inv, Chained, Receipts
  <1>4. Truthful(n) /\ said[n].attempt = m
    BY <1>2 DEF Inv, Chained, Receipts
  <1>5. Terminal(m) = said[n]
    BY <1>1 DEF Terminal
  <1>6. Passed(m) <=> said[n].outcome = "passed"
    BY <1>2, <1>3 DEF Passed
  <1> QED
    BY <1>2, <1>3, <1>4, <1>5, <1>6

\* A recovery touches the output of the dead attempt it has in charge.
LEMMA KeepsCharge ==
    ASSUME Inv, NEW p \in Processes,
           RemoveUnbound(p) \/ WipeRenamed(p) \/ ClearStage(p) \/ Quarantine(p)
    PROVE  Inv'
  <1> USE DEF directory, output, control, bounds
  <1>0. PICK m : m = subject[p]
    OBVIOUS
  <1>1. TypeOK /\ Held /\ Task(p) /\ Charge(p) /\ (p \in Runs => Course(p)) /\ faults \in Nat
    BY LedgerAssumption DEF Inv, TypeOK
  <1>2. TypeOK' /\ Held'
    BY TypedRecovery, HeldRecovery DEF Recovery
  <1>3. UNCHANGED <<live, said, temps, appended, retried, job, subject, verdict, faults>>
    BY DEF RemoveUnbound, WipeRenamed, ClearStage, Quarantine
  <1>4. pc[p] \in {"judge", "clear", "quarantine"} /\ lock = p
    <2>1. pc[p] \in {"judge", "clear", "quarantine"}
      BY DEF RemoveUnbound, WipeRenamed, ClearStage, Quarantine
    <2> QED
      BY <1>1, <2>1 DEF Held, Locking
  <1>5. m # p /\ Dead(m) /\ Pending(m) /\ m \in Runs /\ Accounted(m)
    BY <1>0, <1>1, <1>4 DEF Charge, Charged, Dead, Inv
  <1>6. \E l \in {"ended", "attest", "quarantine"} : Goto(p, l) \/ Proceed(p, l)
    BY DEF RemoveUnbound, WipeRenamed, ClearStage, Quarantine
  <1>7. pc'[p] \in {"ended", "attest", "quarantine"} /\ \A q \in Processes \ {p} : pc'[q] = pc[q]
    BY <1>1, <1>6, Moving
  <1>8. \A r : Receipts(r)' = Receipts(r)
    BY <1>3, SameFiles
  <1>9. /\ Receipts(m) = {} /\ Receipts(m)' = {} /\ Marker(m) \in live /\ ~Passed(m)
        /\ Stands(m)'
    BY <1>5, <1>8 DEF Pending, Passed, Stands
  <1>10. Dead(m)' /\ Pending(m)'
    BY <1>3, <1>5, <1>7, <1>9 DEF Dead, Pending, Processes
  <1>11. Task(p)'
    BY <1>7 DEF Task, Writing
  <1>12. \A r \in Runs \ {m} : place'[r] = place[r] /\ payload'[r] = payload[r]
    BY <1>0, <1>1 DEF RemoveUnbound, WipeRenamed, ClearStage, Quarantine, Zero, TypeOK
  <1>13. p \in Runs => Course(p)'
    <2>1. ASSUME p \in Runs
          PROVE  Fresh(p)' /\ (p \in retried' => faults' > 0)
      <3>1. Fresh(p) /\ (p \in retried => faults > 0)
        BY <1>1, <1>4, <2>1 DEF Course, Before, Charged
      <3>2. place'[p] = place[p] /\ payload'[p] = payload[p]
        BY <1>5, <1>12, <2>1
      <3> QED
        BY <1>3, <1>8, <3>1, <3>2 DEF Fresh, Blank
    <2> QED
      BY <1>7, <2>1 DEF Course, Before, Charged, Underway, Writing
  <1>14. Apart(p)
    <2>1. \A r \in Runs : ~Dead(r) => r # m
      BY <1>5
    <2>2. ~Dead(p)
      BY <1>4 DEF Dead
    <2> QED
      BY <1>1, <1>3, <1>4, <1>7, <1>8, <1>12, <2>1, <2>2 DEF Apart
  <1>15. ASSUME Accounted(m)', pc'[p] = "attest" => Absent(m)', pc'[p] = "quarantine" => Wiped(m)'
         PROVE  Inv'
    <2>1. Charge(p)'
      BY <1>0, <1>3, <1>5, <1>7, <1>10, <1>15 DEF Charge, Charged, Writing
    <2>2. ASSUME NEW r \in Runs \cap {p, m}
          PROVE  /\ Receipts(r) = {} \/ (verdict'[r] = verdict[r] /\ (Wiped(r) => Wiped(r)'))
                 /\ Stands(r)' /\ Accounted(r)'
      <3>1. CASE r = m
        BY <1>9, <1>15, <3>1
      <3>2. CASE r = p /\ r # m
        <4>1. place'[r] = place[r] /\ payload'[r] = payload[r]
          BY <1>12, <3>2
        <4>2. /\ Wiped(r) => Wiped(r)'
              /\ Absent(r)' <=> Absent(r)
              /\ Passed(r)' <=> Passed(r)
              /\ Intact(r)' <=> Intact(r)
              /\ Bound(r)' <=> Bound(r)
          BY <1>3, <1>8, <4>1 DEF Wiped, Absent, Passed, Intact, Bound
        <4>3. Stands(r) /\ Accounted(r) /\ ~Twice(r)
          BY <1>4, <3>2 DEF Inv, Twice
        <4> QED
          BY <1>3, <4>1, <4>2, <4>3 DEF Stands, Accounted
      <3> QED
        BY <3>1, <3>2
    <2>3. \A r \in Runs \ {p, m} : place'[r] = place[r] /\ payload'[r] = payload[r]
      BY <1>12
    <2> QED
      BY <1>2, <1>3, <1>11, <1>13, <1>14, <2>1, <2>2, <2>3, Unfiled
  <1>16. CASE RemoveUnbound(p)
    <2>1. ~Bound(m)
      BY <1>0, <1>16 DEF RemoveUnbound, Bound
    <2>2. CASE place[m] = "final" \/ (place[m] = "stage" /\ payload[m] # "none")
      <3>1. pc'[p] = "ended" /\ UNCHANGED <<place, payload>>
        BY <1>0, <1>1, <1>16, <2>2, Moving DEF RemoveUnbound
      <3>2. Accounted(m)'
        BY <1>3, <1>5, <1>9, <3>1 DEF Accounted, Bound, Absent
      <3> QED
        BY <1>15, <3>1, <3>2
    <2>3. CASE ~(place[m] = "final" \/ (place[m] = "stage" /\ payload[m] # "none"))
      <3>1. place' = [place EXCEPT ![m] = IF @ = "stage" THEN "tomb" ELSE @] /\ UNCHANGED payload
        BY <1>0, <1>16, <2>3 DEF RemoveUnbound
      <3>2. place'[m] \notin {"stage", "final"}
        BY <1>1, <1>5, <2>3, <3>1 DEF TypeOK
      <3>3. payload[m] \in {"none", "zero"}
        BY <1>5, <1>9, <2>1, <2>3 DEF Accounted, Absent
      <3>4. Absent(m)'
        BY <3>1, <3>2, <3>3 DEF Absent
      <3>5. pc'[p] # "quarantine"
        BY <1>0, <1>1, <1>16, <2>3, Moving DEF RemoveUnbound
      <3> QED
        BY <1>15, <3>4, <3>5 DEF Accounted
    <2> QED
      BY <2>2, <2>3
  <1>17. CASE WipeRenamed(p)
    <2>1. place[m] = "tomb" /\ Zero(m) /\ UNCHANGED place
      BY <1>0, <1>17 DEF WipeRenamed
    <2>2. Absent(m)'
      BY <1>1, <1>5, <2>1 DEF Zero, TypeOK, Absent
    <2>3. pc'[p] # "quarantine"
      <3>1. Proceed(p, "attest") \/ Proceed(p, "ended")
        BY <1>0, <1>17 DEF WipeRenamed
      <3> QED
        BY <1>1, <3>1, Moving
    <2> QED
      BY <1>15, <2>2, <2>3 DEF Accounted
  <1>18. CASE ClearStage(p)
    <2>1. Zero(m) /\ pc'[p] = "quarantine" /\ UNCHANGED place
      BY <1>0, <1>1, <1>18, Moving DEF ClearStage
    <2>2. payload'[m] = (IF payload[m] = "none" THEN "none" ELSE "zero")
      BY <1>1, <1>5, <2>1 DEF Zero, TypeOK
    <2>3. Wiped(m)'
      BY <2>2 DEF Wiped
    <2>4. Accounted(m)'
      BY <1>3, <1>5, <1>9, <2>1, <2>2 DEF Accounted, Bound, Absent
    <2> QED
      BY <1>15, <2>1, <2>3, <2>4
  <1>19. CASE Quarantine(p)
    <2>1. pc'[p] = "attest" /\ place' = [place EXCEPT ![m] = "tomb"] /\ UNCHANGED payload
      BY <1>0, <1>1, <1>19, Moving DEF Quarantine
    <2>2. Wiped(m)
      BY <1>0, <1>1, <1>19 DEF Quarantine, Charge
    <2>3. Absent(m)'
      BY <1>1, <1>5, <2>1, <2>2 DEF TypeOK, Absent, Wiped
    <2> QED
      BY <1>15, <2>1, <2>3 DEF Accounted
  <1> QED
    BY <1>16, <1>17, <1>18, <1>19

\* What the boundary may do to the output of the attempt: wipe it again, unless it passed.
LEMMA Rewiping ==
    ASSUME Inv, NEW m \in Runs, Receipts(m) # {}, Rewipe(m)
    PROVE  /\ Passed(m) => UNCHANGED payload
           /\ \A r \in Runs \ {m} : payload'[r] = payload[r]
           /\ payload'[m] = payload[m] \/ (payload[m] # "none" /\ payload'[m] = "zero")
           /\ ~Passed(m) => payload'[m] \in {"none", "zero"}
  <1>1. PICK n \in Receipts(m) :
              /\ Terminal(m) = said[n] /\ Truthful(n) /\ said[n].attempt = m
              /\ Passed(m) <=> said[n].outcome = "passed"
    BY TheReceipt
  <1>2. payload \in [Runs -> {"none", "part", "whole", "zero"}]
    BY DEF Inv, TypeOK
  <1>3. UNCHANGED payload \/ Zero(m)
    BY DEF Rewipe
  <1>4. Passed(m) => UNCHANGED payload
    BY <1>1 DEF Rewipe
  <1>5. \A r \in Runs \ {m} : payload'[r] = payload[r]
    BY <1>2, <1>3 DEF Zero
  <1>6. payload'[m] = payload[m] \/ (payload[m] # "none" /\ payload'[m] = "zero")
    BY <1>2, <1>3 DEF Zero
  <1>7. ASSUME ~Passed(m)
        PROVE  payload'[m] \in {"none", "zero"}
    <2>1. CASE said[n].root
      BY <1>1, <1>2, <1>7, <2>1 DEF Rewipe, Zero
    <2>2. CASE ~said[n].root
      BY <1>1, <1>6, <1>7, <2>2 DEF Truthful, Wiped
    <2> QED
      BY <2>1, <2>2
  <1> QED
    BY <1>4, <1>5, <1>6, <1>7

\* The output of an attempt that passed is as its receipt says.
LEMMA Fitting ==
    ASSUME Inv, NEW m \in Runs, Receipts(m) # {}
    PROVE  /\ Passed(m) /\ Intact(m) => OutputFits(m)
           /\ OutputFits(m) /\ ~Passed(m) => place[m] \notin {"stage", "final"}
  <1>1. PICK n \in Receipts(m) :
              /\ Terminal(m) = said[n] /\ Truthful(n) /\ said[n].attempt = m
              /\ Passed(m) <=> said[n].outcome = "passed"
    BY TheReceipt
  <1> QED
    BY <1>1 DEF OutputFits, Truthful, Intact

LEMMA KeepsBoundary ==
    ASSUME Inv, NEW p \in Processes, Boundary(p)
    PROVE  Inv'
  <1> USE DEF directory, output, control, bounds
  <1>0. PICK m : m = subject[p]
    OBVIOUS
  <1>1. TypeOK /\ Held /\ Task(p) /\ Charge(p) /\ (p \in Runs => Course(p)) /\ faults \in Nat
    BY LedgerAssumption DEF Inv, TypeOK
  <1>2. TypeOK' /\ Held'
    BY TypedLocked, HeldLocked DEF Locked
  <1>3. UNCHANGED <<live, said, temps, retried, job, subject, verdict, faults, place>>
    BY DEF Boundary
  <1>4. pc[p] = "boundary" /\ lock = p
    BY <1>1 DEF Boundary, Held, Locking
  <1>5. m \in Runs /\ (m # p => Dead(m)) /\ Marker(m) \in live /\ Receipts(m) # {}
    BY <1>0, <1>1, <1>4 DEF Charge
  <1>6. /\ Passed(m) => UNCHANGED payload
        /\ \A r \in Runs \ {m} : payload'[r] = payload[r]
        /\ payload'[m] = payload[m] \/ (payload[m] # "none" /\ payload'[m] = "zero")
        /\ ~Passed(m) => payload'[m] \in {"none", "zero"}
    BY <1>0, <1>5, Rewiping DEF Boundary
  <1>7. /\ Passed(m) /\ Intact(m) => OutputFits(m)
        /\ OutputFits(m) /\ ~Passed(m) => place[m] \notin {"stage", "final"}
    BY <1>5, Fitting
  <1>8. IF OutputFits(m)
        THEN Proceed(p, "retire") /\ appended' = appended \cup ({p} \cap {m})
        ELSE Fail(p) /\ UNCHANGED appended
    BY <1>0 DEF Boundary
  <1>9. /\ pc'[p] = (IF OutputFits(m) THEN "retire" ELSE IF m = p THEN "unwind" ELSE "ended")
        /\ \A q \in Processes \ {p} : pc'[q] = pc[q]
    <2>1. Proceed(p, IF OutputFits(m) THEN "retire" ELSE IF m = p THEN "unwind" ELSE "ended")
      BY <1>0, <1>8 DEF Fail
    <2> QED
      BY <1>1, <2>1, Moving
  <1>10. \A r : Receipts(r)' = Receipts(r)
    BY <1>3, SameFiles
  <1>11. \A r : (Bound(r)' <=> Bound(r)) /\ (Passed(r)' <=> Passed(r))
    BY <1>3, <1>10 DEF Bound, Passed
  <1>12. Task(p)'
    BY <1>9 DEF Task, Writing
  <1>13. ASSUME OutputFits(m)
         PROVE  Passed(m) \/ Absent(m)'
    BY <1>3, <1>6, <1>7, <1>13 DEF Absent
  <1>14. Charge(p)'
    <2>1. m # p => Dead(m)'
      BY <1>5, <1>9 DEF Dead, Processes
    <2> QED
      BY <1>0, <1>3, <1>5, <1>9, <1>10, <1>11, <1>13, <2>1 DEF Charge, Charged, Writing
  <1>15. ASSUME p \in Runs
         PROVE  Course(p)'
    <2>0. Course(p)
      BY <1>1, <1>15
    <2>1. CASE m # p
      <3>1. Fresh(p)
        BY <1>0, <1>4, <2>0, <2>1 DEF Course
      <3>2. payload'[p] = payload[p] /\ (p \in appended' <=> p \in appended)
        BY <1>6, <1>8, <1>15, <2>1
      <3>3. Fresh(p)'
        BY <1>3, <1>10, <3>1, <3>2 DEF Fresh, Blank
      <3> QED
        BY <1>0, <1>3, <1>9, <2>0, <2>1, <3>3 DEF Course, Before, Charged, Underway, Writing
    <2>2. CASE m = p
      <3>1. /\ verdict[p] # "none" /\ Marker(p) \in live
            /\ verdict[p] = "passed" => Intact(p) /\ Passed(p)
        BY <1>0, <1>4, <2>0, <2>2 DEF Course
      <3>2. verdict[p] = "passed" => OutputFits(p) /\ Intact(p)'
        BY <1>3, <1>6, <1>7, <2>2, <3>1 DEF Intact
      <3>3. OutputFits(p) => p \in appended'
        BY <1>8, <2>2
      <3> QED
        BY <1>0, <1>3, <1>9, <1>11, <2>0, <2>2, <3>1, <3>2, <3>3 DEF Course, Before, Charged, Underway, Writing
    <2> QED
      BY <2>1, <2>2
  <1>16. Apart(p)
    <2>1. \A r \in Runs \ {p} : ~Dead(r) => r # m
      BY <1>5
    <2>2. ~Dead(p)
      BY <1>4 DEF Dead
    <2>3. \A r \in Runs \ {p} : r \in appended' <=> r \in appended
      BY <1>8
    <2> QED
      BY <1>1, <1>3, <1>4, <1>6, <1>9, <1>10, <2>1, <2>2, <2>3 DEF Apart
  <1>17. ASSUME NEW r \in Runs \cap {p, m}
         PROVE  /\ verdict'[r] = verdict[r] /\ (Wiped(r) => Wiped(r)')
                /\ Stands(r)' /\ Accounted(r)'
    <2>1. payload'[r] = payload[r] \/ (r = m /\ ~Passed(m) /\ payload[r] # "none" /\ payload'[r] = "zero")
      BY <1>6, <1>17
    <2>2. Stands(r) /\ Accounted(r)
      BY DEF Inv
    <2>3. Wiped(r) => Wiped(r)'
      BY <2>1 DEF Wiped
    <2>4. Stands(r)'
      <3>1. Passed(r) => Intact(r)' \/ Twice(r)
        BY <1>3, <2>1, <2>2 DEF Stands, Intact
      <3>2. Twice(r) => Twice(r)'
        BY <1>3, <1>4, <1>8, <1>9 DEF Twice, Processes
      <3> QED
        BY <1>11, <3>1, <3>2 DEF Stands
    <2>5. Accounted(r)'
      <3>1. Absent(r) => Absent(r)'
        BY <1>3, <2>1 DEF Absent
      <3>2. payload[r] = "none" => payload'[r] = "none"
        BY <2>1
      <3> QED
        BY <1>3, <1>11, <2>2, <3>1, <3>2 DEF Accounted
    <2> QED
      BY <1>3, <2>3, <2>4, <2>5
  <1>18. \A r \in Runs \ {p, m} : place'[r] = place[r] /\ payload'[r] = payload[r]
    BY <1>3, <1>6
  <1> QED
    BY <1>2, <1>3, <1>12, <1>14, <1>15, <1>16, <1>17, <1>18, Unfiled

-----------------------------------------------------------------------------
(* The steps that write or remove a file *)

LEMMA Filed ==
    ASSUME Inv, NEW p \in Processes, lock = p, Apart(p),
           TypeOK', Held', Chained', Single',
           Task(p)', Charge(p)', p \in Runs => Course(p)',
           \A r \in Runs : Stands(r)' /\ Accounted(r)'
    PROVE  Inv'
  <1>1. \A q \in Processes : Task(q)' /\ Charge(q)' /\ (q \in Runs => Course(q)')
    BY UnderLock
  <1> QED
    BY <1>1 DEF Inv, Processes

\* The file that is retired is no receipt.
LEMMA NotAReceipt ==
    ASSUME NEW m, NEW n, Receipt(n) = NextRetired(m)
    PROVE  FALSE
  <1>1. \A g : Intent(m, g) # Receipt(n)
    BY Naming
  <1>2. Receipt(n) # Marker(m) /\ Receipt(n) # Binding(m) /\ Receipt(n) # Inventory(m)
    BY Naming
  <1> QED
    BY <1>1, <1>2 DEF NextRetired

\* Whoever terminates an attempt may retire a file of it, and wipe its output again.
LEMMA Terminating ==
    ASSUME Inv, NEW p \in Processes, NEW m, m = subject[p], pc[p] \in {"boundary", "retire"},
           live' = live \/ (pc[p] = "retire" /\ live' = live \ {NextRetired(m)}),
           UNCHANGED <<said, place, verdict, appended>>,
           UNCHANGED payload \/ Rewipe(m),
           \A r \in Runs \ {p} : r \in retried' <=> r \in retried,
           faults' \in Nat, faults' >= faults,
           \A q \in Processes \ {p} : pc'[q] = pc[q] /\ job'[q] = job[q] /\ subject'[q] = subject[q],
           TypeOK', Held', Task(p)', Charge(p)', p \in Runs => Course(p)'
    PROVE  Inv'
  <1>1. TypeOK /\ Held /\ Charge(p) /\ faults \in Nat
    BY LedgerAssumption DEF Inv, TypeOK
  <1>2. m \in Runs /\ (m # p => Dead(m)) /\ Marker(m) \in live /\ Receipts(m) # {}
    BY <1>1 DEF Charge
  <1>3. pc[p] = "retire" => Passed(m) \/ Absent(m)
    BY <1>1 DEF Charge
  <1>4. lock = p
    BY <1>1 DEF Held, Locking
  <1>5. Published' = Published
    BY NotAReceipt DEF Published
  <1>6. \A r : Receipts(r)' = Receipts(r) /\ (Passed(r)' <=> Passed(r))
    BY <1>5 DEF Receipts, Passed
  <1>7. /\ Passed(m) => UNCHANGED payload
        /\ \A r \in Runs \ {m} : payload'[r] = payload[r]
        /\ payload'[m] = payload[m] \/ (payload[m] # "none" /\ payload'[m] = "zero")
    <2>1. CASE UNCHANGED payload
      BY <2>1
    <2>2. CASE Rewipe(m)
      BY <1>2, <2>2, Rewiping
    <2> QED
      BY <2>1, <2>2
  <1>8. \A r \in Runs \ {m} : /\ Marker(r) \in live' <=> Marker(r) \in live
                              /\ Binding(r) \in live' <=> Binding(r) \in live
    <2>1. \A r \in Runs \ {m} : Marker(r) # NextRetired(m) /\ Binding(r) # NextRetired(m)
      BY Naming DEF NextRetired
    <2> QED
      BY <2>1
  <1>9. Apart(p)
    <2>1. \A r \in Runs \ {p} : ~Dead(r) => r # m
      BY <1>2
    <2>2. ~Dead(p)
      BY DEF Dead
    <2> QED
      BY <1>1, <1>4, <1>6, <1>7, <1>8, <2>1, <2>2 DEF Apart
  <1>10. \A r \in Runs : Wiped(r) => Wiped(r)'
    BY <1>7 DEF Wiped
  <1>11. Chained'
    BY <1>5, <1>10 DEF Inv, Chained, Truthful
  <1>12. Single'
    <2>1. Marked' \subseteq Marked
      BY DEF Marked
    <2> QED
      BY <2>1 DEF Inv, Single
  <1>13. ASSUME NEW r \in Runs
         PROVE  Stands(r)' /\ Accounted(r)'
    <2>1. Stands(r) /\ Accounted(r)
      BY DEF Inv
    <2>2. payload'[r] = payload[r] \/ (r = m /\ ~Passed(r) /\ payload[r] # "none" /\ payload'[r] = "zero")
      BY <1>7
    <2>3. Twice(r) => Twice(r)'
      <3>1. Twice(r) => r # p
        BY DEF Twice
      <3> QED
        BY <1>1, <3>1 DEF Twice, Processes
    <2>4. Stands(r)'
      <3>1. Passed(r) => Intact(r)' \/ Twice(r)
        BY <2>1, <2>2 DEF Stands, Intact
      <3> QED
        BY <1>6, <2>3, <3>1 DEF Stands
    <2>5. Absent(r) => Absent(r)'
      BY <2>2 DEF Absent
    <2>6. Accounted(r)'
      <3>1. CASE Passed(r) \/ Absent(r)
        BY <1>6, <2>5, <3>1 DEF Accounted
      <3>2. CASE ~Passed(r) /\ ~Absent(r)
        <4>1. Marker(r) \in live' /\ (Binding(r) \in live' <=> Binding(r) \in live)
          BY <1>3, <1>8, <2>1, <3>2 DEF Accounted
        <4>2. payload[r] = "none" => payload'[r] = "none"
          BY <2>2
        <4> QED
          BY <2>1, <3>2, <4>1, <4>2 DEF Accounted, Bound
      <3> QED
        BY <3>1, <3>2
    <2> QED
      BY <2>4, <2>6
  <1> QED
    BY <1>4, <1>9, <1>11, <1>12, <1>13, Filed

\* A marker is retired only when a receipt stands for it.
LEMMA KeepsRetire ==
    ASSUME Inv, NEW p \in Processes, Retire(p)
    PROVE  Inv'
  <1> USE DEF directory, output, control, bounds
  <1>0. PICK m : m = subject[p]
    OBVIOUS
  <1>1. TypeOK /\ Held /\ Charge(p) /\ (p \in Runs => Course(p)) /\ faults \in Nat
    BY LedgerAssumption DEF Inv, TypeOK
  <1>2. TypeOK' /\ Held'
    BY TypedLocked, HeldLocked DEF Locked
  <1>3. pc[p] = "retire" /\ UNCHANGED <<said, place, verdict, appended, retried, job, subject, faults>>
    BY DEF Retire
  <1>4. /\ m \in Runs /\ (m # p => Dead(m)) /\ Marker(m) \in live /\ Receipts(m) # {}
        /\ Passed(m) \/ Absent(m)
    BY <1>0, <1>1, <1>3 DEF Charge
  <1>5. UNCHANGED payload \/ Rewipe(m)
    BY <1>0 DEF Retire
  <1>6. /\ NextRetired(m) = Marker(m) => Rewipe(m)
        /\ NextRetired(m) # Marker(m) => UNCHANGED payload
        /\ IF NextRetired(m) = Marker(m) /\ ~OutputFits(m)
           THEN Fail(p) /\ UNCHANGED live
           ELSE /\ live' = live \ {NextRetired(m)}
                /\ Proceed(p, IF NextRetired(m) # Marker(m) THEN "retire" ELSE IF m = p THEN "ended" ELSE "recover")
    BY <1>0 DEF Retire
  <1>7. /\ Passed(m) => UNCHANGED payload
        /\ payload'[m] = payload[m] \/ (payload[m] # "none" /\ payload'[m] = "zero")
        /\ m # p /\ p \in Runs => payload'[p] = payload[p]
    <2>1. CASE UNCHANGED payload
      BY <2>1
    <2>2. CASE Rewipe(m)
      BY <1>4, <2>2, Rewiping
    <2> QED
      BY <1>5, <2>1, <2>2
  <1>8. \A r : Receipts(r)' = Receipts(r) /\ (Passed(r)' <=> Passed(r))
    <2>1. Published' = Published
      BY <1>6, NotAReceipt DEF Published
    <2> QED
      BY <1>3, <2>1 DEF Receipts, Passed
  <1>9. p \in Runs => IF m # p THEN Fresh(p)
                      ELSE /\ verdict[p] # "none" /\ p \in appended
                           /\ verdict[p] = "passed" => Intact(p) /\ Passed(p)
    BY <1>0, <1>1, <1>3 DEF Course
  <1>10. CASE NextRetired(m) = Marker(m) /\ ~OutputFits(m)
    <2>1. /\ pc'[p] = (IF m = p THEN "unwind" ELSE "ended") /\ \A q \in Processes \ {p} : pc'[q] = pc[q]
          /\ live' = live
      <3>1. Proceed(p, IF m = p THEN "unwind" ELSE "ended") /\ live' = live
        BY <1>0, <1>6, <1>10 DEF Fail
      <3> QED
        BY <1>1, <3>1, Moving
    <2>2. Task(p)' /\ Charge(p)'
      BY <2>1 DEF Task, Charge, Writing, Charged
    <2>3. p \in Runs => Course(p)'
      BY <1>1, <1>3, <1>9, <2>1 DEF Course, Before, Charged, Underway, Writing
    <2> QED
      BY <1>0, <1>1, <1>2, <1>3, <1>5, <2>1, <2>2, <2>3, Terminating
  <1>11. CASE ~(NextRetired(m) = Marker(m) /\ ~OutputFits(m))
    <2>1. /\ pc'[p] = (IF NextRetired(m) # Marker(m) THEN "retire" ELSE IF m = p THEN "ended" ELSE "recover")
          /\ \A q \in Processes \ {p} : pc'[q] = pc[q]
          /\ live' = live \ {NextRetired(m)}
      <3>1. Proceed(p, IF NextRetired(m) # Marker(m) THEN "retire" ELSE IF m = p THEN "ended" ELSE "recover")
        BY <1>6, <1>11
      <3> QED
        BY <1>1, <1>6, <1>11, <3>1, Moving
    <2>2. CASE NextRetired(m) # Marker(m)
      <3>1. Marker(m) \in live' /\ UNCHANGED payload
        BY <1>4, <1>6, <2>1, <2>2
      <3>2. Task(p)'
        BY <2>1, <2>2 DEF Task, Writing
      <3>3. Charge(p)'
        <4>1. m # p => Dead(m)'
          BY <1>4, <2>1 DEF Dead, Processes
        <4>2. Passed(m)' \/ Absent(m)'
          BY <1>3, <1>4, <1>8, <3>1 DEF Absent
        <4> QED
          BY <1>0, <1>3, <1>4, <1>8, <2>1, <2>2, <3>1, <4>1, <4>2 DEF Charge, Charged, Writing
      <3>4. ASSUME p \in Runs
            PROVE  Course(p)'
        <4>1. CASE m # p
          <5>1. Marker(p) # NextRetired(m)
            BY <4>1, Naming DEF NextRetired
          <5>2. Fresh(p)'
            BY <1>3, <1>8, <1>9, <2>1, <3>1, <3>4, <4>1 DEF Fresh, Blank
          <5> QED
            BY <1>0, <1>1, <1>3, <2>1, <2>2, <3>4, <4>1, <5>2
            DEF Course, Before, Charged, Underway, Writing
        <4>2. CASE m = p
          <5>1. verdict[p] = "passed" => Intact(p)' /\ Passed(p)'
            BY <1>3, <1>8, <1>9, <3>1, <3>4, <4>2 DEF Intact
          <5> QED
            BY <1>0, <1>1, <1>3, <1>9, <2>1, <2>2, <3>1, <3>4, <4>2, <5>1
            DEF Course, Before, Charged, Underway, Writing
        <4> QED
          BY <4>1, <4>2
      <3> QED
        BY <1>0, <1>1, <1>2, <1>3, <1>5, <2>1, <3>2, <3>3, <3>4, Terminating
    <2>3. CASE NextRetired(m) = Marker(m)
      <3>1. Task(p)' /\ Charge(p)'
        BY <2>1, <2>3 DEF Task, Charge, Writing, Charged
      <3>2. ASSUME p \in Runs
            PROVE  Course(p)'
        <4>1. CASE m # p
          <5>1. Fresh(p)'
            BY <1>3, <1>7, <1>8, <1>9, <2>1, <3>2, <4>1 DEF Fresh, Blank
          <5> QED
            BY <1>0, <1>1, <1>3, <2>1, <2>3, <3>2, <4>1, <5>1
            DEF Course, Before, Charged, Underway, Writing
        <4>2. CASE m = p
          BY <1>1, <1>3, <2>1, <2>3, <3>2, <4>2 DEF Course, Before, Charged, Underway, Writing
        <4> QED
          BY <4>1, <4>2
      <3> QED
        BY <1>0, <1>1, <1>2, <1>3, <1>5, <2>1, <3>1, <3>2, Terminating
    <2> QED
      BY <2>2, <2>3
  <1> QED
    BY <1>10, <1>11

\* A failure while an attempt is terminated is retried once, and only by its own run.
LEMMA KeepsTerminateFails ==
    ASSUME Inv, NEW p \in Processes, TerminateFails(p)
    PROVE  Inv'
  <1> USE DEF directory, output, control, bounds
  <1>0. PICK m : m = subject[p]
    OBVIOUS
  <1>1. TypeOK /\ Held /\ Task(p) /\ Charge(p) /\ (p \in Runs => Course(p)) /\ faults \in Nat
    BY LedgerAssumption DEF Inv, TypeOK
  <1>2. TypeOK' /\ Held'
    BY TypedLocked, HeldLocked DEF Locked
  <1>3. /\ pc[p] \in {"boundary", "retire"} /\ faults' = faults + 1
        /\ UNCHANGED <<said, place, payload, verdict, appended, job, subject>>
    BY DEF TerminateFails, Fault
  <1>4. m \in Runs /\ (m # p => Dead(m)) /\ Marker(m) \in live /\ Receipts(m) # {}
    BY <1>0, <1>1, <1>3 DEF Charge
  <1>5. \/ UNCHANGED <<live, temps>>
        \/ /\ pc[p] = "retire" /\ live' = live \ {NextRetired(m)}
           /\ temps' = temps \cup {[name |-> NextRetired(m), whole |-> TRUE]}
    BY <1>0 DEF TerminateFails, Interrupted
  <1>6. temps' = {} => UNCHANGED <<live, temps>>
    BY <1>5
  <1>7. /\ faults' \in Nat /\ faults' >= faults /\ faults' > 0
        /\ faults > 0 => faults' > 1
    BY <1>1, <1>3
  <1>8. CASE m = p /\ p \notin retried /\ temps' = {}
    <2>1. /\ retried' = retried \cup {p} /\ pc'[p] = "boundary"
          /\ \A q \in Processes \ {p} : pc'[q] = pc[q]
          /\ UNCHANGED <<live, temps>>
      BY <1>0, <1>1, <1>6, <1>8, Moving DEF TerminateFails
    <2>2. Task(p)'
      BY <1>8, <2>1 DEF Task, Writing
    <2>3. \A r : /\ Receipts(r)' = Receipts(r)
                 /\ Passed(r)' <=> Passed(r)
                 /\ Bound(r)' <=> Bound(r)
                 /\ Intact(r)' <=> Intact(r)
      BY <1>3, <2>1, SameFiles DEF Passed, Bound, Intact
    <2>4. Charge(p)'
      BY <1>0, <1>3, <1>4, <1>8, <2>1, <2>3 DEF Charge, Charged, Writing
    <2>5. Course(p)'
      <3>1. /\ verdict[p] # "none" /\ Marker(p) \in live
            /\ verdict[p] = "passed" => Intact(p) /\ Passed(p) /\ (p \in appended \/ Bound(p))
        BY <1>0, <1>1, <1>3, <1>4, <1>8 DEF Course
      <3> QED
        BY <1>0, <1>3, <1>7, <1>8, <2>1, <2>3, <3>1 DEF Course, Before, Charged, Underway, Writing
    <2> QED
      BY <1>0, <1>2, <1>3, <1>5, <1>7, <2>1, <2>2, <2>4, <2>5, Terminating
  <1>9. CASE ~(m = p /\ p \notin retried /\ temps' = {})
    <2>1. /\ retried' = retried /\ pc'[p] = (IF m = p THEN "unwind" ELSE "ended")
          /\ \A q \in Processes \ {p} : pc'[q] = pc[q]
      <3>1. Proceed(p, IF m = p THEN "unwind" ELSE "ended") /\ retried' = retried
        BY <1>0, <1>9 DEF TerminateFails, Fail
      <3> QED
        BY <1>1, <3>1, Moving
    <2>2. Task(p)' /\ Charge(p)'
      BY <2>1 DEF Task, Charge, Writing, Charged
    <2>3. ASSUME p \in Runs
          PROVE  Course(p)'
      <3>1. CASE m # p
        BY <1>7, <2>1, <2>3, <3>1 DEF Course, Before, Charged, Underway, Writing
      <3>2. CASE m = p
        <4>1. ASSUME verdict[p] = "passed", p \notin appended
              PROVE  UNCHANGED <<live, temps>> /\ Bound(p) /\ p \in retried /\ faults > 0
          <5>1. pc[p] = "boundary" /\ Bound(p) /\ (p \in retried => faults > 0)
            BY <1>0, <1>1, <1>3, <3>2, <2>3, <4>1 DEF Course
          <5>2. temps = {}
            BY <1>0, <1>1, <3>2, <5>1 DEF Task
          <5> QED
            BY <1>5, <1>9, <3>2, <5>1, <5>2
        <4>2. ASSUME verdict'[p] = "passed", p \notin appended'
              PROVE  Marker(p) \in live' /\ Bound(p)' /\ p \in retried' /\ faults' > 1
          BY <1>3, <1>4, <1>7, <2>1, <3>2, <4>1, <4>2 DEF Bound
        <4> QED
          BY <1>7, <2>1, <4>2 DEF Course, Before, Charged, Underway, Writing
      <3> QED
        BY <3>1, <3>2
    <2> QED
      BY <1>0, <1>2, <1>3, <1>5, <1>7, <2>1, <2>2, <2>3, Terminating
  <1> QED
    BY <1>8, <1>9

\* A crash keeps the ledger as it is, and what the dead process knew stays true.
LEMMA KeepsCrash ==
    ASSUME Inv, NEW p \in Processes, Crash(p)
    PROVE  Inv'
  <1> USE DEF directory, output, control, bounds
  <1>0. PICK m : m = subject[p]
    OBVIOUS
  <1>1. TypeOK /\ Held /\ Charge(p) /\ (p \in Runs => Course(p)) /\ faults \in Nat
    BY LedgerAssumption DEF Inv, TypeOK
  <1>2. TypeOK' /\ Held'
    BY TypedRecovery, HeldRecovery
  <1>3. pc[p] \notin Ended /\ UNCHANGED <<said, place, payload, verdict, appended, retried, faults>>
    BY DEF Crash
  <1>4. /\ pc'[p] = (IF p \in Runs THEN "crashed" ELSE "ended")
        /\ \A q \in Processes \ {p} : pc'[q] = pc[q] /\ job'[q] = job[q] /\ subject'[q] = subject[q]
    <2>1. pc'[p] = (IF p \in Runs THEN "crashed" ELSE "ended") /\ \A q \in Processes \ {p} : pc'[q] = pc[q]
      BY <1>1, Moving DEF Crash
    <2>2. \A q \in Processes \ {p} : job'[q] = job[q] /\ subject'[q] = subject[q]
      BY <1>1 DEF Crash, TypeOK
    <2> QED
      BY <2>1, <2>2
  <1>5. Task(p)' /\ Charge(p)'
    BY <1>4 DEF Task, Charge, Writing, Charged
  <1>6. p \in Runs => Course(p)'
    BY <1>1, <1>3, <1>4 DEF Course, Before, Charged, Underway, Writing
  <1>7. CASE UNCHANGED live
    <2>1. UNCHANGED books
      BY <1>3, <1>7 DEF books
    <2>2. ASSUME lock # p
          PROVE  temps' = temps
      <3>1. pc[p] \notin Locking
        BY <1>1, <2>2 DEF Held
      <3> QED
        BY <3>1 DEF Crash, Interrupted, Locking
    <2>3. ~Dead(p)
      BY <1>3 DEF Dead, Ended
    <2>4. pc[p] = "unwind" => pc'[p] \in {"ended", "crashed"}
      BY <1>4
    <2> QED
      BY <1>1, <1>2, <1>3, <1>4, <1>5, <1>6, <2>1, <2>2, <2>3, <2>4, Quiet
  <1>8. CASE ~UNCHANGED live
    <2>1. pc[p] = "retire" /\ live' = live \ {NextRetired(m)}
      BY <1>0, <1>8 DEF Crash, Interrupted
    <2> QED
      BY <1>0, <1>1, <1>2, <1>3, <1>4, <1>5, <1>6, <2>1, Terminating
  <1> QED
    BY <1>7, <1>8

\* The file a process publishes, and whose attempt it is about.
LEMMA Published1 ==
    ASSUME Inv, NEW p \in Processes, NEW m, m = subject[p], pc[p] \in Writing
    PROVE  \/ p \in Runs /\ job[p].name = Marker(p) /\ job[p].then = "begun"
           \/ p \in Runs /\ job[p].name = Binding(p) /\ job[p].then = "bound"
           \/ p \in Runs /\ job[p].name = Inventory(p) /\ job[p].then = "sealed"
           \/ /\ m # p /\ m \in Runs /\ job[p].then = "clear"
              /\ \E g \in 1..MaxGenerations : job[p].name = Intent(m, g)
           \/ /\ m \in Runs /\ job[p].then \in {"boundary", "ended"} /\ (job[p].then = "ended" => m = p)
              /\ \E n \in Numbers : job[p].name = Receipt(n)
  <1>1. Task(p) /\ Charge(p)
    BY DEF Inv
  <1>2. job[p].then = "clear" => m \in Runs
    BY <1>1 DEF Charge, Dead
  <1> QED
    BY <1>1, <1>2 DEF Task

\* What a step on a file of p's own, or of an intent, leaves to everyone.
LEMMA NotAReceiptFile ==
    ASSUME NEW f, live' = live \cup {f} \/ live' = live \ {f}, said' = said,
           \A n \in Numbers : f # Receipt(n)
    PROVE  /\ Published' = Published
           /\ \A r : Receipts(r)' = Receipts(r)
  <1>1. Published' = Published
    BY DEF Published, Numbers
  <1> QED
    BY <1>1 DEF Receipts

\* A file is published: a marker, a binding, an inventory, an intent or a receipt.
LEMMA KeepsWriteFile ==
    ASSUME Inv, NEW p \in Processes, Write(p),
           \A n \in Numbers : job[p].name # Receipt(n)
    PROVE  Inv'
  <1> USE DEF directory, output, control, bounds
  <1>0. PICK m : m = subject[p]
    OBVIOUS
  <1>a. PICK f : f = job[p].name
    OBVIOUS
  <1>1. TypeOK /\ Held /\ Task(p) /\ Charge(p) /\ (p \in Runs => Course(p)) /\ faults \in Nat
    BY LedgerAssumption DEF Inv, TypeOK
  <1>2. TypeOK' /\ Held'
    BY TypedLocked, HeldLocked DEF Locked, Publish
  <1>3. /\ pc[p] = "write" /\ live' = live \cup {f}
        /\ UNCHANGED <<temps, said, place, payload, job, subject, verdict, appended, retried, faults>>
    BY <1>a DEF Write
  <1>4. pc'[p] = "sync" /\ \A q \in Processes \ {p} : pc'[q] = pc[q]
    BY <1>1, Moving DEF Write
  <1>5. lock = p
    BY <1>1, <1>3 DEF Held, Locking
  <1>6. Published' = Published /\ \A r : Receipts(r)' = Receipts(r)
    BY <1>a, <1>3, NotAReceiptFile
  <1>7. \/ p \in Runs /\ f = Marker(p) /\ job[p].then = "begun"
        \/ p \in Runs /\ f = Binding(p) /\ job[p].then = "bound"
        \/ p \in Runs /\ f = Inventory(p) /\ job[p].then = "sealed"
        \/ /\ m # p /\ m \in Runs /\ job[p].then = "clear"
           /\ \E g \in 1..MaxGenerations : f = Intent(m, g)
    BY <1>0, <1>a, <1>3, Published1 DEF Writing
  <1>8. \A r \in Runs \ {p} : /\ Marker(r) \in live' <=> Marker(r) \in live
                              /\ Binding(r) \in live' <=> Binding(r) \in live
    <2>1. \A r \in Runs \ {p} : Marker(r) # f /\ Binding(r) # f
      BY <1>7, Naming
    <2> QED
      BY <1>3, <2>1
  <1>9. /\ f = Marker(p) => Binding(p) \in live' <=> Binding(p) \in live
        /\ f # Marker(p) => Marker(p) \in live' <=> Marker(p) \in live
        /\ f = Binding(p) => Binding(p) \in live'
        /\ f = Marker(p) => Marker(p) \in live'
        /\ \A r : Binding(r) \in live => Binding(r) \in live'
        /\ \A r : Marker(r) \in live => Marker(r) \in live'
    BY <1>3, Naming
  <1>10. Apart(p)
    <2>1. ~Dead(p)
      BY <1>3 DEF Dead
    <2> QED
      BY <1>1, <1>3, <1>4, <1>5, <1>6, <1>8, <2>1 DEF Apart
  <1>11. Chained'
    BY <1>3, <1>6 DEF Inv, Chained, Truthful, Wiped
  <1>12. Single'
    <2>1. CASE f = Marker(p)
      <3>1. job[p].then = "begun"
        BY <1>7, <2>1, Naming
      <3>2. Marked = {}
        BY <1>1, <1>3, <3>1 DEF Charge
      <3>3. \A r \in Marked' : r = p
        BY <1>3, <2>1, <3>2, Naming DEF Marked
      <3> QED
        BY <3>3 DEF Single
    <2>2. CASE f # Marker(p)
      <3>1. Marked' = Marked
        BY <1>8, <1>9, <2>2 DEF Marked
      <3> QED
        BY <3>1 DEF Inv, Single
    <2> QED
      BY <2>1, <2>2
  <1>13. ASSUME NEW r \in Runs
         PROVE  Stands(r)' /\ Accounted(r)'
    <2>1. Stands(r) /\ Accounted(r)
      BY DEF Inv
    <2>2. (Passed(r)' <=> Passed(r)) /\ (Absent(r)' <=> Absent(r)) /\ (Intact(r)' <=> Intact(r))
      BY <1>3, <1>6 DEF Passed, Absent, Intact
    <2>3. Twice(r) => Twice(r)'
      BY <1>3, <1>4 DEF Twice, Processes
    <2>4. Accounted(r)'
      BY <1>3, <1>9, <2>1, <2>2 DEF Accounted, Bound
    <2> QED
      BY <2>1, <2>2, <2>3, <2>4 DEF Stands
  <1>14. Task(p)'
    BY <1>1, <1>3, <1>4 DEF Task, Writing
  <1>15. Charge(p)'
    <2>1. CASE job[p].then = "clear"
      <3>1. Dead(m) /\ Pending(m)
        BY <1>0, <1>1, <1>3, <2>1 DEF Charge, Writing
      <3>2. Dead(m)' /\ Pending(m)'
        BY <1>3, <1>4, <1>6, <1>9, <3>1 DEF Dead, Pending, Processes
      <3> QED
        BY <1>0, <1>3, <1>4, <2>1, <3>2 DEF Charge, Charged, Writing
    <2>2. CASE job[p].then # "clear"
      BY <1>3, <1>4, <1>7, <2>2 DEF Charge, Charged, Writing
    <2> QED
      BY <2>1, <2>2
  <1>16. ASSUME p \in Runs
         PROVE  Course(p)'
    <2>0. Course(p)
      BY <1>1, <1>16
    <2>1. CASE f = Marker(p) /\ job[p].then = "begun"
      <3>1. Fresh(p)
        BY <1>3, <2>0, <2>1 DEF Course, Writing
      <3>2. Blank(p)'
        BY <1>3, <1>6, <3>1 DEF Fresh, Blank
      <3> QED
        BY <1>3, <1>4, <1>9, <2>0, <2>1, <3>2 DEF Course, Before, Charged, Underway, Writing
    <2>2. CASE f = Binding(p) /\ job[p].then = "bound"
      <3>1. Ongoing(p) /\ payload[p] = "none"
        BY <1>3, <2>0, <2>2 DEF Course, Writing
      <3>2. Ongoing(p)' /\ Bound(p)'
        BY <1>3, <1>6, <1>9, <2>2, <3>1 DEF Ongoing, Pending, Bound
      <3> QED
        BY <1>3, <1>4, <2>0, <2>2, <3>1, <3>2 DEF Course, Before, Charged, Underway, Writing
    <2>3. CASE f = Inventory(p) /\ job[p].then = "sealed"
      <3>1. Ongoing(p) /\ Bound(p) /\ payload[p] = "whole"
        BY <1>3, <2>0, <2>3 DEF Course, Writing
      <3>2. Ongoing(p)' /\ Bound(p)'
        BY <1>3, <1>6, <1>9, <3>1 DEF Ongoing, Pending, Bound
      <3> QED
        BY <1>3, <1>4, <2>0, <2>3, <3>1, <3>2 DEF Course, Before, Charged, Underway, Writing
    <2>4. CASE job[p].then = "clear" /\ \E g \in 1..MaxGenerations : f = Intent(m, g)
      <3>1. Fresh(p)
        BY <1>3, <2>0, <2>4 DEF Course, Writing
      <3>2. Fresh(p)'
        <4>1. f # Marker(p)
          BY <2>4, Naming
        <4> QED
          BY <1>3, <1>6, <1>9, <3>1, <4>1 DEF Fresh, Blank
      <3> QED
        BY <1>3, <1>4, <2>0, <2>4, <3>2 DEF Course, Before, Charged, Underway, Writing
    <2> QED
      BY <1>7, <2>1, <2>2, <2>3, <2>4
  <1> QED
    BY <1>2, <1>5, <1>10, <1>11, <1>12, <1>13, <1>14, <1>15, <1>16, Filed

\* The receipt of m becomes visible.
LEMMA KeepsWriteReceipt ==
    ASSUME Inv, NEW p \in Processes, Write(p), NEW n \in Numbers, job[p].name = Receipt(n)
    PROVE  Inv'
  <1> USE DEF directory, output, control, bounds
  <1>0. PICK m : m = subject[p]
    OBVIOUS
  <1>1. TypeOK /\ Held /\ Task(p) /\ Charge(p) /\ (p \in Runs => Course(p)) /\ faults \in Nat
    BY LedgerAssumption DEF Inv, TypeOK
  <1>2. TypeOK' /\ Held'
    BY TypedLocked, HeldLocked DEF Locked, Publish
  <1>3. /\ pc[p] = "write" /\ live' = live \cup {Receipt(n)}
        /\ UNCHANGED <<temps, said, place, payload, job, subject, verdict, appended, retried, faults>>
    BY DEF Write
  <1>4. pc'[p] = "sync" /\ \A q \in Processes \ {p} : pc'[q] = pc[q]
    BY <1>1, Moving DEF Write
  <1>5. lock = p
    BY <1>1, <1>3 DEF Held, Locking
  <1>6. m \in Runs /\ job[p].then \in {"boundary", "ended"} /\ (job[p].then = "ended" => m = p)
    <2>1. job[p].name # Marker(p) /\ job[p].name # Binding(p) /\ job[p].name # Inventory(p)
          /\ \A g : job[p].name # Intent(m, g)
      BY Naming
    <2> QED
      BY <1>0, <1>3, <2>1, Published1 DEF Writing
  <1>7. /\ m # p => Dead(m) /\ Marker(m) \in live /\ Absent(m)
        /\ Receipts(m) = {} /\ n = Cardinality(Published) + 1 /\ Truthful(n)
        /\ said[n].attempt = m
        /\ said[n].outcome = IF m # p THEN "interrupted"
                             ELSE IF job[p].then = "ended" THEN "failed" ELSE verdict[p]
    BY <1>0, <1>1, <1>3, <1>6 DEF Charge, Writing
  <1>8. Published' = Published \cup {n} /\ n \notin Published /\ Cardinality(Published') = n
    <2>1. Published' = Published \cup {n}
      BY <1>3, Naming DEF Published, Numbers
    <2>2. n \notin Published
      BY <1>7, Finite DEF Inv, Chained
    <2>3. Cardinality(Published \cup {n}) = Cardinality(Published) + 1
      BY <2>2, Finite, FS_AddElement
    <2> QED
      BY <1>7, <2>1, <2>2, <2>3
  <1>9. /\ \A r \in Runs \ {m} : Receipts(r)' = Receipts(r)
        /\ Receipts(m)' = {n}
    BY <1>3, <1>7, <1>8 DEF Receipts
  <1>10. \A r : /\ Marker(r) \in live' <=> Marker(r) \in live
                /\ Binding(r) \in live' <=> Binding(r) \in live
    BY <1>3, Naming
  <1>11. Apart(p)
    <2>1. \A r \in Runs \ {p} : ~Dead(r) => r # m
      BY <1>7
    <2>2. ~Dead(p)
      BY <1>3 DEF Dead
    <2> QED
      BY <1>1, <1>3, <1>4, <1>5, <1>9, <1>10, <2>1, <2>2 DEF Apart
  <1>12. Chained'
    <2>1. Published' = 1..Cardinality(Published')
      <3>1. Published = 1..Cardinality(Published)
        BY DEF Inv, Chained
      <3> QED
        BY <1>7, <1>8, <3>1, Finite
    <2>2. \A k, l \in Published' : said'[k].attempt = said'[l].attempt => k = l
      <3>1. \A k \in Published : said[k].attempt # m
        BY <1>7 DEF Receipts
      <3> QED
        BY <1>3, <1>7, <1>8, <3>1 DEF Inv, Chained
    <2>3. \A k \in Published' : Truthful(k)'
      BY <1>3, <1>7, <1>8 DEF Inv, Chained, Truthful, Wiped
    <2> QED
      BY <2>1, <2>2, <2>3 DEF Chained
  <1>13. Single'
    BY <1>10 DEF Inv, Single, Marked
  <1>14. m = p => p \in Runs /\ Ripe(p)
    BY <1>0, <1>1, <1>3, <1>6 DEF Course, Writing
  <1>15. ASSUME NEW r \in Runs
         PROVE  Stands(r)' /\ Accounted(r)'
    <2>1. Stands(r) /\ Accounted(r)
      BY DEF Inv
    <2>2. (Absent(r)' <=> Absent(r)) /\ (Intact(r)' <=> Intact(r)) /\ (Bound(r)' <=> Bound(r))
      BY <1>3, <1>10 DEF Absent, Intact, Bound
    <2>3. CASE r # m
      <3>1. Passed(r)' <=> Passed(r)
        BY <1>3, <1>9, <2>3 DEF Passed
      <3>2. Twice(r) => Twice(r)'
        BY <1>3, <1>4 DEF Twice, Processes
      <3> QED
        BY <1>3, <1>10, <2>1, <2>2, <3>1, <3>2 DEF Stands, Accounted
    <2>4. CASE r = m
      <3>1. ~Passed(r)
        BY <1>7, <2>4 DEF Passed
      <3>2. Accounted(r)'
        BY <1>3, <1>10, <2>1, <2>2, <3>1 DEF Accounted
      <3>3. Passed(r)' => m = p /\ verdict[p] = "passed"
        BY <1>3, <1>7, <1>9, <2>4 DEF Passed
      <3>4. Passed(r)' => Intact(r)
        BY <1>14, <2>4, <3>3 DEF Ripe
      <3> QED
        BY <2>2, <3>2, <3>4 DEF Stands
    <2> QED
      BY <2>3, <2>4
  <1>16. Task(p)'
    BY <1>1, <1>3, <1>4 DEF Task, Writing
  <1>17. Charge(p)'
    <2>1. m # p => Dead(m)'
      BY <1>4, <1>7 DEF Dead, Processes
    <2>2. Absent(m)' <=> Absent(m)
      BY <1>3 DEF Absent
    <2>3. n \in Published'
      BY <1>8
    <2>4. \A k \in Numbers : job'[p].name = Receipt(k) => k = n
      BY <1>3, Naming
    <2> QED
      BY <1>0, <1>3, <1>4, <1>6, <1>7, <1>8, <1>10, <2>1, <2>2, <2>3, <2>4 DEF Charge, Charged, Writing
  <1>18. ASSUME p \in Runs
         PROVE  Course(p)'
    <2>0. Course(p)
      BY <1>1, <1>18
    <2>1. CASE m # p
      <3>1. Fresh(p)
        BY <1>0, <1>3, <1>6, <2>0, <2>1 DEF Course, Writing
      <3>2. Fresh(p)'
        BY <1>3, <1>9, <1>10, <1>18, <2>1, <3>1 DEF Fresh, Blank
      <3> QED
        BY <1>0, <1>3, <1>4, <1>6, <2>0, <2>1, <3>2 DEF Course, Before, Charged, Underway, Writing
    <2>2. CASE m = p
      <3>1. job[p].then = "boundary" => verdict[p] # "none"
        BY <1>0, <1>3, <2>0, <2>2 DEF Course, Writing
      <3>2. job[p].then = "ended" => verdict[p] = "none"
        BY <1>3, <2>0 DEF Course, Writing
      <3>3. IF verdict[p] = "none" THEN Unmarked(p)'
            ELSE Marker(p) \in live' /\ (verdict[p] = "passed" => Intact(p)' /\ Bound(p)')
        BY <1>3, <1>10, <1>14, <2>2 DEF Ripe, Pending, Fresh, Blank, Unmarked, Intact, Bound
      <3> QED
        BY <1>0, <1>3, <1>4, <1>6, <2>0, <2>2, <3>1, <3>2, <3>3
        DEF Course, Before, Charged, Underway, Writing
    <2> QED
      BY <2>1, <2>2
  <1> QED
    BY <1>2, <1>5, <1>11, <1>12, <1>13, <1>15, <1>16, <1>17, <1>18, Filed

\* A publication is undone.
LEMMA KeepsSyncFailsFile ==
    ASSUME Inv, NEW p \in Processes, SyncFails(p),
           \A n \in Numbers : job[p].name # Receipt(n)
    PROVE  Inv'
  <1> USE DEF directory, output, control, bounds
  <1>0. PICK m : m = subject[p]
    OBVIOUS
  <1>a. PICK f : f = job[p].name
    OBVIOUS
  <1>1. TypeOK /\ Held /\ Task(p) /\ Charge(p) /\ (p \in Runs => Course(p)) /\ faults \in Nat
    BY LedgerAssumption DEF Inv, TypeOK
  <1>2. TypeOK' /\ Held'
    BY TypedLocked, HeldLocked DEF Locked, Publish
  <1>3. /\ pc[p] = "sync" /\ live' = live \ {f} /\ faults' = faults + 1
        /\ UNCHANGED <<temps, said, place, payload, job, subject, verdict, appended, retried>>
    BY <1>a DEF SyncFails, Fault
  <1>b. faults' \in Nat /\ faults' >= faults /\ faults' > 0
    BY <1>1, <1>3
  <1>4. pc'[p] = "undo" /\ \A q \in Processes \ {p} : pc'[q] = pc[q]
    BY <1>1, Moving DEF SyncFails
  <1>5. lock = p
    BY <1>1, <1>3 DEF Held, Locking
  <1>6. Published' = Published /\ \A r : Receipts(r)' = Receipts(r)
    BY <1>a, <1>3, NotAReceiptFile
  <1>7. \/ p \in Runs /\ f = Marker(p) /\ job[p].then = "begun"
        \/ p \in Runs /\ f = Binding(p) /\ job[p].then = "bound"
        \/ p \in Runs /\ f = Inventory(p) /\ job[p].then = "sealed"
        \/ /\ m # p /\ m \in Runs /\ job[p].then = "clear"
           /\ \E g \in 1..MaxGenerations : f = Intent(m, g)
    BY <1>0, <1>a, <1>3, Published1 DEF Writing
  <1>8. \A r \in Runs \ {p} : /\ Marker(r) \in live' <=> Marker(r) \in live
                              /\ Binding(r) \in live' <=> Binding(r) \in live
    <2>1. \A r \in Runs \ {p} : Marker(r) # f /\ Binding(r) # f
      BY <1>7, Naming
    <2> QED
      BY <1>3, <2>1
  <1>9. /\ f # Marker(p) => Marker(p) \in live' <=> Marker(p) \in live
        /\ f # Binding(p) => Binding(p) \in live' <=> Binding(p) \in live
        /\ f = Marker(p) => Marker(p) \notin live'
    BY <1>3
  <1>10. Apart(p)
    <2>1. ~Dead(p)
      BY <1>3 DEF Dead
    <2> QED
      BY <1>1, <1>3, <1>b, <1>4, <1>5, <1>6, <1>8, <2>1 DEF Apart
  <1>11. Chained'
    BY <1>3, <1>6 DEF Inv, Chained, Truthful, Wiped
  <1>12. Single'
    <2>1. Marked' \subseteq Marked
      BY <1>3 DEF Marked
    <2> QED
      BY <2>1 DEF Inv, Single
  <1>13. ASSUME NEW r \in Runs
         PROVE  Stands(r)' /\ Accounted(r)'
    <2>1. Stands(r) /\ Accounted(r)
      BY DEF Inv
    <2>2. (Passed(r)' <=> Passed(r)) /\ (Absent(r)' <=> Absent(r)) /\ (Intact(r)' <=> Intact(r))
      BY <1>3, <1>6 DEF Passed, Absent, Intact
    <2>3. Twice(r) => Twice(r)'
      BY <1>1, <1>3, <1>b, <1>4 DEF Twice, Processes
    <2>4. Accounted(r)'
      <3>1. CASE r # p \/ (f # Marker(p) /\ f # Binding(p))
        BY <1>3, <1>8, <1>9, <2>1, <2>2, <3>1 DEF Accounted, Bound
      <3>2. CASE r = p /\ f = Marker(p)
        <4>1. job[p].then = "begun"
          BY <1>7, <3>2, Naming
        <4>2. Blank(p)
          BY <1>1, <1>3, <3>2, <4>1 DEF Course, Writing
        <4> QED
          BY <2>2, <3>2, <4>2 DEF Blank, Absent, Accounted
      <3>3. CASE r = p /\ f = Binding(p)
        <4>1. job[p].then = "bound"
          BY <1>7, <3>3, Naming
        <4>2. Ongoing(p) /\ payload[p] = "none"
          BY <1>1, <1>3, <3>3, <4>1 DEF Course, Writing
        <4>3. f # Marker(p)
          BY <3>3, Naming
        <4> QED
          BY <1>3, <1>9, <3>3, <4>2, <4>3 DEF Ongoing, Pending, Accounted
      <3> QED
        BY <3>1, <3>2, <3>3
    <2> QED
      BY <2>1, <2>2, <2>3, <2>4 DEF Stands
  <1>14. Task(p)'
    BY <1>1, <1>3, <1>4 DEF Task, Writing
  <1>15. Charge(p)'
    <2>1. CASE job[p].then = "clear"
      <3>1. Dead(m) /\ Pending(m) /\ m # p
        BY <1>0, <1>1, <1>3, <1>7, <2>1 DEF Charge, Writing
      <3>2. Dead(m)' /\ Pending(m)'
        BY <1>3, <1>4, <1>6, <1>8, <3>1 DEF Dead, Pending, Processes
      <3> QED
        BY <1>0, <1>3, <1>4, <2>1, <3>2 DEF Charge, Charged, Writing
    <2>2. CASE job[p].then # "clear"
      BY <1>3, <1>4, <1>7, <2>2 DEF Charge, Charged, Writing
    <2> QED
      BY <2>1, <2>2
  <1>16. ASSUME p \in Runs
         PROVE  Course(p)'
    <2>0. Course(p)
      BY <1>1, <1>16
    <2>1. CASE f = Marker(p) /\ job[p].then = "begun"
      <3>1. Blank(p)
        BY <1>3, <2>0, <2>1 DEF Course, Writing
      <3>2. Fresh(p)'
        BY <1>3, <1>6, <1>9, <2>1, <3>1 DEF Fresh, Blank
      <3> QED
        BY <1>3, <1>b, <1>4, <2>1, <3>2 DEF Course, Before, Charged, Underway, Writing
    <2>2. CASE f = Binding(p) /\ job[p].then = "bound"
      <3>1. Ongoing(p) /\ payload[p] = "none"
        BY <1>3, <2>0, <2>2 DEF Course, Writing
      <3>2. Ongoing(p)'
        <4>1. f # Marker(p)
          BY <2>2, Naming
        <4> QED
          BY <1>3, <1>6, <1>9, <3>1, <4>1 DEF Ongoing, Pending
      <3> QED
        BY <1>3, <1>b, <1>4, <2>2, <3>1, <3>2 DEF Course, Before, Charged, Underway, Writing
    <2>3. CASE f = Inventory(p) /\ job[p].then = "sealed"
      <3>1. Ongoing(p) /\ Bound(p) /\ payload[p] = "whole"
        BY <1>3, <2>0, <2>3 DEF Course, Writing
      <3>2. Ongoing(p)' /\ Bound(p)'
        <4>1. f # Marker(p) /\ f # Binding(p)
          BY <2>3, Naming
        <4> QED
          BY <1>3, <1>6, <1>9, <3>1, <4>1 DEF Ongoing, Pending, Bound
      <3> QED
        BY <1>3, <1>b, <1>4, <2>3, <3>1, <3>2 DEF Course, Before, Charged, Underway, Writing
    <2>4. CASE job[p].then = "clear" /\ \E g \in 1..MaxGenerations : f = Intent(m, g)
      <3>1. Fresh(p)
        BY <1>3, <2>0, <2>4 DEF Course, Writing
      <3>2. Fresh(p)'
        BY <1>3, <1>6, <3>1 DEF Fresh, Blank
      <3> QED
        BY <1>3, <1>b, <1>4, <2>4, <3>2 DEF Course, Before, Charged, Underway, Writing
    <2> QED
      BY <1>7, <2>1, <2>2, <2>3, <2>4
  <1> QED
    BY <1>2, <1>5, <1>10, <1>11, <1>12, <1>13, <1>14, <1>15, <1>16, Filed

\* The receipt of m is withdrawn before it stood.
LEMMA KeepsSyncFailsReceipt ==
    ASSUME Inv, NEW p \in Processes, SyncFails(p), NEW n \in Numbers, job[p].name = Receipt(n)
    PROVE  Inv'
  <1> USE DEF directory, output, control, bounds
  <1>0. PICK m : m = subject[p]
    OBVIOUS
  <1>1. TypeOK /\ Held /\ Task(p) /\ Charge(p) /\ (p \in Runs => Course(p)) /\ faults \in Nat
    BY LedgerAssumption DEF Inv, TypeOK
  <1>2. TypeOK' /\ Held'
    BY TypedLocked, HeldLocked DEF Locked, Publish
  <1>3. /\ pc[p] = "sync" /\ live' = live \ {Receipt(n)} /\ faults' = faults + 1
        /\ UNCHANGED <<temps, said, place, payload, job, subject, verdict, appended, retried>>
    BY DEF SyncFails, Fault
  <1>b. faults' \in Nat /\ faults' >= faults /\ faults' > 0
    BY <1>1, <1>3
  <1>4. pc'[p] = "undo" /\ \A q \in Processes \ {p} : pc'[q] = pc[q]
    BY <1>1, Moving DEF SyncFails
  <1>5. lock = p
    BY <1>1, <1>3 DEF Held, Locking
  <1>6. m \in Runs /\ job[p].then \in {"boundary", "ended"} /\ (job[p].then = "ended" => m = p)
    <2>1. job[p].name # Marker(p) /\ job[p].name # Binding(p) /\ job[p].name # Inventory(p)
          /\ \A g : job[p].name # Intent(m, g)
      BY Naming
    <2> QED
      BY <1>0, <1>3, <2>1, Published1 DEF Writing
  <1>7. /\ m # p => Dead(m) /\ Marker(m) \in live /\ Absent(m)
        /\ n = Cardinality(Published) /\ n \in Published
        /\ said[n].attempt = m
        /\ said[n].outcome = IF m # p THEN "interrupted"
                             ELSE IF job[p].then = "ended" THEN "failed" ELSE verdict[p]
    BY <1>0, <1>1, <1>3, <1>6 DEF Charge, Writing
  <1>8. Published' = Published \ {n} /\ Cardinality(Published') = n - 1
    <2>1. Published' = Published \ {n}
      BY <1>3, Naming DEF Published, Numbers
    <2>2. Cardinality(Published \ {n}) = Cardinality(Published) - 1
      BY <1>7, Finite, FS_RemoveElement
    <2> QED
      BY <1>7, <2>1, <2>2
  <1>9. /\ \A r \in Runs \ {m} : Receipts(r)' = Receipts(r)
        /\ Receipts(m)' = {} /\ n \in Receipts(m)
    <2>1. \A k \in Published : said[k].attempt = m => k = n
      BY <1>7 DEF Inv, Chained
    <2> QED
      BY <1>3, <1>7, <1>8, <2>1 DEF Receipts
  <1>10. \A r : /\ Marker(r) \in live' <=> Marker(r) \in live
                /\ Binding(r) \in live' <=> Binding(r) \in live
    BY <1>3, Naming
  <1>11. Apart(p)
    <2>1. \A r \in Runs \ {p} : ~Dead(r) => r # m
      BY <1>7
    <2>2. ~Dead(p)
      BY <1>3 DEF Dead
    <2> QED
      BY <1>1, <1>3, <1>b, <1>4, <1>5, <1>9, <1>10, <2>1, <2>2 DEF Apart
  <1>12. Chained'
    <2>1. Published' = 1..Cardinality(Published')
      <3>1. Published = 1..n /\ n \in Nat
        BY <1>7, Finite DEF Inv, Chained
      <3> QED
        BY <1>8, <3>1
    <2> QED
      BY <1>3, <1>8, <2>1 DEF Inv, Chained, Truthful, Wiped
  <1>13. Single'
    BY <1>10 DEF Inv, Single, Marked
  <1>14. p \in Runs /\ m = p =>
            IF verdict[p] = "none" THEN job[p].then = "ended" /\ Unmarked(p)
            ELSE job[p].then = "boundary" /\ Marker(p) \in live /\ (verdict[p] = "passed" => Intact(p) /\ Bound(p))
    BY <1>0, <1>1, <1>3, <1>6 DEF Course, Writing
  <1>15. ASSUME NEW r \in Runs
         PROVE  Stands(r)' /\ Accounted(r)'
    <2>1. Stands(r) /\ Accounted(r)
      BY DEF Inv
    <2>2. (Absent(r)' <=> Absent(r)) /\ (Intact(r)' <=> Intact(r)) /\ (Bound(r)' <=> Bound(r))
      BY <1>3, <1>10 DEF Absent, Intact, Bound
    <2>3. CASE r # m
      <3>1. Passed(r)' <=> Passed(r)
        BY <1>3, <1>9, <2>3 DEF Passed
      <3>2. Twice(r) => Twice(r)'
        BY <1>1, <1>3, <1>b, <1>4 DEF Twice, Processes
      <3> QED
        BY <1>3, <1>10, <2>1, <2>2, <3>1, <3>2 DEF Stands, Accounted
    <2>4. CASE r = m
      <3>1. ~Passed(r)'
        BY <1>9, <2>4 DEF Passed
      <3>2. Passed(r) => said[n].outcome = "passed"
        <4>1. \A k \in Receipts(m) : k = n
          BY <1>7, <1>9 DEF Inv, Chained, Receipts
        <4> QED
          BY <2>4, <4>1 DEF Passed
      <3>3. Accounted(r)'
        <4>1. CASE m # p
          BY <1>7, <2>2, <2>4, <4>1 DEF Accounted
        <4>2. CASE m = p /\ said[n].outcome = "passed"
          <5>1. Marker(r) \in live' /\ Bound(r)
            BY <1>7, <1>10, <1>14, <2>4, <4>2
          <5> QED
            BY <2>2, <5>1 DEF Accounted
        <4>3. CASE said[n].outcome # "passed"
          BY <1>3, <1>10, <2>1, <2>2, <3>2, <4>3 DEF Accounted
        <4> QED
          BY <4>1, <4>2, <4>3
      <3> QED
        BY <3>1, <3>3 DEF Stands
    <2> QED
      BY <2>3, <2>4
  <1>16. Task(p)'
    BY <1>1, <1>3, <1>4 DEF Task, Writing
  <1>17. Charge(p)'
    <2>1. m # p => Dead(m)'
      BY <1>4, <1>7 DEF Dead, Processes
    <2>2. Absent(m)' <=> Absent(m)
      BY <1>3 DEF Absent
    <2> QED
      BY <1>0, <1>3, <1>4, <1>6, <1>7, <1>9, <1>10, <2>1, <2>2 DEF Charge, Charged, Writing
  <1>18. ASSUME p \in Runs
         PROVE  Course(p)'
    <2>0. Course(p)
      BY <1>1, <1>18
    <2>1. CASE m # p
      <3>1. Fresh(p)
        BY <1>0, <1>3, <1>6, <2>0, <2>1 DEF Course, Writing
      <3>2. Fresh(p)'
        BY <1>3, <1>9, <1>10, <1>18, <2>1, <3>1 DEF Fresh, Blank
      <3> QED
        BY <1>0, <1>3, <1>b, <1>4, <1>6, <2>1, <3>2 DEF Course, Before, Charged, Underway, Writing
    <2>2. CASE m = p
      <3>1. Ripe(p)'
        BY <1>3, <1>9, <1>10, <1>14, <1>18, <2>2
        DEF Ripe, Pending, Fresh, Blank, Unmarked, Intact, Bound
      <3> QED
        BY <1>0, <1>3, <1>b, <1>4, <1>6, <1>14, <1>18, <2>2, <3>1
        DEF Course, Before, Charged, Underway, Writing
    <2> QED
      BY <2>1, <2>2
  <1> QED
    BY <1>2, <1>5, <1>11, <1>12, <1>13, <1>15, <1>16, <1>17, <1>18, Filed

\* A receipt is made out under the number that follows the receipts there are.
LEMMA Drafting ==
    ASSUME Inv, NEW p \in Processes, NEW m \in Runs, pc[p] \in {"attest", "attach"},
           Receipts(m) = {}, m = subject[p], m # p => Dead(m) /\ Marker(m) \in live /\ Absent(m),
           NEW s, NEW o \in {"passed", "failed", "interrupted"}, NEW b \in BOOLEAN,
           NEW then \in {"boundary", "ended"}, Say(m, s, o, b),
           Set(p, Receipt(Cardinality(Published) + 1), then, IF m = p THEN "unwind" ELSE "ended"),
           then = "ended" => m = p,
           m = p => p \in Runs,
           o = IF m # p THEN "interrupted" ELSE IF then = "ended" THEN "failed" ELSE verdict[p],
           o = "passed" => b /\ verdict[m] = "passed",
           o # "passed" /\ ~b => Wiped(m),
           m = p => /\ temps = {}
                    /\ Ripe(p) /\ (then = "boundary" <=> verdict[p] # "none"),
           pc'[p] = "write", \A q \in Processes \ {p} : pc'[q] = pc[q],
           UNCHANGED <<live, temps, place, payload, subject, verdict, appended, retried, faults>>,
           TypeOK', Held'
    PROVE  Inv'
  <1>1. TypeOK /\ Held /\ (p \in Runs => Course(p)) /\ faults \in Nat
    BY LedgerAssumption DEF Inv, TypeOK
  <1>2. PICK n : n = Cardinality(Published) + 1
    OBVIOUS
  <1>3. n \in Numbers /\ n \notin Published
    BY <1>1, <1>2, Room, Finite DEF Inv, Chained
  <1>4. /\ \A k \in Published : said'[k] = said[k]
        /\ said'[n] = [attempt |-> m, sequence |-> s, outcome |-> o, root |-> b]
    <2>1. said' = [said EXCEPT ![n] = [attempt |-> m, sequence |-> s, outcome |-> o, root |-> b]]
      BY <1>2 DEF Say
    <2>2. \A k \in Published : k \in Numbers /\ k # n
      BY <1>3 DEF Published
    <2> QED
      BY <1>1, <1>3, <2>1, <2>2 DEF TypeOK
  <1>5. Published' = Published
    BY DEF Published
  <1>6. \A r : Receipts(r)' = Receipts(r)
    BY <1>4, <1>5 DEF Receipts
  <1>7. \A r : /\ Passed(r)' <=> Passed(r)
               /\ Absent(r)' <=> Absent(r)
               /\ Intact(r)' <=> Intact(r)
               /\ Bound(r)' <=> Bound(r)
    <2>1. \A r, k : k \in Receipts(r) => said'[k] = said[k]
      BY <1>4 DEF Receipts
    <2> QED
      BY <1>6, <2>1 DEF Passed, Absent, Intact, Bound
  <1>8. /\ job'[p] = [name |-> Receipt(n), then |-> then, else |-> IF m = p THEN "unwind" ELSE "ended"]
        /\ \A q \in Processes \ {p} : job'[q] = job[q]
    BY <1>1, <1>2, Setting
  <1>9. lock = p
    BY <1>1 DEF Held, Locking
  <1>10. Apart(p)
    <2>1. ~Dead(p)
      BY DEF Dead
    <2> QED
      BY <1>1, <1>6, <1>8, <1>9, <2>1 DEF Apart
  <1>11. \A k \in Published : Truthful(k) => Truthful(k)'
    BY <1>4 DEF Truthful, Wiped
  <1>12. Chained'
    BY <1>4, <1>5, <1>11 DEF Inv, Chained
  <1>13. Single'
    BY DEF Inv, Single, Marked
  <1>14. Truthful(n)'
    BY <1>4 DEF Truthful, Wiped
  <1>15. Task(p)'
    BY <1>3, <1>8 DEF Task, Writing
  <1>16. Charge(p)'
    <2>1. m # p => Dead(m)'
      BY DEF Dead, Processes
    <2>2. \A k \in Numbers : job'[p].name = Receipt(k) => k = n
      BY <1>8, Naming
    <2> QED
      BY <1>2, <1>4, <1>5, <1>6, <1>7, <1>8, <1>14, <2>1, <2>2 DEF Charge, Charged, Writing
  <1>17. ASSUME p \in Runs
         PROVE  Course(p)'
    <2>1. p \in retried => faults > 0
      BY <1>1, <1>17 DEF Course
    <2>2. CASE m # p
      <3>1. pc[p] = "attest"
        BY <2>2 DEF Inv, Task
      <3>2. Fresh(p)
        BY <1>1, <1>17, <3>1 DEF Course, Before, Charged
      <3>3. Fresh(p)'
        BY <1>6, <3>2 DEF Fresh, Blank
      <3> QED
        BY <1>8, <2>1, <2>2, <3>3 DEF Course, Before, Charged, Underway, Writing
    <2>3. CASE m = p
      <3>1. Ripe(p)'
        BY <1>6, <1>7, <2>3 DEF Ripe, Pending, Fresh, Blank
      <3> QED
        BY <1>8, <2>1, <2>3, <3>1 DEF Course, Before, Charged, Underway, Writing
    <2> QED
      BY <2>2, <2>3
  <1>18. \A r \in Runs : Stands(r)' /\ Accounted(r)'
    <2> SUFFICES ASSUME NEW r \in Runs PROVE Stands(r)' /\ Accounted(r)'
      OBVIOUS
    <2>1. Stands(r) /\ Accounted(r)
      BY DEF Inv
    <2>2. Twice(r) => Twice(r)'
      BY DEF Twice, Processes
    <2> QED
      BY <1>7, <2>1, <2>2 DEF Stands, Accounted
  <1> QED
    BY <1>9, <1>10, <1>12, <1>13, <1>15, <1>16, <1>17, <1>18, Filed

\* Whoever recovers a dead attempt, of whose output nothing is left, goes on to its receipt.
LEMMA KeepsAttest ==
    ASSUME Inv, NEW p \in Processes, Attest(p)
    PROVE  Inv'
  <1> USE DEF directory, output, control, bounds
  <1>0. PICK m : m = subject[p]
    OBVIOUS
  <1>1. TypeOK /\ Held /\ Charge(p) /\ (p \in Runs => Course(p)) /\ faults \in Nat
    BY LedgerAssumption DEF Inv, TypeOK
  <1>2. TypeOK' /\ Held'
    BY TypedRecovery, HeldRecovery DEF Recovery
  <1>3. /\ pc[p] = "attest"
        /\ UNCHANGED <<live, temps, place, payload, subject, verdict, appended, retried, faults>>
    BY DEF Attest
  <1>4. m \in Runs /\ m # p /\ Dead(m) /\ Pending(m) /\ Absent(m)
    BY <1>0, <1>1, <1>3 DEF Charge, Charged, Dead
  <1>5. CASE Headroom(m)
    <2>1. /\ Say(m, seq[m], "interrupted", Binding(m) \in live)
          /\ Set(p, Receipt(Cardinality(Published) + 1), "boundary", "ended")
          /\ Proceed(p, "write")
      BY <1>0, <1>5 DEF Attest
    <2>2. pc'[p] = "write" /\ \A q \in Processes \ {p} : pc'[q] = pc[q]
      BY <1>1, <2>1, Moving
    <2>3. Wiped(m)
      BY <1>4 DEF Absent, Wiped
    <2>4. PICK b : b = (Binding(m) \in live)
      OBVIOUS
    <2>7. b \in BOOLEAN
      BY <2>4
    <2>5. /\ Say(m, seq[m], "interrupted", b)
          /\ Set(p, Receipt(Cardinality(Published) + 1), "boundary", IF m = p THEN "unwind" ELSE "ended")
      BY <1>4, <2>1, <2>4
    <2>6. /\ Receipts(m) = {} /\ Marker(m) \in live
          /\ "interrupted" = IF m # p THEN "interrupted" ELSE IF "boundary" = "ended" THEN "failed" ELSE verdict[p]
      BY <1>4 DEF Pending
    <2> QED
      BY <1>0, <1>2, <1>3, <1>4, <2>2, <2>3, <2>5, <2>6, <2>7, Drafting
  <1>6. CASE ~Headroom(m)
    <2>1. Proceed(p, "ended") /\ UNCHANGED <<said, job>>
      BY <1>0, <1>6 DEF Attest
    <2>2. pc'[p] = "ended" /\ \A q \in Processes \ {p} : pc'[q] = pc[q]
      BY <1>1, <2>1, Moving
    <2>3. Task(p)' /\ Charge(p)'
      BY <2>2 DEF Task, Charge, Writing, Charged
    <2>4. p \in Runs => Course(p)'
      BY <1>1, <1>3, <2>2 DEF Course, Before, Charged, Underway, Writing
    <2>5. UNCHANGED books
      BY <1>3, <2>1 DEF books
    <2> QED
      BY <1>1, <1>2, <1>3, <2>1, <2>2, <2>3, <2>4, <2>5, Quiet DEF Dead
  <1> QED
    BY <1>5, <1>6

LEMMA KeepsAttach ==
    ASSUME Inv, NEW r \in Runs, Attach(r)
    PROVE  Inv'
  <1> USE DEF directory, output, control, bounds
  <1>1. r \in Processes /\ TypeOK /\ Held /\ Task(r) /\ Course(r) /\ Accounted(r) /\ faults \in Nat
    BY LedgerAssumption DEF Inv, TypeOK, Processes
  <1>2. TypeOK' /\ Held'
    BY TypedAttempt, HeldAttempt DEF Attempt
  <1>3. /\ pc[r] = "attach"
        /\ UNCHANGED <<live, temps, place, payload, subject, verdict, appended, retried, faults>>
    BY DEF Attach
  <1>4. subject[r] = r /\ temps = {} /\ Ripe(r)
    BY <1>1, <1>3 DEF Task, Course
  <1>5. Receipts(r) = {}
    BY <1>4 DEF Ripe, Pending, Fresh, Blank
  <1>6. verdict[r] # "none" => verdict[r] \in {"passed", "failed"}
    BY <1>1 DEF TypeOK
  <1>7. CASE verdict[r] # "none" /\ ~(Marker(r) \in live /\ Headroom(r))
    <2>1. Proceed(r, "unwind") /\ UNCHANGED <<said, job>>
      BY <1>7 DEF Attach
    <2>2. pc'[r] = "unwind" /\ \A q \in Processes \ {r} : pc'[q] = pc[q]
      BY <1>1, <2>1, Moving
    <2>3. Task(r)' /\ Charge(r)'
      BY <2>2 DEF Task, Charge, Writing, Charged
    <2>4. UNCHANGED books
      BY <1>3, <2>1 DEF books
    <2>5. Receipts(r)' = Receipts(r) /\ (Bound(r)' <=> Bound(r))
      BY <2>4, Same
    <2>6. Course(r)'
      BY <1>1, <1>3, <1>4, <1>5, <1>7, <2>2, <2>5
      DEF Course, Before, Charged, Underway, Writing, Ripe, Pending
    <2> QED
      BY <1>1, <1>2, <1>3, <2>1, <2>2, <2>3, <2>4, <2>6, Quiet DEF Dead
  <1>8. CASE ~(verdict[r] # "none" /\ ~(Marker(r) \in live /\ Headroom(r)))
    <2>1. /\ IF verdict[r] # "none"
             THEN Say(r, seq[r], verdict[r], verdict[r] = "passed" \/ Binding(r) \in live)
             ELSE Say(r, Max(Sequences \cup {0}) + 1, "failed", FALSE)
          /\ Set(r, Receipt(Cardinality(Published) + 1),
                    IF verdict[r] # "none" THEN "boundary" ELSE "ended", "unwind")
          /\ Proceed(r, "write")
      BY <1>8 DEF Attach
    <2>2. pc'[r] = "write" /\ \A q \in Processes \ {r} : pc'[q] = pc[q]
      BY <1>1, <2>1, Moving
    <2>3. CASE verdict[r] # "none"
      <3>1. PICK b \in BOOLEAN : b = (verdict[r] = "passed" \/ Binding(r) \in live)
        OBVIOUS
      <3>2. /\ verdict[r] = "passed" => b /\ verdict[r] = "passed"
            /\ verdict[r] # "passed" /\ ~b => Wiped(r)
        BY <1>1, <1>5, <3>1 DEF Accounted, Passed, Absent, Bound, Wiped
      <3>3. /\ Say(r, seq[r], verdict[r], b)
            /\ Set(r, Receipt(Cardinality(Published) + 1), "boundary", IF r = r THEN "unwind" ELSE "ended")
        BY <2>1, <2>3, <3>1
      <3>4. PICK o \in {"passed", "failed", "interrupted"} : o = verdict[r]
        BY <1>6, <2>3
      <3>5. /\ Say(r, seq[r], o, b)
            /\ o = IF r # r THEN "interrupted" ELSE IF "boundary" = "ended" THEN "failed" ELSE verdict[r]
            /\ o = "passed" => b /\ verdict[r] = "passed"
            /\ o # "passed" /\ ~b => Wiped(r)
            /\ "boundary" = "boundary" <=> verdict[r] # "none"
        BY <2>3, <3>2, <3>3, <3>4
      <3> QED
        BY <1>1, <1>2, <1>3, <1>4, <1>5, <2>2, <3>3, <3>5, Drafting
    <2>4. CASE verdict[r] = "none"
      <3>1. Wiped(r)
        BY <1>4, <2>4 DEF Ripe, Fresh, Blank, Wiped
      <3>2. /\ Say(r, Max(Sequences \cup {0}) + 1, "failed", FALSE)
            /\ Set(r, Receipt(Cardinality(Published) + 1), "ended", "unwind")
        BY <2>1, <2>4
      <3> QED
        BY <1>1, <1>2, <1>3, <1>4, <1>5, <2>2, <2>4, <3>1, <3>2, Drafting
    <2> QED
      BY <2>3, <2>4
  <1> QED
    BY <1>7, <1>8

LEMMA Initially == Init => Inv
  <1> SUFFICES ASSUME Init PROVE Inv
    OBVIOUS
  <1>0. Nobody \notin Processes
    BY LedgerAssumption DEF Processes
  <1>1. TypeOK
    <2>1. Silence \in [attempt : Runs \cup {Nobody}, sequence : Nat, root : BOOLEAN,
                       outcome : {"none", "passed", "failed", "interrupted"}]
      BY DEF Silence
    <2>2. NoJob \in [name : Names \cup {NoName}, then : Labels, else : Labels]
      BY DEF NoJob, Labels
    <2>3. "idle" \in Labels
      BY DEF Labels
    <2>4. 0 \in 0..MaxGenerations /\ 0 \in 0..MaxFaults /\ 0 + 0 <= MaxTroubles /\ 0 \in Nat
      BY LedgerAssumption
    <2> QED
      BY <2>1, <2>2, <2>3, <2>4 DEF Init, TypeOK
  <1>2. Held
    BY <1>0 DEF Init, Held, Locking
  <1>3. Published = {} /\ Marked = {} /\ \A r : Receipts(r) = {}
    BY DEF Init, Published, Marked, Receipts
  <1>4. Chained
    <2>1. Cardinality(Published) = 0
      BY <1>3, FS_EmptySet
    <2> QED
      BY <1>3, <2>1 DEF Chained
  <1>5. Single
    BY <1>3 DEF Single
  <1>6. ASSUME NEW p \in Processes
        PROVE  Task(p) /\ Charge(p)
    BY DEF Init, Task, Charge, Writing, Charged
  <1>7. ASSUME NEW r \in Runs
        PROVE  Course(r) /\ Stands(r) /\ Accounted(r)
    <2>1. r \in Processes
      BY DEF Processes
    <2>2. Fresh(r) /\ Absent(r) /\ ~Passed(r)
      BY <1>3 DEF Init, Fresh, Blank, Absent, Passed
    <2>3. Course(r)
      BY <2>1, <2>2 DEF Init, Course, Before, Charged, Underway, Writing
    <2> QED
      BY <2>2, <2>3 DEF Stands, Accounted
  <1> QED
    BY <1>1, <1>2, <1>4, <1>5, <1>6, <1>7 DEF Inv

LEMMA Stuttering ==
    ASSUME Inv, UNCHANGED vars
    PROVE  Inv'
  <1>1. UNCHANGED <<live, torn, temps, tombs, said, seq, place, under, payload, lock, pc, job,
                    subject, verdict, appended, retried, crashes, faults>>
    BY DEF vars, directory, output, control, bounds
  <1>2. UNCHANGED books
    BY <1>1 DEF books
  <1>3. /\ Published' = Published /\ Marked' = Marked
        /\ \A r : Receipts(r)' = Receipts(r)
    BY <1>1, SameFiles
  <1>4. TypeOK' /\ Held' /\ Single'
    BY <1>1, <1>3 DEF Inv, TypeOK, Held, Single, Processes
  <1>5. Chained'
    BY <1>1, <1>3 DEF Inv, Chained, Truthful, Wiped
  <1>6. ASSUME NEW p \in Processes
        PROVE  Task(p)' /\ Charge(p)'
    <2>1. Task(p) /\ Charge(p)
      BY DEF Inv
    <2>2. Task(p)'
      BY <1>1, <2>1 DEF Task
    <2>3. /\ \A r : /\ Wiped(r)' <=> Wiped(r)
                    /\ Absent(r)' <=> Absent(r)
                    /\ Passed(r)' <=> Passed(r)
                    /\ Pending(r)' <=> Pending(r)
                    /\ Dead(r)' <=> Dead(r)
          /\ \A n : Truthful(n)' <=> Truthful(n)
      BY <1>1, <1>2, Same DEF Dead
    <2>4. Charge(p)'
      BY <1>1, <1>3, <2>1, <2>3 DEF Charge
    <2> QED
      BY <2>2, <2>4
  <1>7. ASSUME NEW r \in Runs
        PROVE  Course(r)' /\ Stands(r)' /\ Accounted(r)'
    <2>1. Course(r) /\ Stands(r) /\ Accounted(r)
      BY DEF Inv
    <2>2. /\ Fresh(r)' <=> Fresh(r)
          /\ Blank(r)' <=> Blank(r)
          /\ Ongoing(r)' <=> Ongoing(r)
          /\ Ripe(r)' <=> Ripe(r)
          /\ Bound(r)' <=> Bound(r)
          /\ Wiped(r)' <=> Wiped(r)
          /\ Intact(r)' <=> Intact(r)
          /\ Passed(r)' <=> Passed(r)
          /\ Absent(r)' <=> Absent(r)
      BY <1>2, Same
    <2>3. (Unmarked(r)' <=> Unmarked(r)) /\ (Twice(r)' <=> Twice(r))
      BY <1>1 DEF Unmarked, Twice
    <2>4. Course(r)'
      BY <1>1, <1>3, <2>1, <2>2, <2>3 DEF Course
    <2> QED
      BY <1>1, <2>1, <2>2, <2>3, <2>4 DEF Stands, Accounted
  <1> QED
    BY <1>4, <1>5, <1>6, <1>7 DEF Inv, Processes

\* Every step of the ledger keeps the invariant.
LEMMA Keeps == Inv /\ [Next]_vars => Inv'
  <1> SUFFICES ASSUME Inv, [Next]_vars PROVE Inv'
    OBVIOUS
  <1>1. ASSUME NEW p \in Processes, Publish(p)
        PROVE  Inv'
    <2>1. CASE Write(p)
      BY <2>1, KeepsWriteFile, KeepsWriteReceipt
    <2>2. CASE SyncFails(p)
      BY <2>2, KeepsSyncFailsFile, KeepsSyncFailsReceipt
    <2>3. CASE Sync(p) \/ WriteFails(p) \/ Undo(p)
      BY <2>3, KeepsSync, KeepsFailedWrite
    <2> QED
      BY <1>1, <2>1, <2>2, <2>3 DEF Publish
  <1>2. ASSUME NEW p \in Processes, Locked(p)
        PROVE  Inv'
    BY <1>1, <1>2, KeepsReading, KeepsBoundary, KeepsRetire, KeepsTerminateFails DEF Locked
  <1>3. ASSUME NEW p \in Processes, Recovery(p)
        PROVE  Inv'
    BY <1>3, KeepsReading, KeepsRecovering, KeepsCharge, KeepsAttest DEF Recovery
  <1>4. ASSUME NEW r \in Runs, Attempt(r)
        PROVE  Inv'
    BY <1>4, KeepsAttempt, KeepsOutput, KeepsAttach, KeepsUnwind DEF Attempt
  <1> QED
    BY <1>2, <1>3, <1>4, KeepsCrash, KeepsReading, Stuttering DEF Next

\* The invariant of the ledger, for every number of runs and of parents, every limit, and
\* wherever a process crashes, a file operation fails or attempts overlap: the flock has one
\* holder, there is at most one marker, an attempt has at most one receipt, the receipts are
\* numbered without a gap and say what is so, and whoever charges itself with a dead attempt
\* knows enough of it to receipt it (11646-11761, 12035-12167, 12648-12796, 13117-13435).
THEOREM LedgerHolds == Spec => []Inv
  <1> QED
    BY Initially, Keeps, PTL DEF Spec

\* Private payload is in an output that passed, or a marker and a binding lead the next
\* recovery to it; without them nothing is left of it (12035-12167, 13117-13350).
THEOREM OutputsAreAccounted == Spec => []PayloadAccounted
  <1>1. Inv => PayloadAccounted
    BY DEF Inv, Accounted, Bound, PayloadAccounted
  <1> QED
    BY <1>1, LedgerHolds, PTL

\* The output of a receipt that says passed is promoted and whole, as long as at most one file
\* operation fails.  The hypothesis is needed: a run whose boundary fails after its receipt
\* stands reconciles again, and when that fails too it gives the output up (6438-6455,
\* 13412-13435).  A crash is no failure: there may be any number.
THEOREM PassedStand ==
    ASSUME MaxFaults <= 1
    PROVE  Spec => []PassedIsIntact
  <1>1. Inv => PassedIsIntact
    <2> SUFFICES ASSUME Inv, NEW r \in Runs, Passed(r) PROVE Intact(r)
      BY DEF PassedIsIntact, Intact
    <2>1. ~Twice(r)
      BY LedgerAssumption DEF Inv, TypeOK, Twice
    <2> QED
      BY <2>1 DEF Inv, Stands
  <1> QED
    BY <1>1, LedgerHolds, PTL

-----------------------------------------------------------------------------
(* The sequences of the receipts *)

\* A step that leaves the receipts and the sequences of the markers alone keeps the order.
LEMMA OrderStays ==
    ASSUME Inv, InOrder, NEW p \in Processes,
           Published' = Published, \A n \in Published : said'[n] = said[n],
           Marked' = Marked \/ (ChainInOrder /\ Marked' \subseteq Marked),
           \A m \in Marked' : seq'[m] = seq[m],
           lock = p \/ UNCHANGED <<said, seq, live>>,
           \A q \in Processes \ {p} : pc'[q] = pc[q] /\ job'[q] = job[q],
           \A r \in Runs : verdict'[r] = verdict[r] \/ Receipts(r) = {},
           pc'[p] \in Locking \ {"temps"} => ChainInOrder \/ Aside(p)',
           \A n \in Numbers : pc'[p] \in {"write", "sync"} /\ job'[p].name = Receipt(n) => Drafted(p, n)',
           p \in Runs /\ pc'[p] = "write" /\ job'[p].then = "begun" => seq'[p] = Cardinality(Published) + 1
    PROVE  InOrder'
  <1>1. Held /\ Runs \subseteq Processes /\ (ChainInOrder' <=> ChainInOrder)
    BY DEF Inv, Processes, ChainInOrder
  <1>2. \A r : Receipts(r)' = Receipts(r)
    BY DEF Receipts
  <1>3. OnlyTheLastBreaks'
    <2> SUFFICES ASSUME ~ChainInOrder
                 PROVE  /\ Marked' # {}
                        /\ \A n \in Published : said[n].sequence # n =>
                              /\ n = Cardinality(Published)
                              /\ said[n].outcome = "failed" /\ verdict'[said[n].attempt] = "none"
      BY <1>1 DEF OnlyTheLastBreaks
    <2>1. \A n \in Published : said[n].attempt \in Runs /\ n \in Receipts(said[n].attempt)
      BY DEF Inv, Chained, Truthful, Receipts
    <2>2. \A n \in Published : verdict'[said[n].attempt] = verdict[said[n].attempt]
      BY <2>1
    <2> QED
      BY <2>2 DEF InOrder, OnlyTheLastBreaks
  <1>4. \A m \in Marked' : IF Receipts(m)' = {} THEN Due(m)' ELSE \A n \in Receipts(m)' : seq'[m] = n
    <2>1. \A m \in Marked' : m \in Marked /\ (Due(m)' <=> Due(m))
      BY <1>1 DEF Due
    <2> QED
      BY <1>2, <2>1 DEF InOrder
  <1>5. \A q \in Processes : pc'[q] \in Locking \ {"temps"} => ChainInOrder' \/ Aside(q)'
    <2>1. \A q \in Processes \ {p} : Aside(q)' <=> Aside(q)
      BY DEF Aside
    <2> QED
      BY <1>1, <2>1 DEF InOrder
  <1>6. ASSUME NEW q \in Processes, q # p, pc[q] \in {"write", "sync"}
        PROVE  UNCHANGED <<said, seq>> /\ Marked' = Marked
    <2>1. UNCHANGED <<said, seq, live>>
      BY <1>1, <1>6 DEF Held, Locking
    <2> QED
      BY <2>1 DEF Marked
  <1>7. \A q \in Processes, n \in Numbers : pc'[q] \in {"write", "sync"} /\ job'[q].name = Receipt(n) => Drafted(q, n)'
    <2> SUFFICES ASSUME NEW q \in Processes, NEW n \in Numbers, q # p,
                        pc[q] \in {"write", "sync"}, job[q].name = Receipt(n)
                 PROVE  Drafted(q, n)'
      OBVIOUS
    <2>1. Drafted(q, n)
      BY DEF InOrder
    <2> QED
      BY <1>2, <1>6, <2>1 DEF Drafted
  <1>8. \A q \in Runs : pc'[q] = "write" /\ job'[q].then = "begun" => seq'[q] = Cardinality(Published') + 1
    BY <1>1, <1>6 DEF InOrder
  <1> QED
    BY <1>3, <1>4, <1>5, <1>7, <1>8 DEF InOrder

\* A process that is not about to publish a file.
LEMMA OrderQuiet ==
    ASSUME Inv, InOrder, NEW p \in Processes, pc'[p] \notin {"write", "sync"},
           UNCHANGED <<said, seq>>, Published' = Published,
           Marked' = Marked \/ (ChainInOrder /\ Marked' \subseteq Marked),
           lock = p \/ UNCHANGED live,
           pc'[p] \in Locking \ {"temps"} => ChainInOrder \/ Aside(p)',
           \A q \in Processes \ {p} : pc'[q] = pc[q] /\ job'[q] = job[q],
           \A r \in Runs : verdict'[r] = verdict[r] \/ Receipts(r) = {}
    PROVE  InOrder'
  <1> QED
    BY OrderStays

\* Whoever reads, recovers or terminates has seen the receipts in order.
LEMMA Informed ==
    ASSUME InOrder, NEW p \in Processes,
           pc[p] \in {"recover", "judge", "clear", "quarantine", "attest", "allocate", "attach", "boundary", "retire"}
    PROVE  ChainInOrder
  <1> QED
    BY DEF InOrder, Locking, Aside, Writing

\* The greatest of the sequences is the number of receipts while no marker is there.
LEMMA Latest ==
    ASSUME Inv, ChainInOrder, Marked = {}
    PROVE  Max(Sequences \cup {0}) = Cardinality(Published)
  <1>1. PICK c \in Nat : c = Cardinality(Published)
    BY Finite
  <1>2. Published = 1..c /\ \A n \in Published : said[n].sequence = n
    BY <1>1 DEF Inv, Chained, ChainInOrder
  <1>3. Sequences \cup {0} = 0..c
    <2>1. Sequences = 1..c
      BY <1>2 DEF Sequences
    <2>2. (1..c) \cup {0} = 0..c
      BY <1>1
    <2> QED
      BY <2>1, <2>2
  <1>4. IsFiniteSet(0..c) /\ 0..c \in SUBSET Nat /\ 0..c # {} /\ c \in 0..c
    <2>1. IsFiniteSet(0..c)
      BY <1>1, FS_Interval
    <2>2. 0..c \in SUBSET Nat /\ c \in 0..c
      BY <1>1
    <2> QED
      BY <2>1, <2>2
  <1>5. Max(0..c) \in 0..c /\ \A n \in 0..c : n <= Max(0..c)
    BY <1>4, Greatest
  <1>6. Max(0..c) = c
    BY <1>1, <1>4, <1>5
  <1> QED
    BY <1>1, <1>3, <1>6

\* A receipt is published: in order, or beside an attempt in flight.
LEMMA OrderWriteReceipt ==
    ASSUME Inv, InOrder, NEW p \in Processes, Write(p), NEW n \in Numbers, job[p].name = Receipt(n)
    PROVE  InOrder'
  <1> USE DEF directory, output, control, bounds
  <1>0. PICK m : m = subject[p]
    OBVIOUS
  <1>1. TypeOK /\ Held /\ Task(p) /\ Charge(p) /\ (p \in Runs => Course(p)) /\ Drafted(p, n)
    BY DEF Inv, InOrder, Write
  <1>2. /\ pc[p] = "write" /\ live' = live \cup {Receipt(n)} /\ UNCHANGED <<said, seq, verdict, job>>
        /\ pc'[p] = "sync" /\ \A q \in Processes \ {p} : pc'[q] = pc[q]
    BY <1>1, Moving DEF Write
  <1>3. m \in Runs /\ job[p].then \in {"boundary", "ended"} /\ (job[p].then = "ended" => m = p)
    <2>1. job[p].name # Marker(p) /\ job[p].name # Binding(p) /\ job[p].name # Inventory(p)
          /\ \A g : job[p].name # Intent(m, g)
      BY Naming
    <2> QED
      BY <1>0, <1>1, <1>2, <2>1, Published1 DEF Writing
  <1>4. /\ m # p => Marker(m) \in live
        /\ Receipts(m) = {} /\ n = Cardinality(Published) + 1
        /\ said[n].attempt = m /\ (job[p].then = "ended" => said[n].outcome = "failed")
    BY <1>0, <1>1, <1>2, <1>3 DEF Charge, Writing
  <1>5. ChainInOrder /\ \A q \in Processes \ {p} : pc[q] \notin Locking
    BY <1>1, <1>2, <1>3 DEF InOrder, Locking, Aside, Writing, Held
  <1>6. Published' = Published \cup {n} /\ Cardinality(Published') = n /\ n \in Nat
    <2>1. Published' = Published \cup {n}
      BY <1>2, Naming DEF Published, Numbers
    <2>2. n \notin Published
      BY <1>4, Finite DEF Inv, Chained
    <2>3. Cardinality(Published \cup {n}) = Cardinality(Published) + 1
      BY <2>2, Finite, FS_AddElement
    <2> QED
      BY <1>4, <2>1, <2>3, Finite
  <1>7. /\ Marked' = Marked /\ Receipts(m)' = {n}
        /\ \A r : r # m => Receipts(r)' = Receipts(r)
        /\ ChainInOrder' <=> said[n].sequence = n
    <2>1. Marked' = Marked
      BY <1>2, Naming DEF Marked
    <2> QED
      BY <1>2, <1>4, <1>5, <1>6, <2>1 DEF Receipts, ChainInOrder
  <1>8. \A q \in Processes : pc'[q] \in Locking => q = p
    BY <1>2, <1>5
  <1>9. CASE job[p].then = "boundary"
    <2>1. said[n].sequence = n /\ ChainInOrder'
      BY <1>1, <1>7, <1>9 DEF Drafted
    <2>2. Marker(m) \in live
      <3>1. m = p => verdict[p] # "none" /\ Ripe(p)
        BY <1>0, <1>1, <1>2, <1>3, <1>9 DEF Course, Writing
      <3> QED
        BY <1>4, <3>1 DEF Ripe, Pending
    <2>3. \A k \in Marked : k = m
      BY <1>3, <2>2 DEF Inv, Single, Marked
    <2>4. m \in Marked => seq[m] = n
      BY <1>4, <1>5 DEF InOrder, Due
    <2>5. \A k \in Marked' : Receipts(k)' = {n} /\ seq'[k] = n
      BY <1>2, <1>7, <2>3, <2>4
    <2>6. \A k \in Numbers : job'[p].name = Receipt(k) => Drafted(p, k)'
      BY <1>2, <1>9, <2>1, Naming DEF Drafted
    <2> QED
      BY <1>2, <1>8, <2>1, <2>5, <2>6 DEF InOrder, OnlyTheLastBreaks, Processes, Locking
  <1>10. CASE job[p].then = "ended"
    <2>1. m = p /\ verdict[p] = "none" /\ Marker(p) \notin live
      BY <1>0, <1>1, <1>2, <1>3, <1>10 DEF Course, Writing, Ripe, Fresh
    <2>2. \A k \in Marked : k # m /\ Receipts(k)' = Receipts(k)
      BY <1>7, <2>1 DEF Marked
    <2>3. \A k \in Numbers : job'[p].name = Receipt(k) => Drafted(p, k)'
      <3>1. Drafted(p, n)'
        BY <1>1, <1>2, <1>7, <1>10, <2>2 DEF Drafted
      <3> QED
        BY <1>2, <3>1, Naming
    <2>4. Aside(p)'
      BY <1>2, <1>10 DEF Aside
    <2>5. OnlyTheLastBreaks'
      <3> SUFFICES ASSUME said[n].sequence # n
                   PROVE  /\ Marked' # {}
                          /\ \A k \in Published' : said'[k].sequence # k =>
                                /\ k = Cardinality(Published')
                                /\ said'[k].outcome = "failed" /\ verdict'[said'[k].attempt] = "none"
        BY <1>7 DEF OnlyTheLastBreaks
      <3>1. Marked' # {}
        BY <1>1, <1>7, <1>10 DEF Drafted
      <3>2. \A k \in Published' : said'[k].sequence # k => k = n
        BY <1>2, <1>5, <1>6 DEF ChainInOrder
      <3> QED
        BY <1>2, <1>4, <1>6, <1>10, <2>1, <3>1, <3>2
    <2>6. \A k \in Marked' : IF Receipts(k)' = {} THEN Due(k)' ELSE \A j \in Receipts(k)' : seq'[k] = j
      <3> SUFFICES ASSUME NEW k \in Marked
                   PROVE  IF Receipts(k) = {} THEN Due(k)' ELSE \A j \in Receipts(k) : seq[k] = j
        BY <1>2, <1>7, <2>2
      <3>1. CASE Receipts(k) = {}
        <4>1. said[n].sequence # n
          BY <1>1, <1>10, <3>1 DEF Drafted
        <4>2. seq[k] = n
          BY <1>4, <1>5, <3>1 DEF InOrder, Due
        <4> QED
          BY <1>2, <1>6, <1>7, <3>1, <4>1, <4>2 DEF Due
      <3> QED
        BY <3>1 DEF InOrder
    <2>7. \A q \in Processes : pc'[q] \in Locking \ {"temps"} => ChainInOrder' \/ Aside(q)'
      BY <1>8, <2>4
    <2>8. \A q \in Processes, k \in Numbers : pc'[q] \in {"write", "sync"} /\ job'[q].name = Receipt(k) => Drafted(q, k)'
      BY <1>8, <2>3 DEF Locking
    <2>9. \A q \in Runs : pc'[q] # "write"
      BY <1>2, <1>8 DEF Locking, Processes
    <2> QED
      BY <2>5, <2>6, <2>7, <2>8, <2>9 DEF InOrder
  <1> QED
    BY <1>3, <1>9, <1>10

\* A receipt is taken back: what is left is in order.
LEMMA OrderUndoReceipt ==
    ASSUME Inv, InOrder, NEW p \in Processes, SyncFails(p), NEW n \in Numbers, job[p].name = Receipt(n)
    PROVE  InOrder'
  <1> USE DEF directory, output, control, bounds
  <1>0. PICK m : m = subject[p]
    OBVIOUS
  <1>1. TypeOK /\ Held /\ Task(p) /\ Charge(p) /\ (p \in Runs => Course(p)) /\ Drafted(p, n)
    BY DEF Inv, InOrder, SyncFails
  <1>2. /\ pc[p] = "sync" /\ live' = live \ {Receipt(n)} /\ UNCHANGED <<said, seq, verdict, job>>
        /\ pc'[p] = "undo" /\ \A q \in Processes \ {p} : pc'[q] = pc[q]
    BY <1>1, Moving DEF SyncFails
  <1>3. m \in Runs /\ job[p].then \in {"boundary", "ended"} /\ (job[p].then = "ended" => m = p)
    <2>1. job[p].name # Marker(p) /\ job[p].name # Binding(p) /\ job[p].name # Inventory(p)
          /\ \A g : job[p].name # Intent(m, g)
      BY Naming
    <2> QED
      BY <1>0, <1>1, <1>2, <2>1, Published1 DEF Writing
  <1>4. /\ m # p => Marker(m) \in live
        /\ n = Cardinality(Published) /\ n \in Published /\ said[n].attempt = m
    BY <1>0, <1>1, <1>2, <1>3 DEF Charge, Writing
  <1>5. Published' = Published \ {n} /\ Cardinality(Published') = n - 1 /\ n \in Nat
    <2>1. Published' = Published \ {n}
      BY <1>2, Naming DEF Published, Numbers
    <2>2. Cardinality(Published \ {n}) = Cardinality(Published) - 1
      BY <1>4, Finite, FS_RemoveElement
    <2> QED
      BY <1>4, <2>1, <2>2, Finite
  <1>6. n \in Receipts(m) /\ Receipts(m)' = {} /\ \A r : r # m => Receipts(r)' = Receipts(r)
    <2>1. \A k \in Published : said[k].attempt = m => k = n
      BY <1>4 DEF Inv, Chained
    <2> QED
      BY <1>2, <1>4, <1>5, <2>1 DEF Receipts
  <1>7. Marked' = Marked
    BY <1>2, Naming DEF Marked
  <1>8. ChainInOrder'
    <2>1. \A k \in Published : said[k].sequence # k => k = n
      BY <1>4 DEF InOrder, OnlyTheLastBreaks, ChainInOrder
    <2> QED
      BY <1>2, <1>5, <2>1 DEF ChainInOrder
  <1>9. \A k \in Marked : IF Receipts(k)' = {} THEN seq[k] = n ELSE k # m
    <2>1. CASE job[p].then = "boundary"
      <3>1. Marker(m) \in live
        <4>1. m = p => Marker(p) \in live
          BY <1>0, <1>1, <1>2, <1>3, <2>1 DEF Course, Writing
        <4> QED
          BY <1>4, <4>1
      <3>2. \A k \in Marked : k = m
        BY <1>3, <3>1 DEF Inv, Single, Marked
      <3>3. m \in Marked => seq[m] = n
        BY <1>6 DEF InOrder
      <3> QED
        BY <1>6, <3>2, <3>3
    <2>2. CASE job[p].then = "ended"
      <3>1. m = p /\ Marker(m) \notin live
        BY <1>0, <1>1, <1>2, <1>3, <2>2 DEF Course, Writing, Unmarked
      <3>2. ASSUME NEW k \in Marked, Receipts(k)' = {}
            PROVE  seq[k] = n
        <4>1. k # m /\ Receipts(k) = {}
          BY <1>6, <3>1, <3>2 DEF Marked
        <4>2. ~ChainInOrder
          BY <1>1, <1>4, <2>2, <3>2, <4>1 DEF Drafted, ChainInOrder
        <4> QED
          BY <1>4, <4>1, <4>2 DEF InOrder, Due
      <3> QED
        BY <3>1, <3>2 DEF Marked
    <2> QED
      BY <1>3, <2>1, <2>2
  <1>10. \A k \in Marked' : IF Receipts(k)' = {} THEN Due(k)' ELSE \A j \in Receipts(k)' : seq'[k] = j
    <2> SUFFICES ASSUME NEW k \in Marked
                 PROVE  IF Receipts(k)' = {} THEN Due(k)' ELSE \A j \in Receipts(k)' : seq[k] = j
      BY <1>2, <1>7
    <2>1. CASE Receipts(k)' = {}
      BY <1>2, <1>5, <1>8, <1>9, <2>1 DEF Due
    <2>2. CASE Receipts(k)' # {}
      <3>1. Receipts(k)' = Receipts(k)
        BY <1>6, <1>9, <2>2
      <3> QED
        BY <2>2, <3>1 DEF InOrder
    <2> QED
      BY <2>1, <2>2
  <1>11. \A q \in Processes : pc'[q] \in Locking => pc'[q] = "undo"
    BY <1>1, <1>2 DEF Held, Locking
  <1>12. \A q \in Processes : pc'[q] \notin {"write", "sync"}
    BY <1>11 DEF Locking
  <1> QED
    BY <1>8, <1>10, <1>12 DEF InOrder, OnlyTheLastBreaks, Processes

\* Any other file is published or taken back: only a marker matters to the sequences.
LEMMA OrderFile ==
    ASSUME Inv, InOrder, NEW p \in Processes, Write(p) \/ SyncFails(p),
           \A n \in Numbers : job[p].name # Receipt(n)
    PROVE  InOrder'
  <1> USE DEF directory, output, control, bounds
  <1>0. PICK m : m = subject[p]
    OBVIOUS
  <1>1. TypeOK /\ Held /\ Task(p) /\ Charge(p) /\ (p \in Runs => Course(p)) /\ pc[p] \in {"write", "sync"}
    BY DEF Inv, Write, SyncFails
  <1>2. /\ UNCHANGED <<said, seq, verdict, job>> /\ lock = p
        /\ Write(p) => pc[p] = "write" /\ pc'[p] = "sync" /\ live' = live \cup {job[p].name}
        /\ SyncFails(p) => pc[p] = "sync" /\ pc'[p] = "undo" /\ live' = live \ {job[p].name}
        /\ \A q \in Processes \ {p} : pc'[q] = pc[q]
    <2>1. Goto(p, "sync") \/ Goto(p, "undo")
      BY DEF Write, SyncFails
    <2> QED
      BY <1>1, <2>1, Moving DEF Write, SyncFails, Held, Locking
  <1>3. Published' = Published /\ \A r : Receipts(r)' = Receipts(r)
    BY <1>2, NotAReceiptFile
  <1>4. /\ job[p].then \in {"begun", "bound", "sealed", "clear"}
        /\ job[p].then = "begun" <=> \E r \in Runs : job[p].name = Marker(r)
        /\ job[p].then = "begun" => p \in Runs /\ job[p].name = Marker(p)
    <2>1. \/ p \in Runs /\ job[p].name = Marker(p) /\ job[p].then = "begun"
          \/ job[p].name = Binding(p) /\ job[p].then = "bound"
          \/ job[p].name = Inventory(p) /\ job[p].then = "sealed"
          \/ job[p].then = "clear" /\ \E g \in 1..MaxGenerations : job[p].name = Intent(m, g)
      BY <1>0, <1>1, Published1 DEF Writing
    <2> QED
      BY <2>1, Naming
  <1>5. ChainInOrder \/ Aside(p)'
    <2>1. ChainInOrder \/ Aside(p)
      BY <1>1 DEF InOrder, Locking
    <2>2. Aside(p) => job[p].then \in {"bound", "sealed"}
      BY <1>4 DEF Aside
    <2> QED
      BY <1>2, <2>1, <2>2 DEF Aside, Writing
  <1>6. job[p].then = "begun" => ChainInOrder
    BY <1>1 DEF InOrder, Locking, Aside, Writing
  <1>7. CASE ~(Write(p) /\ job[p].then = "begun")
    <2>1. Marked' = Marked \/ (ChainInOrder /\ Marked' \subseteq Marked)
      <3>1. CASE job[p].then = "begun"
        BY <1>2, <1>6, <1>7, <3>1 DEF Marked
      <3>2. CASE job[p].then # "begun"
        BY <1>2, <1>4, <3>2 DEF Marked
      <3> QED
        BY <3>1, <3>2
    <2>2. /\ \A n \in Numbers : job'[p].name # Receipt(n)
          /\ pc'[p] # "write"
      BY <1>2
    <2> QED
      BY <1>2, <1>3, <1>5, <2>1, <2>2, OrderStays
  <1>8. CASE Write(p) /\ job[p].then = "begun"
    <2>1. p \in Runs /\ pc[p] = "write" /\ pc'[p] = "sync" /\ live' = live \cup {Marker(p)}
      BY <1>2, <1>4, <1>8
    <2>2. Marked' = {p}
      BY <1>1, <1>8, <2>1, Naming DEF Charge, Marked
    <2>3. Receipts(p)' = {} /\ seq[p] = Cardinality(Published) + 1
      BY <1>1, <1>3, <1>8, <2>1 DEF Course, Writing, Fresh, Blank, InOrder
    <2>4. ChainInOrder'
      BY <1>2, <1>3, <1>6, <1>8 DEF ChainInOrder
    <2>5. \A q \in Processes : pc'[q] \in {"write", "sync"} => q = p
      BY <1>1, <1>2 DEF Held, Locking
    <2>6. \A q \in Processes, n \in Numbers : pc'[q] \in {"write", "sync"} => job'[q].name # Receipt(n)
      BY <1>2, <2>5
    <2>7. \A k \in Marked' : Receipts(k)' = {} /\ Due(k)'
      BY <1>2, <1>3, <2>2, <2>3, <2>4 DEF Due
    <2>8. \A q \in Runs : pc'[q] # "write"
      BY <2>1, <2>5 DEF Processes
    <2> QED
      BY <2>4, <2>6, <2>7, <2>8 DEF InOrder, OnlyTheLastBreaks
  <1> QED
    BY <1>7, <1>8

LEMMA OrderPublish ==
    ASSUME Inv, InOrder, NEW p \in Processes, Publish(p)
    PROVE  InOrder'
  <1> USE DEF directory, output, control, bounds
  <1>1. TypeOK /\ Held /\ Task(p) /\ pc[p] \in Writing
    BY DEF Inv, Publish, Write, Sync, WriteFails, SyncFails, Undo, Writing
  <1>2. UNCHANGED <<said, seq, verdict>> /\ lock = p
    BY <1>1 DEF Publish, Write, Sync, WriteFails, SyncFails, Undo, Held, Locking, Writing
  <1>3. CASE Sync(p)
    <2>1. pc[p] = "sync" /\ pc'[p] = job[p].then /\ UNCHANGED live
          /\ \A q \in Processes \ {p} : pc'[q] = pc[q] /\ job'[q] = job[q]
      BY <1>1, <1>3, Moving, Jobless DEF Sync
    <2>2. job[p].then \in {"begun", "bound", "sealed", "clear", "boundary", "ended"}
      BY <1>1 DEF Task
    <2>3. Published' = Published /\ Marked' = Marked
      BY <1>2, <2>1, SameFiles
    <2>4. pc'[p] \in Locking \ {"temps"} => ChainInOrder
      BY <2>1, <2>2 DEF InOrder, Locking, Aside, Writing
    <2>5. pc'[p] \notin {"write", "sync"}
      BY <2>1, <2>2
    <2> QED
      BY <1>2, <2>1, <2>3, <2>4, <2>5, OrderQuiet
  <1>4. CASE WriteFails(p) \/ Undo(p)
    <2>1. pc'[p] = job[p].else /\ UNCHANGED live
          /\ \A q \in Processes \ {p} : pc'[q] = pc[q] /\ job'[q] = job[q]
      BY <1>1, <1>4, Moving, Jobless DEF WriteFails, Undo
    <2>2. pc'[p] \in {"early", "settle", "ended", "unwind"}
      BY <1>1, <2>1 DEF Task
    <2>3. Published' = Published /\ Marked' = Marked
      BY <1>2, <2>1, SameFiles
    <2>4. pc'[p] \notin Locking
      BY <2>2 DEF Locking
    <2> QED
      BY <1>2, <2>1, <2>3, <2>4, OrderQuiet DEF Locking
  <1> QED
    BY <1>3, <1>4, OrderWriteReceipt, OrderUndoReceipt, OrderFile DEF Publish

LEMMA OrderLocked ==
    ASSUME Inv, InOrder, NEW p \in Processes,
           Read(p) \/ WipeTemp(p) \/ Boundary(p) \/ Retire(p) \/ TerminateFails(p)
    PROVE  InOrder'
  <1> USE DEF directory, output, control, bounds
  <1>0. PICK m : m = subject[p]
    OBVIOUS
  <1>1. TypeOK /\ Held /\ Task(p)
    BY DEF Inv
  <1>2. UNCHANGED <<said, seq, verdict>>
    BY DEF Read, WipeTemp, Boundary, Retire, TerminateFails
  <1>3. UNCHANGED live \/ (pc[p] \in {"boundary", "retire"} /\ live' = live \ {NextRetired(m)})
    BY <1>0 DEF Read, WipeTemp, Boundary, Retire, TerminateFails, Interrupted
  <1>4. Published' = Published /\ (Marked' = Marked \/ (ChainInOrder /\ Marked' \subseteq Marked))
    <2>1. CASE UNCHANGED live
      BY <2>1 DEF Published, Marked
    <2>2. CASE pc[p] \in {"boundary", "retire"} /\ live' = live \ {NextRetired(m)}
      BY <2>2, NotAReceipt, Informed DEF Published, Marked
    <2> QED
      BY <1>3, <2>1, <2>2
  <1>5. \A q \in Processes \ {p} : job'[q] = job[q]
    BY <1>1, Jobless DEF Read, WipeTemp, Boundary, Retire, TerminateFails
  <1>6. lock = p
    BY <1>1 DEF Read, WipeTemp, Boundary, Retire, TerminateFails, Held, Locking
  <1>7. CASE Fail(p)
    <2>1. pc'[p] \in {"unwind", "ended"} /\ \A q \in Processes \ {p} : pc'[q] = pc[q]
      BY <1>1, <1>7, Moving DEF Fail
    <2>2. pc'[p] \notin Locking
      BY <2>1 DEF Locking
    <2> QED
      BY <1>2, <1>4, <1>5, <1>6, <2>1, <2>2, OrderQuiet DEF Locking
  <1>8. CASE (Boundary(p) \/ Retire(p) \/ TerminateFails(p)) /\ ~Fail(p)
    <2>1. \E l \in {"ended", "retire", "recover", "boundary"} : Proceed(p, l) \/ Goto(p, l)
      BY <1>8 DEF Boundary, Retire, TerminateFails
    <2>2. /\ pc'[p] \in {"ended", "retire", "recover", "boundary"}
          /\ \A q \in Processes \ {p} : pc'[q] = pc[q]
      BY <1>1, <2>1, Moving
    <2>3. ChainInOrder
      BY <1>8, Informed DEF Boundary, Retire, TerminateFails
    <2>4. pc'[p] \notin {"write", "sync"}
      BY <2>2
    <2> QED
      BY <1>2, <1>4, <1>5, <1>6, <2>2, <2>3, <2>4, OrderQuiet
  <1>9. CASE WipeTemp(p) /\ UNCHANGED pc
    <2>1. pc'[p] = "temps"
      BY <1>9 DEF WipeTemp
    <2> QED
      BY <1>2, <1>4, <1>5, <1>6, <1>9, <2>1, OrderQuiet
  <1>10. CASE Read(p) /\ ~Fail(p)
    <2>1. ChainReadable /\ Proceed(p, job[p].then) /\ pc[p] = "temps"
      BY <1>10 DEF Read
    <2>2. /\ pc'[p] = job[p].then /\ \A q \in Processes \ {p} : pc'[q] = pc[q]
      BY <1>1, <2>1, Moving
    <2>3. job[p].then \in {"recover", "allocate", "attach"}
      BY <1>1, <2>1 DEF Task
    <2>4. ChainInOrder /\ pc'[p] \notin {"write", "sync"}
      BY <2>1, <2>2, <2>3 DEF ChainReadable
    <2> QED
      BY <1>2, <1>4, <1>5, <1>6, <2>2, <2>4, OrderQuiet
  <1>11. WipeTemp(p) => Fail(p) \/ UNCHANGED pc
    BY DEF WipeTemp
  <1> QED
    BY <1>7, <1>8, <1>9, <1>10, <1>11

LEMMA OrderRecovery ==
    ASSUME Inv, InOrder, NEW p \in Processes,
           Recovery(p) \/ Crash(p) \/ Again(p), ~Attest(p)
    PROVE  InOrder'
  <1> USE DEF directory, output, control, bounds
  <1>0. PICK m : m = subject[p]
    OBVIOUS
  <1>1. TypeOK /\ Held
    BY DEF Inv
  <1>2. UNCHANGED <<said, seq, verdict>>
    BY DEF Recovery, Open, Recover, RemoveUnbound, WipeRenamed, InstallIntent, ClearStage, Quarantine, Crash, Again
  <1>3. UNCHANGED live \/ (pc[p] = "retire" /\ live' = live \ {NextRetired(m)})
    BY <1>0 DEF Recovery, Open, Recover, RemoveUnbound, WipeRenamed, InstallIntent, ClearStage, Quarantine,
                Crash, Again, Interrupted
  <1>4. Published' = Published /\ (Marked' = Marked \/ (ChainInOrder /\ Marked' \subseteq Marked))
    <2>1. CASE UNCHANGED live
      BY <2>1 DEF Published, Marked
    <2>2. CASE pc[p] = "retire" /\ live' = live \ {NextRetired(m)}
      BY <2>2, NotAReceipt, Informed DEF Published, Marked
    <2> QED
      BY <1>3, <2>1, <2>2
  <1>5. \A q \in Processes \ {p} : job'[q] = job[q]
    BY <1>1 DEF Recovery, Open, Recover, RemoveUnbound, WipeRenamed, InstallIntent, ClearStage, Quarantine,
                Crash, Again, Set, TypeOK
  <1>6. lock = p \/ UNCHANGED live
    BY <1>1, <1>3 DEF Held, Locking
  <1>7. CASE Open(p) \/ Crash(p) \/ Again(p)
    <2>1. \E l \in {"temps", "crashed", "ended", "idle"} : Proceed(p, l) \/ Goto(p, l) \/ Take(p, "idle", l)
      BY <1>7 DEF Open, Crash, Again
    <2>2. pc'[p] \in {"temps", "crashed", "ended", "idle"} /\ \A q \in Processes \ {p} : pc'[q] = pc[q]
      BY <1>1, <2>1, Moving
    <2>3. pc'[p] \notin Locking \ {"temps"} /\ pc'[p] \notin {"write", "sync"}
      BY <2>2 DEF Locking
    <2> QED
      BY <1>2, <1>4, <1>5, <1>6, <2>2, <2>3, OrderQuiet
  <1>8. CASE Recover(p) \/ RemoveUnbound(p) \/ WipeRenamed(p) \/ ClearStage(p) \/ Quarantine(p)
    <2>1. \E l \in {"ready", "idle", "ended", "judge", "boundary", "attest", "quarantine"} :
             Proceed(p, l) \/ Goto(p, l)
      BY <1>8 DEF Recover, RemoveUnbound, WipeRenamed, ClearStage, Quarantine
    <2>2. /\ pc'[p] \in {"ready", "idle", "ended", "judge", "boundary", "attest", "quarantine"}
          /\ \A q \in Processes \ {p} : pc'[q] = pc[q]
      BY <1>1, <2>1, Moving
    <2>3. ChainInOrder
      BY <1>8, Informed DEF Recover, RemoveUnbound, WipeRenamed, ClearStage, Quarantine
    <2>4. pc'[p] \notin {"write", "sync"}
      BY <2>2
    <2> QED
      BY <1>2, <1>4, <1>5, <1>6, <2>2, <2>3, <2>4, OrderQuiet
  <1>9. CASE InstallIntent(p)
    <2>0. pc[p] = "judge" /\ ChainInOrder /\ UNCHANGED live /\ lock = p
      BY <1>1, <1>9, Informed DEF InstallIntent, Held, Locking
    <2>1. Marked' = Marked
      BY <2>0 DEF Marked
    <2>2. CASE Proceed(p, "ended")
      <3>1. pc'[p] = "ended" /\ \A q \in Processes \ {p} : pc'[q] = pc[q]
        BY <1>1, <2>2, Moving
      <3> QED
        BY <1>2, <1>4, <1>5, <2>0, <2>1, <3>1, OrderQuiet
    <2>3. CASE Set(p, Intent(m, Generation(m) + 1), "clear", "ended") /\ Proceed(p, "write")
      <3>1. pc'[p] = "write" /\ \A q \in Processes \ {p} : pc'[q] = pc[q]
        BY <1>1, <2>3, Moving
      <3>2. job'[p] = [name |-> Intent(m, Generation(m) + 1), then |-> "clear", else |-> "ended"]
        BY <1>1, <2>3, Setting
      <3>3. job'[p].then = "clear" /\ \A n \in Numbers : job'[p].name # Receipt(n)
        BY <3>2, Naming
      <3> QED
        BY <1>2, <1>4, <1>5, <2>0, <2>1, <3>1, <3>3, OrderStays
    <2> QED
      BY <1>0, <1>9, <2>2, <2>3 DEF InstallIntent
  <1> QED
    BY <1>7, <1>8, <1>9 DEF Recovery

\* A draft has the number that follows, or it overtakes the attempt in flight.
LEMMA OrderDrafting ==
    ASSUME Inv, InOrder, NEW p \in Processes, NEW m \in Runs, pc[p] \in {"attest", "attach"},
           Receipts(m) = {}, NEW s, NEW o, NEW b, NEW then \in {"boundary", "ended"}, NEW else,
           Say(m, s, o, b),
           s = IF then = "boundary" THEN Cardinality(Published) + 1 ELSE Max(Sequences \cup {0}) + 1,
           Set(p, Receipt(Cardinality(Published) + 1), then, else), Proceed(p, "write"),
           UNCHANGED <<live, seq, verdict>>
    PROVE  InOrder'
  <1>1. TypeOK /\ Held /\ ChainInOrder
    BY Informed DEF Inv
  <1>2. PICK n : n = Cardinality(Published) + 1
    OBVIOUS
  <1>3. n \in Numbers /\ n \in Nat /\ n \notin Published
    BY <1>1, <1>2, Room, Finite DEF Inv, Chained
  <1>4. /\ \A k \in Published : said'[k] = said[k]
        /\ said'[n] = [attempt |-> m, sequence |-> s, outcome |-> o, root |-> b]
    <2>1. said' = [said EXCEPT ![n] = [attempt |-> m, sequence |-> s, outcome |-> o, root |-> b]]
      BY <1>2 DEF Say
    <2>2. \A k \in Published : k \in Numbers /\ k # n
      BY <1>3 DEF Published
    <2> QED
      BY <1>1, <1>3, <2>1, <2>2 DEF TypeOK
  <1>5. Published' = Published /\ Marked' = Marked /\ \A r : Receipts(r)' = Receipts(r)
    <2>1. Published' = Published /\ Marked' = Marked
      BY DEF Published, Marked
    <2> QED
      BY <1>4, <2>1 DEF Receipts
  <1>6. pc'[p] = "write" /\ \A q \in Processes \ {p} : pc'[q] = pc[q]
    BY <1>1, Moving
  <1>7. job'[p] = [name |-> Receipt(n), then |-> then, else |-> else] /\ \A q \in Processes \ {p} : job'[q] = job[q]
    BY <1>1, <1>2, Setting
  <1>8. lock = p
    BY <1>1 DEF Held, Locking
  <1>9. CASE then = "boundary"
    <2>1. \A k \in Numbers : job'[p].name = Receipt(k) => Drafted(p, k)'
      BY <1>2, <1>4, <1>7, <1>9, Naming DEF Drafted
    <2> QED
      BY <1>1, <1>4, <1>5, <1>6, <1>7, <1>8, <1>9, <2>1, OrderStays
  <1>10. CASE then = "ended"
    <2>1. s = n => \A k \in Marked : Receipts(k) # {}
      <3> SUFFICES ASSUME NEW k \in Marked, Receipts(k) = {} PROVE s # n
        OBVIOUS
      <3>1. seq[k] = n /\ seq[k] \in Sequences
        BY <1>1, <1>2 DEF InOrder, Due, Sequences
      <3>2. n <= Max(Sequences \cup {0}) /\ Max(Sequences \cup {0}) \in Nat
        BY <1>1, <3>1, NextSequence
      <3> QED
        BY <1>3, <1>10, <3>2
    <2>2. s # n => Marked # {}
      BY <1>1, <1>2, <1>10, Latest
    <2>3. Drafted(p, n)'
      BY <1>4, <1>5, <1>7, <1>10, <2>1, <2>2 DEF Drafted
    <2>4. \A k \in Numbers : job'[p].name = Receipt(k) => Drafted(p, k)'
      BY <1>7, <2>3, Naming
    <2> QED
      BY <1>1, <1>4, <1>5, <1>6, <1>7, <1>8, <1>10, <2>4, OrderStays
  <1> QED
    BY <1>9, <1>10

LEMMA OrderAttest ==
    ASSUME Inv, InOrder, NEW p \in Processes, Attest(p)
    PROVE  InOrder'
  <1>0. PICK m : m = subject[p]
    OBVIOUS
  <1>1. TypeOK /\ Held /\ Charge(p)
    BY DEF Inv
  <1>2. pc[p] = "attest" /\ UNCHANGED <<live, seq, verdict>>
    BY DEF Attest, control
  <1>3. m \in Runs /\ Pending(m) /\ ChainInOrder
    BY <1>0, <1>1, <1>2, Informed DEF Charge, Charged, Dead
  <1>4. CASE Headroom(m)
    <2>1. /\ Say(m, seq[m], "interrupted", Binding(m) \in live)
          /\ Set(p, Receipt(Cardinality(Published) + 1), "boundary", "ended")
          /\ Proceed(p, "write")
      BY <1>0, <1>4 DEF Attest
    <2>2. Receipts(m) = {} /\ seq[m] = Cardinality(Published) + 1
      BY <1>3 DEF Pending, InOrder, Due, Marked
    <2> QED
      BY <1>2, <1>3, <2>1, <2>2, OrderDrafting
  <1>5. CASE ~Headroom(m)
    <2>1. Proceed(p, "ended") /\ UNCHANGED <<said, job>>
      BY <1>0, <1>5 DEF Attest
    <2>2. pc'[p] = "ended" /\ \A q \in Processes \ {p} : pc'[q] = pc[q]
      BY <1>1, <2>1, Moving
    <2>3. Published' = Published /\ Marked' = Marked
      BY <1>2 DEF Published, Marked
    <2> QED
      BY <1>2, <1>3, <2>1, <2>2, <2>3, OrderQuiet
  <1> QED
    BY <1>4, <1>5

LEMMA OrderAttempt ==
    ASSUME Inv, InOrder, NEW r \in Runs, Attempt(r)
    PROVE  InOrder'
  <1> USE DEF directory, output, control, bounds
  <1>1. r \in Processes /\ TypeOK /\ Held /\ Task(r) /\ Course(r)
    BY DEF Inv, Processes
  <1>2. UNCHANGED live
    BY DEF Attempt, FailEarly, Begin, Allocate, MakeStage, BindStage, Fill, BindInventory, Promote, Pass,
           Abandon, Settle, SettleFails, AppendReceipt, Attach, Unwind
  <1>3. Published' = Published /\ Marked' = Marked
    BY <1>2 DEF Published, Marked
  <1>4. CASE \/ FailEarly(r) \/ Begin(r) \/ AppendReceipt(r) \/ MakeStage(r) \/ Fill(r) \/ Promote(r) \/ Pass(r)
             \/ Abandon(r) \/ Settle(r) \/ SettleFails(r) \/ Unwind(r)
    <2> DEFINE next == {"early", "temps", "staged", "filled", "full", "promoted", "append", "settle", "settling", "ended"}
    <2>1. \/ UNCHANGED pc /\ pc[r] = "unwind"
          \/ \E l \in next : Goto(r, l) \/ \E k : Take(r, k, l)
      BY <1>4 DEF FailEarly, Begin, AppendReceipt, MakeStage, Fill, Promote, Pass, Abandon, Settle, SettleFails, Unwind
    <2>2. pc'[r] \in next \cup {"unwind"} /\ \A q \in Processes \ {r} : pc'[q] = pc[q]
      <3>1. CASE \E l \in next : Goto(r, l) \/ \E k : Take(r, k, l)
        <4>1. PICK l \in next : Goto(r, l) \/ \E k : Take(r, k, l)
          BY <3>1
        <4> HIDE DEF next
        <4>2. pc'[r] = l /\ \A q \in Processes \ {r} : pc'[q] = pc[q]
          BY <1>1, <4>1, Moving
        <4> QED
          BY <4>2
      <3> QED
        BY <2>1, <3>1
    <2>3. pc'[r] \notin {"write", "sync"} /\ pc'[r] \notin Locking \ {"temps"}
      BY <2>2 DEF Locking
    <2>4. UNCHANGED <<said, seq>> /\ \A q \in Processes \ {r} : job'[q] = job[q]
      BY <1>1, <1>4 DEF FailEarly, Begin, AppendReceipt, MakeStage, Fill, Promote, Pass, Abandon, Settle, SettleFails,
                        Unwind, Set, TypeOK
    <2>5. \A s \in Runs : verdict'[s] = verdict[s] \/ Receipts(s) = {}
      <3>1. UNCHANGED verdict \/ (pc[r] \in {"promoted", "settle", "settling"} /\ \A s \in Runs \ {r} : verdict'[s] = verdict[s])
        BY <1>1, <1>4 DEF FailEarly, Begin, AppendReceipt, MakeStage, Fill, Promote, Pass, Abandon, Settle, SettleFails,
                          Unwind, TypeOK
      <3>2. pc[r] \in {"promoted", "settle", "settling"} => Receipts(r) = {}
        BY <1>1 DEF Course, Underway, Ongoing, Pending
      <3> QED
        BY <3>1, <3>2
    <2> QED
      BY <1>1, <1>2, <1>3, <2>2, <2>3, <2>4, <2>5, OrderQuiet
  <1>5. CASE Allocate(r)
    <2>0. pc[r] = "allocate" /\ UNCHANGED <<said, verdict>> /\ ChainInOrder
      BY <1>1, <1>5, Informed DEF Allocate
    <2>1. CASE Marked # {}
      <3>1. Proceed(r, "ended") /\ UNCHANGED <<seq, job>>
        BY <1>5, <2>1 DEF Allocate
      <3>2. pc'[r] = "ended" /\ \A q \in Processes \ {r} : pc'[q] = pc[q]
        BY <1>1, <3>1, Moving
      <3> QED
        BY <1>1, <1>2, <1>3, <2>0, <3>1, <3>2, OrderQuiet
    <2>2. CASE Marked = {}
      <3>1. /\ seq' = [seq EXCEPT ![r] = Max(Sequences \cup {0}) + 1]
            /\ Set(r, Marker(r), "begun", "early") /\ Proceed(r, "write")
        BY <1>5, <2>2 DEF Allocate
      <3>2. seq'[r] = Cardinality(Published) + 1
        BY <1>1, <2>0, <2>2, <3>1, Latest DEF TypeOK
      <3>3. pc'[r] = "write" /\ \A q \in Processes \ {r} : pc'[q] = pc[q]
        BY <1>1, <3>1, Moving
      <3>4. /\ job'[r] = [name |-> Marker(r), then |-> "begun", else |-> "early"]
            /\ \A q \in Processes \ {r} : job'[q] = job[q]
        BY <1>1, <3>1, Setting
      <3>5. lock = r
        BY <1>1, <2>0 DEF Held, Locking
      <3>6. \A n \in Numbers : job'[r].name # Receipt(n)
        BY <3>4, Naming
      <3>7. \A m \in Marked' : seq'[m] = seq[m]
        BY <1>3, <2>2
      <3> QED
        BY <1>1, <1>3, <2>0, <3>2, <3>3, <3>4, <3>5, <3>6, <3>7, OrderStays
    <2> QED
      BY <2>1, <2>2
  <1>6. CASE BindStage(r) \/ BindInventory(r)
    <2>1. pc'[r] = "write" /\ \A q \in Processes \ {r} : pc'[q] = pc[q]
      BY <1>1, <1>6, Moving DEF BindStage, BindInventory, Take
    <2>2. /\ job'[r] \in {[name |-> Binding(r), then |-> "bound", else |-> "settle"],
                          [name |-> Inventory(r), then |-> "sealed", else |-> "settle"]}
          /\ \A q \in Processes \ {r} : job'[q] = job[q]
      <3>1. CASE BindStage(r)
        <4>1. Set(r, Binding(r), "bound", "settle")
          BY <3>1 DEF BindStage
        <4>2. /\ job'[r] = [name |-> Binding(r), then |-> "bound", else |-> "settle"]
              /\ \A q \in Processes \ {r} : job'[q] = job[q]
          BY <1>1, <4>1, Setting
        <4> QED
          BY <4>2
      <3>2. CASE BindInventory(r)
        <4>1. Set(r, Inventory(r), "sealed", "settle")
          BY <3>2 DEF BindInventory
        <4>2. /\ job'[r] = [name |-> Inventory(r), then |-> "sealed", else |-> "settle"]
              /\ \A q \in Processes \ {r} : job'[q] = job[q]
          BY <1>1, <4>1, Setting
        <4> QED
          BY <4>2
      <3> QED
        BY <1>6, <3>1, <3>2
    <2>3. UNCHANGED <<said, seq, verdict>>
      BY <1>6 DEF BindStage, BindInventory
    <2>4. Aside(r)' /\ job'[r].then # "begun"
      BY <2>1, <2>2 DEF Aside, Writing
    <2>5. \A n \in Numbers : job'[r].name # Receipt(n)
      BY <2>2, Naming
    <2> QED
      BY <1>1, <1>2, <1>3, <2>1, <2>2, <2>3, <2>4, <2>5, OrderStays
  <1>7. CASE Attach(r)
    <2>0. pc[r] = "attach" /\ UNCHANGED <<seq, verdict>> /\ Ripe(r) /\ ChainInOrder
      BY <1>1, <1>7, Informed DEF Attach, Course
    <2>1. Receipts(r) = {}
      BY <2>0 DEF Ripe, Pending, Fresh, Blank
    <2>2. CASE verdict[r] # "none" /\ ~(Marker(r) \in live /\ Headroom(r))
      <3>1. Proceed(r, "unwind") /\ UNCHANGED <<said, job>>
        BY <1>7, <2>2 DEF Attach
      <3>2. pc'[r] = "unwind" /\ \A q \in Processes \ {r} : pc'[q] = pc[q]
        BY <1>1, <3>1, Moving
      <3> QED
        BY <1>1, <1>2, <1>3, <2>0, <3>1, <3>2, OrderQuiet
    <2>3. CASE verdict[r] # "none" /\ Marker(r) \in live /\ Headroom(r)
      <3>1. /\ Say(r, seq[r], verdict[r], verdict[r] = "passed" \/ Binding(r) \in live)
            /\ Set(r, Receipt(Cardinality(Published) + 1), "boundary", "unwind")
            /\ Proceed(r, "write")
        BY <1>7, <2>3 DEF Attach
      <3>2. seq[r] = Cardinality(Published) + 1
        BY <2>0, <2>1, <2>3 DEF InOrder, Due, Marked
      <3> QED
        BY <1>1, <1>2, <2>0, <2>1, <3>1, <3>2, OrderDrafting
    <2>4. CASE verdict[r] = "none"
      <3>1. /\ Say(r, Max(Sequences \cup {0}) + 1, "failed", FALSE)
            /\ Set(r, Receipt(Cardinality(Published) + 1), "ended", "unwind")
            /\ Proceed(r, "write")
        BY <1>7, <2>4 DEF Attach
      <3> QED
        BY <1>1, <1>2, <2>0, <2>1, <3>1, OrderDrafting
    <2> QED
      BY <2>2, <2>3, <2>4
  <1> QED
    BY <1>4, <1>5, <1>6, <1>7 DEF Attempt

LEMMA OrderStutters ==
    ASSUME InOrder, UNCHANGED vars
    PROVE  InOrder'
  <1>1. UNCHANGED <<live, said, seq, pc, job, verdict>>
    BY DEF vars, directory, control
  <1>2. Published' = Published /\ Marked' = Marked /\ \A r : Receipts(r)' = Receipts(r)
    BY <1>1, SameFiles
  <1>3. (ChainInOrder' <=> ChainInOrder) /\ (OnlyTheLastBreaks' <=> OnlyTheLastBreaks)
    BY <1>1, <1>2 DEF ChainInOrder, OnlyTheLastBreaks
  <1>4. /\ \A p : Aside(p)' <=> Aside(p)
        /\ \A m : Due(m)' <=> Due(m)
        /\ \A p, n : Drafted(p, n)' <=> Drafted(p, n)
    BY <1>1, <1>2, <1>3 DEF Aside, Due, Drafted
  <1> QED
    BY <1>1, <1>2, <1>3, <1>4 DEF InOrder

LEMMA OrderInitially == Init => InOrder
  <1> SUFFICES ASSUME Init PROVE InOrder
    OBVIOUS
  <1>1. Published = {} /\ Marked = {} /\ ChainInOrder
    BY DEF Init, Published, Marked, ChainInOrder
  <1>2. \A p \in Processes : pc[p] = "idle"
    BY DEF Init
  <1> QED
    BY <1>1, <1>2 DEF InOrder, OnlyTheLastBreaks, Locking, Processes

\* However the attempts overlap, crash and fail: a receipt whose sequence is not its number is
\* the last one, and that of a run that never had a marker; nothing is appended, recovered or
\* retired beyond it, and an attempt that had a marker is receipted in order (11668,
\* 11764-11795, 12195-12224).
THEOREM BreaksAreLast == Spec => []OnlyTheLastBreaks
  <1>1. Inv /\ InOrder /\ [Next]_vars => InOrder'
    <2> SUFFICES ASSUME Inv, InOrder, [Next]_vars PROVE InOrder'
      OBVIOUS
    <2>1. ASSUME NEW p \in Processes, Locked(p) \/ Recovery(p) \/ Crash(p) \/ Again(p)
          PROVE  InOrder'
      BY <2>1, OrderPublish, OrderLocked, OrderRecovery, OrderAttest DEF Locked
    <2> QED
      BY <2>1, OrderAttempt, OrderStutters DEF Next
  <1>2. InOrder => OnlyTheLastBreaks
    BY DEF InOrder
  <1> QED
    BY <1>1, <1>2, OrderInitially, LedgerHolds, PTL DEF Spec

-----------------------------------------------------------------------------
(* The ledger implements the log *)

Chronicle ==
    [i \in 1..Cardinality(Standing) |-> [attempt |-> said[i].attempt, outcome |-> said[i].outcome]]

Syncing(p, n) == pc[p] = "sync" /\ job[p].name = Receipt(n)

\* Only the last receipt may not stand yet.
LEMMA WhatStands ==
    ASSUME Inv
    PROVE  /\ \A p \in Processes, n \in Published :
                Syncing(p, n) => n = Cardinality(Published) /\ Standing = 1..(n - 1)
           /\ (\A p \in Processes, n \in Published : ~Syncing(p, n)) => Standing = Published
  <1>1. PICK c \in Nat : c = Cardinality(Published)
    BY Finite
  <1>2. Published = 1..c
    BY <1>1 DEF Inv, Chained
  <1>3. Standing = {n \in Published : \A p \in Processes : ~Syncing(p, n)}
    BY DEF Standing, Syncing
  <1>4. ASSUME NEW p \in Processes, NEW n \in Published, Syncing(p, n)
        PROVE  n = c
    <2>1. Task(p) /\ Charge(p) /\ pc[p] \in Writing /\ job[p].name = Receipt(n) /\ n \in Numbers
      BY <1>4, Finite DEF Inv, Syncing, Writing
    <2>2. job[p].then \in {"boundary", "ended"}
      BY <2>1, Naming DEF Task
    <2> QED
      BY <1>1, <1>4, <2>1, <2>2 DEF Charge, Syncing
  <1>5. ASSUME NEW p \in Processes, NEW n \in Published, Syncing(p, n)
        PROVE  Standing = 1..(n - 1)
    BY <1>2, <1>3, <1>4, <1>5
  <1> QED
    BY <1>1, <1>3, <1>4, <1>5

\* The receipts that stand are numbered from one without a gap.
LEMMA StandingInOrder ==
    ASSUME Inv
    PROVE  \E n \in Nat : Standing = 1..n /\ Cardinality(Standing) = n
  <1>1. PICK c \in Nat : c = Cardinality(Published)
    BY Finite
  <1>2. Published = 1..c
    BY <1>1 DEF Inv, Chained
  <1>3. \E n \in Nat : Standing = 1..n
    <2>1. CASE \A p \in Processes, n \in Published : ~Syncing(p, n)
      BY <1>2, <2>1, WhatStands
    <2>2. ASSUME NEW p \in Processes, NEW n \in Published, Syncing(p, n)
          PROVE  \E k \in Nat : Standing = 1..k
      <3>1. n - 1 \in Nat
        BY <1>2
      <3> QED
        BY <2>2, <3>1, WhatStands
    <2> QED
      BY <2>1, <2>2
  <1> QED
    BY <1>3, FS_Interval

LEMMA LogStays ==
    ASSUME Inv, Standing' = Standing, \A n \in Published : said'[n] = said[n]
    PROVE  UNCHANGED Chronicle
  <1>1. PICK n \in Nat : Standing = 1..n /\ Cardinality(Standing) = n
    BY StandingInOrder
  <1>2. \A i \in 1..n : said'[i] = said[i]
    BY <1>1 DEF Standing
  <1>3. Cardinality(Standing') = n
    BY <1>1
  <1> QED
    BY <1>1, <1>2, <1>3 DEF Chronicle

LEMMA LogQuiet ==
    ASSUME Inv, NEW p \in Processes, pc[p] # "sync", pc'[p] # "sync",
           \A q \in Processes \ {p} : pc'[q] = pc[q] /\ job'[q] = job[q],
           Published' = Published, \A n \in Published : said'[n] = said[n]
    PROVE  UNCHANGED Chronicle
  <1>1. Standing' = Standing
    BY DEF Standing
  <1> QED
    BY <1>1, LogStays

\* A publication ends: the receipt it was of stands.
LEMMA LogGrows ==
    ASSUME Inv, Inv', NEW p \in Processes, pc[p] = "sync", pc'[p] # "sync",
           \A q \in Processes \ {p} : pc'[q] = pc[q] /\ job'[q] = job[q],
           Published' = Published, UNCHANGED said
    PROVE  Log!Next \/ UNCHANGED Chronicle
  <1>1. \A q \in Processes : \A n : Syncing(q, n) => q = p
    BY DEF Inv, Held, Syncing, Locking
  <1>2. \A q \in Processes : \A n : ~Syncing(q, n)'
    BY <1>1 DEF Syncing
  <1>3. Standing' = Published
    BY <1>2 DEF Standing, Syncing
  <1>4. CASE \A n \in Published : ~Syncing(p, n)
    <2>1. Standing = Published
      BY <1>1, <1>4, WhatStands
    <2> QED
      BY <1>3, <2>1, LogStays
  <1>5. CASE \E n \in Published : Syncing(p, n)
    <2>1. PICK n \in Published : Syncing(p, n)
      BY <1>5
    <2>2. n = Cardinality(Published) /\ Standing = 1..(n - 1)
      BY <2>1, WhatStands
    <2>3. Published = 1..n /\ n \in Numbers /\ n \in Nat /\ n - 1 \in Nat /\ (\A i \in 1..(n - 1) : i \in Published /\ i # n)
      BY <2>2, Finite DEF Inv, Chained
    <2>4. Cardinality(Standing) = n - 1 /\ Cardinality(Standing)' = n
      <3>1. \A k \in Nat : Cardinality(1..k) = k
        BY FS_Interval
      <3>2. Standing' = 1..n
        BY <1>3, <2>3
      <3>3. Cardinality(Standing') = n
        BY <2>3, <3>1, <3>2
      <3> QED
        BY <2>2, <2>3, <3>1, <3>3
    <2>5. PICK a : a = said[n].attempt
      OBVIOUS
    <2>6. PICK o : o = said[n].outcome
      OBVIOUS
    <2>7. a \in Runs /\ o \in {"passed", "failed", "interrupted"}
      BY <2>3, <2>5, <2>6 DEF Inv, Chained, Truthful
    <2>8. DOMAIN Chronicle = 1..(n - 1) /\ \A i \in 1..(n - 1) : Chronicle[i].attempt # a
      BY <2>3, <2>4, <2>5 DEF Chronicle, Inv, Chained
    <2>9. Chronicle' = [i \in 1..n |-> IF i = n THEN [attempt |-> a, outcome |-> o] ELSE Chronicle[i]]
      BY <2>3, <2>4, <2>5, <2>6 DEF Chronicle
    <2>10. Log!Close(a)
      BY <2>3, <2>7, <2>8, <2>9 DEF Log!Close, Chronicle
    <2> QED
      BY <2>7, <2>10 DEF Log!Next
  <1> QED
    BY <1>4, <1>5

\* A receipt that is written closes an attempt, and closes it for the first time.
LEMMA LogPublish ==
    ASSUME Inv, Inv', NEW p \in Processes, Publish(p)
    PROVE  Log!Next \/ UNCHANGED Chronicle
  <1> USE DEF directory, output, control, bounds
  <1>1. TypeOK /\ Task(p) /\ Charge(p) /\ lock = p /\ UNCHANGED said
    BY DEF Inv, Held, Locking, Publish, Write, Sync, WriteFails, SyncFails, Undo
  <1>2. CASE Sync(p)
    <2>1. pc[p] = "sync" /\ pc'[p] = job[p].then /\ UNCHANGED live
          /\ \A q \in Processes \ {p} : pc'[q] = pc[q] /\ job'[q] = job[q]
      BY <1>1, <1>2, Moving, Jobless DEF Sync
    <2>2. job[p].then # "sync"
      BY <1>1, <2>1 DEF Task, Writing
    <2>3. Published' = Published
      BY <2>1 DEF Published
    <2> QED
      BY <1>1, <2>1, <2>2, <2>3, LogGrows
  <1>3. CASE WriteFails(p) \/ Undo(p)
    <2>1. pc[p] \in {"write", "undo"} /\ pc'[p] = job[p].else /\ UNCHANGED live
          /\ \A q \in Processes \ {p} : pc'[q] = pc[q] /\ job'[q] = job[q]
      BY <1>1, <1>3, Moving, Jobless DEF WriteFails, Undo
    <2>2. job[p].else # "sync"
      BY <1>1, <2>1 DEF Task, Writing
    <2>3. Published' = Published
      BY <2>1 DEF Published
    <2> QED
      BY <1>1, <2>1, <2>2, <2>3, LogQuiet
  <1>4. CASE Write(p)
    <2>1. /\ pc[p] = "write" /\ pc'[p] = "sync" /\ UNCHANGED job /\ live' = live \cup {job[p].name}
          /\ job[p].name \notin live
          /\ \A q \in Processes \ {p} : pc'[q] = pc[q]
      BY <1>1, <1>4, Moving DEF Write
    <2>2. Standing' \subseteq Standing
      <3> SUFFICES ASSUME NEW n \in Standing' PROVE n \in Standing
        OBVIOUS
      <3>1. n \in Numbers /\ Receipt(n) \in live' /\ job[p].name # Receipt(n)
        BY <2>1 DEF Standing, Published
      <3> QED
        BY <2>1, <3>1 DEF Standing, Published
    <2>3. Standing \subseteq Standing'
      BY <2>1 DEF Standing, Published
    <2> QED
      BY <1>1, <2>2, <2>3, LogStays
  <1>5. CASE SyncFails(p)
    <2>1. /\ pc[p] = "sync" /\ pc'[p] = "undo" /\ UNCHANGED job /\ live' = live \ {job[p].name}
          /\ \A q \in Processes \ {p} : pc'[q] = pc[q]
      BY <1>1, <1>5, Moving DEF SyncFails
    <2>2. \A q \in Processes \ {p} : pc[q] # "sync"
      BY <1>1 DEF Inv, Held, Locking
    <2>3. Standing' = Standing
      BY <2>1, <2>2 DEF Standing, Published
    <2> QED
      BY <1>1, <2>3, LogStays
  <1> QED
    BY <1>2, <1>3, <1>4, <1>5 DEF Publish

LEMMA LogLocked ==
    ASSUME Inv, NEW p \in Processes,
           Read(p) \/ WipeTemp(p) \/ Boundary(p) \/ Retire(p) \/ TerminateFails(p)
    PROVE  UNCHANGED Chronicle
  <1> USE DEF directory, output, control, bounds
  <1>0. PICK m : m = subject[p]
    OBVIOUS
  <1>1. TypeOK /\ Task(p)
    BY DEF Inv
  <1>2. UNCHANGED said /\ pc[p] \in {"temps", "boundary", "retire"}
    BY DEF Read, WipeTemp, Boundary, Retire, TerminateFails
  <1>3. UNCHANGED live \/ live' = live \ {NextRetired(m)}
    BY <1>0 DEF Read, WipeTemp, Boundary, Retire, TerminateFails, Interrupted
  <1>4. Published' = Published
    BY <1>3, NotAReceipt DEF Published
  <1>5. \A q \in Processes \ {p} : job'[q] = job[q]
    BY <1>1, Jobless DEF Read, WipeTemp, Boundary, Retire, TerminateFails
  <1>6. CASE \E l \in {"unwind", "ended", "retire", "recover", "boundary"} : Proceed(p, l) \/ Goto(p, l)
    <2>1. /\ pc'[p] \in {"unwind", "ended", "retire", "recover", "boundary"}
          /\ \A q \in Processes \ {p} : pc'[q] = pc[q]
      BY <1>1, <1>6, Moving
    <2> QED
      BY <1>2, <1>4, <1>5, <2>1, LogQuiet
  <1>7. CASE Boundary(p) \/ Retire(p) \/ TerminateFails(p) \/ Fail(p)
    BY <1>6, <1>7 DEF Boundary, Retire, TerminateFails, Fail
  <1>8. CASE UNCHANGED pc
    BY <1>2, <1>4, <1>5, <1>8, LogQuiet
  <1>9. CASE Read(p) /\ Proceed(p, job[p].then)
    <2>1. /\ pc[p] = "temps" /\ pc'[p] = job[p].then /\ \A q \in Processes \ {p} : pc'[q] = pc[q]
      BY <1>1, <1>9, Moving DEF Read
    <2>2. job[p].then \in {"recover", "allocate", "attach"}
      BY <1>1, <2>1 DEF Task
    <2> QED
      BY <1>2, <1>4, <1>5, <2>1, <2>2, LogQuiet
  <1> QED
    BY <1>7, <1>8, <1>9 DEF Read, WipeTemp

LEMMA LogRecovery ==
    ASSUME Inv, NEW p \in Processes, Recovery(p) \/ Again(p), ~Attest(p)
    PROVE  UNCHANGED Chronicle
  <1> USE DEF directory, output, control, bounds
  <1>1. TypeOK
    BY DEF Inv
  <1>2. UNCHANGED <<said, live>> /\ pc[p] \in {"idle", "recover", "judge", "clear", "quarantine", "ended"}
    BY DEF Recovery, Open, Recover, RemoveUnbound, WipeRenamed, InstallIntent, ClearStage, Quarantine, Again, Take
  <1>3. \A q \in Processes \ {p} : job'[q] = job[q]
    BY <1>1 DEF Recovery, Open, Recover, RemoveUnbound, WipeRenamed, InstallIntent, ClearStage, Quarantine,
                Again, Set, TypeOK
  <1>4. \E l \in {"temps", "write", "ready", "idle", "ended", "judge", "boundary", "attest", "quarantine"} :
           Proceed(p, l) \/ Goto(p, l)
    BY DEF Recovery, Open, Recover, RemoveUnbound, WipeRenamed, InstallIntent, ClearStage, Quarantine, Again, Take
  <1>5. /\ pc'[p] \in {"temps", "write", "ready", "idle", "ended", "judge", "boundary", "attest", "quarantine"}
        /\ \A q \in Processes \ {p} : pc'[q] = pc[q]
    BY <1>1, <1>4, Moving
  <1>6. Published' = Published
    BY <1>2 DEF Published
  <1> QED
    BY <1>2, <1>3, <1>5, <1>6, LogQuiet

\* A crash leaves the receipts that stand as they are.
LEMMA LogCrash ==
    ASSUME Inv, Inv', NEW p \in Processes, Crash(p)
    PROVE  Log!Next \/ UNCHANGED Chronicle
  <1> USE DEF directory, output, control, bounds
  <1>0. PICK m : m = subject[p]
    OBVIOUS
  <1>1. TypeOK
    BY DEF Inv
  <1>2. UNCHANGED said
    BY DEF Crash
  <1>3. UNCHANGED live \/ live' = live \ {NextRetired(m)}
    BY <1>0 DEF Crash, Interrupted
  <1>4. Published' = Published
    BY <1>3, NotAReceipt DEF Published
  <1>5. \E l \in {"ended", "crashed"} : Proceed(p, l)
    BY DEF Crash
  <1>6. /\ pc'[p] \in {"ended", "crashed"}
        /\ \A q \in Processes \ {p} : pc'[q] = pc[q] /\ job'[q] = job[q]
    BY <1>1, <1>5, Moving, Jobless DEF Crash
  <1> QED
    BY <1>2, <1>4, <1>6, LogQuiet, LogGrows

\* A draft is no receipt yet.
LEMMA LogDrafting ==
    ASSUME Inv, NEW p \in Processes, NEW m \in Runs, Receipts(m) = {},
           pc[p] \in {"attest", "attach"}, NEW s, NEW o, NEW b, NEW then, NEW else,
           Say(m, s, o, b), Set(p, Receipt(Cardinality(Published) + 1), then, else), Proceed(p, "write"),
           UNCHANGED live
    PROVE  UNCHANGED Chronicle
  <1>1. TypeOK
    BY DEF Inv
  <1>2. PICK n : n = Cardinality(Published) + 1
    OBVIOUS
  <1>3. n \in Numbers /\ n \notin Published
    BY <1>1, <1>2, Room, Finite DEF Inv, Chained
  <1>4. \A k \in Published : said'[k] = said[k]
    <2>1. said' = [said EXCEPT ![n] = [attempt |-> m, sequence |-> s, outcome |-> o, root |-> b]]
      BY <1>2 DEF Say
    <2>2. \A k \in Published : k \in Numbers /\ k # n
      BY <1>3 DEF Published
    <2> QED
      BY <1>1, <1>3, <2>1, <2>2 DEF TypeOK
  <1>5. pc'[p] = "write" /\ (\A q \in Processes \ {p} : pc'[q] = pc[q] /\ job'[q] = job[q]) /\ Published' = Published
    BY <1>1, Moving, Setting DEF Published
  <1> QED
    BY <1>4, <1>5, LogQuiet

LEMMA LogAttest ==
    ASSUME Inv, NEW p \in Processes, Attest(p)
    PROVE  UNCHANGED Chronicle
  <1>0. PICK m : m = subject[p]
    OBVIOUS
  <1>1. TypeOK /\ Charge(p)
    BY DEF Inv
  <1>2. pc[p] = "attest" /\ UNCHANGED live
    BY DEF Attest
  <1>3. m \in Runs /\ Receipts(m) = {}
    BY <1>0, <1>1, <1>2 DEF Charge, Charged, Dead, Pending
  <1>4. CASE Headroom(m)
    <2>1. /\ Say(m, seq[m], "interrupted", Binding(m) \in live)
          /\ Set(p, Receipt(Cardinality(Published) + 1), "boundary", "ended")
          /\ Proceed(p, "write")
      BY <1>0, <1>4 DEF Attest
    <2> QED
      BY <1>2, <1>3, <2>1, LogDrafting
  <1>5. CASE ~Headroom(m)
    <2>1. Proceed(p, "ended") /\ UNCHANGED <<said, job>>
      BY <1>0, <1>5 DEF Attest
    <2>2. pc'[p] = "ended" /\ (\A q \in Processes \ {p} : pc'[q] = pc[q]) /\ Published' = Published
      BY <1>1, <1>2, <2>1, Moving DEF Published
    <2> QED
      BY <1>2, <2>1, <2>2, LogQuiet
  <1> QED
    BY <1>4, <1>5

LEMMA LogAttempt ==
    ASSUME Inv, NEW r \in Runs, Attempt(r)
    PROVE  UNCHANGED Chronicle
  <1> USE DEF directory, output, control, bounds
  <1>1. r \in Processes /\ TypeOK /\ Task(r) /\ Course(r)
    BY DEF Inv, Processes
  <1>2. UNCHANGED live /\ Published' = Published
    BY DEF Attempt, FailEarly, Begin, Allocate, MakeStage, BindStage, Fill, BindInventory, Promote, Pass,
           Abandon, Settle, SettleFails, AppendReceipt, Attach, Unwind, Published
  <1>3. CASE ~Attach(r)
    <2>1. UNCHANGED said /\ pc[r] # "sync"
      BY <1>3 DEF Attempt, FailEarly, Begin, Allocate, MakeStage, BindStage, Fill, BindInventory, Promote, Pass,
           Abandon, Settle, SettleFails, AppendReceipt, Unwind, Take
    <2>2. \A q \in Processes \ {r} : job'[q] = job[q]
      BY <1>1, <1>3 DEF Attempt, FailEarly, Begin, Allocate, MakeStage, BindStage, Fill, BindInventory, Promote,
           Pass, Abandon, Settle, SettleFails, AppendReceipt, Unwind, Set, TypeOK
    <2>3. \/ UNCHANGED pc
          \/ \E l \in {"early", "temps", "ended", "write", "staged", "filled", "full", "promoted", "append",
                       "settle", "settling"} : Proceed(r, l) \/ Goto(r, l)
      BY <1>3 DEF Attempt, FailEarly, Begin, Allocate, MakeStage, BindStage, Fill, BindInventory, Promote, Pass,
           Abandon, Settle, SettleFails, AppendReceipt, Unwind, Take
    <2>4. pc'[r] # "sync" /\ \A q \in Processes \ {r} : pc'[q] = pc[q]
      <3>1. CASE UNCHANGED pc
        BY <2>1, <3>1
      <3>2. ASSUME NEW l \in {"early", "temps", "ended", "write", "staged", "filled", "full", "promoted", "append",
                              "settle", "settling"}, Proceed(r, l) \/ Goto(r, l)
            PROVE  pc'[r] # "sync" /\ \A q \in Processes \ {r} : pc'[q] = pc[q]
        <4>1. pc'[r] = l /\ \A q \in Processes \ {r} : pc'[q] = pc[q]
          BY <1>1, <3>2, Moving
        <4> QED
          BY <4>1
      <3> QED
        BY <2>3, <3>1, <3>2
    <2> QED
      BY <1>1, <1>2, <2>1, <2>2, <2>4, LogQuiet
  <1>4. CASE Attach(r)
    <2>1. pc[r] = "attach" /\ Receipts(r) = {}
      BY <1>1, <1>4 DEF Attach, Course, Ripe, Pending, Fresh, Blank
    <2>2. CASE verdict[r] # "none" /\ ~(Marker(r) \in live /\ Headroom(r))
      <3>1. Proceed(r, "unwind") /\ UNCHANGED <<said, job>>
        BY <1>4, <2>2 DEF Attach
      <3>2. pc'[r] = "unwind" /\ \A q \in Processes \ {r} : pc'[q] = pc[q]
        BY <1>1, <3>1, Moving
      <3> QED
        BY <1>1, <1>2, <2>1, <3>1, <3>2, LogQuiet
    <2>3. CASE verdict[r] # "none" /\ Marker(r) \in live /\ Headroom(r)
      <3>1. /\ Say(r, seq[r], verdict[r], verdict[r] = "passed" \/ Binding(r) \in live)
            /\ Set(r, Receipt(Cardinality(Published) + 1), "boundary", "unwind")
            /\ Proceed(r, "write")
        BY <1>4, <2>3 DEF Attach
      <3> QED
        BY <1>1, <1>2, <2>1, <3>1, LogDrafting
    <2>4. CASE verdict[r] = "none"
      <3>1. /\ Say(r, Max(Sequences \cup {0}) + 1, "failed", FALSE)
            /\ Set(r, Receipt(Cardinality(Published) + 1), "ended", "unwind")
            /\ Proceed(r, "write")
        BY <1>4, <2>4 DEF Attach
      <3> QED
        BY <1>1, <1>2, <2>1, <3>1, LogDrafting
    <2> QED
      BY <2>2, <2>3, <2>4
  <1> QED
    BY <1>3, <1>4

LEMMA LogStarts == Init => Log!Init
  <1> SUFFICES ASSUME Init PROVE Log!Init
    OBVIOUS
  <1>1. Standing = {}
    BY DEF Init, Standing, Published
  <1>2. Cardinality(Standing) = 0
    BY <1>1, FS_EmptySet
  <1> QED
    BY <1>2 DEF Log!Init

\* The ledger implements the log, for every number of runs and of parents, crashes and
\* failures, and even when attempts overlap: a receipt that stands is never changed or
\* withdrawn, and no attempt is closed twice, by itself and by a recovery, or by two
\* recoveries (11646-11761, 12648-12796).
THEOREM LedgerImplementsLog == Spec => ClosesOnce
  <1>1. Inv /\ Inv' /\ [Next]_vars => Log!Next \/ UNCHANGED Chronicle
    <2> SUFFICES ASSUME Inv, Inv', [Next]_vars PROVE Log!Next \/ UNCHANGED Chronicle
      OBVIOUS
    <2>1. ASSUME NEW p \in Processes, Locked(p) \/ Recovery(p) \/ Crash(p) \/ Again(p)
          PROVE  Log!Next \/ UNCHANGED Chronicle
      BY <2>1, LogPublish, LogLocked, LogRecovery, LogAttest, LogCrash DEF Locked
    <2>2. CASE UNCHANGED vars
      <3>1. UNCHANGED <<live, said, pc, job>>
        BY <2>2 DEF vars, directory
      <3>2. Standing' = Standing
        BY <3>1 DEF Standing, Published
      <3> QED
        BY <3>1, <3>2, LogStays
    <2> QED
      BY <2>1, <2>2, LogAttempt DEF Next
  <1>2. Inv /\ Inv' /\ [Next]_vars => [Log!Next]_(Chronicle)
    BY <1>1
  <1> QED
    BY <1>2, LogStarts, LedgerHolds, PTL DEF Spec, ClosesOnce, Log!Spec, Chronicle

-----------------------------------------------------------------------------
(* Invariant *)

Frames(types) == [type : types, id : Nat, bad : BOOLEAN]
Inward == Frames({"sample", "failure"})
Outward == Frames({"init", "force", "stop", "ack"})

\* Types of what the threads share.
ChannelTypes ==
    /\ toWorker \in Seq(Inward) /\ toLauncher \in Seq(Outward)
    /\ workerShut \in {"open", "half", "closed"} /\ launcherShut \in {"open", "half", "closed"}
LabelTypes ==
    /\ wpc \in {"boot", "starting", "work", "waiting", "stop", "terminal", "join", "shut", "settled",
                "exited", "killed"}
    /\ rpc \in {"off", "read", "eof", "dead"}
    /\ opc \in {"init", "acquire", "publish", "posted", "idle", "eof", "deliver", "done"}
    /\ spc \in {"watch", "deliver", "done"}
    /\ mpc \in {"read", "wait", "grace", "kill", "join", "ended"}
    /\ outcome \in {"none", "report", "failed"}
WorkerFlags ==
    /\ handler \in BOOLEAN /\ aborted \in BOOLEAN /\ signalled \in BOOLEAN
    /\ failure \in BOOLEAN /\ surfaced \in BOOLEAN /\ owned \in BOOLEAN
    /\ stopAsked \in BOOLEAN /\ stopped \in BOOLEAN /\ told \in BOOLEAN
LauncherFlags ==
    /\ latched \in BOOLEAN /\ acked \in BOOLEAN /\ started \in BOOLEAN
    /\ code \in BOOLEAN /\ published \in BOOLEAN /\ delivered \in BOOLEAN /\ sent \in BOOLEAN
    /\ stopAck \in BOOLEAN /\ error \in BOOLEAN /\ grace \in BOOLEAN
SampleTypes ==
    /\ ask \in [id : Nat, why : {"start", "boundary", "late", "terminal"}]
    /\ expected \subseteq Nat /\ completed \subseteq Nat /\ final \in Nat
    /\ current \in [kind : {"none", "startup", "forced", "terminal", "continuous"}, id : Nat,
                    bad : BOOLEAN, mine : BOOLEAN]
ObserverTypes == ChannelTypes /\ LabelTypes /\ WorkerFlags /\ LauncherFlags /\ SampleTypes

Early == wpc \in {"boot", "starting", "work", "waiting"}
Over == wpc \in {"settled", "exited"}
Leaving == wpc \in {"join", "shut", "settled", "exited"}

\* The worker's side of the pair, and its two threads.
AtWork ==
    /\ wpc = "boot" => rpc = "off" /\ ~handler /\ ~signalled /\ completed = {}
    /\ Early /\ wpc # "boot" => handler /\ rpc \in {"read", "dead"}
    /\ Early => /\ ~aborted /\ ~stopAsked /\ ~stopped /\ workerShut = "open"
                /\ told \/ rpc = "dead" => signalled
    /\ \A i \in expected \cup completed \cup {final} : i <= ask.id

\* What the transaction ends with.
Attested ==
    /\ wpc \in {"boot", "starting"} => ~owned
    /\ wpc = "waiting" => ask.id > 0
    /\ owned => wpc = "killed" \/ failure \/ surfaced \/ (wpc = "waiting" /\ ask.id \notin completed)
    /\ Leaving => failure \/ surfaced \/ ask.id \in completed
    /\ Over => rpc \in {"off", "dead"} /\ (failure => surfaced)

\* What the observer has sampled and said.
Reserved ==
    /\ current.bad \/ current.mine => code
    /\ current.mine => current.bad
    /\ opc \in {"eof"} => current.kind = "terminal"
    /\ stopAck => opc = "done" /\ current.kind = "terminal"
    /\ mpc = "wait" /\ ~error => code

\* A notice that the worker has not taken in yet, or that it is about to be aborted for.
Bad == \E i \in 1..Len(toWorker) : toWorker[i].bad
Noticed == Early => signalled \/ (rpc \in {"off", "read"} /\ Bad)

\* The observer failed before it was started, and nothing is ever sampled.
Samples == \E i \in 1..Len(toWorker) : toWorker[i].type = "sample"
Unsampled == ~Samples /\ completed = {} /\ rpc # "eof" /\ wpc \notin {"work", "waiting"}
NeverStarts == Unsampled /\ code /\ opc \in {"init", "acquire", "deliver", "done"}

Honest == \A i \in 1..Len(toWorker) : toWorker[i].type = "failure" => toWorker[i].bad
Stops == \E i \in 1..Len(toLauncher) : toLauncher[i].type = "stop"

Served ==
    /\ Honest
    /\ 0 \in completed \/ wpc \notin {"work", "waiting"}
    /\ opc = "init" => ~started
    /\ ~started => Unsampled /\ opc \in {"init", "deliver", "done"}
    /\ delivered \/ (opc = "posted" /\ current.mine) => Noticed
    /\ stopAck \/ current.kind = "terminal" => ~Early
    /\ Stops => ~Early
    /\ mpc = "grace" \/ (grace /\ mpc = "read") => Noticed \/ NeverStarts

Reported ==
    /\ mpc = "join" /\ ~error => Gone
    /\ outcome = "report" =>
          /\ mpc = "ended" /\ opc = "done" /\ spc # "deliver" /\ ~code
          /\ wpc = "exited" /\ ~surfaced /\ stopAck
    /\ mpc = "ended" => opc = "done" /\ spc # "deliver"

ObserverInv == ObserverTypes /\ AtWork /\ Attested /\ Reserved /\ Served /\ Reported

-----------------------------------------------------------------------------
(* The frames under way *)

\* A frame is added at the end of a channel.
LEMMA Arrives ==
    ASSUME NEW S, NEW s \in Seq(S), NEW f \in S
    PROVE  /\ Append(s, f) \in Seq(S) /\ Len(Append(s, f)) = Len(s) + 1 /\ Len(s) \in Nat
           /\ \A i \in 1..Len(s) : Append(s, f)[i] = s[i]
           /\ Append(s, f)[Len(s) + 1] = f
           /\ Append(s, f) # <<>>
  OBVIOUS

\* The first frame of a channel is taken out.
LEMMA Leaves ==
    ASSUME NEW S, NEW s \in Seq(S), s # <<>>
    PROVE  /\ Head(s) \in S /\ Head(s) = s[1]
           /\ Tail(s) \in Seq(S) /\ Len(s) \in Nat \ {0} /\ Len(Tail(s)) = Len(s) - 1
           /\ \A i \in 1..Len(Tail(s)) : Tail(s)[i] = s[i + 1]
  BY HeadTailProperties

\* What a frame sent to the worker makes of its channel.
LEMMA WorkerGets ==
    ASSUME ObserverTypes, NEW f \in Inward, toWorker' = Append(toWorker, f)
    PROVE  /\ toWorker' \in Seq(Inward) /\ toWorker' # <<>>
           /\ (Bad \/ f.bad) => Bad'
           /\ Samples' => Samples \/ f.type = "sample"
           /\ Honest /\ (f.type = "failure" => f.bad) => Honest'
  <1>0. toWorker \in Seq(Inward)
    BY DEF ObserverTypes, ChannelTypes
  <1>1. PICK n \in Nat : n = Len(toWorker)
    BY <1>0
  <1>2. /\ toWorker' \in Seq(Inward) /\ toWorker' # <<>> /\ Len(toWorker') = n + 1
        /\ \A i \in 1..n : toWorker'[i] = toWorker[i]
        /\ toWorker'[n + 1] = f
    BY <1>0, <1>1, Arrives
  <1> QED
    BY <1>1, <1>2 DEF Bad, Samples, Honest

\* What is left for the worker once it has read a frame.
LEMMA WorkerReads ==
    ASSUME ObserverTypes, toWorker # <<>>, toWorker' = Tail(toWorker)
    PROVE  /\ toWorker' \in Seq(Inward) /\ Head(toWorker) \in Inward
           /\ Bad => Bad' \/ Head(toWorker).bad
           /\ Samples' => Samples
           /\ Head(toWorker).type = "sample" => Samples
           /\ Honest => Honest' /\ (Head(toWorker).type = "failure" => Head(toWorker).bad)
  <1>0. toWorker \in Seq(Inward)
    BY DEF ObserverTypes, ChannelTypes
  <1>1. PICK n \in Nat \ {0} : n = Len(toWorker)
    BY <1>0, Leaves
  <1>2. /\ toWorker' \in Seq(Inward) /\ Len(toWorker') = n - 1
        /\ \A i \in 1..(n - 1) : toWorker'[i] = toWorker[i + 1]
        /\ Head(toWorker) \in Inward /\ Head(toWorker) = toWorker[1]
    BY <1>0, <1>1, Leaves
  <1>3. Bad => Bad' \/ Head(toWorker).bad
    <2> SUFFICES ASSUME NEW i \in 1..n, toWorker[i].bad PROVE Bad' \/ Head(toWorker).bad
      BY <1>1 DEF Bad
    <2>1. CASE i = 1
      BY <1>2, <2>1
    <2>2. CASE i # 1
      <3>1. i - 1 \in 1..(n - 1) /\ toWorker'[i - 1] = toWorker[i]
        BY <1>2, <2>2
      <3> QED
        BY <1>2, <3>1 DEF Bad
    <2> QED
      BY <2>1, <2>2
  <1>4. \A i \in 1..(n - 1) : i + 1 \in 1..n
    OBVIOUS
  <1>5. 1 \in 1..n
    OBVIOUS
  <1> QED
    BY <1>1, <1>2, <1>3, <1>4, <1>5 DEF Samples, Honest

\* What a frame sent to the launcher makes of its channel.
LEMMA LauncherGets ==
    ASSUME ObserverTypes, NEW f \in Outward, toLauncher' = Append(toLauncher, f)
    PROVE  toLauncher' \in Seq(Outward) /\ (Stops' => Stops \/ f.type = "stop")
  <1>0. toLauncher \in Seq(Outward)
    BY DEF ObserverTypes, ChannelTypes
  <1>1. PICK n \in Nat : n = Len(toLauncher)
    BY <1>0
  <1>2. /\ toLauncher' \in Seq(Outward) /\ Len(toLauncher') = n + 1
        /\ \A i \in 1..n : toLauncher'[i] = toLauncher[i]
        /\ toLauncher'[n + 1] = f
    BY <1>0, <1>1, Arrives
  <1> QED
    BY <1>1, <1>2 DEF Stops

\* What is left for the launcher once it has read a frame.
LEMMA LauncherReads ==
    ASSUME ObserverTypes, toLauncher # <<>>, toLauncher' = Tail(toLauncher)
    PROVE  /\ toLauncher' \in Seq(Outward) /\ Head(toLauncher) \in Outward
           /\ Stops' => Stops
           /\ Head(toLauncher).type = "stop" => Stops
  <1>0. toLauncher \in Seq(Outward)
    BY DEF ObserverTypes, ChannelTypes
  <1>1. PICK n \in Nat \ {0} : n = Len(toLauncher)
    BY <1>0, Leaves
  <1>2. /\ toLauncher' \in Seq(Outward) /\ Len(toLauncher') = n - 1
        /\ \A i \in 1..(n - 1) : toLauncher'[i] = toLauncher[i + 1]
        /\ Head(toLauncher) \in Outward /\ Head(toLauncher) = toLauncher[1]
    BY <1>0, <1>1, Leaves
  <1>3. 1 \in 1..n /\ \A i \in 1..(n - 1) : i + 1 \in 1..n
    OBVIOUS
  <1> QED
    BY <1>1, <1>2, <1>3 DEF Stops

LEMMA SameToWorker ==
    ASSUME toWorker' = toWorker
    PROVE  (Bad' <=> Bad) /\ (Samples' <=> Samples) /\ (Honest' <=> Honest)
  BY DEF Bad, Samples, Honest

LEMMA SameToLauncher ==
    ASSUME toLauncher' = toLauncher
    PROVE  Stops' <=> Stops
  BY DEF Stops

LEMMA NothingToWorker ==
    ASSUME toWorker' = <<>>
    PROVE  toWorker' \in Seq(Inward) /\ ~Bad' /\ ~Samples' /\ Honest'
  BY DEF Bad, Samples, Honest

LEMMA SendsToWorker ==
    ASSUME ObserverTypes, NEW f \in Inward, ToWorker(f), f.type = "failure", f.bad
    PROVE  /\ toWorker' \in Seq(Inward)
           /\ (Bad => Bad') /\ (Reachable => Bad')
           /\ Samples' => Samples
           /\ Honest => Honest'
  <1>1. CASE toWorker' = toWorker /\ ~Reachable
    BY <1>1, SameToWorker DEF ObserverTypes, ChannelTypes
  <1>2. CASE toWorker' = Append(toWorker, f)
    BY <1>2, WorkerGets
  <1> QED
    BY <1>1, <1>2 DEF ToWorker

LEMMA SendsToLauncher ==
    ASSUME ObserverTypes, NEW f \in Outward, ToLauncher(f)
    PROVE  toLauncher' \in Seq(Outward) /\ (Stops' => Stops \/ f.type = "stop")
  <1>1. CASE toLauncher' = toLauncher
    BY <1>1, SameToLauncher DEF ObserverTypes, ChannelTypes
  <1>2. CASE toLauncher' = Append(toLauncher, f)
    BY <1>2, LauncherGets
  <1> QED
    BY <1>1, <1>2 DEF ToLauncher

LEMMA Framed ==
    /\ Frame("failure", 0, TRUE) \in Inward
    /\ Frame("failure", 0, TRUE).type = "failure" /\ Frame("failure", 0, TRUE).bad
    /\ \A n \in Nat : \A b \in BOOLEAN :
          /\ Frame("sample", n, b) \in Inward
          /\ Frame("sample", n, b).type = "sample" /\ (Frame("sample", n, b).bad <=> b)
    /\ \A n \in Nat : \A t \in {"init", "force", "stop", "ack"} :
          Frame(t, n, FALSE) \in Outward /\ Frame(t, n, FALSE).type = t
  BY DEF Frame, Inward, Outward, Frames

LEMMA LauncherHeads ==
    ASSUME ObserverTypes, toLauncher # <<>>
    PROVE  Head(toLauncher) \in Outward /\ (Head(toLauncher).type = "stop" => Stops)
  <1>0. toLauncher \in Seq(Outward)
    BY DEF ObserverTypes, ChannelTypes
  <1>1. Head(toLauncher) \in Outward /\ Head(toLauncher) = toLauncher[1] /\ 1 \in 1..Len(toLauncher)
    BY <1>0, Leaves
  <1> QED
    BY <1>1 DEF Stops

\* The worker: its process starts, works, asks for samples, ends its transaction and leaves.
LEMMA KeepsBoot ==
    ASSUME ObserverInv, Boot
    PROVE  ObserverInv'
  <1> USE DEF channels, monitor, transaction, watchdog, main, receiver, observer, publication, launcher
  <1>1. ObserverTypes /\ AtWork /\ Attested /\ Reserved /\ Served /\ Reported
    BY DEF ObserverInv
  <1>2. /\ toWorker' \in Seq(Inward) /\ (toWorker' = <<>> <=> toWorker = <<>>)
        /\ (Bad' <=> Bad) /\ (Samples' <=> Samples) /\ (Honest' <=> Honest)
    <2>1. toWorker' = toWorker
      BY DEF Boot
    <2> QED
      BY <1>1, <2>1, SameToWorker DEF ObserverTypes, ChannelTypes
  <1>3. toLauncher' \in Seq(Outward) /\ (Stops' => Stops)
    <2>1. toLauncher' = toLauncher \/ ToLauncher(Frame("init", 0, FALSE))
      BY DEF Boot
    <2>2. ask.id + 1 \in Nat
      BY <1>1 DEF ObserverTypes, SampleTypes
    <2> QED
      BY <1>1, <2>1, <2>2, SameToLauncher, SendsToLauncher, Framed DEF ObserverTypes, ChannelTypes
  <1>4. ObserverTypes'
    <2>1. ChannelTypes'
      BY <1>1, <1>2, <1>3 DEF Boot, ObserverTypes, ChannelTypes
    <2>2. LabelTypes'
      BY <1>1, <1>2, <1>3 DEF Boot, ObserverTypes, LabelTypes
    <2>3. WorkerFlags'
      BY <1>1, <1>2, <1>3 DEF Boot, ObserverTypes, WorkerFlags
    <2>4. LauncherFlags'
      BY <1>1, <1>2, <1>3 DEF Boot, ObserverTypes, LauncherFlags
    <2>5. SampleTypes'
      BY <1>1, <1>2, <1>3 DEF Boot, ObserverTypes, SampleTypes
    <2> QED
      BY <2>1, <2>2, <2>3, <2>4, <2>5 DEF ObserverTypes
  <1>5. AtWork'
    BY <1>1, <1>2, <1>3 DEF Boot, ObserverTypes, LabelTypes, WorkerFlags, LauncherFlags, SampleTypes, AtWork, Attested, Reserved, Served, Reported, Early, Leaving, Over, Gone, Noticed, NeverStarts, Unsampled
  <1>6. Attested'
    BY <1>1, <1>2, <1>3 DEF Boot, ObserverTypes, LabelTypes, WorkerFlags, LauncherFlags, SampleTypes, AtWork, Attested, Reserved, Served, Reported, Early, Leaving, Over, Gone, Noticed, NeverStarts, Unsampled
  <1>7. Reserved'
    BY <1>1, <1>2, <1>3 DEF Boot, ObserverTypes, LabelTypes, WorkerFlags, LauncherFlags, SampleTypes, AtWork, Attested, Reserved, Served, Reported, Early, Leaving, Over, Gone, Noticed, NeverStarts, Unsampled
  <1>8. Served'
    BY <1>1, <1>2, <1>3 DEF Boot, ObserverTypes, LabelTypes, WorkerFlags, LauncherFlags, SampleTypes, AtWork, Attested, Reserved, Served, Reported, Early, Leaving, Over, Gone, Noticed, NeverStarts, Unsampled
  <1>9. Reported'
    BY <1>1, <1>2, <1>3 DEF Boot, ObserverTypes, LabelTypes, WorkerFlags, LauncherFlags, SampleTypes, AtWork, Attested, Reserved, Served, Reported, Early, Leaving, Over, Gone, Noticed, NeverStarts, Unsampled
  <1> QED
    BY <1>4, <1>5, <1>6, <1>7, <1>8, <1>9 DEF ObserverInv

LEMMA KeepsStarted ==
    ASSUME ObserverInv, Started
    PROVE  ObserverInv'
  <1> USE DEF channels, monitor, transaction, watchdog, main, receiver, observer, publication, launcher
  <1>1. ObserverTypes /\ AtWork /\ Attested /\ Reserved /\ Served /\ Reported
    BY DEF ObserverInv
  <1>2. /\ toWorker' \in Seq(Inward) /\ (toWorker' = <<>> <=> toWorker = <<>>)
        /\ (Bad' <=> Bad) /\ (Samples' <=> Samples) /\ (Honest' <=> Honest)
    <2>1. toWorker' = toWorker
      BY DEF Started
    <2> QED
      BY <1>1, <2>1, SameToWorker DEF ObserverTypes, ChannelTypes
  <1>3. toLauncher' \in Seq(Outward) /\ (Stops' <=> Stops)
    <2>1. toLauncher' = toLauncher
      BY DEF Started
    <2> QED
      BY <1>1, <2>1, SameToLauncher DEF ObserverTypes, ChannelTypes
  <1>4. ObserverTypes'
    <2>1. ChannelTypes'
      BY <1>1, <1>2, <1>3 DEF Started, Surface, ObserverTypes, ChannelTypes
    <2>2. LabelTypes'
      BY <1>1, <1>2, <1>3 DEF Started, Surface, ObserverTypes, LabelTypes
    <2>3. WorkerFlags'
      BY <1>1, <1>2, <1>3 DEF Started, Surface, ObserverTypes, WorkerFlags
    <2>4. LauncherFlags'
      BY <1>1, <1>2, <1>3 DEF Started, Surface, ObserverTypes, LauncherFlags
    <2>5. SampleTypes'
      BY <1>1, <1>2, <1>3 DEF Started, Surface, ObserverTypes, SampleTypes
    <2> QED
      BY <2>1, <2>2, <2>3, <2>4, <2>5 DEF ObserverTypes
  <1>5. AtWork'
    BY <1>1, <1>2, <1>3 DEF Started, Surface, ObserverTypes, LabelTypes, WorkerFlags, LauncherFlags, SampleTypes, AtWork, Attested, Reserved, Served, Reported, Early, Leaving, Over, Gone, Noticed, NeverStarts, Unsampled
  <1>6. Attested'
    BY <1>1, <1>2, <1>3 DEF Started, Surface, ObserverTypes, LabelTypes, WorkerFlags, LauncherFlags, SampleTypes, AtWork, Attested, Reserved, Served, Reported, Early, Leaving, Over, Gone, Noticed, NeverStarts, Unsampled
  <1>7. Reserved'
    BY <1>1, <1>2, <1>3 DEF Started, Surface, ObserverTypes, LabelTypes, WorkerFlags, LauncherFlags, SampleTypes, AtWork, Attested, Reserved, Served, Reported, Early, Leaving, Over, Gone, Noticed, NeverStarts, Unsampled
  <1>8. Served'
    BY <1>1, <1>2, <1>3 DEF Started, Surface, ObserverTypes, LabelTypes, WorkerFlags, LauncherFlags, SampleTypes, AtWork, Attested, Reserved, Served, Reported, Early, Leaving, Over, Gone, Noticed, NeverStarts, Unsampled
  <1>9. Reported'
    BY <1>1, <1>2, <1>3 DEF Started, Surface, ObserverTypes, LabelTypes, WorkerFlags, LauncherFlags, SampleTypes, AtWork, Attested, Reserved, Served, Reported, Early, Leaving, Over, Gone, Noticed, NeverStarts, Unsampled
  <1> QED
    BY <1>4, <1>5, <1>6, <1>7, <1>8, <1>9 DEF ObserverInv

LEMMA KeepsAsk ==
    ASSUME ObserverInv, Ask
    PROVE  ObserverInv'
  <1> USE DEF channels, monitor, transaction, watchdog, main, receiver, observer, publication, launcher
  <1>1. ObserverTypes /\ AtWork /\ Attested /\ Reserved /\ Served /\ Reported
    BY DEF ObserverInv
  <1>2. /\ toWorker' \in Seq(Inward) /\ (toWorker' = <<>> <=> toWorker = <<>>)
        /\ (Bad' <=> Bad) /\ (Samples' <=> Samples) /\ (Honest' <=> Honest)
    <2>1. toWorker' = toWorker
      BY DEF Ask
    <2> QED
      BY <1>1, <2>1, SameToWorker DEF ObserverTypes, ChannelTypes
  <1>3. toLauncher' \in Seq(Outward) /\ (Stops' => Stops)
    <2>1. toLauncher' = toLauncher \/ ToLauncher(Frame("force", ask.id + 1, FALSE))
      BY DEF Ask
    <2>2. ask.id + 1 \in Nat
      BY <1>1 DEF ObserverTypes, SampleTypes
    <2> QED
      BY <1>1, <2>1, <2>2, SameToLauncher, SendsToLauncher, Framed DEF ObserverTypes, ChannelTypes
  <1>4. ObserverTypes'
    <2>1. ChannelTypes'
      BY <1>1, <1>2, <1>3 DEF Ask, Surface, ObserverTypes, ChannelTypes
    <2>2. LabelTypes'
      BY <1>1, <1>2, <1>3 DEF Ask, Surface, ObserverTypes, LabelTypes
    <2>3. WorkerFlags'
      BY <1>1, <1>2, <1>3 DEF Ask, Surface, ObserverTypes, WorkerFlags
    <2>4. LauncherFlags'
      BY <1>1, <1>2, <1>3 DEF Ask, Surface, ObserverTypes, LauncherFlags
    <2>5. SampleTypes'
      <3>1. ask.id \in Nat /\ ask.id + 1 \in Nat /\ ask \in [id : Nat, why : {"start", "boundary", "late", "terminal"}]
        BY <1>1 DEF ObserverTypes, SampleTypes
      <3>2. \/ UNCHANGED <<ask, expected>>
            \/ /\ \E why \in {"boundary", "late", "terminal"} : ask' = [id |-> ask.id + 1, why |-> why]
               /\ expected' = expected \cup {ask.id + 1}
        BY DEF Ask
      <3>3. ask' \in [id : Nat, why : {"start", "boundary", "late", "terminal"}]
        BY <3>1, <3>2
      <3>4. expected' \subseteq Nat
        BY <1>1, <3>1, <3>2 DEF ObserverTypes, SampleTypes
      <3> QED
        BY <1>1, <3>3, <3>4 DEF Ask, ObserverTypes, SampleTypes
    <2> QED
      BY <2>1, <2>2, <2>3, <2>4, <2>5 DEF ObserverTypes
  <1>5. AtWork'
    <2>1. ask.id \in Nat /\ expected \subseteq Nat /\ completed \subseteq Nat /\ final \in Nat
      BY <1>1 DEF ObserverTypes, SampleTypes
    <2>2. \/ UNCHANGED <<ask, expected>>
          \/ ask'.id = ask.id + 1 /\ expected' = expected \cup {ask.id + 1}
      <3>1. \/ UNCHANGED <<ask, expected>>
            \/ /\ \E why \in {"boundary", "late"} : ask' = [id |-> ask.id + 1, why |-> why]
               /\ expected' = expected \cup {ask.id + 1}
        BY DEF Ask
      <3>2. \A why : [id |-> ask.id + 1, why |-> why].id = ask.id + 1
        OBVIOUS
      <3> QED
        BY <3>1, <3>2
    <2>4. UNCHANGED <<completed, final>>
      BY DEF Ask
    <2>5. \A i \in expected \cup completed \cup {final} : i \in Nat /\ i <= ask.id
      BY <1>1, <2>1 DEF AtWork
    <2>6. ask' = ask /\ expected' = expected => \A i \in expected' \cup completed' \cup {final'} : i <= ask'.id
      BY <2>4, <2>5
    <2>7. ASSUME ask'.id = ask.id + 1, expected' = expected \cup {ask.id + 1}
          PROVE  \A i \in expected' \cup completed' \cup {final'} : i <= ask'.id
      <3>1. \A i \in expected \cup completed \cup {final} : i <= ask.id + 1
        BY <2>1, <2>5
      <3>2. ask.id + 1 <= ask.id + 1
        BY <2>1
      <3> QED
        BY <2>4, <2>7, <3>1, <3>2
    <2>3. \A i \in expected' \cup completed' \cup {final'} : i <= ask'.id
      BY <2>2, <2>6, <2>7
    <2> QED
      BY <1>1, <2>3 DEF Ask, Surface, AtWork, Early
  <1>6. Attested'
    <2>1. ask.id \in Nat /\ ask.id + 1 > 0 /\ ask.id + 1 \notin completed
      BY <1>1 DEF ObserverTypes, SampleTypes, AtWork
    <2>2. \/ failure /\ wpc' = "stop" /\ surfaced'
          \/ wpc' = "waiting" /\ ask'.id = ask.id + 1
      <3>1. \/ failure /\ wpc' = "stop" /\ surfaced'
            \/ wpc' = "waiting" /\ \E why \in {"boundary", "late"} : ask' = [id |-> ask.id + 1, why |-> why]
        BY DEF Ask, Surface
      <3>2. \A why : [id |-> ask.id + 1, why |-> why].id = ask.id + 1
        OBVIOUS
      <3> QED
        BY <3>1, <3>2
    <2>3. wpc = "work" /\ UNCHANGED <<completed, failure, rpc>>
      BY DEF Ask
    <2> QED
      BY <2>1, <2>2, <2>3 DEF Attested, Leaving, Over
  <1>7. Reserved'
    BY <1>1, <1>2, <1>3 DEF Ask, Surface, ObserverTypes, LabelTypes, WorkerFlags, LauncherFlags, SampleTypes, AtWork, Attested, Reserved, Served, Reported, Early, Leaving, Over, Gone, Noticed, NeverStarts, Unsampled
  <1>8. Served'
    BY <1>1, <1>2, <1>3 DEF Ask, Surface, ObserverTypes, LabelTypes, WorkerFlags, LauncherFlags, SampleTypes, AtWork, Attested, Reserved, Served, Reported, Early, Leaving, Over, Gone, Noticed, NeverStarts, Unsampled
  <1>9. Reported'
    BY <1>1, <1>2, <1>3 DEF Ask, Surface, ObserverTypes, LabelTypes, WorkerFlags, LauncherFlags, SampleTypes, AtWork, Attested, Reserved, Served, Reported, Early, Leaving, Over, Gone, Noticed, NeverStarts, Unsampled
  <1> QED
    BY <1>4, <1>5, <1>6, <1>7, <1>8, <1>9 DEF ObserverInv

LEMMA KeepsAnswered ==
    ASSUME ObserverInv, Answered
    PROVE  ObserverInv'
  <1> USE DEF channels, monitor, transaction, watchdog, main, receiver, observer, publication, launcher
  <1>1. ObserverTypes /\ AtWork /\ Attested /\ Reserved /\ Served /\ Reported
    BY DEF ObserverInv
  <1>2. /\ toWorker' \in Seq(Inward) /\ (toWorker' = <<>> <=> toWorker = <<>>)
        /\ (Bad' <=> Bad) /\ (Samples' <=> Samples) /\ (Honest' <=> Honest)
    <2>1. toWorker' = toWorker
      BY DEF Answered
    <2> QED
      BY <1>1, <2>1, SameToWorker DEF ObserverTypes, ChannelTypes
  <1>3. toLauncher' \in Seq(Outward) /\ (Stops' <=> Stops)
    <2>1. toLauncher' = toLauncher
      BY DEF Answered
    <2> QED
      BY <1>1, <2>1, SameToLauncher DEF ObserverTypes, ChannelTypes
  <1>4. ObserverTypes'
    <2>1. ChannelTypes'
      BY <1>1, <1>2, <1>3 DEF Answered, Surface, ObserverTypes, ChannelTypes
    <2>2. LabelTypes'
      BY <1>1, <1>2, <1>3 DEF Answered, Surface, ObserverTypes, LabelTypes
    <2>3. WorkerFlags'
      BY <1>1, <1>2, <1>3 DEF Answered, Surface, ObserverTypes, WorkerFlags
    <2>4. LauncherFlags'
      BY <1>1, <1>2, <1>3 DEF Answered, Surface, ObserverTypes, LauncherFlags
    <2>5. SampleTypes'
      BY <1>1, <1>2, <1>3 DEF Answered, Surface, ObserverTypes, SampleTypes
    <2> QED
      BY <2>1, <2>2, <2>3, <2>4, <2>5 DEF ObserverTypes
  <1>5. AtWork'
    BY <1>1, <1>2, <1>3 DEF Answered, Surface, ObserverTypes, LabelTypes, WorkerFlags, LauncherFlags, SampleTypes, AtWork, Attested, Reserved, Served, Reported, Early, Leaving, Over, Gone, Noticed, NeverStarts, Unsampled
  <1>6. Attested'
    BY <1>1, <1>2, <1>3 DEF Answered, Surface, ObserverTypes, LabelTypes, WorkerFlags, LauncherFlags, SampleTypes, AtWork, Attested, Reserved, Served, Reported, Early, Leaving, Over, Gone, Noticed, NeverStarts, Unsampled
  <1>7. Reserved'
    BY <1>1, <1>2, <1>3 DEF Answered, Surface, ObserverTypes, LabelTypes, WorkerFlags, LauncherFlags, SampleTypes, AtWork, Attested, Reserved, Served, Reported, Early, Leaving, Over, Gone, Noticed, NeverStarts, Unsampled
  <1>8. Served'
    BY <1>1, <1>2, <1>3 DEF Answered, Surface, ObserverTypes, LabelTypes, WorkerFlags, LauncherFlags, SampleTypes, AtWork, Attested, Reserved, Served, Reported, Early, Leaving, Over, Gone, Noticed, NeverStarts, Unsampled
  <1>9. Reported'
    BY <1>1, <1>2, <1>3 DEF Answered, Surface, ObserverTypes, LabelTypes, WorkerFlags, LauncherFlags, SampleTypes, AtWork, Attested, Reserved, Served, Reported, Early, Leaving, Over, Gone, Noticed, NeverStarts, Unsampled
  <1> QED
    BY <1>4, <1>5, <1>6, <1>7, <1>8, <1>9 DEF ObserverInv

LEMMA KeepsFinish ==
    ASSUME ObserverInv, Finish
    PROVE  ObserverInv'
  <1> USE DEF channels, monitor, transaction, watchdog, main, receiver, observer, publication, launcher
  <1>1. ObserverTypes /\ AtWork /\ Attested /\ Reserved /\ Served /\ Reported
    BY DEF ObserverInv
  <1>2. /\ toWorker' \in Seq(Inward) /\ (toWorker' = <<>> <=> toWorker = <<>>)
        /\ (Bad' <=> Bad) /\ (Samples' <=> Samples) /\ (Honest' <=> Honest)
    <2>1. toWorker' = toWorker
      BY DEF Finish
    <2> QED
      BY <1>1, <2>1, SameToWorker DEF ObserverTypes, ChannelTypes
  <1>3. toLauncher' \in Seq(Outward) /\ (Stops' <=> Stops)
    <2>1. toLauncher' = toLauncher
      BY DEF Finish
    <2> QED
      BY <1>1, <2>1, SameToLauncher DEF ObserverTypes, ChannelTypes
  <1>4. ObserverTypes'
    <2>1. ChannelTypes'
      BY <1>1, <1>2, <1>3 DEF Finish, Surface, ObserverTypes, ChannelTypes
    <2>2. LabelTypes'
      BY <1>1, <1>2, <1>3 DEF Finish, Surface, ObserverTypes, LabelTypes
    <2>3. WorkerFlags'
      BY <1>1, <1>2, <1>3 DEF Finish, Surface, ObserverTypes, WorkerFlags
    <2>4. LauncherFlags'
      BY <1>1, <1>2, <1>3 DEF Finish, Surface, ObserverTypes, LauncherFlags
    <2>5. SampleTypes'
      BY <1>1, <1>2, <1>3 DEF Finish, Surface, ObserverTypes, SampleTypes
    <2> QED
      BY <2>1, <2>2, <2>3, <2>4, <2>5 DEF ObserverTypes
  <1>5. AtWork'
    BY <1>1, <1>2, <1>3 DEF Finish, Surface, ObserverTypes, LabelTypes, WorkerFlags, LauncherFlags, SampleTypes, AtWork, Attested, Reserved, Served, Reported, Early, Leaving, Over, Gone, Noticed, NeverStarts, Unsampled
  <1>6. Attested'
    BY <1>1, <1>2, <1>3 DEF Finish, Surface, ObserverTypes, LabelTypes, WorkerFlags, LauncherFlags, SampleTypes, AtWork, Attested, Reserved, Served, Reported, Early, Leaving, Over, Gone, Noticed, NeverStarts, Unsampled
  <1>7. Reserved'
    BY <1>1, <1>2, <1>3 DEF Finish, Surface, ObserverTypes, LabelTypes, WorkerFlags, LauncherFlags, SampleTypes, AtWork, Attested, Reserved, Served, Reported, Early, Leaving, Over, Gone, Noticed, NeverStarts, Unsampled
  <1>8. Served'
    BY <1>1, <1>2, <1>3 DEF Finish, Surface, ObserverTypes, LabelTypes, WorkerFlags, LauncherFlags, SampleTypes, AtWork, Attested, Reserved, Served, Reported, Early, Leaving, Over, Gone, Noticed, NeverStarts, Unsampled
  <1>9. Reported'
    BY <1>1, <1>2, <1>3 DEF Finish, Surface, ObserverTypes, LabelTypes, WorkerFlags, LauncherFlags, SampleTypes, AtWork, Attested, Reserved, Served, Reported, Early, Leaving, Over, Gone, Noticed, NeverStarts, Unsampled
  <1> QED
    BY <1>4, <1>5, <1>6, <1>7, <1>8, <1>9 DEF ObserverInv

LEMMA KeepsAskTerminal ==
    ASSUME ObserverInv, AskTerminal
    PROVE  ObserverInv'
  <1> USE DEF channels, monitor, transaction, watchdog, main, receiver, observer, publication, launcher
  <1>1. ObserverTypes /\ AtWork /\ Attested /\ Reserved /\ Served /\ Reported
    BY DEF ObserverInv
  <1>2. /\ toWorker' \in Seq(Inward) /\ (toWorker' = <<>> <=> toWorker = <<>>)
        /\ (Bad' <=> Bad) /\ (Samples' <=> Samples) /\ (Honest' <=> Honest)
    <2>1. toWorker' = toWorker
      BY DEF AskTerminal
    <2> QED
      BY <1>1, <2>1, SameToWorker DEF ObserverTypes, ChannelTypes
  <1>3. toLauncher' \in Seq(Outward)
    <2>1. toLauncher' = toLauncher \/ ToLauncher(Frame("stop", ask.id + 1, FALSE))
      BY DEF AskTerminal
    <2>2. ask.id + 1 \in Nat
      BY <1>1 DEF ObserverTypes, SampleTypes
    <2> QED
      BY <1>1, <2>1, <2>2, SameToLauncher, SendsToLauncher, Framed DEF ObserverTypes, ChannelTypes
  <1>4. ObserverTypes'
    <2>1. ChannelTypes'
      BY <1>1, <1>2, <1>3 DEF AskTerminal, ObserverTypes, ChannelTypes
    <2>2. LabelTypes'
      BY <1>1, <1>2, <1>3 DEF AskTerminal, ObserverTypes, LabelTypes
    <2>3. WorkerFlags'
      BY <1>1, <1>2, <1>3 DEF AskTerminal, ObserverTypes, WorkerFlags
    <2>4. LauncherFlags'
      BY <1>1, <1>2, <1>3 DEF AskTerminal, ObserverTypes, LauncherFlags
    <2>5. SampleTypes'
      <3>1. ask.id \in Nat /\ ask.id + 1 \in Nat /\ ask \in [id : Nat, why : {"start", "boundary", "late", "terminal"}]
        BY <1>1 DEF ObserverTypes, SampleTypes
      <3>2. \/ UNCHANGED <<ask, expected>>
            \/ /\ \E why \in {"boundary", "late", "terminal"} : ask' = [id |-> ask.id + 1, why |-> why]
               /\ expected' = expected \cup {ask.id + 1}
        BY DEF AskTerminal
      <3>3. ask' \in [id : Nat, why : {"start", "boundary", "late", "terminal"}]
        BY <3>1, <3>2
      <3>4. expected' \subseteq Nat
        BY <1>1, <3>1, <3>2 DEF ObserverTypes, SampleTypes
      <3> QED
        BY <1>1, <3>3, <3>4 DEF AskTerminal, ObserverTypes, SampleTypes
    <2> QED
      BY <2>1, <2>2, <2>3, <2>4, <2>5 DEF ObserverTypes
  <1>5. AtWork'
    BY <1>1, <1>2, <1>3 DEF AskTerminal, ObserverTypes, LabelTypes, WorkerFlags, LauncherFlags, SampleTypes, AtWork, Attested, Reserved, Served, Reported, Early, Leaving, Over, Gone, Noticed, NeverStarts, Unsampled
  <1>6. Attested'
    BY <1>1, <1>2, <1>3 DEF AskTerminal, ObserverTypes, LabelTypes, WorkerFlags, LauncherFlags, SampleTypes, AtWork, Attested, Reserved, Served, Reported, Early, Leaving, Over, Gone, Noticed, NeverStarts, Unsampled
  <1>7. Reserved'
    BY <1>1, <1>2, <1>3 DEF AskTerminal, ObserverTypes, LabelTypes, WorkerFlags, LauncherFlags, SampleTypes, AtWork, Attested, Reserved, Served, Reported, Early, Leaving, Over, Gone, Noticed, NeverStarts, Unsampled
  <1>8. Served'
    BY <1>1, <1>2, <1>3 DEF AskTerminal, ObserverTypes, LabelTypes, WorkerFlags, LauncherFlags, SampleTypes, AtWork, Attested, Reserved, Served, Reported, Early, Leaving, Over, Gone, Noticed, NeverStarts, Unsampled
  <1>9. Reported'
    BY <1>1, <1>2, <1>3 DEF AskTerminal, ObserverTypes, LabelTypes, WorkerFlags, LauncherFlags, SampleTypes, AtWork, Attested, Reserved, Served, Reported, Early, Leaving, Over, Gone, Noticed, NeverStarts, Unsampled
  <1> QED
    BY <1>4, <1>5, <1>6, <1>7, <1>8, <1>9 DEF ObserverInv

LEMMA KeepsAnswerTerminal ==
    ASSUME ObserverInv, AnswerTerminal
    PROVE  ObserverInv'
  <1> USE DEF channels, monitor, transaction, watchdog, main, receiver, observer, publication, launcher
  <1>1. ObserverTypes /\ AtWork /\ Attested /\ Reserved /\ Served /\ Reported
    BY DEF ObserverInv
  <1>2. /\ toWorker' \in Seq(Inward) /\ (toWorker' = <<>> <=> toWorker = <<>>)
        /\ (Bad' <=> Bad) /\ (Samples' <=> Samples) /\ (Honest' <=> Honest)
    <2>1. toWorker' = toWorker
      BY DEF AnswerTerminal
    <2> QED
      BY <1>1, <2>1, SameToWorker DEF ObserverTypes, ChannelTypes
  <1>3. toLauncher' \in Seq(Outward) /\ (Stops' <=> Stops)
    <2>1. toLauncher' = toLauncher
      BY DEF AnswerTerminal
    <2> QED
      BY <1>1, <2>1, SameToLauncher DEF ObserverTypes, ChannelTypes
  <1>4. ObserverTypes'
    <2>1. ChannelTypes'
      BY <1>1, <1>2, <1>3 DEF AnswerTerminal, ObserverTypes, ChannelTypes
    <2>2. LabelTypes'
      BY <1>1, <1>2, <1>3 DEF AnswerTerminal, ObserverTypes, LabelTypes
    <2>3. WorkerFlags'
      BY <1>1, <1>2, <1>3 DEF AnswerTerminal, ObserverTypes, WorkerFlags
    <2>4. LauncherFlags'
      BY <1>1, <1>2, <1>3 DEF AnswerTerminal, ObserverTypes, LauncherFlags
    <2>5. SampleTypes'
      BY <1>1, <1>2, <1>3 DEF AnswerTerminal, ObserverTypes, SampleTypes
    <2> QED
      BY <2>1, <2>2, <2>3, <2>4, <2>5 DEF ObserverTypes
  <1>5. AtWork'
    BY <1>1, <1>2, <1>3 DEF AnswerTerminal, ObserverTypes, LabelTypes, WorkerFlags, LauncherFlags, SampleTypes, AtWork, Attested, Reserved, Served, Reported, Early, Leaving, Over, Gone, Noticed, NeverStarts, Unsampled
  <1>6. Attested'
    BY <1>1, <1>2, <1>3 DEF AnswerTerminal, ObserverTypes, LabelTypes, WorkerFlags, LauncherFlags, SampleTypes, AtWork, Attested, Reserved, Served, Reported, Early, Leaving, Over, Gone, Noticed, NeverStarts, Unsampled
  <1>7. Reserved'
    BY <1>1, <1>2, <1>3 DEF AnswerTerminal, ObserverTypes, LabelTypes, WorkerFlags, LauncherFlags, SampleTypes, AtWork, Attested, Reserved, Served, Reported, Early, Leaving, Over, Gone, Noticed, NeverStarts, Unsampled
  <1>8. Served'
    BY <1>1, <1>2, <1>3 DEF AnswerTerminal, ObserverTypes, LabelTypes, WorkerFlags, LauncherFlags, SampleTypes, AtWork, Attested, Reserved, Served, Reported, Early, Leaving, Over, Gone, Noticed, NeverStarts, Unsampled
  <1>9. Reported'
    BY <1>1, <1>2, <1>3 DEF AnswerTerminal, ObserverTypes, LabelTypes, WorkerFlags, LauncherFlags, SampleTypes, AtWork, Attested, Reserved, Served, Reported, Early, Leaving, Over, Gone, Noticed, NeverStarts, Unsampled
  <1> QED
    BY <1>4, <1>5, <1>6, <1>7, <1>8, <1>9 DEF ObserverInv

LEMMA KeepsJoinTimesOut ==
    ASSUME ObserverInv, JoinTimesOut
    PROVE  ObserverInv'
  <1> USE DEF channels, monitor, transaction, watchdog, main, receiver, observer, publication, launcher
  <1>1. ObserverTypes /\ AtWork /\ Attested /\ Reserved /\ Served /\ Reported
    BY DEF ObserverInv
  <1>2. /\ toWorker' \in Seq(Inward) /\ (toWorker' = <<>> <=> toWorker = <<>>)
        /\ (Bad' <=> Bad) /\ (Samples' <=> Samples) /\ (Honest' <=> Honest)
    <2>1. toWorker' = toWorker
      BY DEF JoinTimesOut
    <2> QED
      BY <1>1, <2>1, SameToWorker DEF ObserverTypes, ChannelTypes
  <1>3. toLauncher' \in Seq(Outward) /\ (Stops' <=> Stops)
    <2>1. toLauncher' = toLauncher
      BY DEF JoinTimesOut
    <2> QED
      BY <1>1, <2>1, SameToLauncher DEF ObserverTypes, ChannelTypes
  <1>4. ObserverTypes'
    <2>1. ChannelTypes'
      BY <1>1, <1>2, <1>3 DEF JoinTimesOut, ObserverTypes, ChannelTypes
    <2>2. LabelTypes'
      BY <1>1, <1>2, <1>3 DEF JoinTimesOut, ObserverTypes, LabelTypes
    <2>3. WorkerFlags'
      BY <1>1, <1>2, <1>3 DEF JoinTimesOut, ObserverTypes, WorkerFlags
    <2>4. LauncherFlags'
      BY <1>1, <1>2, <1>3 DEF JoinTimesOut, ObserverTypes, LauncherFlags
    <2>5. SampleTypes'
      BY <1>1, <1>2, <1>3 DEF JoinTimesOut, ObserverTypes, SampleTypes
    <2> QED
      BY <2>1, <2>2, <2>3, <2>4, <2>5 DEF ObserverTypes
  <1>5. AtWork'
    BY <1>1, <1>2, <1>3 DEF JoinTimesOut, ObserverTypes, LabelTypes, WorkerFlags, LauncherFlags, SampleTypes, AtWork, Attested, Reserved, Served, Reported, Early, Leaving, Over, Gone, Noticed, NeverStarts, Unsampled
  <1>6. Attested'
    BY <1>1, <1>2, <1>3 DEF JoinTimesOut, ObserverTypes, LabelTypes, WorkerFlags, LauncherFlags, SampleTypes, AtWork, Attested, Reserved, Served, Reported, Early, Leaving, Over, Gone, Noticed, NeverStarts, Unsampled
  <1>7. Reserved'
    BY <1>1, <1>2, <1>3 DEF JoinTimesOut, ObserverTypes, LabelTypes, WorkerFlags, LauncherFlags, SampleTypes, AtWork, Attested, Reserved, Served, Reported, Early, Leaving, Over, Gone, Noticed, NeverStarts, Unsampled
  <1>8. Served'
    BY <1>1, <1>2, <1>3 DEF JoinTimesOut, ObserverTypes, LabelTypes, WorkerFlags, LauncherFlags, SampleTypes, AtWork, Attested, Reserved, Served, Reported, Early, Leaving, Over, Gone, Noticed, NeverStarts, Unsampled
  <1>9. Reported'
    BY <1>1, <1>2, <1>3 DEF JoinTimesOut, ObserverTypes, LabelTypes, WorkerFlags, LauncherFlags, SampleTypes, AtWork, Attested, Reserved, Served, Reported, Early, Leaving, Over, Gone, Noticed, NeverStarts, Unsampled
  <1> QED
    BY <1>4, <1>5, <1>6, <1>7, <1>8, <1>9 DEF ObserverInv

LEMMA KeepsRestore ==
    ASSUME ObserverInv, Restore
    PROVE  ObserverInv'
  <1> USE DEF channels, monitor, transaction, watchdog, main, receiver, observer, publication, launcher
  <1>1. ObserverTypes /\ AtWork /\ Attested /\ Reserved /\ Served /\ Reported
    BY DEF ObserverInv
  <1>2. /\ toWorker' \in Seq(Inward) /\ (toWorker' = <<>> <=> toWorker = <<>>)
        /\ (Bad' <=> Bad) /\ (Samples' <=> Samples) /\ (Honest' <=> Honest)
    <2>1. toWorker' = toWorker
      BY DEF Restore
    <2> QED
      BY <1>1, <2>1, SameToWorker DEF ObserverTypes, ChannelTypes
  <1>3. toLauncher' \in Seq(Outward) /\ (Stops' <=> Stops)
    <2>1. toLauncher' = toLauncher
      BY DEF Restore
    <2> QED
      BY <1>1, <2>1, SameToLauncher DEF ObserverTypes, ChannelTypes
  <1>4. ObserverTypes'
    <2>1. ChannelTypes'
      BY <1>1, <1>2, <1>3 DEF Restore, ObserverTypes, ChannelTypes
    <2>2. LabelTypes'
      BY <1>1, <1>2, <1>3 DEF Restore, ObserverTypes, LabelTypes
    <2>3. WorkerFlags'
      BY <1>1, <1>2, <1>3 DEF Restore, ObserverTypes, WorkerFlags
    <2>4. LauncherFlags'
      BY <1>1, <1>2, <1>3 DEF Restore, ObserverTypes, LauncherFlags
    <2>5. SampleTypes'
      BY <1>1, <1>2, <1>3 DEF Restore, ObserverTypes, SampleTypes
    <2> QED
      BY <2>1, <2>2, <2>3, <2>4, <2>5 DEF ObserverTypes
  <1>5. AtWork'
    BY <1>1, <1>2, <1>3 DEF Restore, ObserverTypes, LabelTypes, WorkerFlags, LauncherFlags, SampleTypes, AtWork, Attested, Reserved, Served, Reported, Early, Leaving, Over, Gone, Noticed, NeverStarts, Unsampled
  <1>6. Attested'
    BY <1>1, <1>2, <1>3 DEF Restore, ObserverTypes, LabelTypes, WorkerFlags, LauncherFlags, SampleTypes, AtWork, Attested, Reserved, Served, Reported, Early, Leaving, Over, Gone, Noticed, NeverStarts, Unsampled
  <1>7. Reserved'
    BY <1>1, <1>2, <1>3 DEF Restore, ObserverTypes, LabelTypes, WorkerFlags, LauncherFlags, SampleTypes, AtWork, Attested, Reserved, Served, Reported, Early, Leaving, Over, Gone, Noticed, NeverStarts, Unsampled
  <1>8. Served'
    BY <1>1, <1>2, <1>3 DEF Restore, ObserverTypes, LabelTypes, WorkerFlags, LauncherFlags, SampleTypes, AtWork, Attested, Reserved, Served, Reported, Early, Leaving, Over, Gone, Noticed, NeverStarts, Unsampled
  <1>9. Reported'
    BY <1>1, <1>2, <1>3 DEF Restore, ObserverTypes, LabelTypes, WorkerFlags, LauncherFlags, SampleTypes, AtWork, Attested, Reserved, Served, Reported, Early, Leaving, Over, Gone, Noticed, NeverStarts, Unsampled
  <1> QED
    BY <1>4, <1>5, <1>6, <1>7, <1>8, <1>9 DEF ObserverInv

LEMMA KeepsSettleMonitor ==
    ASSUME ObserverInv, SettleMonitor
    PROVE  ObserverInv'
  <1> USE DEF channels, monitor, transaction, watchdog, main, receiver, observer, publication, launcher
  <1>1. ObserverTypes /\ AtWork /\ Attested /\ Reserved /\ Served /\ Reported
    BY DEF ObserverInv
  <1>2. /\ toWorker' \in Seq(Inward) /\ (toWorker' = <<>> <=> toWorker = <<>>)
        /\ (Bad' <=> Bad) /\ (Samples' <=> Samples) /\ (Honest' <=> Honest)
    <2>1. toWorker' = toWorker
      BY DEF SettleMonitor
    <2> QED
      BY <1>1, <2>1, SameToWorker DEF ObserverTypes, ChannelTypes
  <1>3. toLauncher' \in Seq(Outward) /\ (Stops' <=> Stops)
    <2>1. toLauncher' = toLauncher
      BY DEF SettleMonitor
    <2> QED
      BY <1>1, <2>1, SameToLauncher DEF ObserverTypes, ChannelTypes
  <1>4. ObserverTypes'
    <2>1. ChannelTypes'
      BY <1>1, <1>2, <1>3 DEF SettleMonitor, ObserverTypes, ChannelTypes
    <2>2. LabelTypes'
      BY <1>1, <1>2, <1>3 DEF SettleMonitor, ObserverTypes, LabelTypes
    <2>3. WorkerFlags'
      BY <1>1, <1>2, <1>3 DEF SettleMonitor, ObserverTypes, WorkerFlags
    <2>4. LauncherFlags'
      BY <1>1, <1>2, <1>3 DEF SettleMonitor, ObserverTypes, LauncherFlags
    <2>5. SampleTypes'
      BY <1>1, <1>2, <1>3 DEF SettleMonitor, ObserverTypes, SampleTypes
    <2> QED
      BY <2>1, <2>2, <2>3, <2>4, <2>5 DEF ObserverTypes
  <1>5. AtWork'
    BY <1>1, <1>2, <1>3 DEF SettleMonitor, ObserverTypes, LabelTypes, WorkerFlags, LauncherFlags, SampleTypes, AtWork, Attested, Reserved, Served, Reported, Early, Leaving, Over, Gone, Noticed, NeverStarts, Unsampled
  <1>6. Attested'
    BY <1>1, <1>2, <1>3 DEF SettleMonitor, ObserverTypes, LabelTypes, WorkerFlags, LauncherFlags, SampleTypes, AtWork, Attested, Reserved, Served, Reported, Early, Leaving, Over, Gone, Noticed, NeverStarts, Unsampled
  <1>7. Reserved'
    BY <1>1, <1>2, <1>3 DEF SettleMonitor, ObserverTypes, LabelTypes, WorkerFlags, LauncherFlags, SampleTypes, AtWork, Attested, Reserved, Served, Reported, Early, Leaving, Over, Gone, Noticed, NeverStarts, Unsampled
  <1>8. Served'
    BY <1>1, <1>2, <1>3 DEF SettleMonitor, ObserverTypes, LabelTypes, WorkerFlags, LauncherFlags, SampleTypes, AtWork, Attested, Reserved, Served, Reported, Early, Leaving, Over, Gone, Noticed, NeverStarts, Unsampled
  <1>9. Reported'
    BY <1>1, <1>2, <1>3 DEF SettleMonitor, ObserverTypes, LabelTypes, WorkerFlags, LauncherFlags, SampleTypes, AtWork, Attested, Reserved, Served, Reported, Early, Leaving, Over, Gone, Noticed, NeverStarts, Unsampled
  <1> QED
    BY <1>4, <1>5, <1>6, <1>7, <1>8, <1>9 DEF ObserverInv

LEMMA KeepsExit ==
    ASSUME ObserverInv, Exit
    PROVE  ObserverInv'
  <1> USE DEF channels, monitor, transaction, watchdog, main, receiver, observer, publication, launcher
  <1>1. ObserverTypes /\ AtWork /\ Attested /\ Reserved /\ Served /\ Reported
    BY DEF ObserverInv
  <1>2. /\ toWorker' \in Seq(Inward) /\ (Samples' => Samples) /\ Honest'
        /\ wpc' = wpc => (Bad' <=> Bad)
    <2>1. toWorker' = toWorker \/ (toWorker' = <<>> /\ wpc' # wpc)
      BY <1>1 DEF Exit, Dies
    <2> QED
      BY <1>1, <2>1, SameToWorker, NothingToWorker DEF ObserverTypes, ChannelTypes, Served
  <1>3. toLauncher' \in Seq(Outward) /\ (Stops' <=> Stops)
    <2>1. toLauncher' = toLauncher
      BY DEF Exit
    <2> QED
      BY <1>1, <2>1, SameToLauncher DEF ObserverTypes, ChannelTypes
  <1>4. ObserverTypes'
    <2>1. ChannelTypes'
      BY <1>1, <1>2, <1>3 DEF Exit, Dies, ObserverTypes, ChannelTypes
    <2>2. LabelTypes'
      BY <1>1, <1>2, <1>3 DEF Exit, Dies, ObserverTypes, LabelTypes
    <2>3. WorkerFlags'
      BY <1>1, <1>2, <1>3 DEF Exit, Dies, ObserverTypes, WorkerFlags
    <2>4. LauncherFlags'
      BY <1>1, <1>2, <1>3 DEF Exit, Dies, ObserverTypes, LauncherFlags
    <2>5. SampleTypes'
      BY <1>1, <1>2, <1>3 DEF Exit, Dies, ObserverTypes, SampleTypes
    <2> QED
      BY <2>1, <2>2, <2>3, <2>4, <2>5 DEF ObserverTypes
  <1>5. AtWork'
    BY <1>1, <1>2, <1>3 DEF Exit, Dies, ObserverTypes, LabelTypes, WorkerFlags, LauncherFlags, SampleTypes, AtWork, Attested, Reserved, Served, Reported, Early, Leaving, Over, Gone, Noticed, NeverStarts, Unsampled
  <1>6. Attested'
    BY <1>1, <1>2, <1>3 DEF Exit, Dies, ObserverTypes, LabelTypes, WorkerFlags, LauncherFlags, SampleTypes, AtWork, Attested, Reserved, Served, Reported, Early, Leaving, Over, Gone, Noticed, NeverStarts, Unsampled
  <1>7. Reserved'
    BY <1>1, <1>2, <1>3 DEF Exit, Dies, ObserverTypes, LabelTypes, WorkerFlags, LauncherFlags, SampleTypes, AtWork, Attested, Reserved, Served, Reported, Early, Leaving, Over, Gone, Noticed, NeverStarts, Unsampled
  <1>8. Served'
    BY <1>1, <1>2, <1>3 DEF Exit, Dies, ObserverTypes, LabelTypes, WorkerFlags, LauncherFlags, SampleTypes, AtWork, Attested, Reserved, Served, Reported, Early, Leaving, Over, Gone, Noticed, NeverStarts, Unsampled
  <1>9. Reported'
    BY <1>1, <1>2, <1>3 DEF Exit, Dies, ObserverTypes, LabelTypes, WorkerFlags, LauncherFlags, SampleTypes, AtWork, Attested, Reserved, Served, Reported, Early, Leaving, Over, Gone, Noticed, NeverStarts, Unsampled
  <1> QED
    BY <1>4, <1>5, <1>6, <1>7, <1>8, <1>9 DEF ObserverInv

\* The signal handler runs between two steps of the worker's main thread.
LEMMA KeepsHandle ==
    ASSUME ObserverInv, Handle
    PROVE  ObserverInv'
  <1> USE DEF channels, monitor, transaction, watchdog, main, receiver, observer, publication, launcher
  <1>1. ObserverTypes /\ AtWork /\ Attested /\ Reserved /\ Served /\ Reported
    BY DEF ObserverInv
  <1>2. /\ toWorker' \in Seq(Inward) /\ (toWorker' = <<>> <=> toWorker = <<>>)
        /\ (Bad' <=> Bad) /\ (Samples' <=> Samples) /\ (Honest' <=> Honest)
    <2>1. toWorker' = toWorker
      BY DEF Handle
    <2> QED
      BY <1>1, <2>1, SameToWorker DEF ObserverTypes, ChannelTypes
  <1>3. toLauncher' \in Seq(Outward) /\ (Stops' <=> Stops)
    <2>1. toLauncher' = toLauncher
      BY DEF Handle
    <2> QED
      BY <1>1, <2>1, SameToLauncher DEF ObserverTypes, ChannelTypes
  <1>4. ObserverTypes'
    <2>1. ChannelTypes'
      BY <1>1, <1>2, <1>3 DEF Handle, Gone, Working, ObserverTypes, ChannelTypes
    <2>2. LabelTypes'
      BY <1>1, <1>2, <1>3 DEF Handle, Gone, Working, ObserverTypes, LabelTypes
    <2>3. WorkerFlags'
      BY <1>1, <1>2, <1>3 DEF Handle, Gone, Working, ObserverTypes, WorkerFlags
    <2>4. LauncherFlags'
      BY <1>1, <1>2, <1>3 DEF Handle, Gone, Working, ObserverTypes, LauncherFlags
    <2>5. SampleTypes'
      BY <1>1, <1>2, <1>3 DEF Handle, Gone, Working, ObserverTypes, SampleTypes
    <2> QED
      BY <2>1, <2>2, <2>3, <2>4, <2>5 DEF ObserverTypes
  <1>5. AtWork'
    BY <1>1, <1>2, <1>3 DEF Handle, Gone, Working, ObserverTypes, LabelTypes, WorkerFlags, LauncherFlags, SampleTypes, AtWork, Attested, Reserved, Served, Reported, Early, Leaving, Over, Noticed, NeverStarts, Unsampled
  <1>6. Attested'
    BY <1>1, <1>2, <1>3 DEF Handle, Gone, Working, ObserverTypes, LabelTypes, WorkerFlags, LauncherFlags, SampleTypes, AtWork, Attested, Reserved, Served, Reported, Early, Leaving, Over, Noticed, NeverStarts, Unsampled
  <1>7. Reserved'
    BY <1>1, <1>2, <1>3 DEF Handle, Gone, Working, ObserverTypes, LabelTypes, WorkerFlags, LauncherFlags, SampleTypes, AtWork, Attested, Reserved, Served, Reported, Early, Leaving, Over, Noticed, NeverStarts, Unsampled
  <1>8. Served'
    BY <1>1, <1>2, <1>3 DEF Handle, Gone, Working, ObserverTypes, LabelTypes, WorkerFlags, LauncherFlags, SampleTypes, AtWork, Attested, Reserved, Served, Reported, Early, Leaving, Over, Noticed, NeverStarts, Unsampled
  <1>9. Reported'
    BY <1>1, <1>2, <1>3 DEF Handle, Gone, Working, ObserverTypes, LabelTypes, WorkerFlags, LauncherFlags, SampleTypes, AtWork, Attested, Reserved, Served, Reported, Early, Leaving, Over, Noticed, NeverStarts, Unsampled
  <1> QED
    BY <1>4, <1>5, <1>6, <1>7, <1>8, <1>9 DEF ObserverInv

\* The worker's receiver thread.
LEMMA KeepsReceiveNothing ==
    ASSUME ObserverInv, ReceiveNothing
    PROVE  ObserverInv'
  <1> USE DEF channels, monitor, transaction, watchdog, main, receiver, observer, publication, launcher
  <1>1. ObserverTypes /\ AtWork /\ Attested /\ Reserved /\ Served /\ Reported
    BY DEF ObserverInv
  <1>2. /\ toWorker' \in Seq(Inward) /\ (toWorker' = <<>> <=> toWorker = <<>>)
        /\ (Bad' <=> Bad) /\ (Samples' <=> Samples) /\ (Honest' <=> Honest)
    <2>1. toWorker' = toWorker
      BY DEF ReceiveNothing
    <2> QED
      BY <1>1, <2>1, SameToWorker DEF ObserverTypes, ChannelTypes
  <1>3. toLauncher' \in Seq(Outward) /\ (Stops' <=> Stops)
    <2>1. toLauncher' = toLauncher
      BY DEF ReceiveNothing
    <2> QED
      BY <1>1, <2>1, SameToLauncher DEF ObserverTypes, ChannelTypes
  <1>4. ObserverTypes'
    <2>1. ChannelTypes'
      BY <1>1, <1>2, <1>3 DEF ReceiveNothing, ReceiverFails, Trigger, ObserverTypes, ChannelTypes
    <2>2. LabelTypes'
      BY <1>1, <1>2, <1>3 DEF ReceiveNothing, ReceiverFails, Trigger, ObserverTypes, LabelTypes
    <2>3. WorkerFlags'
      BY <1>1, <1>2, <1>3 DEF ReceiveNothing, ReceiverFails, Trigger, ObserverTypes, WorkerFlags
    <2>4. LauncherFlags'
      BY <1>1, <1>2, <1>3 DEF ReceiveNothing, ReceiverFails, Trigger, ObserverTypes, LauncherFlags
    <2>5. SampleTypes'
      BY <1>1, <1>2, <1>3 DEF ReceiveNothing, ReceiverFails, Trigger, ObserverTypes, SampleTypes
    <2> QED
      BY <2>1, <2>2, <2>3, <2>4, <2>5 DEF ObserverTypes
  <1>5. AtWork'
    BY <1>1, <1>2, <1>3 DEF ReceiveNothing, ReceiverFails, Trigger, ObserverTypes, LabelTypes, WorkerFlags, LauncherFlags, SampleTypes, AtWork, Attested, Reserved, Served, Reported, Early, Leaving, Over, Gone, Noticed, NeverStarts, Unsampled
  <1>6. Attested'
    BY <1>1, <1>2, <1>3 DEF ReceiveNothing, ReceiverFails, Trigger, ObserverTypes, LabelTypes, WorkerFlags, LauncherFlags, SampleTypes, AtWork, Attested, Reserved, Served, Reported, Early, Leaving, Over, Gone, Noticed, NeverStarts, Unsampled
  <1>7. Reserved'
    BY <1>1, <1>2, <1>3 DEF ReceiveNothing, ReceiverFails, Trigger, ObserverTypes, LabelTypes, WorkerFlags, LauncherFlags, SampleTypes, AtWork, Attested, Reserved, Served, Reported, Early, Leaving, Over, Gone, Noticed, NeverStarts, Unsampled
  <1>8. Served'
    BY <1>1, <1>2, <1>3 DEF ReceiveNothing, ReceiverFails, Trigger, ObserverTypes, LabelTypes, WorkerFlags, LauncherFlags, SampleTypes, AtWork, Attested, Reserved, Served, Reported, Early, Leaving, Over, Gone, Noticed, NeverStarts, Unsampled
  <1>9. Reported'
    BY <1>1, <1>2, <1>3 DEF ReceiveNothing, ReceiverFails, Trigger, ObserverTypes, LabelTypes, WorkerFlags, LauncherFlags, SampleTypes, AtWork, Attested, Reserved, Served, Reported, Early, Leaving, Over, Gone, Noticed, NeverStarts, Unsampled
  <1> QED
    BY <1>4, <1>5, <1>6, <1>7, <1>8, <1>9 DEF ObserverInv

LEMMA KeepsReceiveEof ==
    ASSUME ObserverInv, ReceiveEof
    PROVE  ObserverInv'
  <1> USE DEF channels, monitor, transaction, watchdog, main, receiver, observer, publication, launcher
  <1>1. ObserverTypes /\ AtWork /\ Attested /\ Reserved /\ Served /\ Reported
    BY DEF ObserverInv
  <1>2. /\ toWorker' \in Seq(Inward) /\ (toWorker' = <<>> <=> toWorker = <<>>)
        /\ (Bad' <=> Bad) /\ (Samples' <=> Samples) /\ (Honest' <=> Honest)
    <2>1. toWorker' = toWorker
      BY DEF ReceiveEof
    <2> QED
      BY <1>1, <2>1, SameToWorker DEF ObserverTypes, ChannelTypes
  <1>3. toLauncher' \in Seq(Outward) /\ (Stops' <=> Stops)
    <2>1. toLauncher' = toLauncher
      BY DEF ReceiveEof
    <2> QED
      BY <1>1, <2>1, SameToLauncher DEF ObserverTypes, ChannelTypes
  <1>4. ObserverTypes'
    <2>1. ChannelTypes'
      BY <1>1, <1>2, <1>3 DEF ReceiveEof, ReceiverFails, Trigger, ObserverTypes, ChannelTypes
    <2>2. LabelTypes'
      BY <1>1, <1>2, <1>3 DEF ReceiveEof, ReceiverFails, Trigger, ObserverTypes, LabelTypes
    <2>3. WorkerFlags'
      BY <1>1, <1>2, <1>3 DEF ReceiveEof, ReceiverFails, Trigger, ObserverTypes, WorkerFlags
    <2>4. LauncherFlags'
      BY <1>1, <1>2, <1>3 DEF ReceiveEof, ReceiverFails, Trigger, ObserverTypes, LauncherFlags
    <2>5. SampleTypes'
      BY <1>1, <1>2, <1>3 DEF ReceiveEof, ReceiverFails, Trigger, ObserverTypes, SampleTypes
    <2> QED
      BY <2>1, <2>2, <2>3, <2>4, <2>5 DEF ObserverTypes
  <1>5. AtWork'
    BY <1>1, <1>2, <1>3 DEF ReceiveEof, ReceiverFails, Trigger, WorkerEof, ObserverTypes, LabelTypes, WorkerFlags, LauncherFlags, SampleTypes, AtWork, Attested, Reserved, Served, Reported, Early, Leaving, Over, Gone, Noticed, NeverStarts, Unsampled
  <1>6. Attested'
    BY <1>1, <1>2, <1>3 DEF ReceiveEof, ReceiverFails, Trigger, WorkerEof, ObserverTypes, LabelTypes, WorkerFlags, LauncherFlags, SampleTypes, AtWork, Attested, Reserved, Served, Reported, Early, Leaving, Over, Gone, Noticed, NeverStarts, Unsampled
  <1>7. Reserved'
    BY <1>1, <1>2, <1>3 DEF ReceiveEof, ReceiverFails, Trigger, WorkerEof, ObserverTypes, LabelTypes, WorkerFlags, LauncherFlags, SampleTypes, AtWork, Attested, Reserved, Served, Reported, Early, Leaving, Over, Gone, Noticed, NeverStarts, Unsampled
  <1>8. Served'
    BY <1>1, <1>2, <1>3 DEF ReceiveEof, ReceiverFails, Trigger, WorkerEof, ObserverTypes, LabelTypes, WorkerFlags, LauncherFlags, SampleTypes, AtWork, Attested, Reserved, Served, Reported, Early, Leaving, Over, Gone, Noticed, NeverStarts, Unsampled
  <1>9. Reported'
    BY <1>1, <1>2, <1>3 DEF ReceiveEof, ReceiverFails, Trigger, WorkerEof, ObserverTypes, LabelTypes, WorkerFlags, LauncherFlags, SampleTypes, AtWork, Attested, Reserved, Served, Reported, Early, Leaving, Over, Gone, Noticed, NeverStarts, Unsampled
  <1> QED
    BY <1>4, <1>5, <1>6, <1>7, <1>8, <1>9 DEF ObserverInv

\* The launcher's observer thread.
LEMMA KeepsObserverStarts ==
    ASSUME ObserverInv, ObserverStarts
    PROVE  ObserverInv'
  <1> USE DEF channels, monitor, transaction, watchdog, main, receiver, observer, publication, launcher
  <1>1. ObserverTypes /\ AtWork /\ Attested /\ Reserved /\ Served /\ Reported
    BY DEF ObserverInv
  <1>2. /\ toWorker' \in Seq(Inward) /\ (toWorker' = <<>> <=> toWorker = <<>>)
        /\ (Bad' <=> Bad) /\ (Samples' <=> Samples) /\ (Honest' <=> Honest)
    <2>1. toWorker' = toWorker
      BY DEF ObserverStarts
    <2> QED
      BY <1>1, <2>1, SameToWorker DEF ObserverTypes, ChannelTypes
  <1>3. /\ toLauncher' \in Seq(Outward) /\ (Stops' => Stops)
        /\ toLauncher # <<>> =>
              /\ Head(toLauncher) \in Outward
              /\ Head(toLauncher).type = "stop" => Stops
              /\ Head(toLauncher).id \in Nat
    <2>1. toLauncher' = toLauncher \/ (toLauncher # <<>> /\ toLauncher' = Tail(toLauncher))
      BY DEF ObserverStarts
    <2>2. toLauncher # <<>> => Head(toLauncher) \in Outward /\ (Head(toLauncher).type = "stop" => Stops)
      BY <1>1, LauncherHeads
    <2>3. \A f \in Outward : f.id \in Nat
      BY DEF Outward, Frames
    <2> QED
      BY <1>1, <2>1, <2>2, <2>3, SameToLauncher, LauncherReads DEF ObserverTypes, ChannelTypes
  <1>4. ObserverTypes'
    <2>1. ChannelTypes'
      BY <1>1, <1>2, <1>3 DEF ObserverStarts, ObserverFails, Acquire, NoSample, ObserverTypes, ChannelTypes
    <2>2. LabelTypes'
      BY <1>1, <1>2, <1>3 DEF ObserverStarts, ObserverFails, Acquire, NoSample, ObserverTypes, LabelTypes
    <2>3. WorkerFlags'
      BY <1>1, <1>2, <1>3 DEF ObserverStarts, ObserverFails, Acquire, NoSample, ObserverTypes, WorkerFlags
    <2>4. LauncherFlags'
      BY <1>1, <1>2, <1>3 DEF ObserverStarts, ObserverFails, Acquire, NoSample, ObserverTypes, LauncherFlags
    <2>5. SampleTypes'
      <3>1. \/ current' = current
            \/ \E kind \in {"startup", "forced", "terminal"}, id \in Nat :
                  current' = [kind |-> kind, id |-> id, bad |-> FALSE, mine |-> FALSE]
        BY <1>3 DEF ObserverStarts, Acquire, NoSample
      <3>2. ASSUME NEW kind \in {"startup", "forced", "terminal"}, NEW id \in Nat,
                   current' = [kind |-> kind, id |-> id, bad |-> FALSE, mine |-> FALSE]
            PROVE  current' \in [kind : {"none", "startup", "forced", "terminal", "continuous"}, id : Nat,
                                 bad : BOOLEAN, mine : BOOLEAN]
        BY <3>2
      <3>3. current' \in [kind : {"none", "startup", "forced", "terminal", "continuous"}, id : Nat,
                          bad : BOOLEAN, mine : BOOLEAN]
        BY <1>1, <3>1, <3>2 DEF ObserverTypes, SampleTypes
      <3> QED
        BY <1>1, <3>3 DEF ObserverStarts, ObserverTypes, SampleTypes
    <2> QED
      BY <2>1, <2>2, <2>3, <2>4, <2>5 DEF ObserverTypes
  <1>5. AtWork'
    BY <1>1, <1>2, <1>3 DEF ObserverStarts, ObserverFails, Acquire, NoSample, ObserverTypes, LabelTypes, WorkerFlags, LauncherFlags, SampleTypes, AtWork, Attested, Reserved, Served, Reported, Early, Leaving, Over, Gone, Noticed, NeverStarts, Unsampled
  <1>6. Attested'
    BY <1>1, <1>2, <1>3 DEF ObserverStarts, ObserverFails, Acquire, NoSample, ObserverTypes, LabelTypes, WorkerFlags, LauncherFlags, SampleTypes, AtWork, Attested, Reserved, Served, Reported, Early, Leaving, Over, Gone, Noticed, NeverStarts, Unsampled
  <1>7. Reserved'
    BY <1>1, <1>2, <1>3 DEF ObserverStarts, ObserverFails, Acquire, NoSample, ObserverTypes, LabelTypes, WorkerFlags, LauncherFlags, SampleTypes, AtWork, Attested, Reserved, Served, Reported, Early, Leaving, Over, Gone, Noticed, NeverStarts, Unsampled
  <1>8. Served'
    BY <1>1, <1>2, <1>3 DEF ObserverStarts, ObserverFails, Acquire, NoSample, ObserverTypes, LabelTypes, WorkerFlags, LauncherFlags, SampleTypes, AtWork, Attested, Reserved, Served, Reported, Early, Leaving, Over, Gone, Noticed, NeverStarts, Unsampled
  <1>9. Reported'
    BY <1>1, <1>2, <1>3 DEF ObserverStarts, ObserverFails, Acquire, NoSample, ObserverTypes, LabelTypes, WorkerFlags, LauncherFlags, SampleTypes, AtWork, Attested, Reserved, Served, Reported, Early, Leaving, Over, Gone, Noticed, NeverStarts, Unsampled
  <1> QED
    BY <1>4, <1>5, <1>6, <1>7, <1>8, <1>9 DEF ObserverInv

LEMMA KeepsObserverDelivers ==
    ASSUME ObserverInv, ObserverDelivers
    PROVE  ObserverInv'
  <1> USE DEF channels, monitor, transaction, watchdog, main, receiver, observer, publication, launcher
  <1>1. ObserverTypes /\ AtWork /\ Attested /\ Reserved /\ Served /\ Reported
    BY DEF ObserverInv
  <1>2. /\ toWorker' \in Seq(Inward) /\ (Samples' => Samples) /\ Honest'
        /\ Bad => Bad'
        /\ Reachable => Bad'
    <2>1. ToWorker(Frame("failure", 0, TRUE))
      BY DEF ObserverDelivers, Deliver
    <2> QED
      BY <1>1, <2>1, SendsToWorker, Framed DEF Served
  <1>3. toLauncher' \in Seq(Outward) /\ (Stops' <=> Stops)
    <2>1. toLauncher' = toLauncher
      BY DEF ObserverDelivers
    <2> QED
      BY <1>1, <2>1, SameToLauncher DEF ObserverTypes, ChannelTypes
  <1>4. ObserverTypes'
    <2>1. ChannelTypes'
      BY <1>1, <1>2, <1>3 DEF ObserverDelivers, Deliver, Reachable, ObserverTypes, ChannelTypes
    <2>2. LabelTypes'
      BY <1>1, <1>2, <1>3 DEF ObserverDelivers, Deliver, Reachable, ObserverTypes, LabelTypes
    <2>3. WorkerFlags'
      BY <1>1, <1>2, <1>3 DEF ObserverDelivers, Deliver, Reachable, ObserverTypes, WorkerFlags
    <2>4. LauncherFlags'
      BY <1>1, <1>2, <1>3 DEF ObserverDelivers, Deliver, Reachable, ObserverTypes, LauncherFlags
    <2>5. SampleTypes'
      BY <1>1, <1>2, <1>3 DEF ObserverDelivers, Deliver, Reachable, ObserverTypes, SampleTypes
    <2> QED
      BY <2>1, <2>2, <2>3, <2>4, <2>5 DEF ObserverTypes
  <1>5. AtWork'
    BY <1>1, <1>2, <1>3 DEF ObserverDelivers, Deliver, Reachable, ObserverTypes, LabelTypes, WorkerFlags, LauncherFlags, SampleTypes, AtWork, Attested, Reserved, Served, Reported, Early, Leaving, Over, Gone, Noticed, NeverStarts, Unsampled
  <1>6. Attested'
    BY <1>1, <1>2, <1>3 DEF ObserverDelivers, Deliver, Reachable, ObserverTypes, LabelTypes, WorkerFlags, LauncherFlags, SampleTypes, AtWork, Attested, Reserved, Served, Reported, Early, Leaving, Over, Gone, Noticed, NeverStarts, Unsampled
  <1>7. Reserved'
    BY <1>1, <1>2, <1>3 DEF ObserverDelivers, Deliver, Reachable, ObserverTypes, LabelTypes, WorkerFlags, LauncherFlags, SampleTypes, AtWork, Attested, Reserved, Served, Reported, Early, Leaving, Over, Gone, Noticed, NeverStarts, Unsampled
  <1>8. Served'
    BY <1>1, <1>2, <1>3 DEF ObserverDelivers, Deliver, Reachable, ObserverTypes, LabelTypes, WorkerFlags, LauncherFlags, SampleTypes, AtWork, Attested, Reserved, Served, Reported, Early, Leaving, Over, Gone, Noticed, NeverStarts, Unsampled
  <1>9. Reported'
    BY <1>1, <1>2, <1>3 DEF ObserverDelivers, Deliver, Reachable, ObserverTypes, LabelTypes, WorkerFlags, LauncherFlags, SampleTypes, AtWork, Attested, Reserved, Served, Reported, Early, Leaving, Over, Gone, Noticed, NeverStarts, Unsampled
  <1> QED
    BY <1>4, <1>5, <1>6, <1>7, <1>8, <1>9 DEF ObserverInv

LEMMA KeepsComplete ==
    ASSUME ObserverInv, Complete
    PROVE  ObserverInv'
  <1> USE DEF channels, monitor, transaction, watchdog, main, receiver, observer, publication, launcher
  <1>1. ObserverTypes /\ AtWork /\ Attested /\ Reserved /\ Served /\ Reported
    BY DEF ObserverInv
  <1>2. /\ toWorker' \in Seq(Inward) /\ (toWorker' = <<>> <=> toWorker = <<>>)
        /\ (Bad' <=> Bad) /\ (Samples' <=> Samples) /\ (Honest' <=> Honest)
    <2>1. toWorker' = toWorker
      BY DEF Complete
    <2> QED
      BY <1>1, <2>1, SameToWorker DEF ObserverTypes, ChannelTypes
  <1>3. toLauncher' \in Seq(Outward) /\ (Stops' <=> Stops)
    <2>1. toLauncher' = toLauncher
      BY DEF Complete
    <2> QED
      BY <1>1, <2>1, SameToLauncher DEF ObserverTypes, ChannelTypes
  <1>4. ObserverTypes'
    <2>1. ChannelTypes'
      BY <1>1, <1>2, <1>3 DEF Complete, ObserverTypes, ChannelTypes
    <2>2. LabelTypes'
      BY <1>1, <1>2, <1>3 DEF Complete, ObserverTypes, LabelTypes
    <2>3. WorkerFlags'
      BY <1>1, <1>2, <1>3 DEF Complete, ObserverTypes, WorkerFlags
    <2>4. LauncherFlags'
      BY <1>1, <1>2, <1>3 DEF Complete, ObserverTypes, LauncherFlags
    <2>5. SampleTypes'
      BY <1>1, <1>2, <1>3 DEF Complete, ObserverTypes, SampleTypes
    <2> QED
      BY <2>1, <2>2, <2>3, <2>4, <2>5 DEF ObserverTypes
  <1>5. AtWork'
    BY <1>1, <1>2, <1>3 DEF Complete, ObserverTypes, LabelTypes, WorkerFlags, LauncherFlags, SampleTypes, AtWork, Attested, Reserved, Served, Reported, Early, Leaving, Over, Gone, Noticed, NeverStarts, Unsampled
  <1>6. Attested'
    BY <1>1, <1>2, <1>3 DEF Complete, ObserverTypes, LabelTypes, WorkerFlags, LauncherFlags, SampleTypes, AtWork, Attested, Reserved, Served, Reported, Early, Leaving, Over, Gone, Noticed, NeverStarts, Unsampled
  <1>7. Reserved'
    BY <1>1, <1>2, <1>3 DEF Complete, ObserverTypes, LabelTypes, WorkerFlags, LauncherFlags, SampleTypes, AtWork, Attested, Reserved, Served, Reported, Early, Leaving, Over, Gone, Noticed, NeverStarts, Unsampled
  <1>8. Served'
    BY <1>1, <1>2, <1>3 DEF Complete, ObserverTypes, LabelTypes, WorkerFlags, LauncherFlags, SampleTypes, AtWork, Attested, Reserved, Served, Reported, Early, Leaving, Over, Gone, Noticed, NeverStarts, Unsampled
  <1>9. Reported'
    BY <1>1, <1>2, <1>3 DEF Complete, ObserverTypes, LabelTypes, WorkerFlags, LauncherFlags, SampleTypes, AtWork, Attested, Reserved, Served, Reported, Early, Leaving, Over, Gone, Noticed, NeverStarts, Unsampled
  <1> QED
    BY <1>4, <1>5, <1>6, <1>7, <1>8, <1>9 DEF ObserverInv

LEMMA KeepsSend ==
    ASSUME ObserverInv, Send
    PROVE  ObserverInv'
  <1> USE DEF channels, monitor, transaction, watchdog, main, receiver, observer, publication, launcher
  <1>1. ObserverTypes /\ AtWork /\ Attested /\ Reserved /\ Served /\ Reported
    BY DEF ObserverInv
  <1>2. /\ toWorker' \in Seq(Inward) /\ Honest'
        /\ (Bad => Bad')
        /\ opc' = "posted" => (current.bad => Bad')
        /\ opc' # "posted" => (Samples' => Samples)
        /\ opc = "publish" /\ toLauncher' = toLauncher
    <2>1. current.id \in Nat /\ current.bad \in BOOLEAN
      BY <1>1 DEF ObserverTypes, SampleTypes
    <2>2. \/ toWorker' = toWorker /\ opc' # "posted"
          \/ toWorker' = Append(toWorker, Frame("sample", current.id, current.bad)) /\ opc' = "posted"
      BY DEF Send, ObserverFails
    <2>3. Frame("sample", current.id, current.bad).type # "failure"
      BY <2>1, Framed
    <2> QED
      BY <1>1, <2>1, <2>2, <2>3, SameToWorker, WorkerGets, Framed DEF ObserverTypes, ChannelTypes, Served, Send
  <1>3. toLauncher' \in Seq(Outward) /\ (Stops' <=> Stops)
    <2>1. toLauncher' = toLauncher
      BY DEF Send
    <2> QED
      BY <1>1, <2>1, SameToLauncher DEF ObserverTypes, ChannelTypes
  <1>4. ObserverTypes'
    <2>1. ChannelTypes'
      BY <1>1, <1>2, <1>3 DEF Send, Reachable, ObserverFails, ObserverTypes, ChannelTypes
    <2>2. LabelTypes'
      BY <1>1, <1>2, <1>3 DEF Send, Reachable, ObserverFails, ObserverTypes, LabelTypes
    <2>3. WorkerFlags'
      BY <1>1, <1>2, <1>3 DEF Send, Reachable, ObserverFails, ObserverTypes, WorkerFlags
    <2>4. LauncherFlags'
      BY <1>1, <1>2, <1>3 DEF Send, Reachable, ObserverFails, ObserverTypes, LauncherFlags
    <2>5. SampleTypes'
      BY <1>1, <1>2, <1>3 DEF Send, Reachable, ObserverFails, ObserverTypes, SampleTypes
    <2> QED
      BY <2>1, <2>2, <2>3, <2>4, <2>5 DEF ObserverTypes
  <1>5. AtWork'
    BY <1>1, <1>2, <1>3 DEF Send, Reachable, Frame, ObserverFails, ObserverTypes, LabelTypes, WorkerFlags, LauncherFlags, SampleTypes, AtWork, Attested, Reserved, Served, Reported, Early, Leaving, Over, Gone, Noticed, NeverStarts, Unsampled
  <1>6. Attested'
    BY <1>1, <1>2, <1>3 DEF Send, Reachable, Frame, ObserverFails, ObserverTypes, LabelTypes, WorkerFlags, LauncherFlags, SampleTypes, AtWork, Attested, Reserved, Served, Reported, Early, Leaving, Over, Gone, Noticed, NeverStarts, Unsampled
  <1>7. Reserved'
    BY <1>1, <1>2, <1>3 DEF Send, Reachable, Frame, ObserverFails, ObserverTypes, LabelTypes, WorkerFlags, LauncherFlags, SampleTypes, AtWork, Attested, Reserved, Served, Reported, Early, Leaving, Over, Gone, Noticed, NeverStarts, Unsampled
  <1>8. Served'
    BY <1>1, <1>2, <1>3 DEF Send, Reachable, Frame, ObserverFails, ObserverTypes, LabelTypes, WorkerFlags, LauncherFlags, SampleTypes, AtWork, Attested, Reserved, Served, Reported, Early, Leaving, Over, Gone, Noticed, NeverStarts, Unsampled
  <1>9. Reported'
    BY <1>1, <1>2, <1>3 DEF Send, Reachable, Frame, ObserverFails, ObserverTypes, LabelTypes, WorkerFlags, LauncherFlags, SampleTypes, AtWork, Attested, Reserved, Served, Reported, Early, Leaving, Over, Gone, Noticed, NeverStarts, Unsampled
  <1> QED
    BY <1>4, <1>5, <1>6, <1>7, <1>8, <1>9 DEF ObserverInv

LEMMA KeepsPosted ==
    ASSUME ObserverInv, Posted
    PROVE  ObserverInv'
  <1> USE DEF channels, monitor, transaction, watchdog, main, receiver, observer, publication, launcher
  <1>1. ObserverTypes /\ AtWork /\ Attested /\ Reserved /\ Served /\ Reported
    BY DEF ObserverInv
  <1>2. /\ toWorker' \in Seq(Inward) /\ (toWorker' = <<>> <=> toWorker = <<>>)
        /\ (Bad' <=> Bad) /\ (Samples' <=> Samples) /\ (Honest' <=> Honest)
    <2>1. toWorker' = toWorker
      BY DEF Posted
    <2> QED
      BY <1>1, <2>1, SameToWorker DEF ObserverTypes, ChannelTypes
  <1>3. toLauncher' \in Seq(Outward) /\ (Stops' <=> Stops)
    <2>1. toLauncher' = toLauncher
      BY DEF Posted
    <2> QED
      BY <1>1, <2>1, SameToLauncher DEF ObserverTypes, ChannelTypes
  <1>4. ObserverTypes'
    <2>1. ChannelTypes'
      BY <1>1, <1>2, <1>3 DEF Posted, NoSample, ObserverTypes, ChannelTypes
    <2>2. LabelTypes'
      BY <1>1, <1>2, <1>3 DEF Posted, NoSample, ObserverTypes, LabelTypes
    <2>3. WorkerFlags'
      BY <1>1, <1>2, <1>3 DEF Posted, NoSample, ObserverTypes, WorkerFlags
    <2>4. LauncherFlags'
      BY <1>1, <1>2, <1>3 DEF Posted, NoSample, ObserverTypes, LauncherFlags
    <2>5. SampleTypes'
      BY <1>1, <1>2, <1>3 DEF Posted, NoSample, ObserverTypes, SampleTypes
    <2> QED
      BY <2>1, <2>2, <2>3, <2>4, <2>5 DEF ObserverTypes
  <1>5. AtWork'
    BY <1>1, <1>2, <1>3 DEF Posted, NoSample, ObserverTypes, LabelTypes, WorkerFlags, LauncherFlags, SampleTypes, AtWork, Attested, Reserved, Served, Reported, Early, Leaving, Over, Gone, Noticed, NeverStarts, Unsampled
  <1>6. Attested'
    BY <1>1, <1>2, <1>3 DEF Posted, NoSample, ObserverTypes, LabelTypes, WorkerFlags, LauncherFlags, SampleTypes, AtWork, Attested, Reserved, Served, Reported, Early, Leaving, Over, Gone, Noticed, NeverStarts, Unsampled
  <1>7. Reserved'
    BY <1>1, <1>2, <1>3 DEF Posted, NoSample, ObserverTypes, LabelTypes, WorkerFlags, LauncherFlags, SampleTypes, AtWork, Attested, Reserved, Served, Reported, Early, Leaving, Over, Gone, Noticed, NeverStarts, Unsampled
  <1>8. Served'
    BY <1>1, <1>2, <1>3 DEF Posted, NoSample, ObserverTypes, LabelTypes, WorkerFlags, LauncherFlags, SampleTypes, AtWork, Attested, Reserved, Served, Reported, Early, Leaving, Over, Gone, Noticed, NeverStarts, Unsampled
  <1>9. Reported'
    BY <1>1, <1>2, <1>3 DEF Posted, NoSample, ObserverTypes, LabelTypes, WorkerFlags, LauncherFlags, SampleTypes, AtWork, Attested, Reserved, Served, Reported, Early, Leaving, Over, Gone, Noticed, NeverStarts, Unsampled
  <1> QED
    BY <1>4, <1>5, <1>6, <1>7, <1>8, <1>9 DEF ObserverInv

LEMMA KeepsCommand ==
    ASSUME ObserverInv, Command
    PROVE  ObserverInv'
  <1> USE DEF channels, monitor, transaction, watchdog, main, receiver, observer, publication, launcher
  <1>1. ObserverTypes /\ AtWork /\ Attested /\ Reserved /\ Served /\ Reported
    BY DEF ObserverInv
  <1>2. /\ toWorker' \in Seq(Inward) /\ (toWorker' = <<>> <=> toWorker = <<>>)
        /\ (Bad' <=> Bad) /\ (Samples' <=> Samples) /\ (Honest' <=> Honest)
    <2>1. toWorker' = toWorker
      BY DEF Command
    <2> QED
      BY <1>1, <2>1, SameToWorker DEF ObserverTypes, ChannelTypes
  <1>3. /\ toLauncher' \in Seq(Outward) /\ (Stops' => Stops)
        /\ toLauncher # <<>> =>
              /\ Head(toLauncher) \in Outward
              /\ Head(toLauncher).type = "stop" => Stops
              /\ Head(toLauncher).id \in Nat
    <2>1. toLauncher' = toLauncher \/ (toLauncher # <<>> /\ toLauncher' = Tail(toLauncher))
      BY DEF Command
    <2>2. toLauncher # <<>> => Head(toLauncher) \in Outward /\ (Head(toLauncher).type = "stop" => Stops)
      BY <1>1, LauncherHeads
    <2>3. \A f \in Outward : f.id \in Nat
      BY DEF Outward, Frames
    <2> QED
      BY <1>1, <2>1, <2>2, <2>3, SameToLauncher, LauncherReads DEF ObserverTypes, ChannelTypes
  <1>4. ObserverTypes'
    <2>1. ChannelTypes'
      BY <1>1, <1>2, <1>3 DEF Command, Acquire, ObserverFails, NoSample, ObserverTypes, ChannelTypes
    <2>2. LabelTypes'
      BY <1>1, <1>2, <1>3 DEF Command, Acquire, ObserverFails, NoSample, ObserverTypes, LabelTypes
    <2>3. WorkerFlags'
      BY <1>1, <1>2, <1>3 DEF Command, Acquire, ObserverFails, NoSample, ObserverTypes, WorkerFlags
    <2>4. LauncherFlags'
      BY <1>1, <1>2, <1>3 DEF Command, Acquire, ObserverFails, NoSample, ObserverTypes, LauncherFlags
    <2>5. SampleTypes'
      <3>1. \/ current' = current
            \/ \E kind \in {"startup", "forced", "terminal"}, id \in Nat :
                  current' = [kind |-> kind, id |-> id, bad |-> FALSE, mine |-> FALSE]
        BY <1>3 DEF Command, Acquire, NoSample
      <3>2. ASSUME NEW kind \in {"startup", "forced", "terminal"}, NEW id \in Nat,
                   current' = [kind |-> kind, id |-> id, bad |-> FALSE, mine |-> FALSE]
            PROVE  current' \in [kind : {"none", "startup", "forced", "terminal", "continuous"}, id : Nat,
                                 bad : BOOLEAN, mine : BOOLEAN]
        BY <3>2
      <3>3. current' \in [kind : {"none", "startup", "forced", "terminal", "continuous"}, id : Nat,
                          bad : BOOLEAN, mine : BOOLEAN]
        BY <1>1, <3>1, <3>2 DEF ObserverTypes, SampleTypes
      <3> QED
        BY <1>1, <3>3 DEF Command, ObserverTypes, SampleTypes
    <2> QED
      BY <2>1, <2>2, <2>3, <2>4, <2>5 DEF ObserverTypes
  <1>5. AtWork'
    BY <1>1, <1>2, <1>3 DEF Command, Acquire, ObserverFails, NoSample, ObserverTypes, LabelTypes, WorkerFlags, LauncherFlags, SampleTypes, AtWork, Attested, Reserved, Served, Reported, Early, Leaving, Over, Gone, Noticed, NeverStarts, Unsampled
  <1>6. Attested'
    BY <1>1, <1>2, <1>3 DEF Command, Acquire, ObserverFails, NoSample, ObserverTypes, LabelTypes, WorkerFlags, LauncherFlags, SampleTypes, AtWork, Attested, Reserved, Served, Reported, Early, Leaving, Over, Gone, Noticed, NeverStarts, Unsampled
  <1>7. Reserved'
    BY <1>1, <1>2, <1>3 DEF Command, Acquire, ObserverFails, NoSample, ObserverTypes, LabelTypes, WorkerFlags, LauncherFlags, SampleTypes, AtWork, Attested, Reserved, Served, Reported, Early, Leaving, Over, Gone, Noticed, NeverStarts, Unsampled
  <1>8. Served'
    <2>1. /\ opc = "idle" /\ toLauncher # <<>>
          /\ UNCHANGED <<wpc, rpc, signalled, completed, started, delivered, stopAck, mpc, grace>>
          /\ opc' \in {"acquire", "idle", "done", "deliver"}
          /\ current' = current \/ (current'.kind = "terminal" => Head(toLauncher).type = "stop")
          /\ code => code'
      BY DEF Command, Acquire, NoSample, ObserverFails
    <2>2. current'.kind = "terminal" => ~Early
      BY <1>1, <1>3, <2>1 DEF Served
    <2>3. (Early' <=> Early) /\ (Unsampled' <=> Unsampled) /\ (Noticed' <=> Noticed)
      BY <1>2, <2>1 DEF Early, Unsampled, Noticed
    <2>4. ~NeverStarts
      BY <2>1 DEF NeverStarts
    <2> QED
      BY <1>1, <1>2, <1>3, <2>1, <2>2, <2>3, <2>4 DEF Served
  <1>9. Reported'
    BY <1>1, <1>2, <1>3 DEF Command, Acquire, ObserverFails, NoSample, ObserverTypes, LabelTypes, WorkerFlags, LauncherFlags, SampleTypes, AtWork, Attested, Reserved, Served, Reported, Early, Leaving, Over, Gone, Noticed, NeverStarts, Unsampled
  <1> QED
    BY <1>4, <1>5, <1>6, <1>7, <1>8, <1>9 DEF ObserverInv

LEMMA KeepsCommandEof ==
    ASSUME ObserverInv, CommandEof
    PROVE  ObserverInv'
  <1> USE DEF channels, monitor, transaction, watchdog, main, receiver, observer, publication, launcher
  <1>1. ObserverTypes /\ AtWork /\ Attested /\ Reserved /\ Served /\ Reported
    BY DEF ObserverInv
  <1>2. /\ toWorker' \in Seq(Inward) /\ (toWorker' = <<>> <=> toWorker = <<>>)
        /\ (Bad' <=> Bad) /\ (Samples' <=> Samples) /\ (Honest' <=> Honest)
    <2>1. toWorker' = toWorker
      BY DEF CommandEof
    <2> QED
      BY <1>1, <2>1, SameToWorker DEF ObserverTypes, ChannelTypes
  <1>3. toLauncher' \in Seq(Outward) /\ (Stops' <=> Stops)
    <2>1. toLauncher' = toLauncher
      BY DEF CommandEof
    <2> QED
      BY <1>1, <2>1, SameToLauncher DEF ObserverTypes, ChannelTypes
  <1>4. ObserverTypes'
    <2>1. ChannelTypes'
      BY <1>1, <1>2, <1>3 DEF CommandEof, ObserverFails, ObserverTypes, ChannelTypes
    <2>2. LabelTypes'
      BY <1>1, <1>2, <1>3 DEF CommandEof, ObserverFails, ObserverTypes, LabelTypes
    <2>3. WorkerFlags'
      BY <1>1, <1>2, <1>3 DEF CommandEof, ObserverFails, ObserverTypes, WorkerFlags
    <2>4. LauncherFlags'
      BY <1>1, <1>2, <1>3 DEF CommandEof, ObserverFails, ObserverTypes, LauncherFlags
    <2>5. SampleTypes'
      BY <1>1, <1>2, <1>3 DEF CommandEof, ObserverFails, ObserverTypes, SampleTypes
    <2> QED
      BY <2>1, <2>2, <2>3, <2>4, <2>5 DEF ObserverTypes
  <1>5. AtWork'
    BY <1>1, <1>2, <1>3 DEF CommandEof, ObserverFails, LauncherEof, ObserverTypes, LabelTypes, WorkerFlags, LauncherFlags, SampleTypes, AtWork, Attested, Reserved, Served, Reported, Early, Leaving, Over, Gone, Noticed, NeverStarts, Unsampled
  <1>6. Attested'
    BY <1>1, <1>2, <1>3 DEF CommandEof, ObserverFails, LauncherEof, ObserverTypes, LabelTypes, WorkerFlags, LauncherFlags, SampleTypes, AtWork, Attested, Reserved, Served, Reported, Early, Leaving, Over, Gone, Noticed, NeverStarts, Unsampled
  <1>7. Reserved'
    BY <1>1, <1>2, <1>3 DEF CommandEof, ObserverFails, LauncherEof, ObserverTypes, LabelTypes, WorkerFlags, LauncherFlags, SampleTypes, AtWork, Attested, Reserved, Served, Reported, Early, Leaving, Over, Gone, Noticed, NeverStarts, Unsampled
  <1>8. Served'
    BY <1>1, <1>2, <1>3 DEF CommandEof, ObserverFails, LauncherEof, ObserverTypes, LabelTypes, WorkerFlags, LauncherFlags, SampleTypes, AtWork, Attested, Reserved, Served, Reported, Early, Leaving, Over, Gone, Noticed, NeverStarts, Unsampled
  <1>9. Reported'
    BY <1>1, <1>2, <1>3 DEF CommandEof, ObserverFails, LauncherEof, ObserverTypes, LabelTypes, WorkerFlags, LauncherFlags, SampleTypes, AtWork, Attested, Reserved, Served, Reported, Early, Leaving, Over, Gone, Noticed, NeverStarts, Unsampled
  <1> QED
    BY <1>4, <1>5, <1>6, <1>7, <1>8, <1>9 DEF ObserverInv

LEMMA KeepsTick ==
    ASSUME ObserverInv, Tick
    PROVE  ObserverInv'
  <1> USE DEF channels, monitor, transaction, watchdog, main, receiver, observer, publication, launcher
  <1>1. ObserverTypes /\ AtWork /\ Attested /\ Reserved /\ Served /\ Reported
    BY DEF ObserverInv
  <1>2. /\ toWorker' \in Seq(Inward) /\ (toWorker' = <<>> <=> toWorker = <<>>)
        /\ (Bad' <=> Bad) /\ (Samples' <=> Samples) /\ (Honest' <=> Honest)
    <2>1. toWorker' = toWorker
      BY DEF Tick
    <2> QED
      BY <1>1, <2>1, SameToWorker DEF ObserverTypes, ChannelTypes
  <1>3. toLauncher' \in Seq(Outward) /\ (Stops' <=> Stops)
    <2>1. toLauncher' = toLauncher
      BY DEF Tick
    <2> QED
      BY <1>1, <2>1, SameToLauncher DEF ObserverTypes, ChannelTypes
  <1>4. ObserverTypes'
    <2>1. ChannelTypes'
      BY <1>1, <1>2, <1>3 DEF Tick, Acquire, NoSample, ObserverTypes, ChannelTypes
    <2>2. LabelTypes'
      BY <1>1, <1>2, <1>3 DEF Tick, Acquire, NoSample, ObserverTypes, LabelTypes
    <2>3. WorkerFlags'
      BY <1>1, <1>2, <1>3 DEF Tick, Acquire, NoSample, ObserverTypes, WorkerFlags
    <2>4. LauncherFlags'
      BY <1>1, <1>2, <1>3 DEF Tick, Acquire, NoSample, ObserverTypes, LauncherFlags
    <2>5. SampleTypes'
      BY <1>1, <1>2, <1>3 DEF Tick, Acquire, NoSample, ObserverTypes, SampleTypes
    <2> QED
      BY <2>1, <2>2, <2>3, <2>4, <2>5 DEF ObserverTypes
  <1>5. AtWork'
    BY <1>1, <1>2, <1>3 DEF Tick, Acquire, NoSample, LauncherEof, ObserverTypes, LabelTypes, WorkerFlags, LauncherFlags, SampleTypes, AtWork, Attested, Reserved, Served, Reported, Early, Leaving, Over, Gone, Noticed, NeverStarts, Unsampled
  <1>6. Attested'
    BY <1>1, <1>2, <1>3 DEF Tick, Acquire, NoSample, LauncherEof, ObserverTypes, LabelTypes, WorkerFlags, LauncherFlags, SampleTypes, AtWork, Attested, Reserved, Served, Reported, Early, Leaving, Over, Gone, Noticed, NeverStarts, Unsampled
  <1>7. Reserved'
    BY <1>1, <1>2, <1>3 DEF Tick, Acquire, NoSample, LauncherEof, ObserverTypes, LabelTypes, WorkerFlags, LauncherFlags, SampleTypes, AtWork, Attested, Reserved, Served, Reported, Early, Leaving, Over, Gone, Noticed, NeverStarts, Unsampled
  <1>8. Served'
    BY <1>1, <1>2, <1>3 DEF Tick, Acquire, NoSample, LauncherEof, ObserverTypes, LabelTypes, WorkerFlags, LauncherFlags, SampleTypes, AtWork, Attested, Reserved, Served, Reported, Early, Leaving, Over, Gone, Noticed, NeverStarts, Unsampled
  <1>9. Reported'
    BY <1>1, <1>2, <1>3 DEF Tick, Acquire, NoSample, LauncherEof, ObserverTypes, LabelTypes, WorkerFlags, LauncherFlags, SampleTypes, AtWork, Attested, Reserved, Served, Reported, Early, Leaving, Over, Gone, Noticed, NeverStarts, Unsampled
  <1> QED
    BY <1>4, <1>5, <1>6, <1>7, <1>8, <1>9 DEF ObserverInv

LEMMA KeepsStopEof ==
    ASSUME ObserverInv, StopEof
    PROVE  ObserverInv'
  <1> USE DEF channels, monitor, transaction, watchdog, main, receiver, observer, publication, launcher
  <1>1. ObserverTypes /\ AtWork /\ Attested /\ Reserved /\ Served /\ Reported
    BY DEF ObserverInv
  <1>2. /\ toWorker' \in Seq(Inward) /\ (toWorker' = <<>> <=> toWorker = <<>>)
        /\ (Bad' <=> Bad) /\ (Samples' <=> Samples) /\ (Honest' <=> Honest)
    <2>1. toWorker' = toWorker
      BY DEF StopEof
    <2> QED
      BY <1>1, <2>1, SameToWorker DEF ObserverTypes, ChannelTypes
  <1>3. toLauncher' \in Seq(Outward) /\ (Stops' <=> Stops)
    <2>1. toLauncher' = toLauncher
      BY DEF StopEof
    <2> QED
      BY <1>1, <2>1, SameToLauncher DEF ObserverTypes, ChannelTypes
  <1>4. ObserverTypes'
    <2>1. ChannelTypes'
      BY <1>1, <1>2, <1>3 DEF StopEof, ObserverFails, ObserverTypes, ChannelTypes
    <2>2. LabelTypes'
      BY <1>1, <1>2, <1>3 DEF StopEof, ObserverFails, ObserverTypes, LabelTypes
    <2>3. WorkerFlags'
      BY <1>1, <1>2, <1>3 DEF StopEof, ObserverFails, ObserverTypes, WorkerFlags
    <2>4. LauncherFlags'
      BY <1>1, <1>2, <1>3 DEF StopEof, ObserverFails, ObserverTypes, LauncherFlags
    <2>5. SampleTypes'
      BY <1>1, <1>2, <1>3 DEF StopEof, ObserverFails, ObserverTypes, SampleTypes
    <2> QED
      BY <2>1, <2>2, <2>3, <2>4, <2>5 DEF ObserverTypes
  <1>5. AtWork'
    BY <1>1, <1>2, <1>3 DEF StopEof, ObserverFails, ObserverTypes, LabelTypes, WorkerFlags, LauncherFlags, SampleTypes, AtWork, Attested, Reserved, Served, Reported, Early, Leaving, Over, Gone, Noticed, NeverStarts, Unsampled
  <1>6. Attested'
    BY <1>1, <1>2, <1>3 DEF StopEof, ObserverFails, ObserverTypes, LabelTypes, WorkerFlags, LauncherFlags, SampleTypes, AtWork, Attested, Reserved, Served, Reported, Early, Leaving, Over, Gone, Noticed, NeverStarts, Unsampled
  <1>7. Reserved'
    BY <1>1, <1>2, <1>3 DEF StopEof, ObserverFails, ObserverTypes, LabelTypes, WorkerFlags, LauncherFlags, SampleTypes, AtWork, Attested, Reserved, Served, Reported, Early, Leaving, Over, Gone, Noticed, NeverStarts, Unsampled
  <1>8. Served'
    BY <1>1, <1>2, <1>3 DEF StopEof, ObserverFails, ObserverTypes, LabelTypes, WorkerFlags, LauncherFlags, SampleTypes, AtWork, Attested, Reserved, Served, Reported, Early, Leaving, Over, Gone, Noticed, NeverStarts, Unsampled
  <1>9. Reported'
    BY <1>1, <1>2, <1>3 DEF StopEof, ObserverFails, ObserverTypes, LabelTypes, WorkerFlags, LauncherFlags, SampleTypes, AtWork, Attested, Reserved, Served, Reported, Early, Leaving, Over, Gone, Noticed, NeverStarts, Unsampled
  <1> QED
    BY <1>4, <1>5, <1>6, <1>7, <1>8, <1>9 DEF ObserverInv

\* The supervisor of the observer: it watches the deadline and delivers the failure.
LEMMA KeepsExpire ==
    ASSUME ObserverInv, Expire
    PROVE  ObserverInv'
  <1> USE DEF channels, monitor, transaction, watchdog, main, receiver, observer, publication, launcher
  <1>1. ObserverTypes /\ AtWork /\ Attested /\ Reserved /\ Served /\ Reported
    BY DEF ObserverInv
  <1>2. /\ toWorker' \in Seq(Inward) /\ (toWorker' = <<>> <=> toWorker = <<>>)
        /\ (Bad' <=> Bad) /\ (Samples' <=> Samples) /\ (Honest' <=> Honest)
    <2>1. toWorker' = toWorker
      BY DEF Expire
    <2> QED
      BY <1>1, <2>1, SameToWorker DEF ObserverTypes, ChannelTypes
  <1>3. toLauncher' \in Seq(Outward) /\ (Stops' <=> Stops)
    <2>1. toLauncher' = toLauncher
      BY DEF Expire
    <2> QED
      BY <1>1, <2>1, SameToLauncher DEF ObserverTypes, ChannelTypes
  <1>4. ObserverTypes'
    <2>1. ChannelTypes'
      BY <1>1, <1>2, <1>3 DEF Expire, ObserverTypes, ChannelTypes
    <2>2. LabelTypes'
      BY <1>1, <1>2, <1>3 DEF Expire, ObserverTypes, LabelTypes
    <2>3. WorkerFlags'
      BY <1>1, <1>2, <1>3 DEF Expire, ObserverTypes, WorkerFlags
    <2>4. LauncherFlags'
      BY <1>1, <1>2, <1>3 DEF Expire, ObserverTypes, LauncherFlags
    <2>5. SampleTypes'
      BY <1>1, <1>2, <1>3 DEF Expire, ObserverTypes, SampleTypes
    <2> QED
      BY <2>1, <2>2, <2>3, <2>4, <2>5 DEF ObserverTypes
  <1>5. AtWork'
    BY <1>1, <1>2, <1>3 DEF Expire, ObserverTypes, LabelTypes, WorkerFlags, LauncherFlags, SampleTypes, AtWork, Attested, Reserved, Served, Reported, Early, Leaving, Over, Gone, Noticed, NeverStarts, Unsampled
  <1>6. Attested'
    BY <1>1, <1>2, <1>3 DEF Expire, ObserverTypes, LabelTypes, WorkerFlags, LauncherFlags, SampleTypes, AtWork, Attested, Reserved, Served, Reported, Early, Leaving, Over, Gone, Noticed, NeverStarts, Unsampled
  <1>7. Reserved'
    BY <1>1, <1>2, <1>3 DEF Expire, ObserverTypes, LabelTypes, WorkerFlags, LauncherFlags, SampleTypes, AtWork, Attested, Reserved, Served, Reported, Early, Leaving, Over, Gone, Noticed, NeverStarts, Unsampled
  <1>8. Served'
    BY <1>1, <1>2, <1>3 DEF Expire, ObserverTypes, LabelTypes, WorkerFlags, LauncherFlags, SampleTypes, AtWork, Attested, Reserved, Served, Reported, Early, Leaving, Over, Gone, Noticed, NeverStarts, Unsampled
  <1>9. Reported'
    BY <1>1, <1>2, <1>3 DEF Expire, ObserverTypes, LabelTypes, WorkerFlags, LauncherFlags, SampleTypes, AtWork, Attested, Reserved, Served, Reported, Early, Leaving, Over, Gone, Noticed, NeverStarts, Unsampled
  <1> QED
    BY <1>4, <1>5, <1>6, <1>7, <1>8, <1>9 DEF ObserverInv

LEMMA KeepsSupervisorDelivers ==
    ASSUME ObserverInv, SupervisorDelivers
    PROVE  ObserverInv'
  <1> USE DEF channels, monitor, transaction, watchdog, main, receiver, observer, publication, launcher
  <1>1. ObserverTypes /\ AtWork /\ Attested /\ Reserved /\ Served /\ Reported
    BY DEF ObserverInv
  <1>2. /\ toWorker' \in Seq(Inward) /\ (Samples' => Samples) /\ Honest'
        /\ Bad => Bad'
        /\ Reachable => Bad'
    <2>1. ToWorker(Frame("failure", 0, TRUE))
      BY DEF SupervisorDelivers, Deliver
    <2> QED
      BY <1>1, <2>1, SendsToWorker, Framed DEF Served
  <1>3. toLauncher' \in Seq(Outward) /\ (Stops' <=> Stops)
    <2>1. toLauncher' = toLauncher
      BY DEF SupervisorDelivers
    <2> QED
      BY <1>1, <2>1, SameToLauncher DEF ObserverTypes, ChannelTypes
  <1>4. ObserverTypes'
    <2>1. ChannelTypes'
      BY <1>1, <1>2, <1>3 DEF SupervisorDelivers, Deliver, Reachable, ObserverTypes, ChannelTypes
    <2>2. LabelTypes'
      BY <1>1, <1>2, <1>3 DEF SupervisorDelivers, Deliver, Reachable, ObserverTypes, LabelTypes
    <2>3. WorkerFlags'
      BY <1>1, <1>2, <1>3 DEF SupervisorDelivers, Deliver, Reachable, ObserverTypes, WorkerFlags
    <2>4. LauncherFlags'
      BY <1>1, <1>2, <1>3 DEF SupervisorDelivers, Deliver, Reachable, ObserverTypes, LauncherFlags
    <2>5. SampleTypes'
      BY <1>1, <1>2, <1>3 DEF SupervisorDelivers, Deliver, Reachable, ObserverTypes, SampleTypes
    <2> QED
      BY <2>1, <2>2, <2>3, <2>4, <2>5 DEF ObserverTypes
  <1>5. AtWork'
    BY <1>1, <1>2, <1>3 DEF SupervisorDelivers, Deliver, Reachable, ObserverTypes, LabelTypes, WorkerFlags, LauncherFlags, SampleTypes, AtWork, Attested, Reserved, Served, Reported, Early, Leaving, Over, Gone, Noticed, NeverStarts, Unsampled
  <1>6. Attested'
    BY <1>1, <1>2, <1>3 DEF SupervisorDelivers, Deliver, Reachable, ObserverTypes, LabelTypes, WorkerFlags, LauncherFlags, SampleTypes, AtWork, Attested, Reserved, Served, Reported, Early, Leaving, Over, Gone, Noticed, NeverStarts, Unsampled
  <1>7. Reserved'
    BY <1>1, <1>2, <1>3 DEF SupervisorDelivers, Deliver, Reachable, ObserverTypes, LabelTypes, WorkerFlags, LauncherFlags, SampleTypes, AtWork, Attested, Reserved, Served, Reported, Early, Leaving, Over, Gone, Noticed, NeverStarts, Unsampled
  <1>8. Served'
    BY <1>1, <1>2, <1>3 DEF SupervisorDelivers, Deliver, Reachable, ObserverTypes, LabelTypes, WorkerFlags, LauncherFlags, SampleTypes, AtWork, Attested, Reserved, Served, Reported, Early, Leaving, Over, Gone, Noticed, NeverStarts, Unsampled
  <1>9. Reported'
    BY <1>1, <1>2, <1>3 DEF SupervisorDelivers, Deliver, Reachable, ObserverTypes, LabelTypes, WorkerFlags, LauncherFlags, SampleTypes, AtWork, Attested, Reserved, Served, Reported, Early, Leaving, Over, Gone, Noticed, NeverStarts, Unsampled
  <1> QED
    BY <1>4, <1>5, <1>6, <1>7, <1>8, <1>9 DEF ObserverInv

\* The launcher's main thread.
LEMMA KeepsNotice ==
    ASSUME ObserverInv, Notice
    PROVE  ObserverInv'
  <1> USE DEF channels, monitor, transaction, watchdog, main, receiver, observer, publication, launcher
  <1>1. ObserverTypes /\ AtWork /\ Attested /\ Reserved /\ Served /\ Reported
    BY DEF ObserverInv
  <1>2. /\ toWorker' \in Seq(Inward) /\ (toWorker' = <<>> <=> toWorker = <<>>)
        /\ (Bad' <=> Bad) /\ (Samples' <=> Samples) /\ (Honest' <=> Honest)
    <2>1. toWorker' = toWorker
      BY DEF Notice
    <2> QED
      BY <1>1, <2>1, SameToWorker DEF ObserverTypes, ChannelTypes
  <1>3. toLauncher' \in Seq(Outward) /\ (Stops' <=> Stops)
    <2>1. toLauncher' = toLauncher
      BY DEF Notice
    <2> QED
      BY <1>1, <2>1, SameToLauncher DEF ObserverTypes, ChannelTypes
  <1>4. ObserverTypes'
    <2>1. ChannelTypes'
      BY <1>1, <1>2, <1>3 DEF Notice, ObserverTypes, ChannelTypes
    <2>2. LabelTypes'
      BY <1>1, <1>2, <1>3 DEF Notice, ObserverTypes, LabelTypes
    <2>3. WorkerFlags'
      BY <1>1, <1>2, <1>3 DEF Notice, ObserverTypes, WorkerFlags
    <2>4. LauncherFlags'
      BY <1>1, <1>2, <1>3 DEF Notice, ObserverTypes, LauncherFlags
    <2>5. SampleTypes'
      BY <1>1, <1>2, <1>3 DEF Notice, ObserverTypes, SampleTypes
    <2> QED
      BY <2>1, <2>2, <2>3, <2>4, <2>5 DEF ObserverTypes
  <1>5. AtWork'
    BY <1>1, <1>2, <1>3 DEF Notice, ObserverTypes, LabelTypes, WorkerFlags, LauncherFlags, SampleTypes, AtWork, Attested, Reserved, Served, Reported, Early, Leaving, Over, Gone, Noticed, NeverStarts, Unsampled
  <1>6. Attested'
    BY <1>1, <1>2, <1>3 DEF Notice, ObserverTypes, LabelTypes, WorkerFlags, LauncherFlags, SampleTypes, AtWork, Attested, Reserved, Served, Reported, Early, Leaving, Over, Gone, Noticed, NeverStarts, Unsampled
  <1>7. Reserved'
    BY <1>1, <1>2, <1>3 DEF Notice, ObserverTypes, LabelTypes, WorkerFlags, LauncherFlags, SampleTypes, AtWork, Attested, Reserved, Served, Reported, Early, Leaving, Over, Gone, Noticed, NeverStarts, Unsampled
  <1>8. Served'
    BY <1>1, <1>2, <1>3 DEF Notice, ObserverTypes, LabelTypes, WorkerFlags, LauncherFlags, SampleTypes, AtWork, Attested, Reserved, Served, Reported, Early, Leaving, Over, Gone, Noticed, NeverStarts, Unsampled
  <1>9. Reported'
    BY <1>1, <1>2, <1>3 DEF Notice, ObserverTypes, LabelTypes, WorkerFlags, LauncherFlags, SampleTypes, AtWork, Attested, Reserved, Served, Reported, Early, Leaving, Over, Gone, Noticed, NeverStarts, Unsampled
  <1> QED
    BY <1>4, <1>5, <1>6, <1>7, <1>8, <1>9 DEF ObserverInv

LEMMA KeepsRequest ==
    ASSUME ObserverInv, Request
    PROVE  ObserverInv'
  <1> USE DEF channels, monitor, transaction, watchdog, main, receiver, observer, publication, launcher
  <1>1. ObserverTypes /\ AtWork /\ Attested /\ Reserved /\ Served /\ Reported
    BY DEF ObserverInv
  <1>2. /\ toWorker' \in Seq(Inward) /\ (Samples' => Samples) /\ Honest'
        /\ wpc' = wpc => (Bad' <=> Bad)
    <2>1. toWorker' = toWorker \/ (toWorker' = <<>> /\ wpc' # wpc)
      BY <1>1 DEF Request, Gone, Dies, Lives
    <2> QED
      BY <1>1, <2>1, SameToWorker, NothingToWorker DEF ObserverTypes, ChannelTypes, Served
  <1>3. toLauncher' \in Seq(Outward) /\ (Stops' <=> Stops)
    <2>1. toLauncher' = toLauncher
      BY DEF Request
    <2> QED
      BY <1>1, <2>1, SameToLauncher DEF ObserverTypes, ChannelTypes
  <1>4. ObserverTypes'
    <2>1. ChannelTypes'
      BY <1>1, <1>2, <1>3 DEF Request, Gone, Dies, Lives, ObserverTypes, ChannelTypes
    <2>2. LabelTypes'
      BY <1>1, <1>2, <1>3 DEF Request, Gone, Dies, Lives, ObserverTypes, LabelTypes
    <2>3. WorkerFlags'
      BY <1>1, <1>2, <1>3 DEF Request, Gone, Dies, Lives, ObserverTypes, WorkerFlags
    <2>4. LauncherFlags'
      BY <1>1, <1>2, <1>3 DEF Request, Gone, Dies, Lives, ObserverTypes, LauncherFlags
    <2>5. SampleTypes'
      BY <1>1, <1>2, <1>3 DEF Request, Gone, Dies, Lives, ObserverTypes, SampleTypes
    <2> QED
      BY <2>1, <2>2, <2>3, <2>4, <2>5 DEF ObserverTypes
  <1>5. AtWork'
    <2>1. UNCHANGED <<handler, aborted, completed, expected, final, ask, stopAsked, stopped, told>>
      BY DEF Request
    <2>2. \/ /\ UNCHANGED <<wpc, rpc, workerShut>>
             /\ signalled' = signalled \/ (signalled' /\ handler)
          \/ wpc' = "killed"
      BY DEF Request, Lives, Dies
    <2>3. CASE wpc' = "killed"
      BY <1>1, <2>1, <2>3 DEF AtWork, Early
    <2>4. CASE UNCHANGED <<wpc, rpc, workerShut>> /\ (signalled' = signalled \/ (signalled' /\ handler))
      <3>1. wpc' = wpc /\ rpc' = rpc /\ workerShut' = workerShut /\ (signalled => signalled')
        BY <1>1, <2>4 DEF ObserverTypes, WorkerFlags
      <3>2. wpc = "boot" => signalled' = signalled
        BY <1>1, <2>4 DEF AtWork, ObserverTypes, WorkerFlags
      <3> QED
        BY <1>1, <2>1, <3>1, <3>2 DEF AtWork, Early
    <2> QED
      BY <2>2, <2>3, <2>4
  <1>6. Attested'
    BY <1>1, <1>2, <1>3 DEF Request, Gone, Dies, Lives, ObserverTypes, LabelTypes, WorkerFlags, LauncherFlags, SampleTypes, AtWork, Attested, Reserved, Served, Reported, Early, Leaving, Over, Noticed, NeverStarts, Unsampled
  <1>7. Reserved'
    BY <1>1, <1>2, <1>3 DEF Request, Gone, Dies, Lives, ObserverTypes, LabelTypes, WorkerFlags, LauncherFlags, SampleTypes, AtWork, Attested, Reserved, Served, Reported, Early, Leaving, Over, Noticed, NeverStarts, Unsampled
  <1>8. Served'
    BY <1>1, <1>2, <1>3 DEF Request, Gone, Dies, Lives, ObserverTypes, LabelTypes, WorkerFlags, LauncherFlags, SampleTypes, AtWork, Attested, Reserved, Served, Reported, Early, Leaving, Over, Noticed, NeverStarts, Unsampled
  <1>9. Reported'
    BY <1>1, <1>2, <1>3 DEF Request, Gone, Dies, Lives, ObserverTypes, LabelTypes, WorkerFlags, LauncherFlags, SampleTypes, AtWork, Attested, Reserved, Served, Reported, Early, Leaving, Over, Noticed, NeverStarts, Unsampled
  <1> QED
    BY <1>4, <1>5, <1>6, <1>7, <1>8, <1>9 DEF ObserverInv

LEMMA KeepsGiveUp ==
    ASSUME ObserverInv, GiveUp
    PROVE  ObserverInv'
  <1> USE DEF channels, monitor, transaction, watchdog, main, receiver, observer, publication, launcher
  <1>1. ObserverTypes /\ AtWork /\ Attested /\ Reserved /\ Served /\ Reported
    BY DEF ObserverInv
  <1>2. /\ toWorker' \in Seq(Inward) /\ (toWorker' = <<>> <=> toWorker = <<>>)
        /\ (Bad' <=> Bad) /\ (Samples' <=> Samples) /\ (Honest' <=> Honest)
    <2>1. toWorker' = toWorker
      BY DEF GiveUp
    <2> QED
      BY <1>1, <2>1, SameToWorker DEF ObserverTypes, ChannelTypes
  <1>3. toLauncher' \in Seq(Outward) /\ (Stops' <=> Stops)
    <2>1. toLauncher' = toLauncher
      BY DEF GiveUp
    <2> QED
      BY <1>1, <2>1, SameToLauncher DEF ObserverTypes, ChannelTypes
  <1>4. ObserverTypes'
    <2>1. ChannelTypes'
      BY <1>1, <1>2, <1>3 DEF GiveUp, Gone, ObserverTypes, ChannelTypes
    <2>2. LabelTypes'
      BY <1>1, <1>2, <1>3 DEF GiveUp, Gone, ObserverTypes, LabelTypes
    <2>3. WorkerFlags'
      BY <1>1, <1>2, <1>3 DEF GiveUp, Gone, ObserverTypes, WorkerFlags
    <2>4. LauncherFlags'
      BY <1>1, <1>2, <1>3 DEF GiveUp, Gone, ObserverTypes, LauncherFlags
    <2>5. SampleTypes'
      BY <1>1, <1>2, <1>3 DEF GiveUp, Gone, ObserverTypes, SampleTypes
    <2> QED
      BY <2>1, <2>2, <2>3, <2>4, <2>5 DEF ObserverTypes
  <1>5. AtWork'
    BY <1>1, <1>2, <1>3 DEF GiveUp, Gone, ObserverTypes, LabelTypes, WorkerFlags, LauncherFlags, SampleTypes, AtWork, Attested, Reserved, Served, Reported, Early, Leaving, Over, Noticed, NeverStarts, Unsampled
  <1>6. Attested'
    BY <1>1, <1>2, <1>3 DEF GiveUp, Gone, ObserverTypes, LabelTypes, WorkerFlags, LauncherFlags, SampleTypes, AtWork, Attested, Reserved, Served, Reported, Early, Leaving, Over, Noticed, NeverStarts, Unsampled
  <1>7. Reserved'
    BY <1>1, <1>2, <1>3 DEF GiveUp, Gone, ObserverTypes, LabelTypes, WorkerFlags, LauncherFlags, SampleTypes, AtWork, Attested, Reserved, Served, Reported, Early, Leaving, Over, Noticed, NeverStarts, Unsampled
  <1>8. Served'
    BY <1>1, <1>2, <1>3 DEF GiveUp, Gone, ObserverTypes, LabelTypes, WorkerFlags, LauncherFlags, SampleTypes, AtWork, Attested, Reserved, Served, Reported, Early, Leaving, Over, Noticed, NeverStarts, Unsampled
  <1>9. Reported'
    BY <1>1, <1>2, <1>3 DEF GiveUp, Gone, ObserverTypes, LabelTypes, WorkerFlags, LauncherFlags, SampleTypes, AtWork, Attested, Reserved, Served, Reported, Early, Leaving, Over, Noticed, NeverStarts, Unsampled
  <1> QED
    BY <1>4, <1>5, <1>6, <1>7, <1>8, <1>9 DEF ObserverInv

LEMMA KeepsResponded ==
    ASSUME ObserverInv, Responded
    PROVE  ObserverInv'
  <1> USE DEF channels, monitor, transaction, watchdog, main, receiver, observer, publication, launcher
  <1>1. ObserverTypes /\ AtWork /\ Attested /\ Reserved /\ Served /\ Reported
    BY DEF ObserverInv
  <1>2. /\ toWorker' \in Seq(Inward) /\ (toWorker' = <<>> <=> toWorker = <<>>)
        /\ (Bad' <=> Bad) /\ (Samples' <=> Samples) /\ (Honest' <=> Honest)
    <2>1. toWorker' = toWorker
      BY DEF Responded
    <2> QED
      BY <1>1, <2>1, SameToWorker DEF ObserverTypes, ChannelTypes
  <1>3. toLauncher' \in Seq(Outward) /\ (Stops' <=> Stops)
    <2>1. toLauncher' = toLauncher
      BY DEF Responded
    <2> QED
      BY <1>1, <2>1, SameToLauncher DEF ObserverTypes, ChannelTypes
  <1>4. ObserverTypes'
    <2>1. ChannelTypes'
      BY <1>1, <1>2, <1>3 DEF Responded, Gone, ObserverTypes, ChannelTypes
    <2>2. LabelTypes'
      BY <1>1, <1>2, <1>3 DEF Responded, Gone, ObserverTypes, LabelTypes
    <2>3. WorkerFlags'
      BY <1>1, <1>2, <1>3 DEF Responded, Gone, ObserverTypes, WorkerFlags
    <2>4. LauncherFlags'
      BY <1>1, <1>2, <1>3 DEF Responded, Gone, ObserverTypes, LauncherFlags
    <2>5. SampleTypes'
      BY <1>1, <1>2, <1>3 DEF Responded, Gone, ObserverTypes, SampleTypes
    <2> QED
      BY <2>1, <2>2, <2>3, <2>4, <2>5 DEF ObserverTypes
  <1>5. AtWork'
    BY <1>1, <1>2, <1>3 DEF Responded, Gone, ObserverTypes, LabelTypes, WorkerFlags, LauncherFlags, SampleTypes, AtWork, Attested, Reserved, Served, Reported, Early, Leaving, Over, Noticed, NeverStarts, Unsampled
  <1>6. Attested'
    BY <1>1, <1>2, <1>3 DEF Responded, Gone, ObserverTypes, LabelTypes, WorkerFlags, LauncherFlags, SampleTypes, AtWork, Attested, Reserved, Served, Reported, Early, Leaving, Over, Noticed, NeverStarts, Unsampled
  <1>7. Reserved'
    BY <1>1, <1>2, <1>3 DEF Responded, Gone, ObserverTypes, LabelTypes, WorkerFlags, LauncherFlags, SampleTypes, AtWork, Attested, Reserved, Served, Reported, Early, Leaving, Over, Noticed, NeverStarts, Unsampled
  <1>8. Served'
    BY <1>1, <1>2, <1>3 DEF Responded, Gone, ObserverTypes, LabelTypes, WorkerFlags, LauncherFlags, SampleTypes, AtWork, Attested, Reserved, Served, Reported, Early, Leaving, Over, Noticed, NeverStarts, Unsampled
  <1>9. Reported'
    BY <1>1, <1>2, <1>3 DEF Responded, Gone, ObserverTypes, LabelTypes, WorkerFlags, LauncherFlags, SampleTypes, AtWork, Attested, Reserved, Served, Reported, Early, Leaving, Over, Noticed, NeverStarts, Unsampled
  <1> QED
    BY <1>4, <1>5, <1>6, <1>7, <1>8, <1>9 DEF ObserverInv

LEMMA KeepsKill ==
    ASSUME ObserverInv, Kill
    PROVE  ObserverInv'
  <1> USE DEF channels, monitor, transaction, watchdog, main, receiver, observer, publication, launcher
  <1>1. ObserverTypes /\ AtWork /\ Attested /\ Reserved /\ Served /\ Reported
    BY DEF ObserverInv
  <1>2. /\ toWorker' \in Seq(Inward) /\ (Samples' => Samples) /\ Honest'
        /\ wpc' = wpc => (Bad' <=> Bad)
    <2>1. toWorker' = toWorker \/ (toWorker' = <<>> /\ wpc' # wpc)
      BY <1>1 DEF Kill, Gone, Dies, Lives
    <2> QED
      BY <1>1, <2>1, SameToWorker, NothingToWorker DEF ObserverTypes, ChannelTypes, Served
  <1>3. toLauncher' \in Seq(Outward) /\ (Stops' <=> Stops)
    <2>1. toLauncher' = toLauncher
      BY DEF Kill
    <2> QED
      BY <1>1, <2>1, SameToLauncher DEF ObserverTypes, ChannelTypes
  <1>4. ObserverTypes'
    <2>1. ChannelTypes'
      BY <1>1, <1>2, <1>3 DEF Kill, Gone, Dies, Lives, ObserverTypes, ChannelTypes
    <2>2. LabelTypes'
      BY <1>1, <1>2, <1>3 DEF Kill, Gone, Dies, Lives, ObserverTypes, LabelTypes
    <2>3. WorkerFlags'
      BY <1>1, <1>2, <1>3 DEF Kill, Gone, Dies, Lives, ObserverTypes, WorkerFlags
    <2>4. LauncherFlags'
      BY <1>1, <1>2, <1>3 DEF Kill, Gone, Dies, Lives, ObserverTypes, LauncherFlags
    <2>5. SampleTypes'
      BY <1>1, <1>2, <1>3 DEF Kill, Gone, Dies, Lives, ObserverTypes, SampleTypes
    <2> QED
      BY <2>1, <2>2, <2>3, <2>4, <2>5 DEF ObserverTypes
  <1>5. AtWork'
    BY <1>1, <1>2, <1>3 DEF Kill, Gone, Dies, Lives, ObserverTypes, LabelTypes, WorkerFlags, LauncherFlags, SampleTypes, AtWork, Attested, Reserved, Served, Reported, Early, Leaving, Over, Noticed, NeverStarts, Unsampled
  <1>6. Attested'
    BY <1>1, <1>2, <1>3 DEF Kill, Gone, Dies, Lives, ObserverTypes, LabelTypes, WorkerFlags, LauncherFlags, SampleTypes, AtWork, Attested, Reserved, Served, Reported, Early, Leaving, Over, Noticed, NeverStarts, Unsampled
  <1>7. Reserved'
    BY <1>1, <1>2, <1>3 DEF Kill, Gone, Dies, Lives, ObserverTypes, LabelTypes, WorkerFlags, LauncherFlags, SampleTypes, AtWork, Attested, Reserved, Served, Reported, Early, Leaving, Over, Noticed, NeverStarts, Unsampled
  <1>8. Served'
    BY <1>1, <1>2, <1>3 DEF Kill, Gone, Dies, Lives, ObserverTypes, LabelTypes, WorkerFlags, LauncherFlags, SampleTypes, AtWork, Attested, Reserved, Served, Reported, Early, Leaving, Over, Noticed, NeverStarts, Unsampled
  <1>9. Reported'
    BY <1>1, <1>2, <1>3 DEF Kill, Gone, Dies, Lives, ObserverTypes, LabelTypes, WorkerFlags, LauncherFlags, SampleTypes, AtWork, Attested, Reserved, Served, Reported, Early, Leaving, Over, Noticed, NeverStarts, Unsampled
  <1> QED
    BY <1>4, <1>5, <1>6, <1>7, <1>8, <1>9 DEF ObserverInv

LEMMA KeepsJoinLate ==
    ASSUME ObserverInv, JoinLate
    PROVE  ObserverInv'
  <1> USE DEF channels, monitor, transaction, watchdog, main, receiver, observer, publication, launcher
  <1>1. ObserverTypes /\ AtWork /\ Attested /\ Reserved /\ Served /\ Reported
    BY DEF ObserverInv
  <1>2. /\ toWorker' \in Seq(Inward) /\ (toWorker' = <<>> <=> toWorker = <<>>)
        /\ (Bad' <=> Bad) /\ (Samples' <=> Samples) /\ (Honest' <=> Honest)
    <2>1. toWorker' = toWorker
      BY DEF JoinLate
    <2> QED
      BY <1>1, <2>1, SameToWorker DEF ObserverTypes, ChannelTypes
  <1>3. toLauncher' \in Seq(Outward) /\ (Stops' <=> Stops)
    <2>1. toLauncher' = toLauncher
      BY DEF JoinLate
    <2> QED
      BY <1>1, <2>1, SameToLauncher DEF ObserverTypes, ChannelTypes
  <1>4. ObserverTypes'
    <2>1. ChannelTypes'
      BY <1>1, <1>2, <1>3 DEF JoinLate, ObserverTypes, ChannelTypes
    <2>2. LabelTypes'
      BY <1>1, <1>2, <1>3 DEF JoinLate, ObserverTypes, LabelTypes
    <2>3. WorkerFlags'
      BY <1>1, <1>2, <1>3 DEF JoinLate, ObserverTypes, WorkerFlags
    <2>4. LauncherFlags'
      BY <1>1, <1>2, <1>3 DEF JoinLate, ObserverTypes, LauncherFlags
    <2>5. SampleTypes'
      BY <1>1, <1>2, <1>3 DEF JoinLate, ObserverTypes, SampleTypes
    <2> QED
      BY <2>1, <2>2, <2>3, <2>4, <2>5 DEF ObserverTypes
  <1>5. AtWork'
    BY <1>1, <1>2, <1>3 DEF JoinLate, ObserverTypes, LabelTypes, WorkerFlags, LauncherFlags, SampleTypes, AtWork, Attested, Reserved, Served, Reported, Early, Leaving, Over, Gone, Noticed, NeverStarts, Unsampled
  <1>6. Attested'
    BY <1>1, <1>2, <1>3 DEF JoinLate, ObserverTypes, LabelTypes, WorkerFlags, LauncherFlags, SampleTypes, AtWork, Attested, Reserved, Served, Reported, Early, Leaving, Over, Gone, Noticed, NeverStarts, Unsampled
  <1>7. Reserved'
    BY <1>1, <1>2, <1>3 DEF JoinLate, ObserverTypes, LabelTypes, WorkerFlags, LauncherFlags, SampleTypes, AtWork, Attested, Reserved, Served, Reported, Early, Leaving, Over, Gone, Noticed, NeverStarts, Unsampled
  <1>8. Served'
    BY <1>1, <1>2, <1>3 DEF JoinLate, ObserverTypes, LabelTypes, WorkerFlags, LauncherFlags, SampleTypes, AtWork, Attested, Reserved, Served, Reported, Early, Leaving, Over, Gone, Noticed, NeverStarts, Unsampled
  <1>9. Reported'
    BY <1>1, <1>2, <1>3 DEF JoinLate, ObserverTypes, LabelTypes, WorkerFlags, LauncherFlags, SampleTypes, AtWork, Attested, Reserved, Served, Reported, Early, Leaving, Over, Gone, Noticed, NeverStarts, Unsampled
  <1> QED
    BY <1>4, <1>5, <1>6, <1>7, <1>8, <1>9 DEF ObserverInv

LEMMA KeepsConclude ==
    ASSUME ObserverInv, Conclude
    PROVE  ObserverInv'
  <1> USE DEF channels, monitor, transaction, watchdog, main, receiver, observer, publication, launcher
  <1>1. ObserverTypes /\ AtWork /\ Attested /\ Reserved /\ Served /\ Reported
    BY DEF ObserverInv
  <1>2. /\ toWorker' \in Seq(Inward) /\ (toWorker' = <<>> <=> toWorker = <<>>)
        /\ (Bad' <=> Bad) /\ (Samples' <=> Samples) /\ (Honest' <=> Honest)
    <2>1. toWorker' = toWorker
      BY DEF Conclude
    <2> QED
      BY <1>1, <2>1, SameToWorker DEF ObserverTypes, ChannelTypes
  <1>3. toLauncher' \in Seq(Outward) /\ (Stops' <=> Stops)
    <2>1. toLauncher' = toLauncher
      BY DEF Conclude
    <2> QED
      BY <1>1, <2>1, SameToLauncher DEF ObserverTypes, ChannelTypes
  <1>4. ObserverTypes'
    <2>1. ChannelTypes'
      BY <1>1, <1>2, <1>3 DEF Conclude, ObserverTypes, ChannelTypes
    <2>2. LabelTypes'
      BY <1>1, <1>2, <1>3 DEF Conclude, ObserverTypes, LabelTypes
    <2>3. WorkerFlags'
      BY <1>1, <1>2, <1>3 DEF Conclude, ObserverTypes, WorkerFlags
    <2>4. LauncherFlags'
      BY <1>1, <1>2, <1>3 DEF Conclude, ObserverTypes, LauncherFlags
    <2>5. SampleTypes'
      BY <1>1, <1>2, <1>3 DEF Conclude, ObserverTypes, SampleTypes
    <2> QED
      BY <2>1, <2>2, <2>3, <2>4, <2>5 DEF ObserverTypes
  <1>5. AtWork'
    BY <1>1, <1>2, <1>3 DEF Conclude, ObserverTypes, LabelTypes, WorkerFlags, LauncherFlags, SampleTypes, AtWork, Attested, Reserved, Served, Reported, Early, Leaving, Over, Gone, Noticed, NeverStarts, Unsampled
  <1>6. Attested'
    BY <1>1, <1>2, <1>3 DEF Conclude, ObserverTypes, LabelTypes, WorkerFlags, LauncherFlags, SampleTypes, AtWork, Attested, Reserved, Served, Reported, Early, Leaving, Over, Gone, Noticed, NeverStarts, Unsampled
  <1>7. Reserved'
    BY <1>1, <1>2, <1>3 DEF Conclude, ObserverTypes, LabelTypes, WorkerFlags, LauncherFlags, SampleTypes, AtWork, Attested, Reserved, Served, Reported, Early, Leaving, Over, Gone, Noticed, NeverStarts, Unsampled
  <1>8. Served'
    BY <1>1, <1>2, <1>3 DEF Conclude, ObserverTypes, LabelTypes, WorkerFlags, LauncherFlags, SampleTypes, AtWork, Attested, Reserved, Served, Reported, Early, Leaving, Over, Gone, Noticed, NeverStarts, Unsampled
  <1>9. Reported'
    BY <1>1, <1>2, <1>3 DEF Conclude, ObserverTypes, LabelTypes, WorkerFlags, LauncherFlags, SampleTypes, AtWork, Attested, Reserved, Served, Reported, Early, Leaving, Over, Gone, Noticed, NeverStarts, Unsampled
  <1> QED
    BY <1>4, <1>5, <1>6, <1>7, <1>8, <1>9 DEF ObserverInv

LEMMA KeepsReceive ==
    ASSUME ObserverInv, Receive
    PROVE  ObserverInv'
  <1> USE DEF channels, monitor, transaction, watchdog, main, receiver, observer, publication, launcher
  <1> DEFINE f == Head(toWorker)
             last == stopAsked /\ f.id > 0
             refused == f.type = "failure" \/ Unexpected(f) \/ (last /\ toWorker' # <<>>)
  <1>1. ObserverTypes /\ AtWork /\ Attested /\ Reserved /\ Served /\ Reported
    BY DEF ObserverInv
  <1>2. /\ rpc = "read" /\ toWorker # <<>> /\ toWorker' = Tail(toWorker)
        /\ UNCHANGED <<workerShut, launcherShut, wpc, handler, aborted, expected, stopAsked, stopped>>
        /\ UNCHANGED <<surfaced, owned, ask, opc, current, latched, acked, started, stopAck>>
        /\ UNCHANGED <<code, published, delivered, sent, spc, mpc, error, grace, outcome>>
    BY DEF Receive
  <1>3. /\ toWorker' \in Seq(Inward) /\ f \in Inward
        /\ Bad => Bad' \/ f.bad
        /\ Samples' => Samples
        /\ f.type = "sample" => Samples
        /\ Honest' /\ (f.type = "failure" => f.bad)
    BY <1>1, <1>2, WorkerReads DEF Served
  <1>4. f.id \in Nat /\ f.bad \in BOOLEAN /\ f.type \in {"sample", "failure"}
    BY <1>3 DEF Inward, Frames
  <1>5. \/ /\ refused
           /\ failure' /\ signalled' = (signalled \/ handler) /\ rpc' = "dead"
           /\ UNCHANGED <<completed, told, final, toLauncher>>
        \/ /\ ~refused /\ last
           /\ failure' = (failure \/ f.bad \/ owned)
           /\ rpc' = "eof" /\ final' = f.id
           /\ signalled' = signalled \/ signalled' = (signalled \/ handler)
           /\ UNCHANGED <<completed, told, toLauncher>>
        \/ /\ ~refused /\ ~last
           /\ failure' = (failure \/ f.bad \/ owned)
           /\ completed' = completed \cup {f.id}
           /\ UNCHANGED <<rpc, final>>
           /\ \/ /\ failure' /\ ~told
                 /\ told' = TRUE /\ signalled' = (signalled \/ handler)
                 /\ ToLauncher(Frame("ack", 0, FALSE))
              \/ /\ ~failure' \/ told
                 /\ UNCHANGED <<told, signalled, toLauncher>>
    BY <1>1, <1>2, <1>4 DEF Receive, ReceiverFails, Trigger, ObserverTypes, WorkerFlags
  <1> HIDE DEF f, last, refused
  <1>6. toLauncher' \in Seq(Outward) /\ (Stops' => Stops)
    <2>1. toLauncher' = toLauncher \/ ToLauncher(Frame("ack", 0, FALSE))
      BY <1>5
    <2> QED
      BY <1>1, <2>1, SameToLauncher, SendsToLauncher, Framed DEF ObserverTypes, ChannelTypes
  <1>7. ~refused => f.type = "sample" /\ (f.id = 0 \/ (f.id \in expected /\ f.id \notin completed))
    BY <1>4 DEF refused, Unexpected
  <1>8. wpc # "boot" /\ (signalled => signalled') /\ signalled' \in BOOLEAN
    <2>1. wpc # "boot" /\ signalled \in BOOLEAN /\ handler \in BOOLEAN
      BY <1>1, <1>2 DEF AtWork, ObserverTypes, WorkerFlags
    <2>2. signalled' = signalled \/ signalled' = (signalled \/ handler)
      BY <1>5
    <2>3. signalled' \in BOOLEAN
      BY <2>1, <2>2
    <2> QED
      BY <2>1, <2>2, <2>3
  <1>9. Early => handler /\ ~last
    BY <1>1, <1>8 DEF AtWork, Early, last
  <1>10. Early /\ (f.bad \/ owned \/ failure \/ refused) /\ (failure' \/ refused) => signalled'
    BY <1>1, <1>2, <1>5, <1>8, <1>9 DEF AtWork
  <1>11. ObserverTypes'
    <2>1. ChannelTypes'
      BY <1>1, <1>2, <1>3, <1>6 DEF ObserverTypes, ChannelTypes
    <2>2. LabelTypes'
      <3>1. rpc' \in {"read", "eof", "dead"}
        BY <1>2, <1>5
      <3> QED
        BY <1>1, <1>2, <3>1 DEF ObserverTypes, LabelTypes
    <2>3. WorkerFlags'
      BY <1>1, <1>2, <1>4, <1>5, <1>8 DEF ObserverTypes, WorkerFlags
    <2>4. LauncherFlags'
      BY <1>1, <1>2 DEF ObserverTypes, LauncherFlags
    <2>5. SampleTypes'
      BY <1>1, <1>2, <1>4, <1>5 DEF ObserverTypes, SampleTypes
    <2> QED
      BY <2>1, <2>2, <2>3, <2>4, <2>5 DEF ObserverTypes
  <1>12. (Early' <=> Early) /\ (Over' <=> Over) /\ (Leaving' <=> Leaving) /\ (Gone' <=> Gone)
    BY <1>2 DEF Early, Over, Leaving, Gone
  <1>13. AtWork'
    <2>1. \A i \in expected' \cup completed' \cup {final'} : i <= ask'.id
      <3>1. \A i \in expected \cup completed \cup {final} : i <= ask.id
        BY <1>1 DEF AtWork
      <3>2. ~refused => f.id <= ask.id
        <4>1. ask.id \in Nat
          BY <1>1 DEF ObserverTypes, SampleTypes
        <4> QED
          BY <1>7, <3>1, <4>1
      <3>3. \/ UNCHANGED <<completed, final>>
            \/ ~refused /\ final' = f.id /\ completed' = completed
            \/ ~refused /\ completed' = completed \cup {f.id} /\ final' = final
        BY <1>5
      <3> QED
        BY <1>2, <3>1, <3>2, <3>3
    <2>2. Early => /\ ~aborted' /\ ~stopAsked' /\ ~stopped' /\ workerShut' = "open"
                   /\ handler' /\ rpc' \in {"read", "dead"}
      BY <1>1, <1>2, <1>5, <1>8, <1>9 DEF AtWork
    <2>3. Early /\ (told' \/ rpc' = "dead") => signalled'
      BY <1>1, <1>2, <1>5, <1>8, <1>9 DEF AtWork
    <2> QED
      BY <1>2, <1>8, <1>12, <2>1, <2>2, <2>3 DEF AtWork
  <1>14. Attested'
    <2>1. failure => failure'
      BY <1>1, <1>5 DEF ObserverTypes, WorkerFlags
    <2>2. ~Over
      BY <1>1, <1>2 DEF Attested
    <2>3. completed \subseteq completed'
      BY <1>5
    <2>4. owned /\ wpc = "waiting" => failure' \/ completed' = completed
      BY <1>1, <1>4, <1>5 DEF ObserverTypes, WorkerFlags
    <2> QED
      BY <1>1, <1>2, <1>12, <2>1, <2>2, <2>3, <2>4 DEF Attested
  <1>15. Reserved'
    BY <1>1, <1>2 DEF Reserved
  <1>16. Served'
    <2>1. Noticed => Noticed'
      <3>1. Early /\ f.bad => signalled'
        BY <1>4, <1>5, <1>8, <1>9, <1>10
      <3>2. Early => rpc' \in {"read"} \/ signalled'
        BY <1>1, <1>2, <1>5, <1>9
      <3> QED
        BY <1>1, <1>2, <1>3, <1>8, <1>12, <3>1, <3>2 DEF Noticed
    <2>2. Unsampled => Unsampled' /\ rpc' = "dead"
      <3>1. Unsampled => refused
        BY <1>3, <1>7 DEF Unsampled
      <3> QED
        BY <1>2, <1>3, <1>5, <3>1 DEF Unsampled
    <2>3. NeverStarts => NeverStarts'
      BY <1>2, <2>2 DEF NeverStarts
    <2>4. completed \subseteq completed'
      BY <1>5
    <2> QED
      BY <1>1, <1>2, <1>3, <1>6, <1>12, <2>1, <2>2, <2>3, <2>4 DEF Served
  <1>17. Reported'
    BY <1>1, <1>2, <1>12 DEF Reported
  <1> QED
    BY <1>11, <1>13, <1>14, <1>15, <1>16, <1>17 DEF ObserverInv

LEMMA ObserverInvStart ==
    ASSUME ObserverInit
    PROVE  ObserverInv
  <1> USE DEF ObserverInit, NoSample, NoAsk
  <1>1. ObserverTypes
    <2>1. ChannelTypes
      BY DEF ChannelTypes
    <2>2. LabelTypes /\ WorkerFlags /\ LauncherFlags
      BY DEF LabelTypes, WorkerFlags, LauncherFlags
    <2>3. SampleTypes
      BY DEF SampleTypes
    <2> QED
      BY <2>1, <2>2, <2>3 DEF ObserverTypes
  <1>2. ~Bad /\ ~Samples /\ Honest /\ ~Stops
    BY DEF Bad, Samples, Honest, Stops
  <1>3. AtWork /\ Attested /\ Reserved
    BY DEF AtWork, Attested, Reserved, Early, Over, Leaving
  <1>4. Served /\ Reported
    BY <1>2 DEF Served, Reported, Unsampled, Early, Gone
  <1> QED
    BY <1>1, <1>3, <1>4 DEF ObserverInv

LEMMA ObserverInvStutters ==
    ASSUME ObserverInv, UNCHANGED observerVars
    PROVE  ObserverInv'
  <1> USE DEF channels, monitor, transaction, watchdog, main, receiver, observer, publication, launcher
  <1>1. (Bad' <=> Bad) /\ (Samples' <=> Samples) /\ (Honest' <=> Honest) /\ (Stops' <=> Stops)
    BY SameToWorker, SameToLauncher DEF observerVars
  <1>2. ObserverTypes'
    BY DEF observerVars, ObserverInv, ObserverTypes, ChannelTypes, LabelTypes, WorkerFlags, LauncherFlags, SampleTypes
  <1>3. AtWork' /\ Attested' /\ Reserved'
    BY DEF observerVars, ObserverInv, AtWork, Attested, Reserved, Early, Over, Leaving
  <1>4. Served' /\ Reported'
    BY <1>1 DEF observerVars, ObserverInv, Served, Reported, Noticed, NeverStarts, Unsampled, Early, Gone
  <1> QED
    BY <1>2, <1>3, <1>4 DEF ObserverInv

LEMMA ObserverInvSteps ==
    ASSUME ObserverInv, [ObserverNext]_observerVars
    PROVE  ObserverInv'
  <1>1. CASE MainThread
    BY <1>1, KeepsBoot, KeepsStarted, KeepsAnswered, KeepsAskTerminal, KeepsAnswerTerminal, KeepsJoinTimesOut,
       KeepsRestore, KeepsSettleMonitor, KeepsExit, KeepsHandle DEF MainThread
  <1>2. CASE Workload
    BY <1>2, KeepsAsk, KeepsFinish DEF Workload
  <1>3. CASE Receiver
    BY <1>3, KeepsReceive, KeepsReceiveNothing, KeepsReceiveEof DEF Receiver
  <1>4. CASE Observer
    BY <1>4, KeepsObserverStarts, KeepsObserverDelivers, KeepsComplete, KeepsSend, KeepsPosted, KeepsCommand,
       KeepsCommandEof, KeepsTick, KeepsStopEof DEF Observer
  <1>5. CASE Supervisor
    BY <1>5, KeepsExpire, KeepsSupervisorDelivers DEF Supervisor
  <1>6. CASE Launcher
    BY <1>6, KeepsNotice, KeepsRequest, KeepsResponded, KeepsKill, KeepsJoinLate, KeepsConclude DEF Launcher
  <1>7. CASE GiveUp
    BY <1>7, KeepsGiveUp
  <1>8. CASE UNCHANGED observerVars
    BY <1>8, ObserverInvStutters
  <1> QED
    BY <1>1, <1>2, <1>3, <1>4, <1>5, <1>6, <1>7, <1>8 DEF ObserverNext

\* The invariant of the exchange, for every schedule of its threads, failure and deadline.  It
\* relates the two sides by what is under way between them: as long as the worker has not
\* left its work, a failure that was delivered is in its channel or has signalled it.
THEOREM ObserverHolds == ObserverSpec => []ObserverInv
  <1>1. ObserverInit => ObserverInv
    BY ObserverInvStart
  <1>2. ObserverInv /\ [ObserverNext]_observerVars => ObserverInv'
    BY ObserverInvSteps
  <1> QED
    BY <1>1, <1>2, PTL DEF ObserverSpec

\* A report is returned only of a run that no thread saw fail, on either side of the pair of
\* sockets, and of which the terminal sample was taken and found good (5365-5430).
THEOREM ReportsAreClean == ObserverSpec => []ReportIsClean
  <1>1. ObserverInv => ReportIsClean
    <2> SUFFICES ASSUME ObserverInv, outcome = "report"
                 PROVE  /\ ~code /\ ~failure /\ ~owned
                        /\ wpc = "exited" /\ current.kind = "terminal" /\ ~current.bad
                        /\ ask.id \in completed
      BY DEF ReportIsClean
    <2>1. ~code /\ wpc = "exited" /\ ~surfaced /\ stopAck
      BY DEF ObserverInv, Reported
    <2>2. current.kind = "terminal" /\ ~current.bad
      BY <2>1 DEF ObserverInv, Reserved
    <2>3. ~failure
      BY <2>1 DEF ObserverInv, Attested, Over
    <2>4. ~owned /\ ask.id \in completed
      BY <2>1, <2>3 DEF ObserverInv, Attested, Leaving
    <2> QED
      BY <2>1, <2>2, <2>3, <2>4
  <1> QED
    BY <1>1, ObserverHolds, PTL

\* When a grace ends, the notice of the failure has arrived and its signal was handled, unless the
\* worker cannot be reached.
LEMMA KilledLate ==
    ASSUME ObserverInv, Kill, mpc # "kill", wpc \in {"work", "waiting"}
    PROVE  aborted
  <1> SUFFICES ASSUME ~aborted PROVE FALSE
    OBVIOUS
  <1>1. ~UnderWay /\ (mpc = "grace" \/ (grace /\ mpc = "read"))
    BY DEF Kill
  <1>2. ~NeverStarts
    BY DEF NeverStarts, Unsampled
  <1>3. Noticed
    BY <1>1, <1>2 DEF ObserverInv, Served
  <1>4. Early /\ ~Gone /\ handler /\ rpc # "off"
    BY DEF ObserverInv, AtWork, Early, Gone
  <1>5. signalled \/ (rpc = "read" /\ toWorker # <<>>)
    <2>1. Bad => toWorker # <<>>
      BY DEF Bad
    <2> QED
      BY <1>3, <1>4, <2>1 DEF Noticed
  <1> QED
    BY <1>1, <1>4, <1>5 DEF UnderWay

\* The launcher does not kill a worker at its workload before its main thread was aborted and
\* could clean up, unless it cannot be reached (5022-5062, 5290-5345).
THEOREM KilledAfterTheAbort == ObserverSpec => AbortedBeforeKilled
  <1>1. ObserverInv /\ [ObserverNext]_observerVars => [Kill /\ mpc # "kill" /\ wpc \in {"work", "waiting"} => aborted]_observerVars
    BY KilledLate
  <1> QED
    BY <1>1, ObserverHolds, PTL DEF ObserverSpec, AbortedBeforeKilled
=============================================================================
