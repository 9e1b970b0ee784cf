-------------------------- MODULE BenchmarkWorkers --------------------------
(***************************************************************************)
(* The bounded children of src/nerb/enron_performance.py (2615-2886) and the  *)
(* measurement of one workload, or of a path or the four value paths with     *)
(* their control twins in the order of TwinSchedule (3085-3260), by one       *)
(* runner.  A child is either a reusable session (one answer line per request *)
(* line) or serves one request that ends with its input.  Both pipes hold a   *)
(* few parts of a message.  The child may hang or die at any point, a         *)
(* deadline may pass while the answer is under way, and the runner may be     *)
(* interrupted or die.                                                        *)
(***************************************************************************)
EXTENDS TwinSchedule

CONSTANTS
    RequestParts, AnswerParts, Capacity,    \* of a request, of an answer, of a pipe
    None

\* twins: a schedule of twins, or samples of one workload; reused: in sessions, or each
\* by a child of its own; troubles: bounds the children that hang, die by themselves or answer an
\* error, the spawns that fail, the numbers given again, and what ends the runner.
ASSUME MeasurementsAssumption ==
    \A p \in Plans : /\ p.reused \in BOOLEAN /\ p.twins \in BOOLEAN /\ p.troubles \in Nat
                     /\ p.twins \/ ~p.value
ASSUME PartsAssumption == {RequestParts, AnswerParts, Capacity} \subseteq Nat \ {0}
ASSUME NoneAssumption == None \notin Nat

VARIABLES
    column,     \* the next path in the row of the round under way
    audit,      \* the observations accepted: cell, worker, block
    sessions,   \* the session of each cell, as its place in workers
    closed,     \* sessions whose _closed is set
    at,         \* where the runner is
    target,     \* the worker it deals with
    sent, received,     \* parts of the exchange under way
    queue,      \* the sessions its finally clause has yet to close
    closing,    \* it is in that clause
    unwinding,  \* an exception is on its way out
    workers,    \* all children ever started, in order
    cut,        \* an interrupt left a child without cleanup
    troubles

progress == <<scheduleVars, column, audit>>
vars == <<progress, sessions, closed, at, target, sent, received, queue, closing, unwinding,
          workers, cut, troubles>>

\* A cell is a twin of a path.  Its sessions are created path by path, the first twin first.
Cells == Twins \X Paths(plan)
CreationOrder ==
    IF ~plan.twins THEN <<<<"candidate", 0>>>>
    ELSE LET first == IF Assignment[block] = "candidate_first" THEN "candidate" ELSE "control" IN
         [i \in 1..(2 * Cardinality(Paths(plan))) |->
            <<IF i % 2 = 1 THEN first ELSE Other(first), (i - 1) \div 2>>]

\* A child.  input and output: parts in its pipes; inOpen, outOpen: the ends the runner
\* holds; got: parts of a request it has read; rest: parts of its answer yet to write.
Child(pid) ==
    [pid |-> pid, life |-> "up", well |-> TRUE, doing |-> "read", got |-> 0, rest |-> 0, ok |-> TRUE,
     input |-> 0, output |-> 0, inOpen |-> TRUE, outOpen |-> TRUE,
     code |-> 0, killed |-> FALSE, terminated |-> FALSE]

Fault == troubles < plan.troubles /\ troubles' = troubles + 1
NoFault == UNCHANGED troubles

\* The system gives a number that it never gave, or that of a child which was reaped.
NewPid == 1 + Cardinality({workers[w].pid : w \in 1..Len(workers)})
OldPids == {workers[w].pid : w \in 1..Len(workers)}
             \ {workers[w].pid : w \in {x \in 1..Len(workers) : workers[x].life # "reaped"}}

Spawn ==
    \/ workers' = Append(workers, Child(NewPid)) /\ NoFault
    \/ /\ \E p \in OldPids : workers' = Append(workers, Child(p))
       /\ Fault

Closed(c) == [c EXCEPT !.inOpen = FALSE, !.outOpen = FALSE]
Reaped(c) == IF c.life = "up" THEN c ELSE Closed([Child(c.pid) EXCEPT !.life = "reaped"])

Set(w, child) == workers' = [workers EXCEPT ![w] = child]
It == workers[target]

Init ==
    /\ ScheduleInit
    /\ column = 1 /\ audit = <<>>
    /\ sessions = [c \in Cells |-> None] /\ closed = {}
    /\ at = "next" /\ target = None /\ sent = 0 /\ received = 0
    /\ queue = <<>> /\ closing = FALSE /\ unwinding = FALSE
    /\ workers = <<>> /\ cut = FALSE
    /\ troubles = 0

-----------------------------------------------------------------------------
(* The child: main and _run_json_lines of enron_performance_worker.py *)

Alive(w) == workers[w].life = "up"
Runs(w) == Alive(w) /\ workers[w].well

\* A child that is not waiting for the other end of one of its pipes.
Moves(c) ==
    CASE c.doing = "read" -> c.input > 0 \/ ~c.inOpen
      [] c.doing = "work" -> TRUE
      [] OTHER -> c.output < Capacity \/ ~c.outOpen

\* A wait of the runner runs out of time: with a child that hangs, with one that waits for a
\* runner that no longer talks to it, or with one that was only slow, which is trouble.
TimeIsUp ==
    IF It.well /\ (at \in {"exchange", "reap"} \/ Moves(It)) THEN Fault ELSE NoFault

Childs == <<progress, sessions, closed, at, target, sent, received, queue, closing, unwinding, cut>>

\* A session reads a line, the other child all of its input; at the end of its input a
\* session leaves its loop.
Reads(w) ==
    LET c == workers[w] IN
    /\ Runs(w) /\ c.doing = "read"
    /\ IF c.input > 0
       THEN Set(w, [c EXCEPT !.input = @ - 1, !.got = @ + 1,
                             !.doing = IF plan.reused /\ c.got + 1 = RequestParts THEN "work" ELSE @])
       ELSE /\ ~c.inOpen
            /\ Set(w, IF plan.reused /\ c.got = 0 THEN [c EXCEPT !.life = "zombie"]
                      ELSE [c EXCEPT !.doing = "work"])
    /\ NoFault /\ UNCHANGED Childs

\* process_bytes answers in any case: a request that is cut off, and an operation that
\* fails, with an error.
Works(w) ==
    LET c == workers[w] IN
    /\ Runs(w) /\ c.doing = "work"
    /\ \E ok \in BOOLEAN :
        /\ IF ok THEN c.got = RequestParts /\ NoFault
           ELSE IF c.got = RequestParts THEN Fault ELSE NoFault
        /\ Set(w, [c EXCEPT !.doing = "write", !.got = 0, !.rest = AnswerParts, !.ok = ok])
    /\ UNCHANGED Childs

\* A pipe nobody reads breaks the writer.
Writes(w) ==
    LET c == workers[w] IN
    /\ Runs(w) /\ c.doing = "write"
    /\ \/ /\ ~c.outOpen
          /\ Set(w, [c EXCEPT !.life = "zombie", !.code = 1])
       \/ /\ c.outOpen /\ c.output < Capacity
          /\ LET d == [c EXCEPT !.output = @ + 1, !.rest = @ - 1] IN
             Set(w, IF d.rest > 0 THEN d
                    ELSE IF plan.reused THEN [d EXCEPT !.doing = "read"]
                    ELSE [d EXCEPT !.life = "zombie"])
    /\ NoFault /\ UNCHANGED Childs

Hangs(w) ==
    /\ Runs(w) /\ Fault
    /\ Set(w, [workers[w] EXCEPT !.well = FALSE])
    /\ UNCHANGED Childs

\* By a signal of the runner, or for a reason of its own.  A process that hangs in the
\* kernel does not die of a signal before it leaves it.
Signalled(w) == workers[w].killed \/ workers[w].terminated
Dies(w) ==
    /\ Alive(w)
    /\ IF Signalled(w) THEN NoFault ELSE Fault
    /\ Set(w, [workers[w] EXCEPT !.life = "zombie", !.code = 1])
    /\ UNCHANGED Childs

-----------------------------------------------------------------------------
(* The runner: starting workers and talking to them *)

Proceed(label) == at' = label

\* The places in the order of creation that have no session yet.
Missing == {i \in 1..Len(CreationOrder) : sessions[CreationOrder[i]] = None}

\* What the finally clause will do: the sessions in reverse order of their creation.
Finally ==
    \E n \in 0..Len(CreationOrder) :
        /\ Missing = (n + 1)..Len(CreationOrder)
        /\ queue' = [i \in 1..n |-> sessions[CreationOrder[n + 1 - i]]]
Leave == Proceed("finally") /\ closing' = TRUE /\ Finally

\* All observations of the block, or of the workload, are made.
Done ==
    IF plan.twins THEN block = plan.blocks \/ (turn = 0 /\ Full) ELSE Len(audit) = plan.samples
\* The sessions of a block; Popen may fail.
Open ==
    /\ at = "next" /\ plan.reused /\ ~Done /\ Missing # {}
    /\ \/ /\ Spawn
          /\ \E i \in Missing :
                /\ \A j \in Missing : i <= j
                /\ sessions' = [sessions EXCEPT ![CreationOrder[i]] = Len(workers) + 1]
          /\ UNCHANGED <<at, queue, closing, unwinding>>
       \/ /\ Fault /\ unwinding' = TRUE /\ Leave
          /\ UNCHANGED <<workers, sessions>>
    /\ UNCHANGED <<progress, cut, closed, target, sent, received>>

Turn == LabelAt(block, turn)
Line == Row(plan, counts["candidate"] + counts["control"])
Label == IF plan.twins THEN <<Turn, Line[column]>> ELSE <<"candidate", 0>>
Ready == at = "next" /\ ~Done /\ (plan.twins => counts[Turn] < plan.samples)

\* In an odd block a twin that has all its samples is passed over.
PassOver ==
    /\ at = "next" /\ plan.twins /\ Skip
    /\ NoFault /\ UNCHANGED <<column, audit, sessions, closed, at, target, sent, received, queue,
                              closing, unwinding, workers, cut>>

\* _WorkerSession.request: a session whose child has ended is given up.
Request ==
    /\ Ready /\ plan.reused /\ Missing = {}
    /\ target' = sessions[Label]
    /\ IF workers[sessions[Label]].life = "up"
       THEN Proceed("exchange") /\ UNCHANGED <<workers, unwinding, closed>>
       ELSE /\ Set(sessions[Label], Reaped(workers[sessions[Label]]))
            /\ closed' = closed \cup {sessions[Label]}
            /\ unwinding' = TRUE /\ Proceed("kill")
    /\ NoFault /\ UNCHANGED <<progress, cut, sessions, queue, closing, sent, received>>

\* _run_bounded_fresh_process
Start ==
    /\ Ready /\ ~plan.reused
    /\ \/ /\ Spawn
          /\ target' = Len(workers) + 1
          /\ Proceed("exchange") /\ UNCHANGED <<unwinding, queue, closing>>
       \/ /\ Fault /\ unwinding' = TRUE /\ Leave
          /\ UNCHANGED <<workers, target>>
    /\ UNCHANGED <<progress, cut, sessions, closed, sent, received>>

Exchanging == <<progress, cut, sessions, queue, closing, target>>

\* Any failure of the exchange: the session is closed for good, the child killed.
Fail ==
    /\ unwinding' = TRUE /\ Proceed("kill") /\ sent' = 0 /\ received' = 0
    /\ closed' = IF plan.reused THEN closed \cup {target} ELSE closed

\* Mutant of Send: the input of a child that reads to its end stays open.
SendsOnly ==
    /\ at = "exchange" /\ sent < RequestParts
    /\ \/ /\ It.life = "up" /\ It.input < Capacity
          /\ sent' = sent + 1
          /\ Set(target, [It EXCEPT !.input = @ + 1])
          /\ UNCHANGED <<at, unwinding, closed, received>>
       \/ It.life # "up" /\ Fail /\ UNCHANGED workers
    /\ NoFault /\ UNCHANGED Exchanging

\* The input of a child that reads to its end is closed after the last part.
Send ==
    /\ at = "exchange" /\ sent < RequestParts
    /\ \/ /\ It.life = "up" /\ It.input < Capacity
          /\ sent' = sent + 1
          /\ Set(target, [It EXCEPT !.input = @ + 1,
                                    !.inOpen = plan.reused \/ sent + 1 < RequestParts])
          /\ UNCHANGED <<at, unwinding, closed, received>>
       \/ It.life # "up" /\ Fail /\ UNCHANGED workers
    /\ NoFault /\ UNCHANGED Exchanging

Accept ==
    /\ audit' = Append(audit, [cell |-> Label, worker |-> target, block |-> block])
    /\ IF plan.twins /\ column = Len(Line)
       THEN Round /\ column' = 1
       ELSE column' = (IF plan.twins THEN column + 1 ELSE 1) /\ UNCHANGED scheduleVars
    /\ Proceed("next") /\ target' = None /\ sent' = 0 /\ received' = 0

\* A part of the answer.  The last one ends a session's exchange; _decode_worker_result
\* wants a whole answer that is not an error.
Receive ==
    /\ at = "exchange" /\ It.output > 0
    /\ Set(target, [It EXCEPT !.output = @ - 1])
    /\ IF plan.reused /\ received + 1 = AnswerParts
       THEN IF It.ok
            THEN Accept /\ UNCHANGED <<unwinding, closed>>
            ELSE Fail /\ UNCHANGED <<progress, target>>
       ELSE received' = received + 1 /\ UNCHANGED <<at, unwinding, closed, progress, target, sent>>
    /\ NoFault /\ UNCHANGED <<cut, sessions, queue, closing>>

\* The end of the output: a failure for a session, time to reap the other child.
EndOfOutput ==
    /\ at = "exchange" /\ It.output = 0 /\ It.life # "up"
    /\ IF plan.reused THEN Fail ELSE Proceed("reap") /\ UNCHANGED <<unwinding, closed, sent, received>>
    /\ NoFault /\ UNCHANGED <<Exchanging, workers>>

Reap ==
    /\ at = "reap" /\ It.life = "zombie"
    /\ Set(target, Reaped(It))
    /\ IF It.code = 0 /\ received = AnswerParts /\ It.ok
       THEN Accept /\ UNCHANGED <<unwinding, closed>>
       ELSE Fail /\ UNCHANGED <<progress, target>>
    /\ NoFault /\ UNCHANGED <<cut, sessions, queue, closing>>

\* Mutant of Deadline: only the wait for the exit of the child is bounded.
ReapDeadline ==
    /\ at = "reap" /\ Fail
    /\ TimeIsUp /\ UNCHANGED <<Exchanging, workers>>

\* The deadline passes; an answer that is under way is discarded.
Deadline ==
    /\ at \in {"exchange", "reap"} /\ Fail
    /\ TimeIsUp /\ UNCHANGED <<Exchanging, workers>>

-----------------------------------------------------------------------------
(* The runner: ending workers *)

Ending == <<progress, sessions, sent, received, cut>>

\* Back from _kill_and_reap or close: to the next session, or out of a failed exchange.
Over(child) ==
    /\ Set(target, Closed(child))
    /\ target' = None
    /\ IF closing THEN Proceed("finally") /\ UNCHANGED <<queue, closing>> ELSE Leave

\* _kill_and_reap: poll or kill, wait two seconds, and both again.  A child that does not hang
\* dies of a signal within the wait.
Kill ==
    /\ at \in {"kill", "kill_again"}
    /\ Set(target, IF It.life = "up" THEN [It EXCEPT !.killed = TRUE] ELSE Reaped(It))
    /\ Proceed(IF at = "kill" THEN "wait" ELSE "wait_again")
    /\ NoFault /\ UNCHANGED <<Ending, unwinding, closed, target, queue, closing>>

Wait ==
    /\ at \in {"wait", "wait_again"}
    /\ It.life = "up" => ~It.well
    /\ IF It.life = "up" /\ at = "wait"
       THEN Proceed("kill_again") /\ UNCHANGED <<workers, target, queue, closing>>
       ELSE Over(Reaped(It))
    /\ NoFault /\ UNCHANGED <<Ending, unwinding, closed>>

\* _WorkerSession.close of the next session, unless it was aborted.
Close ==
    /\ at = "finally" /\ queue # <<>>
    /\ queue' = Tail(queue)
    /\ IF Head(queue) \in closed
       THEN UNCHANGED <<workers, closed, target, at>>
       ELSE /\ closed' = closed \cup {Head(queue)}
            /\ Set(Head(queue), [workers[Head(queue)] EXCEPT !.inOpen = FALSE])
            /\ target' = Head(queue) /\ Proceed("linger")
    /\ NoFault /\ UNCHANGED <<Ending, unwinding, closing>>

\* Mutant of Linger: a session that does not end by itself is left alone.
LingersOnce ==
    /\ at = "linger"
    /\ Over(Reaped(It))
    /\ (IF It.life = "up" THEN TimeIsUp ELSE NoFault) /\ UNCHANGED <<Ending, unwinding, closed>>

\* Two seconds to end by itself, two after SIGTERM, then _kill_and_reap.
Linger ==
    /\ at \in {"linger", "linger_again"}
    /\ \/ It.life # "up" /\ Over(Reaped(It)) /\ NoFault
       \/ /\ It.life = "up" /\ at = "linger" /\ TimeIsUp
          /\ Set(target, [It EXCEPT !.terminated = TRUE])
          /\ Proceed("linger_again") /\ UNCHANGED <<target, queue, closing>>
       \/ /\ It.life = "up" /\ at = "linger_again" /\ ~It.well /\ NoFault
          /\ Proceed("kill") /\ UNCHANGED <<workers, target, queue, closing>>
    /\ UNCHANGED <<Ending, unwinding, closed>>

EndBlock ==
    /\ at = "next" /\ Done
    /\ Leave
    /\ NoFault /\ UNCHANGED <<progress, cut, sessions, closed, target, sent, received,
                              unwinding, workers>>

LastBlock == ~plan.twins \/ block + 1 >= plan.blocks

\* Mutant of AfterBlock: the sessions stay for the next block.
KeepsSessions ==
    /\ at = "finally" /\ (queue = <<>> \/ ~LastBlock)
    /\ closing' = FALSE /\ queue' = <<>>
    /\ IF unwinding \/ ~plan.twins
       THEN Proceed("ended") /\ UNCHANGED scheduleVars
       ELSE NextBlock /\ Proceed(IF LastBlock THEN "ended" ELSE "next")
    /\ NoFault /\ UNCHANGED <<column, cut, audit, sessions, closed, target, sent, received, unwinding,
                              workers>>

\* After the finally clause: the next block with sessions of its own, or the end.
AfterBlock ==
    /\ at = "finally" /\ queue = <<>>
    /\ closing' = FALSE
    /\ IF unwinding \/ ~plan.twins
       THEN Proceed("ended") /\ UNCHANGED <<scheduleVars, sessions>>
       ELSE /\ NextBlock /\ Proceed(IF LastBlock THEN "ended" ELSE "next")
            /\ sessions' = [c \in Cells |-> None]
    /\ NoFault /\ UNCHANGED <<column, cut, audit, closed, target, sent, received, unwinding, workers,
                              queue>>

-----------------------------------------------------------------------------
(* Interrupts and the end of the runner *)

\* KeyboardInterrupt is no failure of the exchange.  A session's finally clause still
\* closes it; the other child only loses its pipes.  In the middle of a cleanup it ends
\* the cleanup, and in the finally clause all that is left of it.
Interrupt ==
    /\ at \notin {"ended", "gone"} /\ Fault
    /\ unwinding' = TRUE /\ target' = None
    /\ cut' = (cut \/ (target # None /\ (closing \/ ~plan.reused \/ at \notin {"exchange"}))
                   \/ (closing /\ queue # <<>>))
    /\ IF target # None /\ ~plan.reused THEN Set(target, Closed(It)) ELSE UNCHANGED workers
    /\ IF closing THEN Proceed("ended") /\ UNCHANGED <<queue, closing>> ELSE Leave
    /\ sent' = 0 /\ received' = 0
    /\ UNCHANGED <<progress, sessions, closed>>

\* The process of the runner ends, in order or not, and its descriptors with it.
Gone ==
    /\ Proceed("gone") /\ target' = None
    /\ workers' = [w \in 1..Len(workers) |-> Closed(workers[w])]
    /\ UNCHANGED <<progress, sessions, closed, sent, received, queue, closing, unwinding, cut>>

Exit == at = "ended" /\ NoFault /\ Gone
Crash == at # "gone" /\ Fault /\ Gone

-----------------------------------------------------------------------------
Runner ==
    \/ Open \/ PassOver \/ Request \/ Start \/ Send \/ Receive \/ EndOfOutput \/ Reap
    \/ Kill \/ Wait \/ Close \/ Linger \/ EndBlock \/ AfterBlock

Work(w) == Reads(w) \/ Works(w) \/ Writes(w)

Next ==
    \/ Runner \/ Deadline \/ Interrupt \/ Exit \/ Crash
    \/ \E w \in 1..Len(workers) : Work(w) \/ Hangs(w) \/ Dies(w)

Spec == Init /\ [][Next]_vars

\* Time passes, the runner is scheduled, and so are the children that do not hang, in whatever
\* order; signals reach them.
FairSpec ==
    /\ Spec
    /\ WF_vars(Runner) /\ WF_vars(Deadline) /\ WF_vars(Exit)
    /\ WF_vars(\E w \in 1..Len(workers) : Work(w))
    /\ WF_vars(\E w \in 1..Len(workers) : Runs(w) /\ Signalled(w) /\ Dies(w))

-----------------------------------------------------------------------------
(* Properties *)

\* Who measures in the runner's own book-keeping: the current sessions and the target.
InUse == {sessions[c] : c \in Cells} \cup {target}

\* The runner forgets no worker: those it no longer uses are reaped or were sent a SIGKILL
\* (a wait for them may have timed out), unless an interrupt cut a cleanup or the runner died.
NobodyLeftBehind ==
    ~cut /\ at # "gone" =>
        \A w \in 1..Len(workers) :
            (w \in InUse /\ at # "ended") \/ workers[w].life = "reaped" \/ workers[w].killed

\* verify_enron_performance_run on the audit: the process numbers of a cell show one session
\* per block, or one process per sample; and the twins of a path share none.
BlocksOf == IF plan.twins THEN 0..(plan.blocks - 1) ELSE {0}
Numbers(c, b) == {workers[audit[i].worker].pid : i \in {j \in 1..Len(audit) : audit[j].cell = c /\ audit[j].block = b}}
AllNumbers(c) == UNION {Numbers(c, b) : b \in BlocksOf}
Verifies ==
    /\ \A c \in {audit[i].cell : i \in 1..Len(audit)} :
        IF plan.reused
        THEN /\ \A b \in BlocksOf : Cardinality(Numbers(c, b)) = 1
             /\ Cardinality(AllNumbers(c)) = Cardinality(BlocksOf)
        ELSE Cardinality(AllNumbers(c)) = Cardinality({i \in 1..Len(audit) : audit[i].cell = c})
    /\ \A x \in Paths(plan) : AllNumbers(<<"candidate", x>>) \cap AllNumbers(<<"control", x>>) = {}
    /\ plan.value /\ plan.reused =>
        \A b \in BlocksOf : \A c, d \in Cells : c # d => Numbers(c, b) \cap Numbers(d, b) = {}

\* What was measured to the end verifies, unless the system gave a process number to two of
\* the workers that measured a path or its twin; and then it never does.
Measuring(x) == {audit[i].worker : i \in {j \in 1..Len(audit) : audit[j].cell[2] = x}}
EvidenceVerifies ==
    at = "ended" /\ ~unwinding =>
        (Verifies <=> \A x \in Paths(plan) : \A v, w \in Measuring(x) :
                        workers[v].pid = workers[w].pid => v = w)

\* The two pipes never wait for each other: while nothing fails, the exchange can go on
\* without the help of its deadline.
NeverStalls ==
    at \in {"exchange", "reap"} /\ It.well =>
        \/ It.life # "up"
        \/ sent < RequestParts /\ It.input < Capacity
        \/ It.output > 0
        \/ Moves(It)

Survivors == {w \in 1..Len(workers) : Runs(w)}

\* However its workers behave, the runner comes to an end, and they do not survive it, except
\* those that hang.
AllEnd == <>(at \in {"ended", "gone"}) /\ (at = "gone" ~> Survivors = {})
=============================================================================
