--------------------------- MODULE ResourceObserver ---------------------------
(***************************************************************************)
(* A supervised capacity worker (enron_capacity.py, from _Watchdog to      *)
(* _production_worker_main).  The launcher process samples the resources   *)
(* of the worker process over a socket pair.  Five threads take part:      *)
(*   the worker's main thread, which runs the workload and asks for        *)
(*   samples at its boundaries, and which SIGUSR1 aborts once;             *)
(*   the worker's receiver, which takes samples and failures in;           *)
(*   the launcher's observer, which samples and answers;                   *)
(*   the launcher's supervisor, which watches the observer's deadlines;    *)
(*   the launcher's main thread, which reads the response, gives notice    *)
(*   of failures, kills, and recovers the ledger of a worker that is gone. *)
(*                                                                         *)
(* A deadline may pass whenever somebody waits for it.  One is long next   *)
(* to the others: the grace of a worker that was given notice.             *)
(***************************************************************************)
EXTENDS Naturals, Sequences, FiniteSets

CONSTANTS
    MaxAsks,        \* samples the workload asks for
    MaxBacklog      \* samples under way above which the observer takes none by itself

ASSUME ObserverAssumption == MaxAsks \in Nat /\ MaxBacklog \in Nat

VARIABLES
    toWorker, toLauncher,       \* frames under way
    workerShut, launcherShut,   \* open, half (this side writes no more) or closed
    \* the worker's main thread
    wpc, handler, aborted, signalled,
    failure,        \* the monitor has a _failure_code
    surfaced,       \* an error ends the transaction
    owned,          \* the private tree is over its limit
    ask,            \* the last request, and why it was made
    expected, completed, stopAsked, stopped,
    \* the worker's receiver
    rpc, told, final,
    \* the launcher's observer and supervisor
    opc, current, latched, acked,
    started, code, published, delivered, sent, stopAck, spc,
    \* the launcher's main thread
    mpc, error, grace, outcome

channels == <<toWorker, toLauncher, workerShut, launcherShut>>
monitor == <<failure, expected, completed, stopAsked, stopped>>
transaction == <<surfaced, owned, ask>>
watchdog == <<handler, aborted, signalled>>
main == <<wpc, watchdog, monitor, transaction>>
receiver == <<rpc, told, final>>
observer == <<opc, current, latched, acked, started, stopAck>>
publication == <<code, published, delivered, sent, spc>>
launcher == <<mpc, error, grace, outcome>>
observerVars == <<channels, main, receiver, observer, publication, launcher>>

Frame(type, id, bad) == [type |-> type, id |-> id, bad |-> bad]
NoSample == [kind |-> "none", id |-> 0, bad |-> FALSE, mine |-> FALSE]
NoAsk == [id |-> 0, why |-> "start"]

ObserverInit ==
    /\ toWorker = <<>> /\ toLauncher = <<>>
    /\ workerShut = "open" /\ launcherShut = "open"
    /\ wpc = "boot" /\ handler = FALSE /\ aborted = FALSE /\ signalled = FALSE
    /\ failure = FALSE /\ surfaced = FALSE /\ owned = FALSE
    /\ ask = NoAsk /\ expected = {} /\ completed = {}
    /\ stopAsked = FALSE /\ stopped = FALSE
    /\ rpc = "off" /\ told = FALSE /\ final = 0
    /\ opc = "init" /\ current = NoSample
    /\ latched = FALSE /\ acked = FALSE
    /\ started = FALSE /\ code = FALSE /\ published = FALSE /\ delivered = FALSE
    /\ sent = FALSE /\ stopAck = FALSE /\ spc = "watch"
    /\ mpc = "read" /\ error = FALSE /\ grace = FALSE
    /\ outcome = "none"

Gone == wpc \in {"exited", "killed"}
Working == wpc \in {"starting", "work", "waiting"}

-----------------------------------------------------------------------------
(* The socket pair *)

WorkerEof == toWorker = <<>> /\ (launcherShut # "open" \/ workerShut = "closed")
LauncherEof == toLauncher = <<>> /\ (workerShut # "open" \/ launcherShut = "closed")
Reachable == launcherShut = "open" /\ workerShut # "closed"

\* A frame of the worker: lost when the worker has shut its side.
ToLauncher(f) == toLauncher' = IF workerShut = "open" THEN Append(toLauncher, f) ELSE toLauncher
ToWorker(f) == toWorker' = IF Reachable THEN Append(toWorker, f) ELSE toWorker

\* The end of the worker: its side is closed, and what it has not read is lost.
Dies(how) == wpc' = how /\ rpc' = "dead" /\ workerShut' = "closed" /\ toWorker' = <<>>
Lives == UNCHANGED <<wpc, rpc, workerShut, toWorker>>

-----------------------------------------------------------------------------
(* The monitor of the worker *)

\* Mutant of Trigger: a failure waits for the next boundary.
TriggerLater == UNCHANGED signalled

\* _record_remote_failure, _record_failure: the first failure stays.  From the receiver,
\* SIGUSR1 reaches the main thread.
Trigger == signalled' = (signalled \/ handler)

\* The main thread leaves the transaction with an error and stops the monitor.
Surface == surfaced' = TRUE /\ wpc' = "stop"

-----------------------------------------------------------------------------
(* The worker's main thread *)

\* The bootstrap, the marker and the staging of the attempt; then the monitor is started:
\* the handler is installed, the receiver runs, init is sent.
Boot ==
    /\ wpc = "boot"
    /\ \/ /\ wpc' = "settled" /\ surfaced' = TRUE
          /\ UNCHANGED <<handler, rpc, toLauncher>>
       \/ /\ wpc' = "starting" /\ handler' = TRUE /\ rpc' = "read"
          /\ ToLauncher(Frame("init", 0, FALSE))
          /\ UNCHANGED surfaced
    /\ UNCHANGED <<toWorker, workerShut, launcherShut, aborted, signalled, monitor, owned, ask, told, final,
                   observer, publication, launcher>>

\* _RemoteResourceObserver.start waits for the first sample, a failure or its deadline.
Started ==
    /\ wpc = "starting"
    /\ IF ~failure /\ 0 \in completed
       THEN wpc' = "work" /\ UNCHANGED <<failure, surfaced>>
       ELSE failure' = TRUE /\ Surface
    /\ UNCHANGED <<channels, watchdog, expected, completed, stopAsked, stopped, owned, ask, receiver,
                   observer, publication, launcher>>

\* force: the workload asks for a sample at a boundary, where the size of its tree is
\* taken, or before it records that its progress is late.
Ask ==
    /\ wpc = "work" /\ ask.id < MaxAsks
    /\ \E why \in {"boundary", "late"} :
          /\ owned' \in IF why = "boundary" THEN BOOLEAN ELSE {owned}
          /\ IF failure
             THEN Surface /\ UNCHANGED <<ask, expected, toLauncher>>
             ELSE /\ ask' = [id |-> ask.id + 1, why |-> why]
                  /\ expected' = expected \cup {ask.id + 1}
                  /\ ToLauncher(Frame("force", ask.id + 1, FALSE))
                  /\ wpc' = "waiting" /\ UNCHANGED surfaced
    /\ UNCHANGED <<toWorker, workerShut, launcherShut, watchdog, failure, completed, stopAsked, stopped,
                   receiver, observer, publication, launcher>>

\* The wait ends with the answer, a failure or its deadline.  A failure is raised; a late
\* workload that is answered records its gap and raises that.
Answered ==
    /\ wpc = "waiting"
    /\ expected' = expected \ {ask.id}
    /\ IF ~failure /\ ask.id \in completed /\ ask.why # "late"
       THEN wpc' = "work" /\ UNCHANGED <<failure, surfaced>>
       ELSE failure' = TRUE /\ Surface
    /\ UNCHANGED <<channels, watchdog, completed, stopAsked, stopped, owned, ask, receiver,
                   observer, publication, launcher>>

\* A phase failed, and a failure of the monitor takes its place; or the workload is done
\* and promoted, and the last boundary was clean.
Finish ==
    /\ wpc = "work" /\ ask.id > 0
    /\ \/ Surface
       \/ ~failure /\ ask.why = "boundary" /\ wpc' = "stop" /\ UNCHANGED surfaced
    /\ UNCHANGED <<channels, watchdog, monitor, owned, ask, receiver, observer, publication, launcher>>

\* stop: the terminal sample is asked for, and the worker writes no more.
AskTerminal ==
    /\ wpc = "stop"
    /\ ask' = [id |-> ask.id + 1, why |-> "terminal"]
    /\ expected' = expected \cup {ask.id + 1}
    /\ stopAsked' = TRUE
    /\ ToLauncher(Frame("stop", ask.id + 1, FALSE)) /\ workerShut' = "half"
    /\ wpc' = "terminal"
    /\ UNCHANGED <<toWorker, launcherShut, watchdog, failure, completed, stopped, surfaced, owned,
                   receiver, observer, publication, launcher>>

\* Only the answer or its deadline ends this wait.
AnswerTerminal ==
    /\ wpc = "terminal"
    /\ failure' = (failure \/ ask.id \notin completed)
    /\ stopped' = TRUE /\ wpc' = "join"
    /\ expected' = expected \ {ask.id}
    /\ UNCHANGED <<channels, watchdog, completed, stopAsked, transaction, receiver, observer,
                   publication, launcher>>

\* The receiver does not end in time: the socket is shut down under it.
JoinTimesOut ==
    /\ wpc = "join" /\ rpc # "dead"
    /\ failure' = TRUE
    /\ workerShut' = "closed" /\ wpc' = "shut"
    /\ UNCHANGED <<toWorker, toLauncher, launcherShut, watchdog, expected, completed, stopAsked, stopped,
                   transaction, receiver, observer, publication, launcher>>

\* The handler is restored even if the receiver still runs, which is joined again.  A
\* signal that came before is handled first.
Restore ==
    /\ wpc = "shut" /\ handler /\ ~signalled
    /\ handler' = FALSE
    /\ UNCHANGED <<channels, wpc, aborted, signalled, monitor, transaction, receiver, observer,
                   publication, launcher>>

\* Mutant of SettleMonitor: a failure recorded while the monitor stops is not raised.
SettleQuietly ==
    /\ wpc \in {"join", "shut"} /\ rpc = "dead" /\ ~signalled
    /\ handler' = FALSE /\ wpc' = "settled"
    /\ UNCHANGED <<channels, aborted, signalled, monitor, transaction, receiver, observer, publication, launcher>>

\* The monitor has settled; its failure fails the transaction.
SettleMonitor ==
    /\ wpc \in {"join", "shut"} /\ rpc = "dead" /\ ~signalled
    /\ handler' = FALSE
    /\ surfaced' = (surfaced \/ failure)
    /\ wpc' = "settled"
    /\ UNCHANGED <<channels, aborted, signalled, monitor, owned, ask, receiver, observer,
                   publication, launcher>>

\* The output is settled, the receipt written, the response sent; each of them may fail.
Exit ==
    /\ wpc = "settled"
    /\ surfaced' \in {surfaced, TRUE}
    /\ Dies("exited")
    /\ UNCHANGED <<toLauncher, launcherShut, watchdog, monitor, owned, ask, told, final,
                   observer, publication, launcher>>

\* Mutant of Handle: the abort is swallowed.
HandleQuietly ==
    /\ signalled /\ handler /\ wpc \notin {"exited", "killed"}
    /\ signalled' = FALSE /\ aborted' = TRUE
    /\ UNCHANGED <<channels, wpc, handler, monitor, transaction, receiver, observer, publication, launcher>>

\* _Watchdog._handle aborts the main thread where it is, once: out of the transaction, or
\* out of a wait of stop, which then goes on.
Handle ==
    /\ signalled /\ handler /\ ~Gone
    /\ signalled' = FALSE /\ aborted' = TRUE
    /\ IF aborted THEN UNCHANGED <<wpc, surfaced, stopped, workerShut>>
       ELSE /\ surfaced' = TRUE
            /\ wpc' \in CASE Working -> {"stop"}
                          [] wpc = "stop" -> {"stop", "join"}
                          [] wpc = "terminal" -> {"join"}
                          [] OTHER -> {"shut"}
            /\ stopped' = (stopped \/ wpc' = "join")
            /\ workerShut' = IF wpc' = "shut" THEN "closed" ELSE workerShut
    /\ UNCHANGED <<handler, toWorker, toLauncher, launcherShut, failure, expected, completed, stopAsked,
                   owned, ask, receiver, observer, publication, launcher>>

-----------------------------------------------------------------------------
(* The worker's receiver: _RemoteResourceObserver._loop *)

\* The receiver ends with a failure that it records.
ReceiverFails == failure' = TRUE /\ Trigger /\ rpc' = "dead"

\* _accept_sample: an answer nobody waits for breaks the protocol, and the launcher's verdict
\* counts as well as the size of the tree.
Unexpected(f) == f.id > 0 /\ (f.id \notin expected \/ f.id \in completed)

Receive ==
    /\ rpc = "read" /\ toWorker # <<>>
    /\ LET f == Head(toWorker)
           last == stopAsked /\ f.id > 0
       IN  /\ toWorker' = Tail(toWorker)
           /\ IF f.type = "failure" \/ Unexpected(f) \/ (last /\ toWorker' # <<>>)
              THEN ReceiverFails /\ UNCHANGED <<completed, told, final, toLauncher>>
              ELSE /\ failure' = (failure \/ f.bad \/ owned)
                   /\ IF last
                      THEN /\ rpc' = "eof" /\ final' = f.id
                           /\ IF failure' = failure THEN UNCHANGED signalled ELSE Trigger
                           /\ UNCHANGED <<completed, told, toLauncher>>
                      ELSE /\ completed' = completed \cup {f.id}
                           /\ IF failure' /\ ~told
                              THEN told' = TRUE /\ Trigger /\ ToLauncher(Frame("ack", 0, FALSE))
                              ELSE UNCHANGED <<told, signalled, toLauncher>>
                           /\ UNCHANGED <<rpc, final>>
    /\ UNCHANGED <<workerShut, launcherShut, wpc, handler, aborted, expected, stopAsked, stopped,
                   transaction, observer, publication, launcher>>

\* The launcher has shut its side, or nothing came in time.
ReceiveNothing ==
    /\ rpc = "read" /\ (stopped \/ toWorker = <<>>)
    /\ IF stopped THEN rpc' = "dead" /\ UNCHANGED <<failure, signalled>> ELSE ReceiverFails
    /\ UNCHANGED <<channels, wpc, handler, aborted, expected, completed, stopAsked, stopped, transaction,
                   told, final, observer, publication, launcher>>

\* The answer to stop counts once nothing follows it.
ReceiveEof ==
    /\ rpc = "eof"
    /\ \/ /\ WorkerEof
          /\ completed' = completed \cup {final} /\ rpc' = "dead"
          /\ UNCHANGED <<failure, signalled>>
       \/ /\ ReceiverFails
          /\ UNCHANGED completed
    /\ UNCHANGED <<channels, wpc, handler, aborted, expected, stopAsked, stopped, transaction, told,
                   final, observer, publication, launcher>>
-----------------------------------------------------------------------------
(* The launcher's observer and supervisor *)

\* _deliver_reserved_failure: the failure is sent, or cannot be.
Deliver ==
    /\ ToWorker(Frame("failure", 0, TRUE))
    /\ published' = TRUE /\ delivered' = Reachable

\* _run: an error of the protocol is reserved, and delivered when it is the first.
ObserverFails ==
    /\ code' = TRUE
    /\ opc' = IF code THEN "done" ELSE "deliver"

ObserverDelivers ==
    /\ opc = "deliver" /\ Deliver
    /\ opc' = "done"
    /\ UNCHANGED <<toLauncher, workerShut, launcherShut, main, receiver, current, latched, acked,
                   started, stopAck, code, sent, spc, launcher>>

Acquire(kind, id) ==
    /\ opc' = "acquire"
    /\ current' = [NoSample EXCEPT !.kind = kind, !.id = id]

\* init, or a deadline or the end of the worker before it.
ObserverStarts ==
    /\ opc = "init"
    /\ IF toLauncher # <<>>
       THEN /\ toLauncher' = Tail(toLauncher) /\ started' = TRUE
            /\ Acquire("startup", 0)
            /\ UNCHANGED code
       ELSE ObserverFails /\ UNCHANGED <<toLauncher, started, current>>
    /\ UNCHANGED <<toWorker, workerShut, launcherShut, main, receiver, latched, acked, stopAck,
                   published, delivered, sent, spc, launcher>>

\* _complete_resource_acquisition: a failed sample is reserved; a failure reserved before
\* it ends the observer.
Complete ==
    /\ opc = "acquire"
    /\ \E bad \in BOOLEAN :
          /\ current' = [current EXCEPT !.bad = bad, !.mine = bad /\ ~code]
          /\ code' = (code \/ bad)
    /\ opc' = IF code THEN "done" ELSE "publish"
    /\ UNCHANGED <<channels, main, receiver, latched, acked, started, stopAck, published, delivered,
                   sent, spc, launcher>>

\* The sample is sent; after the terminal one the launcher writes no more.
Send ==
    /\ opc = "publish"
    /\ IF Reachable
       THEN /\ toWorker' = Append(toWorker, Frame("sample", current.id, current.bad))
            /\ launcherShut' = IF current.kind = "terminal" THEN "half" ELSE launcherShut
            /\ opc' = "posted"
            /\ UNCHANGED <<code, published, delivered>>
       ELSE /\ published' = (published \/ current.mine)
            /\ ObserverFails
            /\ UNCHANGED <<toWorker, launcherShut, delivered>>
    /\ UNCHANGED <<toLauncher, workerShut, main, receiver, current, latched, acked, started, stopAck,
                   sent, spc, launcher>>

\* What was sent is accounted for; a failure reserved meanwhile ends the observer.
Posted ==
    /\ opc = "posted"
    /\ IF current.mine THEN published' = TRUE /\ delivered' = TRUE /\ latched' = TRUE
       ELSE UNCHANGED <<published, delivered, latched>>
    /\ sent' = (sent \/ current.kind = "terminal")
    /\ opc' = IF code /\ ~current.mine THEN "done"
              ELSE IF current.kind = "terminal" THEN "eof" ELSE "idle"
    /\ current' = IF current.kind = "terminal" THEN current ELSE NoSample
    /\ UNCHANGED <<channels, main, receiver, acked, started, stopAck, code, spc, launcher>>

\* A command is answered; the acknowledgement of a failure is expected once, and only of
\* a failure the observer itself has sampled.
Command ==
    /\ opc = "idle" /\ toLauncher # <<>>
    /\ LET f == Head(toLauncher)
       IN  /\ toLauncher' = Tail(toLauncher)
           /\ IF f.type # "ack"
              THEN Acquire(IF f.type = "stop" THEN "terminal" ELSE "forced", f.id) /\ UNCHANGED <<acked, code>>
              ELSE IF latched /\ ~acked
              THEN acked' = TRUE /\ UNCHANGED <<opc, current, code>>
              ELSE ObserverFails /\ UNCHANGED <<acked, current>>
    /\ UNCHANGED <<toWorker, workerShut, launcherShut, main, receiver, latched, started, stopAck,
                   published, delivered, sent, spc, launcher>>

\* The worker has gone without a stop.
CommandEof ==
    /\ opc = "idle" /\ LauncherEof
    /\ ObserverFails
    /\ UNCHANGED <<channels, main, receiver, current, latched, acked, started, stopAck, published,
                   delivered, sent, spc, launcher>>

\* The interval has passed, and no command is there, which would be read first.
Tick ==
    /\ opc = "idle" /\ ~latched /\ toLauncher = <<>> /\ ~LauncherEof
    /\ Len(toWorker) < MaxBacklog
    /\ Acquire("continuous", 0)
    /\ UNCHANGED <<channels, main, receiver, latched, acked, started, stopAck, publication, launcher>>

\* stop is acknowledged when the worker's side is shut after it.
StopEof ==
    /\ opc = "eof"
    /\ IF LauncherEof
       THEN stopAck' = TRUE /\ opc' = "done" /\ UNCHANGED code
       ELSE ObserverFails /\ UNCHANGED stopAck
    /\ UNCHANGED <<channels, main, receiver, current, latched, acked, started, published, delivered,
                   sent, spc, launcher>>

\* _supervise_deadlines: the observer is late.
Expire ==
    /\ spc = "watch" /\ ~code /\ ~sent /\ opc # "done"
    /\ code' = TRUE
    /\ spc' = "deliver"
    /\ UNCHANGED <<channels, main, receiver, observer, published, delivered, sent, launcher>>

SupervisorDelivers ==
    /\ spc = "deliver" /\ Deliver
    /\ spc' = "done"
    /\ UNCHANGED <<toLauncher, workerShut, launcherShut, main, receiver, observer, code, sent, launcher>>

-----------------------------------------------------------------------------
(* The launcher's main thread: _read_production_worker_response, _spawn_production_worker *)

\* A failure is noticed while the response is read: its publication is awaited.
Notice ==
    /\ mpc = "read" /\ code /\ ~grace
    /\ grace' = TRUE /\ mpc' = "wait"
    /\ UNCHANGED <<channels, main, receiver, observer, publication, error, outcome>>

\* What was published reached the worker, or SIGUSR1 is sent as long as the observer protocol
\* runs (_request_worker_cooperative_cleanup).  Without its handler the signal ends the worker.
\* A failure published since the launcher looked does not open a grace by itself.
Request ==
    /\ mpc = "wait"
    /\ LET reached == published /\ delivered
           refused == Gone \/ ~started \/ stopAck
       IN  IF reached \/ refused
           THEN /\ mpc' \in IF ~error THEN {"read"}
                            ELSE (IF reached THEN {"grace"} ELSE {}) \cup (IF refused THEN {"kill"} ELSE {})
                /\ UNCHANGED <<code, published, signalled>> /\ Lives
           ELSE /\ code' = TRUE /\ published' = (published \/ ~code)
                /\ IF handler THEN signalled' = TRUE /\ Lives
                   ELSE Dies("killed") /\ UNCHANGED signalled
                /\ mpc' = IF error THEN "grace" ELSE "read"
    /\ UNCHANGED <<toLauncher, launcherShut, handler, aborted, monitor, transaction, told, final,
                   observer, delivered, sent, spc, error, grace, outcome>>

\* A notice is on its way to the worker's main thread: much shorter than the grace.
UnderWay ==
    \/ opc = "deliver" \/ spc = "deliver" \/ (opc = "publish" /\ current.mine)
    \/ ~Gone /\ handler /\ ~aborted /\ (signalled \/ (rpc = "read" /\ toWorker # <<>>))

\* The deadline of the whole exchange, or an interrupt, ends the reading of a live worker.
GiveUp ==
    /\ mpc = "read" /\ ~Gone
    /\ error' = TRUE
    /\ mpc' = "wait"
    /\ UNCHANGED <<channels, main, receiver, observer, publication, grace, outcome>>

\* The response is complete and the process has ended.
Responded ==
    /\ mpc = "read" /\ Gone
    /\ mpc' = "join"
    /\ UNCHANGED <<channels, main, receiver, observer, publication, error, grace, outcome>>

\* _terminate_worker_process_group: at once when the worker cannot be reached, and else after
\* the grace, which may end while the response is read.
Kill ==
    /\ \/ mpc = "kill"
       \/ mpc = "grace" /\ ~UnderWay
       \/ mpc = "read" /\ grace /\ ~Gone /\ ~UnderWay
    /\ IF Gone THEN Lives ELSE Dies("killed")
    /\ error' = TRUE /\ mpc' = "join"
    /\ UNCHANGED <<toLauncher, launcherShut, watchdog, monitor, transaction, told, final, observer,
                   publication, grace, outcome>>

\* join: the observer is late, its socket is shut down under it.
JoinLate ==
    /\ mpc = "join" /\ opc # "done" /\ launcherShut # "closed"
    /\ code' = TRUE
    /\ published' = (published \/ ~code)
    /\ launcherShut' = "closed"
    /\ UNCHANGED <<toWorker, toLauncher, workerShut, main, receiver, observer, delivered, sent, spc, mpc,
                   error, grace, outcome>>

\* The threads have ended, the ledger is recovered, and the response is weighed.
Conclude ==
    /\ mpc = "join" /\ opc = "done" /\ spc # "deliver"
    /\ mpc' = "ended"
    /\ outcome' = IF error \/ wpc = "killed" \/ surfaced \/ code \/ ~started \/ ~stopAck
                  THEN "failed" ELSE "report"
    /\ UNCHANGED <<channels, main, receiver, observer, publication, error, grace>>

-----------------------------------------------------------------------------
MainThread == Boot \/ Started \/ Answered \/ AskTerminal \/ AnswerTerminal \/ JoinTimesOut \/ Restore \/ SettleMonitor
    \/ Exit \/ Handle
Workload == Ask \/ Finish
Receiver == Receive \/ ReceiveNothing \/ ReceiveEof
Observer == ObserverStarts \/ ObserverDelivers \/ Complete \/ Send \/ Posted \/ Command \/ CommandEof
    \/ Tick \/ StopEof
Supervisor == Expire \/ SupervisorDelivers
Launcher == Notice \/ Request \/ Responded \/ Kill \/ JoinLate \/ Conclude

ObserverNext == MainThread \/ Workload \/ GiveUp \/ Receiver \/ Observer \/ Supervisor \/ Launcher

ObserverSpec == ObserverInit /\ [][ObserverNext]_observerVars

\* Every thread but the workload, which may hang, goes on, and a wait ends by its deadline.
\* Nothing is said of GiveUp, whose deadline is that of the whole run, nor of Expire: an
\* observer that goes on need not ever be late.
ObserverFairness ==
    /\ WF_observerVars(MainThread) /\ WF_observerVars(Receiver) /\ WF_observerVars(Observer) /\ WF_observerVars(SupervisorDelivers)
    /\ WF_observerVars(Launcher)
FairObserverSpec == ObserverSpec /\ ObserverFairness

-----------------------------------------------------------------------------
(* Properties *)

\* A report is returned only of a run that no thread saw fail: neither a sample nor a
\* deadline of the launcher, nor the monitor of the worker, nor the size of the tree at its
\* last boundary; and the protocol was closed by both sides (5365-5430).
ReportIsClean ==
    outcome = "report" =>
        /\ ~code /\ ~failure /\ ~owned
        /\ wpc = "exited" /\ current.kind = "terminal" /\ ~current.bad
        /\ ask.id \in completed

\* Unless it cannot be reached, the launcher does not kill a worker at its workload, however
\* long that hangs, before its main thread was aborted and could clean up (5022-5062,
\* 5290-5345).
AbortedBeforeKilled ==
    [][Kill /\ mpc # "kill" /\ wpc \in {"work", "waiting"} => aborted]_observerVars

\* A failure on either side ends the exchange, even when the workload hangs and whichever
\* thread or deadline fails next, long before the deadline of the whole exchange (2464-2484,
\* 2739-2820, 5090-5125).
FailureEnds == (failure \/ code) ~> (mpc = "ended" /\ Gone)
=============================================================================
