--------------------------- MODULE QualitySession ---------------------------
(***************************************************************************)
(* The sessions of src/nerb/enron_quality.py: prepare, consume, finish, over a   *)
(* SQLite spool that holds metadata of private documents until it is wiped.  *)
(* What a session cannot wipe is kept in a table of the process (340-610),   *)
(* which every later prepare retries first.  One reentrant lock guards all    *)
(* cleanups; the collector may run the __del__ of a dropped session in any    *)
(* thread, in the middle of another cleanup, and the main thread may be       *)
(* interrupted (KeyboardInterrupt) between any two steps.                    *)
(***************************************************************************)
EXTENDS Naturals, FiniteSets, SequencesExt

CONSTANTS
    Threads,        \* threads of the process
    Main,           \* the one that receives interrupts
    Budgets,        \* bounds of a behaviour: how many sessions are made, how many calls
                    \* fail (close, wipe, exit of the owned run), how many interrupts arrive
    None

ASSUME ThreadsAssumption == Main \in Threads /\ None \notin Threads \cup Nat \cup {"finished", "failed"}
ASSUME BudgetsAssumption == Budgets \subseteq [sessions : Nat, faults : Nat, interrupts : Nat]

VARIABLES
    phase,      \* _state: "none" before the session is made
    intent,     \* _pending_terminal_state
    reach,      \* "none", "held" by a caller, "garbage", "collected" (its __del__ began)
    writer,     \* the SQLite connections that are open
    payload,    \* of the spool: "none", "blank" (tables only), "private", "zero"
    named,      \* the spools that still have their own name (no tombstone yet)
    pinned,     \* the spools whose descriptor is open (file_fd)
    settled,    \* pending.settled
    registry,   \* _PENDING_SPOOL_CLEANUPS: a dict, so in order of insertion
    lock,       \* holder of _PENDING_SPOOL_CLEANUP_LOCK
    stack,      \* for each thread its calls in progress, the innermost last
    results,    \* sessions whose finish returned a result
    budget, faults, interrupts

spools == <<writer, payload, named, pinned, settled>>
session == <<phase, intent, reach, results>>
vars == <<spools, session, registry, lock, stack, budget, faults, interrupts>>

Sessions == 1..budget.sessions
made == Cardinality({s \in Sessions : payload[s] # "none"})

Terminal == {"finished", "failed"}

\* A call: which one, the session it is about, where it is, the state it wants to end
\* in, whether an interrupt was deferred (anywhere, in the wipe), whether a cleanup was
\* unclean, and the entries a retry has yet to visit.
Call(job, s, want) ==
    [job |-> job, s |-> s, at |-> "lock", want |-> want, control |-> FALSE, inWipe |-> FALSE,
     unclean |-> FALSE, status |-> "none", rest |-> <<>>]

Busy(t) == stack[t] # <<>>
Top(t) == Last(stack[t])
At(t, label) == Busy(t) /\ Top(t).at = label
Replace(t, call) == stack' = [stack EXCEPT ![t] = Append(Front(@), call)]
GoTo(t, label) == Replace(t, [Top(t) EXCEPT !.at = label])
Return(t) == stack' = [stack EXCEPT ![t] = Front(@)]

\* The lock is reentrant: it is free for others once no outer call of t is inside it.
Inside(call) == call.at \notin {"lock", "open", "park"}
Release(t) ==
    lock' = IF \E i \in 1..(Len(stack[t]) - 1) : Inside(stack[t][i]) THEN t ELSE None

Publish(s) == registry' = IF s \in ToSet(registry) THEN registry ELSE Append(registry, s)
Unpublish(s) ==
    IF s \in ToSet(registry)
    THEN \E i \in DOMAIN registry : registry[i] = s /\ registry' = RemoveAt(registry, i)
    ELSE UNCHANGED registry

Fault == faults < budget.faults /\ faults' = faults + 1
NoFault == UNCHANGED faults

Init ==
    /\ budget \in Budgets
    /\ phase = [s \in Sessions |-> "none"]
    /\ intent = [s \in Sessions |-> None]
    /\ reach = [s \in Sessions |-> "none"]
    /\ payload = [s \in Sessions |-> "none"]
    /\ writer = {} /\ named = {} /\ pinned = {} /\ settled = {} /\ results = {}
    /\ registry = <<>> /\ lock = None
    /\ stack = [t \in Threads |-> <<>>]
    /\ faults = 0 /\ interrupts = 0

-----------------------------------------------------------------------------
(* What a caller does *)

\* prepare_enron_quality retries the pending cleanups before anything else.
Prepare(t) ==
    /\ ~Busy(t)
    /\ stack' = [stack EXCEPT ![t] = <<Call("retry", None, None)>>]
    /\ UNCHANGED <<spools, session, registry, lock, faults, interrupts>>

\* A session has one user at a time; only cleanups meet.
Mine(t, s) ==
    /\ ~Busy(t) /\ reach[s] = "held"
    /\ \A u \in Threads : \A i \in 1..Len(stack[u]) :
          ~(stack[u][i].job \in {"fail", "finish", "exit"} /\ stack[u][i].s = s)

\* consume: its metadata is in the spool before the document is scanned.  A cleanup that
\* was interrupted leaves the session active with its connection closed.
Usable(t, s) == Mine(t, s) /\ phase[s] = "active"

Consume(t, s) ==
    /\ Usable(t, s) /\ s \in writer
    /\ payload' = [payload EXCEPT ![s] = "private"]
    /\ UNCHANGED <<writer, named, pinned, settled, session, registry, lock, stack, faults, interrupts>>

\* consume or finish raises, an interrupt included: _fail.
UseFails(t, s) ==
    /\ Usable(t, s)
    /\ payload' \in {payload} \cup {[payload EXCEPT ![x] = "private"] : x \in {s} \cap writer}
    /\ stack' = [stack EXCEPT ![t] = <<Call("fail", s, "failed")>>]
    /\ UNCHANGED <<writer, named, pinned, settled, session, registry, lock, faults, interrupts>>

Finish(t, s) ==
    /\ Usable(t, s) /\ s \in writer
    /\ stack' = [stack EXCEPT ![t] = <<Call("finish", s, "finished")>>]
    /\ UNCHANGED <<spools, session, registry, lock, faults, interrupts>>

\* __exit__ terminates what is active or could not be cleaned up.
Unterminated(s) == phase[s] \in {"active", "cleanup_pending"}
Wanted(s) == IF intent[s] # None THEN intent[s] ELSE "failed"

Exit(t, s) ==
    /\ Mine(t, s) /\ Unterminated(s)
    /\ stack' = [stack EXCEPT ![t] = <<Call("exit", s, Wanted(s))>>]
    /\ UNCHANGED <<spools, session, registry, lock, faults, interrupts>>

\* The caller forgets the session, with or without __exit__.
Drop(t, s) ==
    /\ Mine(t, s)
    /\ reach' = [reach EXCEPT ![s] = "garbage"]
    /\ UNCHANGED <<spools, phase, intent, results, registry, lock, stack, faults, interrupts>>

\* __del__, in whatever thread the collector runs and whatever that thread is doing.
Collect(t, s) ==
    /\ reach[s] = "garbage" /\ Len(stack[t]) < 2
    /\ reach' = [reach EXCEPT ![s] = "collected"]
    /\ stack' = [stack EXCEPT ![t] =
                    Append(@, IF Unterminated(s) THEN Call("del", s, Wanted(s))
                              ELSE [Call("del", s, None) EXCEPT !.at = "park"])]
    /\ UNCHANGED <<spools, phase, intent, results, registry, lock, faults, interrupts>>

-----------------------------------------------------------------------------
(* Cleaning up one spool: _settle_metadata_spool, under the lock *)

Acquire(t) ==
    /\ At(t, "lock") /\ lock \in {None, t}
    /\ lock' = t
    /\ IF Top(t).job = "retry"
       THEN Replace(t, [Top(t) EXCEPT !.at = "visit", !.rest = registry])
       ELSE GoTo(t, "close")
    /\ UNCHANGED <<spools, session, registry, faults, interrupts>>

Conclude(t, status) == Replace(t, [Top(t) EXCEPT !.at = "conclude", !.status = status])

\* Mutant of CloseWriter: the wipe goes on when the connection could not be closed.
ClosesWriterOrNot(t) ==
    LET s == Top(t).s IN
    /\ At(t, "close")
    /\ \/ /\ s \in settled
          /\ Conclude(t, "settled") /\ NoFault /\ UNCHANGED writer
       \/ /\ s \notin settled
          /\ GoTo(t, "wipe")
          /\ \/ writer' = writer \ {s} /\ NoFault
             \/ UNCHANGED writer /\ Fault
    /\ UNCHANGED <<payload, named, pinned, settled, session, registry, lock, interrupts>>

\* Mutant of CloseWriter: what is settled already is cleaned up again.
ClosesSettled(t) ==
    LET s == Top(t).s IN
    /\ At(t, "close")
    /\ \/ writer' = writer \ {s} /\ GoTo(t, "wipe") /\ NoFault
       \/ s \in writer /\ Fault /\ Conclude(t, "writer_live") /\ UNCHANGED writer
    /\ UNCHANGED <<payload, named, pinned, settled, session, registry, lock, interrupts>>

\* An sqlite error proves nothing about the writer: its file is left alone.
CloseWriter(t) ==
    LET s == Top(t).s IN
    /\ At(t, "close")
    /\ \/ /\ s \in settled
          /\ Conclude(t, "settled") /\ NoFault /\ UNCHANGED writer
       \/ /\ s \notin settled
          /\ writer' = writer \ {s} /\ GoTo(t, "wipe") /\ NoFault
       \/ /\ s \notin settled /\ s \in writer
          /\ Fault /\ Conclude(t, "writer_live") /\ UNCHANGED writer
    /\ UNCHANGED <<payload, named, pinned, settled, session, registry, lock, interrupts>>

\* _wipe_and_quarantine_pinned_private_file: truncate through the descriptor, rename the
\* file to a tombstone, sync the directory.  How far one call of it comes: a closed
\* descriptor stops it at once, a name that is gone after the truncation.
WipeReaches(s, how_far) ==
    /\ how_far = "nothing" => UNCHANGED <<payload, named>>
    /\ how_far # "nothing" => s \in pinned /\ payload' = [payload EXCEPT ![s] = "zero"]
    /\ how_far = "truncated" => UNCHANGED named
    /\ how_far \in {"renamed", "synced"} => s \in named /\ named' = named \ {s}

Fails(s, how_far) == s \notin pinned \/ (s \notin named /\ how_far = "truncated")

\* Mutant of Wipe: an interrupted wipe that fails is taken for complete.
TrustsInterruptedWipe(t) ==
    LET c == Top(t) IN
    /\ At(t, "wipe")
    /\ \E how_far \in {"nothing", "truncated", "renamed", "synced"} :
        /\ WipeReaches(c.s, how_far)
        /\ IF how_far = "synced" \/ Fails(c.s, how_far) THEN NoFault ELSE Fault
        /\ IF how_far = "synced" \/ c.inWipe
           THEN GoTo(t, "unpin")
           ELSE Conclude(t, "wipe_pending")
    /\ UNCHANGED <<writer, pinned, settled, session, registry, lock, interrupts>>

\* A wipe that fails after it was interrupted may have been complete: the spool is
\* settled if its descriptor shows no bytes.
Wipe(t) ==
    LET c == Top(t) IN
    /\ At(t, "wipe")
    /\ \E how_far \in {"nothing", "truncated", "renamed", "synced"} :
        /\ WipeReaches(c.s, how_far)
        /\ IF how_far = "synced" \/ Fails(c.s, how_far) THEN NoFault ELSE Fault
        /\ IF how_far = "synced" \/ (c.inWipe /\ c.s \in pinned /\ payload'[c.s] = "zero")
           THEN GoTo(t, "unpin")
           ELSE Conclude(t, "wipe_pending")
    /\ UNCHANGED <<writer, pinned, settled, session, registry, lock, interrupts>>

\* The descriptors are closed one after the other; one that is closed already is no error.
Unpin(t) ==
    /\ At(t, "unpin")
    /\ pinned' = pinned \ {Top(t).s}
    /\ GoTo(t, "run")
    /\ UNCHANGED <<writer, payload, named, settled, session, registry, lock, faults, interrupts>>

\* The parent descriptor and the run that owns the directory, whose failure is reported
\* but leaves nothing to retry.
Settle(t) ==
    /\ At(t, "run")
    /\ \E unclean \in BOOLEAN :
        /\ IF unclean THEN Fault ELSE NoFault
        /\ Replace(t, [Top(t) EXCEPT !.at = "conclude", !.status = "settled", !.unclean = unclean])
    /\ settled' = settled \cup {Top(t).s}
    /\ UNCHANGED <<writer, payload, named, pinned, session, registry, lock, interrupts>>

-----------------------------------------------------------------------------
(* What the callers of the cleanup make of it *)

\* _terminate under the lock, then what its own caller does: finish returns its result
\* only of a clean end, __del__ goes on to its second protection.
Terminated(t) ==
    LET c == Top(t) IN
    /\ At(t, "conclude") /\ c.job \in {"fail", "finish", "exit", "del"}
    /\ IF c.status = "settled"
       THEN /\ Unpublish(c.s)
            /\ phase' = [phase EXCEPT ![c.s] = IF intent[c.s] # None THEN intent[c.s] ELSE c.want]
            /\ intent' = [intent EXCEPT ![c.s] = None]
       ELSE /\ Publish(c.s)
            /\ phase' = [phase EXCEPT ![c.s] = "cleanup_pending"]
            /\ intent' = [intent EXCEPT ![c.s] = IF @ # None THEN @ ELSE c.want]
    /\ Release(t)
    /\ results' = IF c.job = "finish" /\ c.status = "settled" /\ ~c.unclean /\ ~c.control
                  THEN results \cup {c.s} ELSE results
    /\ IF c.job = "del" THEN GoTo(t, "park") ELSE Return(t)
    /\ UNCHANGED <<spools, reach, faults, interrupts>>

\* The end of __del__: what is not settled is published, whatever happened before.
Park(t) ==
    LET s == Top(t).s IN
    /\ At(t, "park")
    /\ \/ /\ s \in settled
          /\ UNCHANGED <<registry, phase>>
       \/ /\ s \notin settled /\ lock \in {None, t}
          /\ Publish(s)
          /\ phase' = [phase EXCEPT ![s] = "cleanup_parked"]
    /\ Return(t)
    /\ UNCHANGED <<spools, intent, reach, results, lock, faults, interrupts>>

\* _settle_or_publish_pending_spool_cleanup_to_completion, of a prepare that failed.
RolledBack(t) ==
    LET c == Top(t) IN
    /\ At(t, "conclude") /\ c.job = "rollback"
    /\ IF c.status = "settled" THEN Unpublish(c.s) ELSE Publish(c.s)
    /\ Release(t) /\ Return(t)
    /\ UNCHANGED <<spools, session, faults, interrupts>>

\* _retry_pending_spool_cleanups visits the entries there were when it got the lock, and
\* raises at the first that is not settled, that was unclean, or that was interrupted.
Visit(t) ==
    LET c == Top(t) IN
    /\ At(t, "visit")
    /\ IF c.rest # <<>>
       THEN /\ Replace(t, [Call("retry", Head(c.rest), None) EXCEPT
                             !.at = "close", !.rest = Tail(c.rest)])
            /\ UNCHANGED lock
       ELSE Release(t) /\ GoTo(t, "open")
    /\ UNCHANGED <<spools, session, registry, faults, interrupts>>

Retried(t) ==
    LET c == Top(t) IN
    /\ At(t, "conclude") /\ c.job = "retry"
    /\ IF c.status = "settled" THEN Unpublish(c.s) ELSE UNCHANGED registry
    /\ IF c.status = "settled" /\ ~c.unclean /\ ~c.control
       THEN GoTo(t, "visit") /\ UNCHANGED lock
       ELSE Release(t) /\ Return(t)
    /\ UNCHANGED <<spools, session, faults, interrupts>>

\* The rest of prepare: it is refused or opens nothing, or the session stands, or what
\* _open_metadata_spool opened is rolled back.
Open(t) ==
    /\ At(t, "open")
    /\ \/ Return(t) /\ UNCHANGED <<writer, payload, named, pinned, phase, reach>>
       \/ /\ made < budget.sessions
          /\ LET s == made + 1 IN
             /\ writer' = writer \cup {s} /\ named' = named \cup {s} /\ pinned' = pinned \cup {s}
             /\ payload' = [payload EXCEPT ![s] = "blank"]
             /\ \/ /\ phase' = [phase EXCEPT ![s] = "active"]
                   /\ reach' = [reach EXCEPT ![s] = "held"]
                   /\ Return(t)
                \/ /\ reach' = [reach EXCEPT ![s] = "collected"]
                   /\ Replace(t, Call("rollback", s, None))
                   /\ UNCHANGED phase
    /\ UNCHANGED <<settled, intent, results, registry, lock, faults, interrupts>>

-----------------------------------------------------------------------------
(* Interrupts of the main thread *)

Interrupted(t) ==
    /\ t = Main /\ Busy(t) /\ interrupts < budget.interrupts
    /\ interrupts' = interrupts + 1

\* Inside a protected call the interrupt is remembered and the call is made again; the
\* wipe starts over.
Defer(t) ==
    LET c == Top(t) IN
    /\ Interrupted(t)
    /\ \/ /\ c.at \in {"close", "unpin", "run"}
          /\ Replace(t, [c EXCEPT !.control = TRUE])
          /\ UNCHANGED <<payload, named>>
       \/ /\ c.at = "wipe"
          /\ Replace(t, [c EXCEPT !.control = TRUE, !.inWipe = TRUE])
          /\ \E how_far \in {"nothing", "truncated", "renamed"} : WipeReaches(c.s, how_far)
    /\ UNCHANGED <<writer, pinned, settled, session, registry, lock, faults>>

\* Between two protected calls it unwinds the call.  The rollback then publishes; a
\* finish whose session is still active fails it; __del__ goes to its second protection.
Escape(t) ==
    LET c == Top(t) IN
    /\ Interrupted(t)
    /\ c.at \in {"lock", "visit", "close", "wipe", "unpin", "run", "conclude"}
    /\ IF c.at = "lock" THEN UNCHANGED lock ELSE Release(t)
    /\ \/ UNCHANGED registry /\ (c.job = "rollback" => c.at = "lock" \/ c.s \in settled)
       \/ Publish(c.s) /\ c.at = "conclude" /\ c.status # "settled" /\ c.job # "retry"
       \/ Publish(c.s) /\ c.at # "lock" /\ c.job = "rollback" /\ c.s \notin settled
    /\ IF c.job = "del" THEN GoTo(t, "park")
       ELSE IF c.job = "finish" /\ phase[c.s] = "active" THEN Replace(t, Call("fail", c.s, "failed"))
       ELSE Return(t)
    /\ UNCHANGED <<spools, session, faults>>

-----------------------------------------------------------------------------
Work(t) ==
    \/ Acquire(t) \/ CloseWriter(t) \/ Wipe(t)
    \/ Unpin(t) \/ Settle(t)
    \/ Terminated(t) \/ Park(t) \/ RolledBack(t) \/ Visit(t) \/ Retried(t) \/ Open(t)

Use(t, s) ==
    \/ Consume(t, s) \/ UseFails(t, s) \/ Finish(t, s)
    \/ Exit(t, s) \/ Drop(t, s) \/ Collect(t, s)

Next ==
    /\ \E t \in Threads :
        \/ Work(t) \/ Prepare(t) \/ Defer(t) \/ Escape(t)
        \/ \E s \in Sessions : Use(t, s)
    /\ UNCHANGED budget

Spec == Init /\ [][Next]_vars

\* A call goes on, and somebody keeps preparing sessions.
FairSpec ==
    /\ Spec
    /\ \A t \in Threads : WF_vars(Work(t) /\ UNCHANGED budget)
    /\ \A t \in Threads : WF_vars(Prepare(t) /\ UNCHANGED budget)

-----------------------------------------------------------------------------
(* Properties *)

Calls == UNION {{stack[t][i] : i \in 1..Len(stack[t])} : t \in Threads}

\* Private bytes in a spool have somebody who will wipe them and the descriptor to do it
\* through: a session that can still be used or collected, its __del__ in progress, or
\* the table that every prepare retries.
BytesStayOwned ==
    \A s \in Sessions : payload[s] = "private" =>
        /\ s \in pinned
        /\ \/ reach[s] \in {"held", "garbage"}
           \/ s \in ToSet(registry)
           \/ \E c \in Calls : c.job = "del" /\ c.s = s

\* A spool is wiped only after its writer is closed, so its bytes do not come back; and
\* finish returns a result only when nothing is left to clean up.
ResultIsClean ==
    \A s \in Sessions :
        /\ payload[s] = "zero" => s \notin writer
        /\ s \in results => /\ phase[s] = "finished" /\ payload[s] = "zero"
                            /\ s \in settled /\ s \notin pinned /\ s \notin ToSet(registry)

\* A cleanup that can never succeed: its descriptor is closed, or its file was renamed
\* before the cleanup failed.
Wedged(s) ==
    /\ s \in ToSet(registry) /\ s \notin settled
    /\ s \notin pinned \/ s \notin named
    /\ \A c \in Calls : ~(Inside(c) /\ c.s = s)

\* What is pending is settled by the prepares that follow, unless one of the pending
\* cleanups is wedged and stops every retry.
PendingIsRetried ==
    registry # <<>> ~> (registry = <<>> \/ \E w \in Sessions : Wedged(w))
=============================================================================
