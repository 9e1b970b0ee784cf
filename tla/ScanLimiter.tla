----------------------------- MODULE ScanLimiter -----------------------------
(***************************************************************************)
(* How threads share the compiled banks of one process (rust/src/engine.rs *)
(* ScanLimiter, ScanPermit and CachedRegex).  Every scan of a bank takes a *)
(* permit, which is one of Limit slots, from a mutex and a condition       *)
(* variable; it searches with the regex caches of its slot, each behind a  *)
(* mutex of its own; and it gives the permit back when it returns or       *)
(* unwinds.  A panic while a cache is locked leaves the cache half updated *)
(* and its mutex poisoned, and the next scan of the slot resets it.        *)
(*                                                                         *)
(* Abstractions.  The caches a slot has in the layers of a bank behave     *)
(* alike, so one stands for them.  A search is one step that may panic.    *)
(* The limiter's own mutex is held for whole actions, and no code panics   *)
(* while it holds it, so its poisoning is left out.                        *)
(***************************************************************************)
EXTENDS Integers, FiniteSets, ProcessThreads

CONSTANTS
    Banks,        \* native bank objects
    Limit,        \* MAX_CONCURRENT_SCANS_PER_ENGINE
    MaxSearches,  \* bound on the searches of one scan
    Nobody        \* no bank

ASSUME LimitAssumption == Limit \in Nat \ {0} /\ MaxSearches \in Nat
ASSUME NobodyAssumption == Nobody \notin Banks

Slots == 0..(Limit - 1)

VARIABLES
    active,    \* active[b]: the count of permits out
    inUse,     \* inUse[b]: the slots marked as taken
    poisoned,  \* poisoned[b]: slots whose cache mutex is poisoned
    torn,      \* torn[b]: slots whose cache a panic left half updated
    scan       \* scan[t]: where the scan of t stands

limiterVars == <<active, inUse, poisoned, torn, scan>>

\* asking: about to lock the limiter.  asleep, woken: in Condvar::wait.
\* holding: has a permit.  searching: has the slot's cache locked as well.
\* unwinding: a panic is on its way up to the FFI boundary.
\* leaving: the permit is back, notify_one is still to be called.
Stages == {"idle", "asking", "asleep", "woken", "holding", "searching", "unwinding", "leaving"}

NoScan == [stage |-> "idle", bank |-> Nobody, slot |-> 0, left |-> 0]

Scans == [stage : Stages, bank : Banks \cup {Nobody}, slot : Slots, left : 0..MaxSearches]

At(b, stages) == {t \in Threads : scan[t].bank = b /\ scan[t].stage \in stages}

\* Threads with a permit of b, the ones unwinding with it included.
Holders(b) == At(b, {"holding", "searching", "unwinding"})

FreeSlots(b) == Slots \ inUse[b]

LimiterInit ==
    /\ active = [b \in Banks |-> 0]
    /\ inUse = [b \in Banks |-> {}]
    /\ poisoned = [b \in Banks |-> {}]
    /\ torn = [b \in Banks |-> {}]
    /\ scan = [t \in Threads |-> NoScan]

-----------------------------------------------------------------------------
\* scan_bytes_into past its checks of size and encoding.
Enter(t, b) ==
    /\ scan[t].stage = "idle"
    /\ scan' = [scan EXCEPT ![t] = [stage |-> "asking", bank |-> b, slot |-> 0,
                                    left |-> MaxSearches]]
    /\ UNCHANGED <<active, inUse, poisoned, torn>>

\* The loop's condition, tested on arrival and after every wake-up.
MustWait(b) == active[b] >= Limit

Acquire(t) ==
    LET b == scan[t].bank IN
    /\ scan[t].stage \in {"asking", "woken"}
    /\ ~MustWait(b)
    /\ \E s \in FreeSlots(b) :
        /\ \A u \in FreeSlots(b) : s <= u
        /\ inUse' = [inUse EXCEPT ![b] = @ \cup {s}]
        /\ active' = [active EXCEPT ![b] = @ + 1]
        /\ scan' = [scan EXCEPT ![t] = [stage |-> "holding", bank |-> b, slot |-> s,
                                        left |-> scan[t].left]]
    /\ UNCHANGED <<poisoned, torn>>

Sleep(t) ==
    /\ scan[t].stage \in {"asking", "woken"}
    /\ MustWait(scan[t].bank)
    /\ scan' = [scan EXCEPT ![t] = [@ EXCEPT !.stage = "asleep"]]
    /\ UNCHANGED <<active, inUse, poisoned, torn>>

\* A condition variable may wake a thread that nobody notified.
WakeUnasked(t) ==
    /\ scan[t].stage = "asleep"
    /\ scan' = [scan EXCEPT ![t] = [@ EXCEPT !.stage = "woken"]]
    /\ UNCHANGED <<active, inUse, poisoned, torn>>

\* Mutant of LockCache: the poison is cleared and the cache used as it is.
LockCacheAsItIs(t) ==
    LET b == scan[t].bank
        s == scan[t].slot IN
    /\ scan[t].stage = "holding" /\ scan[t].left > 0
    /\ \A u \in At(b, {"searching"}) : scan[u].slot # s
    /\ poisoned' = [poisoned EXCEPT ![b] = @ \ {s}]
    /\ scan' = [scan EXCEPT ![t] = [stage |-> "searching", bank |-> b, slot |-> s,
                                    left |-> scan[t].left - 1]]
    /\ UNCHANGED <<active, inUse, torn>>

\* CachedRegex::cache: the mutex of the slot's cache, reset first if poisoned.
LockCache(t) ==
    LET b == scan[t].bank
        s == scan[t].slot IN
    /\ scan[t].stage = "holding" /\ scan[t].left > 0
    /\ \A u \in At(b, {"searching"}) : scan[u].slot # s
    /\ torn' = [torn EXCEPT ![b] = IF s \in poisoned[b] THEN @ \ {s} ELSE @]
    /\ poisoned' = [poisoned EXCEPT ![b] = @ \ {s}]
    /\ scan' = [scan EXCEPT ![t] = [stage |-> "searching", bank |-> b, slot |-> s,
                                    left |-> scan[t].left - 1]]
    /\ UNCHANGED <<active, inUse>>

\* The search of one layer returns and its guard is dropped.
UnlockCache(t) ==
    /\ scan[t].stage = "searching"
    /\ scan' = [scan EXCEPT ![t] = [@ EXCEPT !.stage = "holding"]]
    /\ UNCHANGED <<active, inUse, poisoned, torn>>

\* A panic inside a search: the guard goes first and poisons the mutex.
PanicInSearch(t) ==
    LET b == scan[t].bank IN
    /\ scan[t].stage = "searching"
    /\ torn' = [torn EXCEPT ![b] = @ \cup {scan[t].slot}]
    /\ poisoned' = [poisoned EXCEPT ![b] = @ \cup {scan[t].slot}]
    /\ scan' = [scan EXCEPT ![t] = [@ EXCEPT !.stage = "unwinding"]]
    /\ UNCHANGED <<active, inUse>>

\* A panic of the code around the searches.
PanicOutside(t) ==
    /\ scan[t].stage = "holding"
    /\ scan' = [scan EXCEPT ![t] = [@ EXCEPT !.stage = "unwinding"]]
    /\ UNCHANGED <<active, inUse, poisoned, torn>>

\* Drop for ScanPermit, up to its drop(state): on success, error or panic.
GiveBack(t) ==
    LET b == scan[t].bank IN
    /\ scan[t].stage \in {"holding", "unwinding"}
    /\ inUse' = [inUse EXCEPT ![b] = @ \ {scan[t].slot}]
    /\ active' = [active EXCEPT ![b] = IF @ > 0 THEN @ - 1 ELSE @]
    /\ scan' = [scan EXCEPT ![t] = [@ EXCEPT !.stage = "leaving"]]
    /\ UNCHANGED <<poisoned, torn>>

\* Mutant of Notify: nobody is woken.
NotifyNobody(t) ==
    /\ scan[t].stage = "leaving"
    /\ scan' = [scan EXCEPT ![t] = NoScan]
    /\ UNCHANGED <<active, inUse, poisoned, torn>>

\* notify_one, outside the mutex: wakes one sleeper if there is any.
Notify(t) ==
    LET sleepers == At(scan[t].bank, {"asleep"}) IN
    /\ scan[t].stage = "leaving"
    /\ \/ /\ sleepers = {}
          /\ scan' = [scan EXCEPT ![t] = NoScan]
       \/ \E u \in sleepers :
            scan' = [scan EXCEPT ![t] = NoScan, ![u] = [scan[u] EXCEPT !.stage = "woken"]]
    /\ UNCHANGED <<active, inUse, poisoned, torn>>

Panic(t) == PanicInSearch(t) \/ PanicOutside(t)

\* What the code of t does by itself, panics and stray wake-ups aside.
ScanStep(t) ==
    \/ Acquire(t) \/ Sleep(t)
    \/ LockCache(t) \/ UnlockCache(t)
    \/ GiveBack(t) \/ Notify(t)

LimiterNext ==
    \E t \in Threads :
        \/ \E b \in Banks : Enter(t, b)
        \/ ScanStep(t) \/ WakeUnasked(t) \/ Panic(t)

LimiterSpec == LimiterInit /\ [][LimiterNext]_limiterVars

-----------------------------------------------------------------------------
LimiterTypeOK ==
    /\ active \in [Banks -> Nat]
    /\ inUse \in [Banks -> SUBSET Slots]
    /\ poisoned \in [Banks -> SUBSET Slots]
    /\ torn \in [Banks -> SUBSET Slots]
    /\ scan \in [Threads -> Scans]
    /\ \A t \in Threads : scan[t].stage # "idle" => scan[t].bank \in Banks

\* The permits of a bank are its marked slots and its count, and no two threads
\* have one slot: the slot search in acquire cannot come up empty, a scan never
\* waits for the cache of its slot, and at most Limit scans of a bank run
\* (engine.rs 65-89, "active scan count guarantees an available cache slot").
PermitsAreExact ==
    \A b \in Banks :
        /\ active[b] = Cardinality(inUse[b])
        /\ inUse[b] = {scan[t].slot : t \in Holders(b)}
        /\ \A t, u \in Holders(b) : scan[t].slot = scan[u].slot => t = u

\* While a thread sleeps, each free slot of its bank has a thread on its way to
\* use it or to pass it on: one that was woken or one about to notify.  No
\* wake-up is lost although notify_one is called after the mutex is released,
\* and newcomers may take the slot in between (engine.rs 67-72, 108-120).
NoSleeperForgotten ==
    \A b \in Banks :
        At(b, {"asleep"}) # {} =>
            Limit - active[b] <= Cardinality(At(b, {"woken", "leaving"}))

\* No search runs on a cache that a panic left half updated, and a poisoned
\* mutex marks every such cache (engine.rs 585-599).
SearchesUseSoundCaches ==
    \A b \in Banks :
        /\ torn[b] \subseteq poisoned[b]
        /\ \A t \in At(b, {"searching"}) : scan[t].slot \notin torn[b] \cup poisoned[b]
=============================================================================
