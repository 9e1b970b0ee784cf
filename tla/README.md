# TLA+ models of nerb

nerb extracts known entities from text with a native (Rust) matching engine, anonymizes
documents reversibly with *replacement databases*, and carries a set of tools that prepare,
split, score and publish evidence about a private corpus.  This directory holds TLA+ modules
for the parts of it whose correctness depends on order, on several actors or on failures; TLC
configurations that check them; and proofs for TLAPS.

Paths below are relative to the root of the repository (`src/nerb/...` is the Python package,
`rust/src/...` the native engine).  `PROJECT.json` maps every definition to source lines.

    tlc -workers 2 -config replacement_db.cfg MCReplacementDb      # check a run
    tlapm ReplacementProofs.tla                                    # check the proofs

## 1. Inventory

| Component | State | Operations | Modelled by |
|---|---|---|---|
| Replacement database (`replacements.py`, commands in `cli.py`, `mcp_server.py`) | one JSON file per database, its `.lock` file, a temporary file per save | init, add-set, set-entity, anonymize-file with or without saving, MCP save and anonymize; all through `save_replacement_db` | `ReplacementDb` |
| Anonymization and de-anonymization (`deanonymization.py`, validation in `replacements.py`, overlaps in `reports.py`) | a database, a document, the working copy of a command | allocate a replacement, edit a text, search a text for replacements, restore it; set policies and sets in between | `Anonymization` |
| Native scan (`engine.rs`, `match_buffer.rs`) | cursor, one kept candidate per layer, the match buffer | `scan_bytes_into` over shards, layers and the merge | `LayeredScan` |
| Scan limiter and regex caches (`engine.rs`) | permits, slots, a condition variable, one regex cache per slot | acquire, wait, search, release, notify, panic | `ScanLimiter` in `BankService` |
| Compiled-bank cache (`engine.py`) | two LRU tables, counters | look up, compile, insert or adopt, evict, clear | `BankCache` in `BankService` |
| Private runs (`enron_private_io.py`) | a staging directory, pinned descriptors, a process registry of unresolved wipes | enter, create, pin, commit, abort, clean up, hand over, release, wipe retained | `PrivateRun` |
| Bank compilation (`bank.rs`, `formats.rs`, `flags.rs`, `ids.rs`) | none | parse, validate, canonicalize, hash | planned, as operators |
| Extraction and records (`engines.py`, `extraction.py`, `normalization.py`, `records.py`) | none | convert native matches to records | planned: offset tables |
| Detector configuration (`config.py`, tools of `mcp_server.py`) | a YAML file | load, change, save; no lock, no version | planned |
| Bank files, schema, diff, patches, validation, reports, evals, benchmarks | none | functions over documents | not planned |
| Preparation and cleaning (`enron_preparation.py`, `enron_cleaning.py`) | a spool of distinct rows, counters, three files | read and clean a row, write, verify, commit | `CorpusPreparation` |
| Corpus split (`enron_splitting.py`) | a spool of records, union-find groups, roles, role files, evidence | load, spool, link, assign, decide, write the roles, replay, compare, publish | `CorpusSplit` |
| Steward access (`enron_splitting.py`) | two private runs and a pair receipt; access receipts, staging files and tombstones under a flock | publish the pair; bind, claim, read, conclude, finalize, verify | `SealedAccess` |
| Sealed audit (`enron_sealed_audit.py`) | a committed sample | capture, verify | `SealedAccess`, `SealedEvaluation` |
| One-shot scoring (`enron_audit_scoring.py`) | a claim and its outcome on disk | claim, score, record the outcome, verify | `SoleScore` |
| Gold annotations, prediction audit (`enron_gold_annotations.py`, part of `enron_audit_scoring.py`) | registrations and audits on disk | register, verify | planned |
| Bank building (`enron_bank_builder.py`, `enron_bank_workflow.py`, `enron_catalog_adjudication.py`) | private runs, evidence | build, resume, publish | planned; its private runs are `PrivateRun` |
| Quality session (`enron_quality.py`) | a SQLite spool per session, a table of pending cleanups | prepare, consume, finish, fail, exit, `__del__`, retry | `QualitySession` |
| Capacity ledger (`enron_capacity.py`) | inflight markers with binding, inventory and intents, receipts, tombstones, the output | begin, bind, promote, receipt, retire, recover | `AttemptLedger`; its private runs are `PrivateRun` |
| Capacity workers (`enron_capacity.py`) | a socket pair, a watchdog, an observer and its deadlines | sample, ask, stop, abort, kill, conclude | `ResourceObserver` |
| Performance (`enron_performance*.py`) | a frozen schedule; sessions and fresh children of one runner, their pipes | schedule; start, request, answer, kill, reap, close | `TwinSchedule`, `BenchmarkWorkers` |
| Annotation profiles, activity, contracts, publication | sequential readers and writers over private runs | | not planned |

How they interact.  Replacement-database clients are separate processes that share only files.
Threads of one process share compiled banks through the bank cache; each bank holds a limiter
that all scans of it go through; a scan that has its permit runs alone.  Private runs of one
process share a limit on pinned descriptors and the registry of descriptors they failed to wipe;
a run nested in another hands its descriptors over when it commits.  Any program of the same
user may move files and directories at any time.  The capacity command runs its worker in a child
process and talks to it over a socket pair; both processes, and the runs of other shells, meet in
one ledger directory.  A split is captured once, and the captured sample is scored once, by
processes that share only the sealed directory and two files.  The quality sessions of a process
share a table of cleanups under one reentrant lock, into which the garbage collector calls.

What is hard: the window between an unlocked read and a locked save; what survives a power loss
when a rename is not fsynced; candidates kept while the cursor moves past other matches; lost
wake-ups and caches a panic leaves half updated; two threads compiling one bank while it is
evicted; a commit or a cleanup that fails halfway; a ledger that is replayed after a crash in the
recovery of an earlier crash; a deadline that passes while the answer is under way; a one-shot
access whose owner is killed between any two receipts; a destructor that runs inside the cleanup
of another object.  `PROJECT.json` lists these hazards
one by one, at their lines, with the properties that cover them, the open ones with a note.

## 2. Modules

    VersionedStore  <--refined by--  ReplacementDb   <--  ReplacementProofs
                         Anonymization               <--  ReplacementProofs
    LeftmostFirst   <--refined by--  LayeredScan     <--  NativeScanProofs
    ProcessThreads  <--  ScanLimiter, BankCache
                         ScanLimiter, BankCache      <--  BankService  <--  NativeScanProofs
                         PrivateRun                  <--  PrivateRunProofs
    AttemptLog      <--refined by--  AttemptLedger   <--  CapacityProofs
                         ResourceObserver            <--  CapacityProofs
    SealedAccess, SoleScore         <--  SealedEvaluation
    OneShotAccess   <--refined twice by--  SealedEvaluation  <--  SealedEvaluationProofs
    TwinSchedule    <--  BenchmarkWorkers            <--  BenchmarkWorkersProofs
    CorpusPreparation  <--  CorpusSplit              <--  CorpusSplitProofs
                         QualitySession              <--  QualitySessionProofs

Every `MC*` module instantiates its system for TLC.  A definition commented "Mutant of D"
is D with one plausible bug; it is used by no run, and it documents what a property can detect:
with D replaced by it, the property is violated.

### ReplacementDb

A client is a process running one command.  A command reads the file without the lock
(`load_replacement_db`), computes a candidate, and enters `save_replacement_db`: `Acquire` takes
the flock of the destination, `Check` makes the stale comparisons, `WriteTemp`, `FsyncTemp` and
`Rename` are `_write_replacement_db_unlocked`, `Unlock` leaves the lock, `Reload` is the
client reading the file again for its response, `Output` hands out the text with the new tokens.
`Crash` ends a client anywhere; `PowerLoss` replaces every file by something that could have
reached the disk (`survivors`), since the code fsyncs the temporary file but not the directory;
`Writeback` is the kernel doing it later.

A database is its version, the ordinal of the token given to each original, and the set of edits
it received.  A hash is the content itself.  A document mentions one original.  Two auxiliary variables
record the outputs (`emitted`) and how often a path was thrown away by a command that does so on purpose (`era`:
`init --force`, and the MCP tools when they save over another file whose hash they were given); nothing else is an excuse for a token that is gone.

That a token stays reversible is stated three times.  `TokensSurvive` is what the command line refuses to
give up ("Refusing to write output that depends on new unsaved assignments"), and a loss of power violates it: see `lost_token` below.
`EmittedRecoverable` is the same for the time the power stays on (`since` is the number of losses before the output), and
`KeptForGood` is what a loss leaves: a token that is in everything the disk may hold stays so, through any later
saves, failures, crashes and losses.

`VersionedStore` is what clients may rely on: registers with optimistic concurrency control, in
which a write succeeds only on the content the writer saw.

### LayeredScan

A bank is a sequence of entities, an entity a sequence of patterns; a pattern is a sequence of
literal parts joined by `\s+`, with boundaries and case folding.  `Kind` and `Layers` translate
`compile_entity_independent` and `compile_layered_shard`: literals that need no mapping, literals
searched in a copy of the text with whitespace runs collapsed or case folded, and bounded regex
layers cut at any `cuts`.  `MapHaystack`, `OriginalBoundary` and `MappedBoundaryAtOrAfter` are the
offset tables; `NextLiteralCandidate` and `IndexedValidLiterals` with `Representatives` are the
Aho-Corasick search with its fall-back to lower-priority literals at the same start.  `Take` is one
turn of the merge loop: winner, push, refresh of the overlapped layers; `NextShard`,
`LimitExceeded` and `Sort` are the ends of it.  The regex library and Aho-Corasick are external,
taken at their contract.  A character is a byte or a two-byte character, which is enough to put an
offset inside one.

`LeftmostFirst` is the promise: for each entity, what one leftmost-first regex over all its
patterns finds, or nothing at all when the limit is exceeded.

### Anonymization

What `ReplacementDb` leaves out: the content.  Commands run one at a time, with the database in
`policy`, `sets` and `assignments`.  `SetEntity` and `AddSet` are saved when the whole database stays
valid (`Valid`, the validator's conditions that depend on more than one field).  `Anonymize` takes
the records of a document, `ResolvedRecords` are the winners of the overlap groups; `Allocate` is one
turn of the loop of `_anonymize_resolved_run`: `Outcome` says how `_allocate_assignment_with_policy`
ends, `Give` and `Withhold` what the loop does about it; `FinishRun` applies the byte edits and saves.  A text is a
sequence of characters, an edited text a sequence of `Pieces`, each of which remembers what it replaced and
what should come back.  De-anonymization is an operator: `Found` is the leftmost search for each literal of the reverse
bank, `ReverseCandidates` drops pseudonyms inside words, `ResolveReverseOverlaps` keeps the longest.

`OutputsRestore` promises something only of a text in which nothing but replacements looks like a
replacement (`Clean`), and for a reverse bank within its limit, which is 3 here and 1000 in the code.  Without the first, the
promise is false: a document that already contains what a *later* allocation renders gets that restored
too, since texts are not searched for collisions.  Beyond the limit nothing is restorable until entries are removed.

What it shows besides.  `_overlap_groups` groups transitively, so a record that overlaps only a loser is
dropped with it, and stays readable without a diagnostic (the last disjunct of `SilentOnlyWhenAsked`).  A reusable set
never shares a candidate between identities, because no two assignments may have one value.  A
template that names neither entity nor ordinal makes every allocation but the first fail.  A detector configuration
reports no name ids, so an entity whose scope is the name ends the command, and its records may
overlap, which ends it as well.

Left out: options and their parsing, metadata of responses, reading documents, texts anonymized
without saving.  An ordinal is one character.

### BankService = BankCache + ScanLimiter

`BankCache` has one action per locked section of `Bank.from_source_bytes`: `Lookup`/`Miss`, then
`Compile` outside the lock, then `Reuse` (another thread was faster) or `Insert`, both with the
eviction of `_evict_bank_cache_if_needed`; `Clear` is `clear_bank_cache`.  `ScanLimiter` has the
limiter's steps (`Acquire`, `Sleep`, `GiveBack`, and `Notify`, which the code does after it
released the mutex), the cache of a slot (`LockCache` resets a poisoned one) and panics, which
unwind to the FFI boundary.  `BankService` lets threads fetch a bank and scan with it.  The
workload of a behaviour (what is asked for, how often) is chosen in `Init`, so that one run
covers several.

### PrivateRun

A run is `__enter__`ed (`Enter`), filled (`CreateFile`, `Write`, `CloseFile`, `AddDirect`,
`PinTree`), and either committed or cleaned up.  Commit is the order of the code: sync the tree
and compare it with the pins, write the marker last, compare again and check both names,
rename without replacing, look twice at what was promoted (rolling it back when it is not ours),
hand the pins over, close.  Cleanup wipes through the pins, clears the tree, finds the one
name the directory still has, retires it to a tombstone, and settles the pins: what cannot be
wiped goes to the process registry, which every later cleanup retries.  `CommitFault`, failing
wipes and `Interrupt` are failures; `MoveOut`, `MoveAway` and `Occupy` are other programs.
Modes, owners, link counts, Git checks and entry limits are left out.

### AttemptLedger

A process is a run of the capacity command or the parent of a dead worker, which only recovers.
Every file of the ledger directory goes through one protocol: `Write` a temporary name, `Sync`
the file and the directory, or `Undo`; `job` says which file and where the process goes on.  A
run opens the ledger (`Take`, `WipeTemp`, `Read`, `Open`), allocates a sequence and publishes its
marker (`Begin`, `Allocate`), binds its staging directory and its inventory (`BindStage`,
`BindInventory`), promotes (`Promote`), says how it ended (`AppendReceipt`), looks whether
the receipt stands (`Boundary`), and retires its files to tombstones (`Retire`).  `Recover` and
the actions after it do the same for a run that died: they clear or quarantine its output under
numbered cleanup intents before they attest the receipt.  `Crash` kills a process between any two
steps on a file; `WriteFails`, `SyncFails` and `Interrupted` are failing calls and interrupts.

`AttemptLog` is the promise: an append-only log in which an attempt is closed at most once.

What the model shows besides: a crash inside `Undo` leaves a live name of size zero, after which
every reader refuses the ledger, for ever.  It is a case of `Stuck`, where `Terminates` promises nothing; the others are the limits on
cleanup intents, 128, and on tombstones, 134,144, and a receipt out of order (`broken_chain`, below).  And a promotion whose settlement fails leaves a
failed receipt with the output in the canonical place, which readers reject.  An interrupt in
*each* of the two reconciliations of a run's own receipt (11699) leaves a durable
receipt that says passed while the promoted output is wiped: it needs two interrupts within one
call, which the run's bound of one fault leaves out, and with `MaxFaults = 2` `PassedIsIntact` is
violated (with one, `PassedStand` proves it).  Losses of power are not modelled here.

### ResourceObserver

Five threads: the worker's main thread (`Boot`, `Ask`, `Finish`, `AskTerminal`, `SettleMonitor`, `Exit`,
and `Handle`, the signal handler), its receiver, the launcher's observer (`Acquire`, `Complete`,
`Send`, `Command`, `Tick`), its supervisor (`Expire`, `SupervisorDelivers`) and its main thread
(`Notice`, `Request`, `GiveUp`, `Kill`, `Conclude`).  Any deadline may pass while somebody waits
for it; the one exception is the grace of a worker that was given notice (60 s), which is taken to
be long next to the steps of a worker that is under way (`UnderWay`).  Failure codes are reduced to
whether there is one; an interrupt of the launcher takes the step of its deadline.

What it shows besides: the launcher's SIGUSR1 (5046) may reach a worker whose watchdog
already restored the default handler (2452); it then dies instead of unwinding, and the parent's
recovery cleans up.  The check of `Trigger` and its kill are one step; a sampling is assumed to
end; the thread that samples in fixtures (`_loop` of the local monitor) is not modelled, nor is
an interrupt that escapes the launcher's last `finally`.

### CorpusSplit, after CorpusPreparation

`CorpusPreparation` reads the rows of a source one by one (`Read`): a known row is counted, a new one is
cleaned or rejected; then `WritePrepared` writes the files and the profile, and `CommitPreparation`
verifies them against each other.  A body is a sequence of lines of a kind (quote, header, signature,
template, text ...), of which `CurrentBody` and `Core` keep what the code keeps; `Near` is the signature of
a wording, the majority of its hashed shingles.  `CorpusSplit` goes on from there: `Load` verifies and binds the
preparation, `IngestPrepared` spools it, `NextFamily` and `Link` are the five families of links and their
union-find, `Assign` gives groups to roles, `Decide` computes memberships, samples and evidence,
`WriteRoles` reads `prepared.jsonl` a second time; `StartReplay` reads the role files back and the
same `Link` and `Assign` run again, in another order, before `Compare` and `Publish`.  `Swap` is another program that
puts a different preparation of the same source in the place of the file between the two readings.

`Link` takes the runs of a family in any order, of which the code has one; the groups cannot depend on it,
and the replay, whose nodes have other numbers, shows that they do not.  Text is reduced to kinds of lines and a
few words, hashes to operators of the instance (`GroupHash`, `Draw`, `SampleHash`, `ShingleHash`).

### SealedEvaluation = SealedAccess + SoleScore

`SealedAccess`: the splitter promotes two runs and publishes `PAIR_COMMITTED`; a steward binds a
plan, claims, reads, commits a sample and publishes the outcome; the finalizer concludes what a
dead steward left; verifiers look on.  A receipt is a staging file that is written, synced,
renamed without replacing and made durable by a sync of the directory; `Visit` is a verifier
sweeping staging files that have become five seconds old (`Age`), which may be those of a writer
that is only suspended.  `SoleScore`: `CreateClaim` must create its file, scoring follows, and a
second exclusive file is the outcome; both may be left torn.  `SealedEvaluation` lets nobody score
a sample that no capture returned and no verification accepted, and adds kills, failing
writes and syncs, and losses of power to both.

`OneShotAccess` is a register that is bound, claimed, read by one reader and concluded, in this
order; `ImplementsOneShot` shows it twice, in terms of what is durable.

What it shows besides: a capture that dies between binding and claim leaves the split bound for
ever; scoring has no finalizer, so a killed scorer burns the attempt, and a claim whose creation
fails halfway burns it without an outcome; a writer that was suspended for five seconds before its
flock and is killed after it wrote to its swept file leaves a tombstone with bytes, which wedges the
directory (`Wedged`); a verification may trust an outcome whose directory entry was not yet
synced, so the properties speak of what was *returned*.

### QualitySession

A session's metadata lie in a SQLite spool until they are wiped.  A call is a record on the stack of
its thread, because `__del__` (`Collect`) may run on top of any other call and the lock is
reentrant.  `CloseWriter`, `Wipe`, `Unpin` and `Settle` are `_settle_metadata_spool`; `Terminated`,
`RolledBack` and `Visit`/`Retried` are its three callers, and `Park` is the second protection of
`__del__`.  `Defer` is an interrupt inside one of the protected loops, `Escape` one between
them.  `WipeReaches` says how far one wipe comes: truncation, rename to a tombstone, sync.

What it shows besides: a wipe that fails after its rename, or an interrupt that escapes after the
descriptor is closed and before `settled` is set (474-492), leaves an entry no
retry can settle (`Wedged`), and every later `prepare_enron_quality` is refused with "still
contains private bytes" although they are zero.  An interrupted cleanup can leave a session
"active" with a closed connection, and `finish` may raise although the session is finished.

Left out: an interrupt in the first instruction of `__del__` or between its two protections, and
between the return of `_open_metadata_spool` and the `try` that follows (only a blank spool is at
stake); a failing `fstat` or `fsync` of the zero check; the reuse of descriptor numbers.  A session
has one user at a time.

### TwinSchedule

Performance is compared between a path and its exact twin, in blocks of ABBA or BAAB rounds; the
four value paths run in the rows of a Williams square inside each round.  A behaviour is the
construction of one schedule: `Round` and `Skip` are the turns of the loop of
`_interleaved_labels`, `NextBlock` the next block of `_exact_pair_schedule`.  `moment`, `places`
and `follows` add up what the properties weigh; a plan of value paths has an even number of samples per block
(`ValueAssumption`).  It is extended by `BenchmarkWorkers`, which measures
in this order.

### BenchmarkWorkers

One runner measures a workload, or twins in blocks, with children that are either sessions (a line
for a line) or serve one request that ends with their input.  `Open`, `Request`, `Start`, `Send`,
`Receive`, `EndOfOutput` and `Reap` are the exchange; `Deadline` ends it at any point, whatever is under
way; `Fail`, `Kill` and `Wait` are `_abort` and `_kill_and_reap`; `Close` and `Linger` are
`_WorkerSession.close`.  The child is `Reads`, `Works`, `Writes`; it may hang (`Hangs`), and then
even a signal need not end it at once, or die.  A pipe holds `Capacity` parts of a message.

What it shows besides: `KeyboardInterrupt` is none of the exceptions of a fresh exchange, so an
interrupted one closes the pipes of its child but neither kills nor reaps it; an interrupt in a cleanup
skips what is left of it.  Such a child ends when it meets the end of its pipes (`AllEnd`).  A session
interrupted while its child is blocked writing costs the two seconds of `close` and a SIGTERM.
The runner never compares process numbers across workers: a measurement in which the system gave
one number to two children of a path, or of a path and its twin, is committed and can never be verified;
every other one can (`EvidenceVerifies`).  Children of different paths may share a number, as long as they
did not live at the same time.

Left out: an interrupt inside `_WorkerSession.__init__`, nonces and correctness digests, the
temporary directory of the source build.  Blocks of value paths have eight sessions instead of two,
with the same life.

## 3. Runs

| Run | Instance | Shows |
|---|---|---|
| `replacement_db` | 2 clients, 2 paths that hold a database, something broken or nothing, 2 originals; any 2 of the 8 commands, where a blind copy has its destination to itself (`CopiesAlone`); 1 power loss | `EmittedRecoverable`, `SavedVersionVisible`, `KeptForGood`, refinement of `VersionedStore`, `CommandsFinish` |
| `blind_copy` | tools that save to a path that was missing when they looked | **violation** of `NoBlindOverwrite`, see below |
| `lost_token` | 1 client, 1 path, 2 originals; 1 power loss | **violation** of `TokensSurvive`, see below |
| `native_scan` | either 11 banks with every kind of layer, all texts of up to 4 characters of 5, every cut of the regex layers, limit 3; or 3 threads, 2 slots, room for 1 bank and 1 source key, three workloads | `LayersAreExact`, refinement of `LeftmostFirst`; `CacheIsSound`, `SearchesUseSoundCaches`, `CallsEnd` |
| `documents` | either 2 entities, 5 documents in 11 requests, 8 settings, 2 extensions of a set, 12 databases to begin with, 4 commands; or corpora of up to 7 rows, 6 of them different: threads, copies and replies, similar wordings, undated and malformed rows, one production split, signatures of 8 bits in 4 bands, 4 shares and budgets, 2 swaps | `OutputsRestore`, `OneValuePerKey`, `SilentOnlyWhenAsked`; `EverythingAccounted`, `NoLeakage`, `ReadersAgree`, `FutureStaysAhead` |
| `private_run` | 2 runs, nested with 3 descriptors or rivals with 1; 2 faults, 1 disturbance | `VisibleIsComplete`, `PayloadAccounted`, `NeverClobbers`, `RunsEnd` |
| `attempt_ledger` | 2 runs that may overlap, 1 parent, 1 cleanup intent, 6 tombstones; 2 crashes, or a crash and a fault | `OnlyTheLastBreaks`, `PassedIsIntact`, `PayloadAccounted`, refinement of `AttemptLog`, `Terminates` |
| `broken_chain` | the same | **violation** of `ChainVerifies`, see below |
| `resource_observer` | 1 worker, 1 request, a backlog of 1, any sample failing and any deadline passing | `ReportIsClean`, `AbortedBeforeKilled`, `FailureEnds` |
| `sealed_evaluation` | 2 stewards, 2 plans, 2 scorers, the finalizer; 2 tombstones; 3 failures, kills or power losses | refinement of `OneShotAccess` for both transitions, `ReturnedStands`, `ClaimsConclude` |
| `quality_session` | 2 threads; 2 sessions and one failure or interrupt, or 1 session with one failure and two interrupts | `BytesStayOwned`, `ResultIsClean`, `PendingIsRetried` |
| `benchmark_workers` | the ten-block schedules of twins with 1, 2, 3 and 7 samples and of fresh twins with 2, the value paths with 2 and 10, all without troubles; small plans of sessions, fresh children and one workload with 2 or 3 troubles; 2 parts to a message, 1 to a pipe | `PathsAreBalanced`, `NobodyLeftBehind`, `EvidenceVerifies`, `NeverStalls`, `AllEnd` |

A behaviour of `native_scan` or of `documents` is of one of two kinds, which share no variable (`MCNativeScan`,
`MCDocuments`): such a run checks two systems side by side, and what one kind leaves alone has one value.

Why the bounds are enough to be interesting.  Two clients with one command each show every lost
update, because the paths may hold a database from the beginning; the second path lets a tool
overwrite a file other than the one it read.  The scanned texts are longer
than two pattern lengths, so that a kept candidate outlives a match, is overtaken or is
overlapped; the banks were put together so that every kind of layer meets every other and
more matches than the limit occur.  Four commands anonymize, change a policy, anonymize again and leave one
command in which the damage of the first three shows; the documents make two records overlap, two
forms of a name meet, and natural text look like a token or a pseudonym.  Three threads on two slots is the least number in which
a newcomer takes the slot a sleeper was notified for; a bank table of one entry makes every second
insertion an eviction.  Two private runs are the least that can nest or compete; limit 1 makes
every pin hit the limit.  Two troubles of the ledger put the second crash into the recovery of the
first, and six tombstones are just two untroubled terminations, so that any trouble brings the
second one to the limit (the limits of the code are 128 intents and 134,144 tombstones).  Three troubles of the sealed
evaluation kill a steward, its finalizer and a scorer, or lose power after two kills.  One request
is enough for the observer because the boundary sample of the start and the terminal sample are
requests too.  Two sessions are the least number of which one can be collected inside the
cleanup of the other.  The schedules are the real ones, not instances of them.  A pipe that holds half of a message makes
both sides wait; two blocks are needed to see a session that outlives its own.  Four bands and signatures that may
differ in two bits are the least in which near duplicates need not agree in neighbouring bands; six rows make a group
of three wordings whose ends are not near each other, and leave groups for the other two roles; the second swap puts the
first preparation back.  Larger instances were checked by hand for safety: two disturbances for
`private_run` (972k states); four calls, one of them uncached, and three threads with a panic for
the bank service of `native_scan` (832k and 199k states).

`CHECK_DEADLOCK` is off where a behaviour ends by design: a scan completes, workloads are spent,
runs end.  In the `replacement_db` family it is on but can find nothing, since the kernel may
always write a directory back.  That nobody is stuck is therefore a property of its own in every
system: `CommandsFinish`, `CallsEnd`, `RunsEnd`, `Terminates`, `FailureEnds`,
`ClaimsConclude`, `PendingIsRetried`, `NeverStalls`, `AllEnd`.

Fairness.  `CommandsFinish`: a started command is scheduled (WF of its own steps), where waiting
for the flock is not a step; nothing is assumed about crashes, failures or the order in which the
kernel serves waiters, and with finitely many commands weak fairness is enough.  `CallsEnd`: threads are scheduled and native searches return; not which sleeper a
notification wakes, nor who gets a lock first.  `RunsEnd`: a run that was entered and whose caller
is done is driven to its end by `commit` or `__exit__`; nothing is assumed of the caller's writing.  `Terminates`: a process that is not killed goes on, and
the parent of a worker that died recovers, again and again (5429-5444).  `FailureEnds`: the five
threads are scheduled; the workload may hang and no deadline has to pass.  `ClaimsConclude`: a live
call goes on, staging files grow old and the finalizer is called again; nobody has to split, bind,
verify or score.  `PendingIsRetried`: calls go on and somebody keeps preparing sessions.  `AllEnd`: the runner is
scheduled and, at its end, exits; its deadlines pass; every child that does not hang is scheduled, and
one that was signalled dies in the end.

### Disagreements met

* `blind_copy`: a tool that loads `replacement_db_path` and saves to a *different*
  `save_db_path` which did not exist when it looked sends neither a hash nor `require_missing`
  (`mcp_server.py:605`), so a database another client creates there meanwhile is
  replaced, if its version happens to be one less than the candidate's.  README.md:210 says an
  existing destination needs its current hash.
* `lost_token`: a save fsyncs its temporary file and renames it (`replacements.py:838-840`), but the directory is never
  fsynced; the output is written, and fsynced, right after (`cli.py:768`).  A loss of power may keep the output and take the
  rename back.  The token is then in no database, and the next command gives it to another original.  The command line
  refuses output "that depends on new unsaved assignments" (`cli.py:803`) for this very reason.
* `broken_chain`: a capacity run that fails before it has a marker, while another attempt is in flight, takes the
  sequence after that attempt's but the next receipt number (`enron_capacity.py:11668`, 11764-11795); readers require the
  two to be equal (12195-12224), so that no reader, recovery or later run accepts the ledger any more.  The attempt in
  flight wipes its output and cannot append its receipt.  What remains true is `OnlyTheLastBreaks`.

One more disagreement has no run of its own.  A bounded pattern with both a literal space and `\s+` is
turned into a normalized literal in which the two look alike (`rust/src/engine.rs:2514`), so
`\bk x\s+k` is reported at `k<tab>x k`, which its regex does not match, against the comment at
`engine.rs:960`; no bank of `native_scan` has such a pattern, and with one `ImplementsLeftmostFirst` is
violated.  And a date within a zone offset of the ends of the calendar makes `astimezone` raise outside the `try` of
`_parse_date` (`enron_preparation.py:2278`): the row, which should be kept with an invalid date, ends the preparation.
`Date` does not model it, and no corpus of `documents` holds such a date.  Others are told with their modules in section 2: the
doubly interrupted reconciliation of `AttemptLedger`, the late signal of `ResourceObserver`, the
entry of `QualitySession` that is refused for ever.

## 4. Proofs

All hold for every value of the constants, under the named assumptions of the modules
(disjoint markers, finite sets, natural bounds).

**ReplacementProofs**, the database. `LocalInv` is `TypeOK` with what a request holds at each point of its
command; it is inductive by itself.  `GlobalInv` adds what relates clients to files: a client in the
critical section holds the flock of its path, so the file is what `Check` accepted; a client past
its rename is no newer than the file; what may survive a power loss is never newer than
the file, and is never torn unless the file was.  `TypeCorrect`,
`ChecksAreStable` and `SavedVersionsVisible` follow from the invariant; `NoLostUpdate`,
`NeverTorn` and `RefinesStore` are its action properties: every rename is a write of
the abstract store by a client that saw the content it replaces, every other step but a power loss
is a read or a stutter.  `NoLostUpdate` and `RefinesStore` assume that `tool_copy` is
not among the commands, which is exactly what `blind_copy` refutes.  `OutputsRecoverable` states `EmittedRecoverable` and `TokensKept` states `KeptForGood`, under
the same assumption: the first speaks of the outputs since the last loss of power, the second of every token that is in all the contents
a loss may leave, and of any number of losses; nothing is proved of a token whose save is not yet written back when the power
fails, because it may be lost (`lost_token`).  `RecoverInv` follows a token from the candidate in which it was allocated, through the save, to the output:
candidates and whatever may survive are `Unambiguous`, a candidate extends the database it was computed from, and a saved
token is in the file, unless the database was discarded since (`Backed`).

**NativeScanProofs**, the scan. Under `SearchesAreSound` (the search of each single layer is exact, for every
bank and text; TLC checks it as `LayersAreExact`), the merge is right: a kept candidate is the
one a new search would find, because nothing of its layer lies between the cursor and it
(`CandidateStaysCurrent`); the winner is therefore the next occurrence of the whole entity
(`WinnerIsNext`), no candidate means nothing is left (`DoneLeavesNothing`), and the merged scan
implements `LeftmostFirst`.  The hypothesis stays with TLC because it is about the
recursive searches in the text.

**ReplacementProofs**, the anonymizer. `OneValue` and `NothingUnnoticed` hold for any documents, policies, sets and
commands.  The invariant says that no two assignments share a value (`Injective`, which the
database inherits from the working copy because only a valid one is saved), that whatever was handed out is still
assigned as it was (`OutputsAssigned`: no command changes or drops an assignment), and of a command under way
that its edits are assigned in its copy, which extends the database (`RunAssigned`), and that its records
are still to do, edited, reported or withheld for a reason (`RunAccounts`).  `PiecesOfEdits` says what an edited
text consists of; `LosersOverlap` that a record which loses its group overlaps another one, by counting the openers of groups
(`OpenersSeparate`).

**NativeScanProofs**, the service. First the limiter alone, as theorems of `LimiterSpec`.  `LimiterTypes`; `PermitsExact` (a permit is one
marked slot and has one holder: the invariant is inductive with types); `SleepersRemembered`, by counting: while somebody sleeps,
every free slot is matched by a thread that is woken or about to notify, and each step moves
at most one thread in or out of both sides; `CachesAreSound`, where exclusive slots make a torn
cache always a poisoned one, which the next lock resets.
Then the cache.  `CacheIsSound` is not inductive: it says nothing of a thread that compiles.  `CacheInv` adds what a caller
holds at each stage (`CallFits`), that the bank table has one entry per key and every entry is a bank that was made for its key
(`TablesFit`), and that every bank made and every hit or miss counted belongs to a call that is no longer under way
(`Counted`), without which the numbers of banks could not be bounded.  The tables are sequences from which entries are
removed; `KeptEntries` (by the ranks of the places that are kept) and `LastEntries` say which remain, `Stored` that an eviction
takes the source keys of a bank along.  `EnterStep` is the second locked section, for both of its outcomes.
Last the service.  `ServiceIsLimiter`: its steps are steps of the limiter, because a bank that a thread was given is one that was
made; so `ServiceScansSoundly` is the three theorems about the limiter, and `CacheSound` states `CacheIsSound` of `Spec`.

**PrivateRunProofs.** `TypesAndLimit` is `TypeOK` itself, inductive, with the descriptor limit: only
creation and adoption add a descriptor, and both look at the limit first.
`NothingClobbered` follows from types and the two ways a name changes (it is given to a run or taken
from it; whatever is there is renamed to a free name).  `PayloadIsAccounted` needs three more
conjuncts.  `Owners`: a run holds files of its own or of a nested run that has
already handed everything over, and the registry holds files of runs that are over; so no
descriptor has two holders.  `Stands`: what a run has and lacks at each point of its code, such as
that a committed nested run holds nothing, that a promoted outermost run has its marker, and
that nobody pins that marker.  `Accounted`: every pinned file that is not wiped is held, owed
or belongs to a publication that stands.  `PcStep`, `FateStep` and `ContentStep` say what
a step may do to one variable whatever the action, and carry most cases.  `VisibleWhole` states `VisibleIsComplete`, with two more
conjuncts: `Unseen`, that until it is verified a run stands under its staging name only, and `Kept`, what is in the
directory of a run that nobody empties: nothing wiped, its marker, nobody writing, and after the sync everything durable.
Wiping is always on behalf of a run that is withdrawn or whose outermost run is (`WipedForTheWithdrawn`).

**CapacityProofs**, the ledger. `LedgerHolds` is the inductive invariant (`Inv`), without any hypothesis on failures or on runs that
overlap.  `Held` says who has the flock; a step under it leaves what the others know alone (`UnderLock`).  `Course` and `Task` follow a run through its
code: what it has published, bound, written and decided when it comes to a step, and where a publication returns to.
`Charge` does the same for whoever terminates an attempt, its own or a dead one, which stays dead (`Dead`) and unreceipted while the flock is
held.  `Chained`: the receipts are numbered without a gap, no attempt has two, and each says what is so (`Truthful`).  With `Single`,
that at most one marker is live, they give `Room`: a receipt can always be numbered, by counting the attempts that have one.
`OutputsAreAccounted` states `PayloadAccounted`, which is a conjunct (`Accounted`).  `PassedStand` states `PassedIsIntact` under `MaxFaults <= 1`: the invariant
says that a passed output is whole unless its own run was interrupted in both of its reconciliations (`Twice`), the case of
section 2, which takes two faults; crashes are not limited.  `BreaksAreLast` states `OnlyTheLastBreaks`, with no hypothesis, from a second
invariant (`InOrder`): an attempt in flight is due the number that follows, or the last one when a run without a marker
overtook it (`Due`); and whoever holds the flock and has read the ledger has seen the receipts in order, except a run without a marker that syncs its own
receipt and one that binds its stage, which does not read them (`Aside`).  So nothing can be published beyond a receipt out of order.  The receipts are `Chained` and the log is implemented in
any case: `LedgerImplementsLog` states `ClosesOnce`, where the only step of the ledger that
is a step of the log is the one in which a receipt becomes visible under its name (`LogPublish`).  `AttemptLog` names the
places of its entries (`Numbers`) instead of appending to a sequence, which is the form this proof needs.

**CapacityProofs**, the observer. `ObserverHolds` is the inductive invariant (`ObserverInv`) of the exchange.  Its parts relate the threads through
the channels: a failure that was delivered is in the channel of the worker or has signalled it, as long as the worker has not left its
work (`Noticed`, `Served`); a worker at its workload has its handler and a receiver (`AtWork`); a run that ended well has its terminal sample
(`Attested`), and what the observer acknowledged at the stop was good (`Reserved`).  `ReportsAreClean` states `ReportIsClean`, and
`KilledAfterTheAbort` states `AbortedBeforeKilled`: a grace ends only when the worker is not under way any more, so the
notice has arrived and its signal was handled, or nobody listens.

**QualitySessionProofs.** `SessionsHold` is the inductive invariant (`SessionInv`), which speaks of every entry of every stack.  `CallOk` is what a call
knows of its session wherever it is, and must survive whatever other calls do in between, on its own stack too: the collector starts a
call inside another.  `OneHolder`: a session has one `finish`, `exit`, failure or `__del__` at a time, so only retries and rollbacks share it with one.
`Listed`: the table has no doubles, and nothing in it has a result.  `Kept` is the first half of `BytesStayOwned`, which `BytesAreOwned` states;
`ResultsAreClean` states `ResultIsClean`.  `CallsReplaced`, `CallsReturned` and `CallsPushed` say what each
kind of step on a stack does to all the calls at once, so that an action has to be compared with one call only.  `Unpublish` is
written with `RemoveAt`, as the `pop` of a dict that it is, and not with an operator that goes through the whole table by recursion.

**SealedEvaluationProofs.** `OneShot` states `ImplementsOneShot` and `ReturnedResultsStand` states
`ReturnedStands`, for any stewards, scorers and plans and any number of failures.  Two invariants
carry them, one for each half.  `AccessInv`: whoever publishes a receipt or is inside the access holds
the flock (the construction of the split does not, and only publishes its own receipt); what is
durable is never withdrawn and no plan is bound under an access that began (`Durable`); only the owner
of the durable claim has read, and only what was read is completed; and each pending receipt
fits what is in the directory, so that a rename, its sync and a loss of power in between all keep
the first three.  Staging files, tombstones and the five-second rule play no part, which
is the point: a stale stage can cost liveness, never the one shot.  `ScoreInv`: a call past
the claim is the one the durable claim names, so all the others are idle or over
(`OneCall`), and an outcome exists only under a durable claim; a spoiled or torn file is covered
because its author and what it says never change.  Every step then either makes something durable
(`GrowthAdvances`, `DurabilityAdvances`) or is the one read.

**BenchmarkWorkersProofs.** `CentresOfGravityMeet` states `TwinsDriftAlike` of the schedule, for any number of blocks and samples
and any balanced assignment.  `Phase` says where a block stands in its ABBA and which lead its first twin has there: none
after a full ABBA, one round after an AB, and so on.  A block with an odd number of samples ends with a lead of one round;
`Tilt` counts these over the blocks, and `BalanceAssumption` brings it back to zero.  `MeasuredAlike` says it of the runner: every step
of it is a step of the schedule or leaves it alone.
`PathsMeasuredAlike` states `PathsAreBalanced` in the same way (`WilliamsBalance` for the schedule alone), from `BalanceInv`.  In a block,
the rows that a twin has had are known from the number of its rounds (`When`, `RowOfRound`): the twin that began the block has the rounds
0, 3, 4 and 7 of the row pattern, the other one the rest, so eight rounds give both all four rows, in which each path has each
position, and each pair of neighbours, once (`RowNumbers`).  A finished block leaves half a pattern or none; which half a twin has depends on who
began, and over the blocks the two halves are as frequent (`FollowsBefore`, `PlacesAll`, `BalanceAssumption`).  That needs an even number of
samples of a block (`ValueAssumption`; the code has 10): with an odd one the rounds end within a square, and TLC finds the imbalance.
`WorkersInvariant` is the inductive invariant of the runner and its children (`Inv`), which `NobodyLeftBehind` and `NeverStalls` need
because neither is inductive.  `Where`: what the runner holds at each point of its code.  `Left`: whoever is in the runner's books and not
settled is the target, or still in the queue of its `finally` clause; a closed session is settled or under way.  `Busy`: what has
been sent and not yet received is in one of the two pipes or in the child (`Midway`), and a session between two requests holds
nothing of an earlier one (`Idle`).  From it, `ExchangeNeverStalls` finds for every state of a healthy exchange
the end that can go on, for all sizes of requests, answers and pipes (`PartsAssumption`: none of them is zero).
`EvidenceIsVerified` states `EvidenceVerifies`, from a second invariant (`AuditInv`).  `Numbered`: every worker that came has a number,
the system gives 1 to some k, and two workers share one only if one of them has been reaped.  `Underway` and `Occupied`: the sessions of a block that is being measured
are different workers, none of them reaped, and at work in that block.  `Entered` and `Measured`: each cell of the audit holds the one session of its block, or one worker per observation, and
everything before the runner's position is complete.  At the end of a plan, the number of workers of a path is then
the number the verdict expects, and that of their process numbers equals it exactly when no two of them share one
(`AsMany`: a finite set and its image under a function have one size only if the function is injective on it).  It needs that each row of the Williams square names every path
(`RowIsWhole`).

**CorpusSplitProofs.** `LeakageFree` states `NoLeakage`.  The invariant (`SplitInvariant`) says that the runs of the families that are done are within
one group (`RunsJoined`), that assigned groups are whole (`GroupsWhole`), and that in the replay the nodes are the records of the role
files, in their order, with the roles the files give them (`Spooled`, `Observed`): so the promise rests on the replay alone, and what stood in the place
of `prepared.jsonl` during the first pass does not matter.  `LinkedShareRun`: two records that are linked share a run of some family.  For near duplicates this
is `BandsAgree`, the claim of the comment at `enron_splitting.py:889`: signatures that differ in at most
`near` bits agree on two bands, since each differing bit spoils one band and there are `near + 2` of them
(`BandsAssumption`).  `LimitsAssumption` (a wording without tokens has no signature) and `CorporaAssumption` keep signatures sets of bits.

`FutureAhead` states `FutureStaysAhead`.  Groups with a date are ordered by their latest record and then by their hash; `HashAssumption` says
that the hash separates sets of documents (it is SHA-256, without collisions), `SharesAssumption` that the shares are natural numbers,
`CorporaAssumption` that rows are numbered and dates are numbers.  `RanksRun`, about any total order of a finite set, gives the order its positions without a gap; the
counts at the two cuts are then numbers (`CutsAreNumbers`), and of two groups in different roles the older one is in the earlier (`RolesInOrder`).  The second
invariant (`OrderHolds`) carries this to what is published: every record is a row of the corpus (`Sources`), the ids in the role files differ,
the roles follow the dates of the groups, and the evidence that agrees names whole groups (`Ordered`).

`EverythingIsAccounted` states `EverythingAccounted`.  The third invariant (`CountHolds`) follows the rows: each reading counts a row once among the items
and once among the rejections or the spooled (`CountOne`), the prepared and later the bound records are the spool with its counts (`Recorded`), and the replay
starts only when the role files, merged by document, are the bound records.  `ByIdRange`: merging records with different ids gives these records
and no others; so each row of the spool is in exactly one record of one file, and the sum over its places has one term (`SumOfOne`).

Only model-checked, and why:

* every liveness property (`CommandsFinish`, `CallsEnd`, `RunsEnd`, `Terminates`, `FailureEnds`, `ClaimsConclude`, `PendingIsRetried`, `AllEnd`):
  fairness and `ENABLED` are out of the prover's reach;
* what recursive or folded definitions compute of the data: `LayersAreExact` (searches in the text) and `OutputsRestore` (a text searched and edited)
  need an induction over sequences, for which the library's theorems take an operator as a parameter;
* `ReadersAgree`: that a replay in another order gives the same groups, samples and evidence is an invariance of sums and choices under
  permutations of the nodes, and that a sample is always filled is a sum of remainders: again inductions over data;
* the `TypeOK` of `SealedEvaluation`, which none of its theorems needs in full.

`AcceptedStillHolds`, which `ChecksAreStable` states, `NoTornFile` (`NeverTorn`), `NoSleeperForgotten` (`SleepersRemembered`) and `TwinsDriftAlike`
(`CentresOfGravityMeet`, `MeasuredAlike`) are proved, and checked by no run.

## 5. Plan

In order of what matters most next:

1. `GoldRegistry`: the registration of gold annotations and the prediction audit, between
   `SealedAccess` and `SoleScore`.
2. `BankWorkflow`: the stages of a build over private runs.
3. `ConfigStore`: the unprotected detector configuration, with the lost update it allows.
4. Operators checked over bounded inputs: offset tables of `normalization.py`, canonical flags and resource limits of `bank.rs`.

## 6. Not modelled

Real regexes beyond literals with boundaries and `\s+`, the all-overlaps scan, Unicode beyond one
two-byte character; byte formats, hashing and JSON schemas; formatting, reports and benchmarks;
operating-system permissions; wall-clock limits of probes (`validation.py`).  Of the Enron tools:
the selection of documents, manifests and their hashes, metrics and commitments, the
measurements of the capacity probe, gold registration, catalogs and the bank workflow, what the
performance workers measure and how it is evaluated, the patterns by which cleaning recognizes a line, and annotation profiles
and activity reports.
