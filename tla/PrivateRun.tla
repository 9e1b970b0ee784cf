----------------------------- MODULE PrivateRun -----------------------------
(***************************************************************************)
(* The private transactional directories of enron_private_io.py: a run     *)
(* builds its files in a sibling staging directory, holds one pinned       *)
(* descriptor per payload file, and either promotes the whole directory to *)
(* its final name or wipes every payload through those descriptors and     *)
(* retires the directory as a `.nerb-cleanup-*' tombstone.  Runs of one    *)
(* process share the limit on pinned descriptors and the registry of       *)
(* descriptors whose wipe failed.  A run may be nested in another one and  *)
(* hand its descriptors to it; two runs may want the same final name; and  *)
(* other programs of the same user may move files and directories about.   *)
(*                                                                         *)
(* Abstractions.  A tree is the set of files whose home is the run, with   *)
(* the trees of the runs nested in it.  A payload is empty, data or wiped. *)
(* Ownership, modes, link counts, ignored-by-git checks and the entry and  *)
(* depth limits are left out.  A run object that failed before it made its *)
(* staging directory is "refused".  Between two steps of a run anything    *)
(* may happen; the steps are its system calls on names, and its passes     *)
(* over a tree.                                                            *)
(***************************************************************************)
EXTENDS Naturals, FiniteSets

CONSTANTS
    Runs,             \* PrivateRun objects, each used once
    Handles,          \* payload files written through open_binary and open_text
    Directs,          \* payload files a library writes into the staging tree by itself
    Marker,           \* Marker[r]: the file COMMITTED of run r
    Home,             \* Home[f]: the run whose staging directory f is created in
    Layouts,          \* the ways the runs are arranged and the descriptor limits to consider
    MaxFaults,        \* bound on failing system calls and interrupts
    MaxDisturbances,  \* bound on what other programs of the user do to the directories
    Nothing,          \* no directory at a name; no enclosing run
    Foreign           \* a directory that no run created

Markers == {Marker[r] : r \in Runs}
Files == Handles \cup Directs \cup Markers
Places == {"stage", "final"} \X Runs

ASSUME FilesAssumption ==
    /\ IsFiniteSet(Runs) /\ IsFiniteSet(Handles) /\ IsFiniteSet(Directs)
    /\ Marker \in [Runs -> Markers]
    /\ Home \in [Files -> Runs]
    /\ \A r \in Runs : Home[Marker[r]] = r
    /\ Handles \cap Directs = {} /\ (Handles \cup Directs) \cap Markers = {}
    /\ Nothing \notin Runs /\ Foreign \notin Runs /\ Nothing # Foreign

\* within[r]: the run r is nested in; shares[r]: the run that gives r its final name;
\* retains: the runs committed with retain_cleanup_authority; limit: pinned descriptors
\* a process may hold.  Nesting has one level and a nested run hands its descriptors over.
ASSUME LayoutsAssumption ==
    /\ Layouts \subseteq [within : [Runs -> Runs \cup {Nothing}], shares : [Runs -> Runs],
                          retains : SUBSET Runs, limit : Nat]
    /\ \A l \in Layouts, r \in Runs :
          l.within[r] # Nothing => l.within[l.within[r]] = Nothing /\ r \notin l.retains
ASSUME BoundsAssumption == MaxFaults \in Nat /\ MaxDisturbances \in Nat

VARIABLES
    layout,        \* the layout of this behaviour
    pc,            \* pc[r]: where run r stands
    at,            \* at[n]: the directory found at staging or final name n
    tombs,         \* the runs whose directory was retired under a tombstone name
    stageFd,       \* the runs that still hold their staging directory open
    content,       \* content[f]: what the inode of f holds
    durable,       \* files whose content was fsynced
    writers,       \* files with an open writer
    moved,         \* files another program moved out of their directory
    fds,           \* fds[r]: the files run r holds a pinned descriptor of
    registry,      \* the files whose pinned descriptor the process registry holds
    promoted,      \* the runs whose promotion was verified
    bad,           \* the runs whose cleanup raised an error of its own
    target,        \* target[r]: the name the cleanup of r is about to retire
    faults,        \* faults so far
    disturbances   \* disturbances so far

\* Auxiliary: the files that were ever pinned.
VARIABLE pinned

tree == <<content, durable, writers, moved>>
names == <<at, tombs, stageFd>>
authority == <<fds, registry, pinned>>
fate == <<promoted, bad, target>>
vars == <<layout, pc, tree, names, authority, fate, faults, disturbances>>

-----------------------------------------------------------------------------
(* Names, trees and descriptors *)

Stage(r) == <<"stage", r>>
Final(r) == <<"final", layout.shares[r]>>
Outer(r) == layout.within[r]
Nested(r) == {i \in Runs : Outer(i) = r}
Top(r) == IF Outer(r) = Nothing THEN r ELSE Outer(r)

Cleaning == {"wipe", "clear", "find", "move", "drop"}
Committing == {"sync", "mark", "check", "rename", "verify", "confirm"}
Ended == {"idle", "refused", "committed", "failed", "wiped"}

\* The names under which the directory of r is found.
OwnNames(r) == {n \in {Stage(r), Final(r)} : at[n] = r}

\* The directory of r is still where its parent directory was.
InPlace(r) == r \in tombs \/ OwnNames(r) # {}

\* A walk from the staging descriptor of r reaches f.
InTree(f, r) ==
    /\ content[f] # "none" /\ f \notin moved
    /\ Home[f] = r \/ (Home[f] \in Nested(r) /\ InPlace(Home[f]))

TreeOf(r) == {f \in Files : InTree(f, r)}

\* _LIVE_CLEANUP_FDS: the pinned descriptors of the process.
Held == registry \cup UNION {fds[r] : r \in Runs}

\* The files of the tree that r has not pinned; the marker at its root needs no pin.
Strangers(r) == TreeOf(r) \ (fds[r] \cup {Marker[r]})

\* _require_cleanup_files_current: every pinned file is in the tree and every file of the
\* tree is pinned.
Current(r) == fds[r] \subseteq TreeOf(r) /\ Strangers(r) = {}

\* The code a run executes while it or a run nested in it is in the with block: one
\* thread runs both, the nested run first.
MayStep(r) ==
    /\ Outer(r) # Nothing => pc[Outer(r)] = "open"
    /\ \A i \in Nested(r) : pc[i] \in Ended

Init ==
    /\ layout \in Layouts
    /\ pc = [r \in Runs |-> "idle"]
    /\ at = [n \in Places |-> Nothing]
    /\ tombs = {} /\ stageFd = {}
    /\ content = [f \in Files |-> "none"]
    /\ durable = {} /\ writers = {} /\ moved = {}
    /\ fds = [r \in Runs |-> {}]
    /\ registry = {} /\ pinned = {}
    /\ promoted = {} /\ bad = {}
    /\ target = [r \in Runs |-> Nothing]
    /\ faults = 0 /\ disturbances = 0

Goto(r, l) == pc' = [pc EXCEPT ![r] = l]

\* A fault this step meets: failed is empty when nothing fails.
Meets(failed) ==
    IF failed = {} THEN UNCHANGED faults ELSE faults < MaxFaults /\ faults' = faults + 1

\* The payload of the files in done reaches a durable zero.
Wipe(done) ==
    /\ content' = [f \in Files |-> IF f \in done THEN "wiped" ELSE content[f]]
    /\ durable' = durable \cup done

\* Run r moves to l, and no fault happened.
Quiet(r, l) == Goto(r, l) /\ UNCHANGED <<layout, faults, disturbances>>

-----------------------------------------------------------------------------
(* Entering a run *)

\* _retry_unresolved_cleanup_descriptors: every wipe the registry owes is tried again.
\* Those in failed are still owed.
Retry(failed) ==
    /\ Wipe(registry \ failed)
    /\ registry' = failed
    /\ Meets(failed)

\* PrivateRun.__enter__ of a run that finds every owed wipe done.  An existing final name
\* refuses the run; a staging name that is taken makes it draw another token.
Enter(r) ==
    /\ pc[r] = "idle" /\ MayStep(r)
    /\ Retry({})
    /\ IF at[Final(r)] # Nothing
       THEN Goto(r, "refused") /\ UNCHANGED names
       ELSE /\ Goto(r, "open")
            /\ at' = [at EXCEPT ![Stage(r)] = r]
            /\ stageFd' = stageFd \cup {r}
            /\ UNCHANGED tombs
    /\ at[Stage(r)] = Nothing
    /\ UNCHANGED <<layout, writers, moved, fds, pinned, fate, disturbances>>

\* PrivateRun.__enter__ of a run that raises because a wipe is still owed.
EnterBlocked(r) ==
    /\ pc[r] = "idle" /\ MayStep(r)
    /\ \E failed \in (SUBSET registry) \ {{}} : Retry(failed)
    /\ UNCHANGED <<layout, pc, writers, moved, names, fds, pinned, fate, disturbances>>

-----------------------------------------------------------------------------
(* Building the tree *)

\* The caller is in the with block of r; it gives up when a nested run failed.
Building(r) ==
    /\ pc[r] = "open" /\ MayStep(r)
    /\ \A i \in Nested(r) : pc[i] \in {"idle", "committed"}

\* _create_output_file: the new file is pinned before its handle is returned.  At the
\* descriptor limit the call raises and leaves an empty file nobody pinned.
CreateFile(r, f) ==
    /\ Building(r) /\ f \in Handles /\ Home[f] = r /\ content[f] = "none"
    /\ content' = [content EXCEPT ![f] = "empty"]
    /\ IF Cardinality(Held) < layout.limit
       THEN /\ fds' = [fds EXCEPT ![r] = @ \cup {f}]
            /\ pinned' = pinned \cup {f}
            /\ writers' = writers \cup {f}
       ELSE UNCHANGED <<fds, pinned, writers>>
    /\ UNCHANGED <<layout, pc, durable, moved, names, registry, fate, faults, disturbances>>

\* The caller writes to a handle, or a library to the file that create_external_file made
\* for it, by name.
Write(r, f) ==
    /\ Building(r) /\ Home[f] = r /\ f \in pinned /\ content[f] = "empty"
    /\ f \in writers \/ InTree(f, r)
    /\ content' = [content EXCEPT ![f] = "data"]
    /\ UNCHANGED <<layout, pc, durable, writers, moved, names, authority, fate, faults,
                   disturbances>>

\* The caller closes a handle.
CloseFile(r, f) ==
    /\ Building(r) /\ Home[f] = r /\ f \in writers
    /\ writers' = writers \ {f}
    /\ UNCHANGED <<layout, pc, content, durable, moved, names, authority, fate, faults,
                   disturbances>>

\* A library (SQLite, the reader) writes a file of its own into the staging tree.
AddDirect(r, f) ==
    /\ Building(r) /\ f \in Directs /\ Home[f] = r /\ content[f] = "none"
    /\ content' = [content EXCEPT ![f] = "data"]
    /\ UNCHANGED <<layout, pc, durable, writers, moved, names, authority, fate, faults,
                   disturbances>>

\* pin_cleanup_tree: the files of the stopped tree that nobody pinned are adopted, as many
\* as the limit allows; the call raises when some are left.
PinTree(r) ==
    /\ Building(r) /\ writers = {}
    /\ \E adopted \in SUBSET Strangers(r) :
          /\ adopted # {}
          /\ Cardinality(Held \cup adopted) <= layout.limit
          /\ adopted = Strangers(r) \/ Cardinality(Held \cup adopted) = layout.limit
          /\ fds' = [fds EXCEPT ![r] = @ \cup adopted]
          /\ pinned' = pinned \cup adopted
    /\ UNCHANGED <<layout, pc, tree, names, registry, fate, faults, disturbances>>

-----------------------------------------------------------------------------
(* Committing *)

\* The caller leaves the with block by an exception.
Abort(r) ==
    /\ pc[r] = "open" /\ MayStep(r)
    /\ Quiet(r, "wipe")
    /\ UNCHANGED <<tree, names, authority, fate>>

\* commit seals the run; an open handle fails it.
BeginCommit(r) ==
    /\ Building(r)
    /\ Quiet(r, IF \E f \in writers : Home[f] = r THEN "wipe" ELSE "sync")
    /\ UNCHANGED <<tree, names, authority, fate>>

\* A committing step fails on a system call: cleanup starts.
CommitFault(r) ==
    /\ pc[r] \in {"sync", "mark", "rename", "confirm"}
    /\ faults < MaxFaults /\ faults' = faults + 1
    /\ Goto(r, "wipe")
    /\ UNCHANGED <<layout, tree, names, authority, fate, disturbances>>

\* Mutant of SyncTree: the payload files are not fsynced.
SyncTreeSkipped(r) ==
    /\ pc[r] = "sync"
    /\ Quiet(r, IF Current(r) THEN "mark" ELSE "wipe")
    /\ UNCHANGED <<tree, names, authority, fate>>

\* _sync_private_tree, then the first comparison of the tree with the pins.
SyncTree(r) ==
    /\ pc[r] = "sync"
    /\ durable' = durable \cup TreeOf(r)
    /\ Quiet(r, IF Current(r) THEN "mark" ELSE "wipe")
    /\ UNCHANGED <<content, writers, moved, names, authority, fate>>

\* _write_commit_marker, last of all files.
Mark(r) ==
    /\ pc[r] = "mark"
    /\ content' = [content EXCEPT ![Marker[r]] = "data"]
    /\ durable' = durable \cup {Marker[r]}
    /\ Quiet(r, "check")
    /\ UNCHANGED <<writers, moved, names, authority, fate>>

\* The tree is still the pinned one, the final name is free, the staging name is ours.
Check(r) ==
    /\ pc[r] = "check"
    /\ Quiet(r, IF Current(r) /\ at[Final(r)] = Nothing /\ at[Stage(r)] = r
                THEN "rename" ELSE "wipe")
    /\ UNCHANGED <<tree, names, authority, fate>>

\* Mutant of RenameNoReplace: plain rename, as a platform without the primitive has.
RenameReplacing(from, to) ==
    IF at[from] = Nothing
    THEN at' = at
    ELSE at' = [at EXCEPT ![to] = at[from], ![from] = Nothing]

\* _rename_noreplace: whatever is at from by now goes to to, unless to is taken.
RenameNoReplace(from, to) ==
    IF at[from] = Nothing \/ at[to] # Nothing
    THEN at' = at
    ELSE at' = [at EXCEPT ![to] = at[from], ![from] = Nothing]

Rename(r) ==
    /\ pc[r] = "rename"
    /\ RenameNoReplace(Stage(r), Final(r))
    /\ Quiet(r, IF at' = at THEN "wipe" ELSE "verify")
    /\ UNCHANGED <<tree, tombs, stageFd, authority, fate>>

\* What is at the final name is the directory of r, with every pinned file in it.
Verified(r) == at[Final(r)] = r /\ Current(r)

\* _rollback_unverified_promotion: what was promoted goes back, whatever it is.
Rollback(r) == RenameNoReplace(Final(r), Stage(r)) /\ Quiet(r, "wipe")

\* The first look at what was promoted, then fsync of the parent directory.
Verify(r) ==
    /\ pc[r] = "verify"
    /\ IF Verified(r)
       THEN promoted' = promoted \cup {r} /\ Quiet(r, "confirm") /\ UNCHANGED at
       ELSE Rollback(r) /\ UNCHANGED promoted
    /\ UNCHANGED <<tree, tombs, stageFd, authority, bad, target>>

\* _transfer_cleanup_ownership to the enclosing run, or closing, or keeping the pins.
HandOver(r) ==
    LET kept == IF r \in layout.retains THEN fds[r] ELSE {}
    IN  fds' = [i \in Runs |-> IF i = r THEN kept
                               ELSE IF i = Outer(r) THEN fds[i] \cup fds[r] ELSE fds[i]]

\* The second look; the pins are handed over and the directory descriptors closed.  When
\* closing fails the promotion stands, but commit raises and cleanup runs without them.
Confirm(r) ==
    /\ pc[r] = "confirm"
    /\ IF Verified(r) /\ (Outer(r) # Nothing => at[Stage(Outer(r))] = Outer(r))
       THEN /\ HandOver(r)
            /\ stageFd' = stageFd \ {r}
            /\ UNCHANGED <<at, layout, disturbances>>
            /\ \/ Goto(r, "committed") /\ Meets({})
               \/ Goto(r, "wipe") /\ Meets({r})
       ELSE /\ IF Verified(r) THEN Quiet(r, "wipe") /\ UNCHANGED at ELSE Rollback(r)
            /\ UNCHANGED <<fds, stageFd>>
    /\ UNCHANGED <<tree, tombs, registry, pinned, fate>>

-----------------------------------------------------------------------------
(* Cleaning up *)

\* _cleanup_once closes the writers, then wipes every pinned file through its descriptor,
\* wherever it is by now.  Without the staging descriptor it cannot go on to the tree.
WipePins(r) ==
    /\ pc[r] = "wipe"
    /\ writers' = {f \in writers : Home[f] # r}
    /\ \E failed \in SUBSET fds[r] :
          /\ Wipe(fds[r] \ failed)
          /\ Meets(failed)
          /\ bad' = IF failed # {} \/ r \notin stageFd THEN bad \cup {r} ELSE bad
    /\ Goto(r, IF r \in stageFd THEN "clear" ELSE "drop")
    /\ UNCHANGED <<layout, moved, names, authority, promoted, target, disturbances>>

\* _clear_pinned_private_directory: every file the walk reaches is wiped, pinned or not.
ClearTree(r) ==
    /\ pc[r] = "clear"
    /\ \E failed \in SUBSET TreeOf(r) :
          /\ Wipe(TreeOf(r) \ failed)
          /\ Meets(failed)
          /\ bad' = IF failed # {} THEN bad \cup {r} ELSE bad
    /\ Goto(r, "find")
    /\ UNCHANGED <<layout, writers, moved, names, authority, promoted, target, disturbances>>

\* The one name that still is the directory of r will be retired, if all went well so far.
FindName(r) ==
    /\ pc[r] = "find"
    /\ IF r \notin bad /\ \E n \in OwnNames(r) : OwnNames(r) = {n}
       THEN \E n \in OwnNames(r) :
               target' = [target EXCEPT ![r] = n] /\ Quiet(r, "move") /\ UNCHANGED bad
       ELSE Quiet(r, "drop") /\ bad' = bad \cup {r} /\ UNCHANGED target
    /\ UNCHANGED <<tree, names, authority, promoted>>

\* Mutant of Retire: a directory that changed its name is waited for.
RetireWaits(r) ==
    /\ pc[r] = "move"
    /\ at[target[r]] = r
    /\ at' = [at EXCEPT ![target[r]] = Nothing]
    /\ tombs' = tombs \cup {r}
    /\ bad' = IF \E f \in TreeOf(r) : content[f] = "data" THEN bad \cup {r} ELSE bad
    /\ Quiet(r, "drop")
    /\ UNCHANGED <<tree, stageFd, authority, promoted, target>>

\* _quarantine_verified_cleanup_entry: the directory moves to a tombstone name; anything
\* else found there by now is moved back.
Retire(r) ==
    /\ pc[r] = "move"
    /\ IF at[target[r]] = r
       THEN /\ at' = [at EXCEPT ![target[r]] = Nothing]
            /\ tombs' = tombs \cup {r}
            /\ bad' = IF \E f \in TreeOf(r) : content[f] = "data" THEN bad \cup {r} ELSE bad
       ELSE bad' = bad \cup {r} /\ UNCHANGED <<at, tombs>>
    /\ Quiet(r, "drop")
    /\ UNCHANGED <<tree, stageFd, authority, promoted, target>>

\* Mutant of Drop: descriptors whose wipe fails are closed like the others.
DropAll(r) ==
    /\ pc[r] = "drop"
    /\ \E failed \in SUBSET fds[r] :
          /\ Wipe(fds[r] \ failed)
          /\ Meets(failed)
          /\ bad' = IF failed # {} THEN bad \cup {r} ELSE bad
    /\ fds' = [fds EXCEPT ![r] = {}]
    /\ stageFd' = stageFd \ {r}
    /\ Goto(r, "failed")
    /\ UNCHANGED <<layout, writers, moved, at, tombs, registry, pinned, promoted, target,
                   disturbances>>

\* The pins are wiped once more and closed; those whose wipe fails go to the registry.
Drop(r) ==
    /\ pc[r] = "drop"
    /\ \E failed \in SUBSET fds[r] :
          /\ Wipe(fds[r] \ failed)
          /\ Meets(failed)
          /\ registry' = registry \cup failed
          /\ bad' = IF failed # {} THEN bad \cup {r} ELSE bad
    /\ fds' = [fds EXCEPT ![r] = {}]
    /\ stageFd' = stageFd \ {r}
    /\ Goto(r, "failed")
    /\ UNCHANGED <<layout, writers, moved, at, tombs, pinned, promoted, target, disturbances>>

\* An interrupt skips the rest of the try block of _cleanup_once; its finally clause still
\* settles the descriptors, and the interrupt is raised in the end.
Interrupt(r) ==
    /\ pc[r] \in {"clear", "find", "move"}
    /\ faults < MaxFaults /\ faults' = faults + 1
    /\ bad' = bad \cup {r}
    /\ Goto(r, "drop")
    /\ UNCHANGED <<layout, tree, names, authority, promoted, target, disturbances>>

-----------------------------------------------------------------------------
(* After a commit that retains its authority *)

\* release_cleanup_authority: the caller is content with the published directory.
Release(r) ==
    /\ pc[r] = "committed" /\ fds[r] # {}
    /\ fds' = [fds EXCEPT ![r] = {}]
    /\ UNCHANGED <<layout, pc, tree, names, registry, pinned, fate, faults, disturbances>>

\* wipe_retained_cleanup_authority, then park_unresolved_cleanup_authority: a later failure
\* of the caller empties the published directory; what cannot be wiped is owed.
WipeRetained(r) ==
    /\ pc[r] = "committed" /\ fds[r] # {}
    /\ \E failed \in SUBSET fds[r] :
          /\ Wipe(fds[r] \ failed)
          /\ Meets(failed)
          /\ registry' = registry \cup failed
    /\ fds' = [fds EXCEPT ![r] = {}]
    /\ Goto(r, "wiped")
    /\ UNCHANGED <<layout, writers, moved, names, pinned, fate, disturbances>>

-----------------------------------------------------------------------------
(* Other programs of the same user *)

Disturb ==
    /\ disturbances < MaxDisturbances /\ disturbances' = disturbances + 1
    /\ UNCHANGED <<layout, pc, content, durable, writers, tombs, stageFd, authority, fate,
                   faults>>

\* A file is moved out of its directory.
MoveOut(f) ==
    /\ content[f] # "none" /\ f \notin moved
    /\ moved' = moved \cup {f} /\ UNCHANGED at
    /\ Disturb

\* A directory of a run is moved away, leaving its name free or under a substitute.
MoveAway(n) ==
    /\ at[n] \in Runs
    /\ at' \in {[at EXCEPT ![n] = Nothing], [at EXCEPT ![n] = Foreign]} /\ UNCHANGED moved
    /\ Disturb

\* A directory appears at a free final name.
Occupy(r) ==
    /\ at[Final(r)] = Nothing
    /\ at' = [at EXCEPT ![Final(r)] = Foreign] /\ UNCHANGED moved
    /\ Disturb

-----------------------------------------------------------------------------
(* The specification *)

Build(r) ==
    \/ Enter(r) \/ EnterBlocked(r) \/ PinTree(r)
    \/ \E f \in Files : CreateFile(r, f) \/ Write(r, f) \/ CloseFile(r, f) \/ AddDirect(r, f)
    \/ Release(r) \/ WipeRetained(r)

Commit(r) ==
    \/ BeginCommit(r) \/ SyncTree(r) \/ Mark(r) \/ Check(r) \/ Rename(r) \/ Verify(r)
    \/ Confirm(r)

Cleanup(r) ==
    \/ Abort(r) \/ WipePins(r) \/ ClearTree(r) \/ FindName(r) \/ Retire(r) \/ Drop(r)

Fault(r) == CommitFault(r) \/ Interrupt(r)

Others ==
    \/ \E f \in Files : MoveOut(f)
    \/ \E n \in Places : MoveAway(n)
    \/ \E r \in Runs : Occupy(r)

Next == Others \/ \E r \in Runs : Build(r) \/ Commit(r) \/ Cleanup(r) \/ Fault(r)

Spec == Init /\ [][Next]_vars

\* A run that was entered is left: its with block ends, and every call of commit and of
\* the cleanup returns.  Nothing is assumed of the caller's own writing.
Fairness == \A r \in Runs : WF_vars(Commit(r) \/ Cleanup(r))
FairSpec == Spec /\ Fairness

-----------------------------------------------------------------------------
(* Properties *)

\* Every variable has its type, and the process never holds more pinned descriptors than
\* _MAX_PINNED_CLEANUP_FILES, through creation, adoption, transfer and parking.
TypeOK ==
    /\ layout \in Layouts
    /\ pc \in [Runs -> Ended \cup Committing \cup Cleaning \cup {"open"}]
    /\ at \in [Places -> Runs \cup {Nothing, Foreign}]
    /\ tombs \subseteq Runs /\ stageFd \subseteq Runs
    /\ content \in [Files -> {"none", "empty", "data", "wiped"}]
    /\ durable \subseteq Files /\ writers \subseteq Files /\ moved \subseteq Files
    /\ fds \in [Runs -> SUBSET Files]
    /\ registry \subseteq Files /\ pinned \subseteq Files
    /\ promoted \subseteq Runs /\ bad \subseteq Runs
    /\ target \in [Runs -> Places \cup {Nothing}]
    /\ faults \in 0..MaxFaults /\ disturbances \in 0..MaxDisturbances
    /\ Cardinality(Held) <= layout.limit

\* The runs whose directory is being emptied, by themselves or by the enclosing run.
Withdrawn(r) == pc[r] \in Cleaning \cup {"failed", "wiped"}

\* A directory found under its final name is whole, at every moment until its run fails:
\* the marker is there, nothing is still being written, and every file of the run that is
\* in it reached the disk and still has its payload (commit writes COMMITTED last and
\* promotes the whole directory).
VisibleIsComplete ==
    \A r \in Runs :
        at[Final(r)] = r /\ ~Withdrawn(r) /\ ~Withdrawn(Top(r)) =>
            /\ content[Marker[r]] = "data"
            /\ \A f \in TreeOf(r) :
                  Home[f] = r => f \in durable /\ f \notin writers /\ content[f] # "wiped"

\* The publications that stand: commit returned, or closing a directory made it raise
\* afterwards; the directory was let go of with its marker.
Published(r) == r \in promoted /\ r \notin stageFd /\ content[Marker[r]] = "data"

\* The payload of a pinned file is never lost sight of: until it is wiped one descriptor
\* of it is held, by one run or by the retry registry, wherever the file was moved and
\* whatever failed; only the publication of the outermost run lets go of it.
PayloadAccounted ==
    /\ \A r \in Runs : fds[r] \cap registry = {}
    /\ \A r, s \in Runs : r # s => fds[r] \cap fds[s] = {}
    /\ \A f \in pinned : content[f] = "data" => f \in Held \/ Published(Top(Home[f]))

\* Only a same-user program replaces what is found at a name: a step of a run leaves a
\* name alone, fills a free one or frees one, and no directory it did not create is lost.
Strays == {n \in Places : at[n] = Foreign}
NeverClobbers ==
    [][\/ disturbances' # disturbances
       \/ /\ \A n \in Places : at[n] # at'[n] => at[n] = Nothing \/ at'[n] = Nothing
          /\ Cardinality(Strays') = Cardinality(Strays)]_vars

\* A run that was entered is committed or cleaned up in the end.
RunsEnd == \A r \in Runs : pc[r] = "open" ~> pc[r] \in Ended
=============================================================================
