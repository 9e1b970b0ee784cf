---------------------------- MODULE ReplacementDb ----------------------------
(***************************************************************************)
(* Replacement-database files and the save protocol every client of them   *)
(* goes through (replacements.py save_replacement_db).  Clients are the    *)
(* CLI commands (init, add-set, set-entity, anonymize-file --save-db) and  *)
(* the MCP tools; each is a process of its own.  A client reads the file   *)
(* WITHOUT the lock, computes a candidate, and only then takes the flock   *)
(* of the destination, compares what is on disk with what it declared,     *)
(* writes a temporary file, fsyncs it and renames it over the destination. *)
(*                                                                         *)
(* Abstractions.  A database is its version, the redaction ordinal given   *)
(* to each original (0: none) and the set of policy edits it has received. *)
(* A hash is the content it is computed from (no collisions).  A document  *)
(* mentions one original.  A file the loader rejects is Corrupt.  Errors   *)
(* before the lock is taken change nothing and are covered by Crash.       *)
(***************************************************************************)
EXTENDS Naturals

CONSTANTS
    Procs,           \* client processes
    Paths,           \* replacement-database files
    Names,           \* originals that documents mention
    Edits,           \* policy edits of add-set and set-entity
    Commands,        \* the client commands of this instance, a subset of AllCommands
    MaxOrdinal,      \* bound on redaction ordinals
    MaxCommands,     \* bound on the commands started
    MaxPowerLosses,  \* bound on power losses
    Absent,          \* no file at the path
    Corrupt,         \* a file that load_replacement_db rejects
    None             \* no value: nobody holds the lock, no expected hash, nothing read

AllCommands == {"init", "force_init", "edit", "anonymize",
                "tool_save", "tool_save_over", "tool_copy", "tool_copy_over"}

ASSUME CommandsAssumption == Commands \subseteq AllCommands
ASSUME BoundsAssumption ==
    MaxOrdinal \in Nat /\ MaxCommands \in Nat /\ MaxPowerLosses \in Nat

Db == [version : Nat \ {0}, tok : [Names -> 0..MaxOrdinal], conf : SUBSET Edits]

ASSUME MarkersAssumption ==
    /\ Absent \notin Db /\ Corrupt \notin Db /\ None \notin Db
    /\ Absent # Corrupt /\ Absent # None /\ Corrupt # None
    /\ None \notin Procs

Content == Db \cup {Absent, Corrupt}

VARIABLES
    file,       \* file[f]: what a reader of path f finds
    survivors,  \* survivors[f]: what f may hold after a power loss (renames are not fsynced)
    holder,     \* holder[f]: the process holding the flock of f
    pc,         \* pc[p]: where the command of p stands
    req,        \* req[p]: the command of p and what it has computed
    temp,       \* temp[p]: the temporary file of p, with whether it was fsynced
    begun,      \* commands started so far
    losses      \* power losses so far

\* Auxiliary, read by no guard: the outputs handed to users, and how many commands
\* that throw the previous content away have replaced each path.
VARIABLES emitted, era

vars == <<file, survivors, holder, pc, req, temp, begun, losses, emitted, era>>

-----------------------------------------------------------------------------
(* Contents *)

\* create_replacement_db at a given version: no set, no policy, no assignment.
Fresh(v) == [version |-> v, tok |-> [n \in Names |-> 0], conf |-> {}]

\* _next_redaction_ordinal: one more than the largest ordinal in use.
NextOrdinal(db) ==
    CHOOSE o \in 1..(MaxOrdinal + 1) :
        /\ \A n \in Names : db.tok[n] < o
        /\ o = 1 \/ \E n \in Names : db.tok[n] = o - 1

\* An allocation followed by finalize_replacement_db_update.
Assign(db, n) ==
    [version |-> db.version + 1,
     tok |-> [db.tok EXCEPT ![n] = NextOrdinal(db)],
     conf |-> db.conf]

\* add-set or set-entity followed by finalize_replacement_db_update.
Edit(db, e) ==
    [version |-> db.version + 1, tok |-> db.tok, conf |-> db.conf \cup {e}]

-----------------------------------------------------------------------------
(* Requests *)

NoRequest == [op |-> None, path |-> None, source |-> None, name |-> None,
              save |-> FALSE, missing |-> FALSE,
              seen |-> None, expect |-> None, cand |-> None, era |-> 0]

\* Mutant of SaveAccepted: the candidate version is not compared.
SaveAcceptedAnyVersion(found, r) ==
    CASE found = Absent  -> r.expect = None
      [] found = Corrupt -> ~r.missing /\ r.expect = None
      [] OTHER -> ~r.missing /\ (r.expect # None => r.expect = found)

\* The checks of save_replacement_db, made under the lock on the content found.
SaveAccepted(found, r) ==
    CASE found = Absent  -> r.expect = None
      [] found = Corrupt -> ~r.missing /\ r.expect = None
      [] OTHER -> /\ ~r.missing
                  /\ r.expect # None => r.expect = found
                  /\ r.cand # found => r.cand.version = found.version + 1

\* Commands whose user asks for the previous content to be thrown away.
Discarding == {"force_init", "tool_copy_over"}

\* The pcs at which a process holds the lock of its destination.
CriticalPcs == {"check", "write", "fsync", "rename", "unlock"}

Init ==
    /\ file \in [Paths -> {Absent, Corrupt, Fresh(1)}]
    /\ survivors = [f \in Paths |-> {file[f]}]
    /\ holder = [f \in Paths |-> None]
    /\ pc = [p \in Procs |-> "idle"]
    /\ req = [p \in Procs |-> NoRequest]
    /\ temp = [p \in Procs |-> None]
    /\ begun = 0
    /\ losses = 0
    /\ emitted = {}
    /\ era = [f \in Paths |-> 0]

Goto(p, l) == pc' = [pc EXCEPT ![p] = l]
Request(p, r) == req' = [req EXCEPT ![p] = r]

\* The command of p knows what it saw, what it expects and what it will save.
Decide(p, seen, expect, cand) ==
    Request(p, [req[p] EXCEPT !.seen = seen, !.expect = expect, !.cand = cand])

\* The command of p answers from the database db of path f without saving.
Answer(p, f, db) ==
    Request(p, [req[p] EXCEPT !.path = f, !.cand = db, !.seen = None, !.expect = None,
                              !.era = era[f]])

\* The command of p ends; its request is forgotten.
Finish(p) == Goto(p, "idle") /\ Request(p, NoRequest)

disk == <<file, survivors, holder, temp>>
ghosts == <<emitted, era>>
bounds == <<begun, losses>>

-----------------------------------------------------------------------------
(* Commands: reading and computing, outside any lock *)

Begin(p, l, r) ==
    /\ pc[p] = "idle" /\ begun < MaxCommands /\ r.op \in Commands
    /\ Goto(p, l) /\ Request(p, r)
    /\ begun' = begun + 1
    /\ UNCHANGED <<disk, ghosts, losses>>

\* replacement-db init, with or without --force.
BeginInit(p) == \E f \in Paths, op \in {"init", "force_init"} :
    Begin(p, "probe", [NoRequest EXCEPT !.op = op, !.path = f, !.source = f])

\* replacement-db add-set and set-entity.
BeginEdit(p) == \E f \in Paths :
    Begin(p, "load", [NoRequest EXCEPT !.op = "edit", !.path = f, !.source = f, !.save = TRUE])

\* anonymize-file --output (with or without --save-db), and the MCP anonymize
\* tools saving in place: the expected hash defaults to the one of the source.
BeginAnonymize(p) == \E f \in Paths, n \in Names, s \in BOOLEAN :
    Begin(p, "load", [NoRequest EXCEPT !.op = "anonymize", !.path = f, !.source = f,
                                       !.name = n, !.save = s])

\* MCP anonymize tools, or save_replacement_db (name None), reading one file and
\* saving to another without options.expected_replacement_db_hash.
BeginToolCopy(p) == \E f, g \in Paths, n \in Names \cup {None} :
    /\ f # g
    /\ Begin(p, "load", [NoRequest EXCEPT !.op = "tool_copy", !.path = g, !.source = f,
                                          !.name = n, !.save = TRUE])

\* The same, with the hash the caller got by reading the destination.
BeginToolCopyOver(p) == \E f, g \in Paths, n \in Names \cup {None} :
    /\ f # g /\ file[g] \in Db
    /\ Begin(p, "load", [NoRequest EXCEPT !.op = "tool_copy_over", !.path = g, !.source = f,
                                          !.name = n, !.save = TRUE,
                                          !.seen = file[g], !.expect = file[g]])

\* MCP save_replacement_db of a database given inline, without a hash: a fresh
\* one (create_replacement_db) or one the caller read somewhere.
BeginToolSave(p) == \E f \in Paths, db \in {Fresh(1)} \cup {file[g] : g \in Paths} :
    /\ db \in Db
    /\ Begin(p, "probe", [NoRequest EXCEPT !.op = "tool_save", !.path = f, !.cand = db])

\* The same with the hash of the destination the caller edited.
BeginToolSaveOver(p) == \E f \in Paths, e \in Edits :
    /\ file[f] \in Db
    /\ Begin(p, "lock", [NoRequest EXCEPT !.op = "tool_save_over", !.path = f,
                                          !.seen = file[f], !.expect = file[f],
                                          !.cand = Edit(file[f], e)])

\* init: path.exists(), and the version-1 database when there is no file.
InitProbe(p) ==
    LET r == req[p] IN
    /\ pc[p] = "probe" /\ r.op \in {"init", "force_init"}
    /\ \/ file[r.path] # Absent /\ r.op = "init" /\ Finish(p)
       \/ file[r.path] # Absent /\ r.op = "force_init" /\ Goto(p, "load") /\ UNCHANGED req
       \/ /\ file[r.path] = Absent
          /\ Goto(p, "lock")
          /\ Decide(p, Absent, None, Fresh(1))
    /\ UNCHANGED <<disk, ghosts, bounds>>

\* init --force over a file: guarded by the content read, when it is readable.
InitLoad(p) ==
    LET r == req[p]
        found == file[r.path] IN
    /\ pc[p] = "load" /\ r.op = "force_init"
    /\ Goto(p, "lock")
    /\ \/ found \in Db /\ Decide(p, found, found, Fresh(found.version + 1))
       \/ found \notin Db /\ Decide(p, found, None, Fresh(1))
    /\ UNCHANGED <<disk, ghosts, bounds>>

\* add-set, set-entity: _current_replacement_db_state, then the change.
EditLoad(p) ==
    LET r == req[p]
        found == file[r.path] IN
    /\ pc[p] = "load" /\ r.op = "edit"
    /\ \/ found \notin Db /\ Finish(p)
       \/ /\ found \in Db
          /\ Goto(p, "lock")
          /\ \E e \in Edits : Decide(p, found, found, Edit(found, e))
    /\ UNCHANGED <<disk, ghosts, bounds>>

\* Mutant of AnonymizeLoad: output that depends on unsaved assignments is written.
AnonymizeLoadUnsaved(p) ==
    LET r == req[p]
        found == file[r.source] IN
    /\ pc[p] = "load" /\ r.op = "anonymize"
    /\ \/ found \notin Db /\ Finish(p)
       \/ /\ found \in Db /\ (found.tok[r.name] # 0 \/ ~r.save)
          /\ Goto(p, "output")
          /\ Answer(p, r.source, IF found.tok[r.name] = 0 THEN Assign(found, r.name)
                                 ELSE found)
    /\ UNCHANGED <<disk, ghosts, bounds>>

\* anonymize: load and allocate.  Nothing new: the text is emitted as it is.
\* Something new: saved if asked for, otherwise the output is refused.
AnonymizeLoad(p) ==
    LET r == req[p]
        found == file[r.source] IN
    /\ pc[p] = "load" /\ r.op = "anonymize"
    /\ \/ found \notin Db /\ Finish(p)
       \/ /\ found \in Db /\ found.tok[r.name] # 0
          /\ Goto(p, "output")
          /\ Answer(p, r.source, found)
       \/ found \in Db /\ found.tok[r.name] = 0 /\ ~r.save /\ Finish(p)
       \/ /\ found \in Db /\ found.tok[r.name] = 0 /\ r.save
          /\ NextOrdinal(found) \in 1..MaxOrdinal
          /\ Goto(p, "lock")
          /\ Decide(p, found, found, Assign(found, r.name))
    /\ UNCHANGED <<disk, ghosts, bounds>>

\* The tools that read one file and save to another.
CopyLoad(p) ==
    LET r == req[p]
        found == file[r.source]
        next == IF r.op = "tool_copy" THEN "probe" ELSE "lock" IN
    /\ pc[p] = "load" /\ r.op \in {"tool_copy", "tool_copy_over"}
    /\ \/ found \notin Db /\ Finish(p)
       \/ /\ found \in Db /\ r.name = None
          /\ Goto(p, next)
          /\ Decide(p, r.seen, r.expect, found)
       \/ /\ found \in Db /\ r.name # None /\ found.tok[r.name] # 0
          /\ Goto(p, "output")
          /\ Answer(p, r.source, found)
       \/ /\ found \in Db /\ r.name # None /\ found.tok[r.name] = 0
          /\ NextOrdinal(found) \in 1..MaxOrdinal
          /\ Goto(p, next)
          /\ Decide(p, r.seen, r.expect, Assign(found, r.name))
    /\ UNCHANGED <<disk, ghosts, bounds>>

\* _save_replacement_db_for_tool without a hash: a file at the destination is a
\* stale write; require_missing is set only when the database came inline.
ToolProbe(p) ==
    LET r == req[p] IN
    /\ pc[p] = "probe" /\ r.op \in {"tool_save", "tool_copy"}
    /\ \/ file[r.path] # Absent /\ Finish(p)
       \/ /\ file[r.path] = Absent
          /\ Goto(p, "lock")
          /\ Request(p, [r EXCEPT !.seen = Absent, !.missing = (r.op = "tool_save")])
    /\ UNCHANGED <<disk, ghosts, bounds>>

-----------------------------------------------------------------------------
(* save_replacement_db *)

Release(p) == holder' = [holder EXCEPT ![req[p].path] = None]

Acquire(p) ==
    /\ pc[p] = "lock" /\ holder[req[p].path] = None
    /\ holder' = [holder EXCEPT ![req[p].path] = p]
    /\ Goto(p, "check")
    /\ UNCHANGED <<file, survivors, temp, req, ghosts, bounds>>

Check(p) ==
    LET r == req[p] IN
    /\ pc[p] = "check"
    /\ \/ SaveAccepted(file[r.path], r) /\ Goto(p, "write") /\ UNCHANGED <<req, holder>>
       \/ ~SaveAccepted(file[r.path], r) /\ Finish(p) /\ Release(p)
    /\ UNCHANGED <<file, survivors, temp, ghosts, bounds>>

WriteTemp(p) ==
    /\ pc[p] = "write"
    /\ temp' = [temp EXCEPT ![p] = [db |-> req[p].cand, synced |-> FALSE]]
    /\ Goto(p, "fsync")
    /\ UNCHANGED <<file, survivors, holder, req, ghosts, bounds>>

\* Mutant of FsyncTemp: the temporary file is flushed but not fsynced.
FlushTemp(p) ==
    /\ pc[p] = "fsync"
    /\ Goto(p, "rename")
    /\ UNCHANGED <<disk, req, ghosts, bounds>>

FsyncTemp(p) ==
    /\ pc[p] = "fsync"
    /\ temp' = [temp EXCEPT ![p].synced = TRUE]
    /\ Goto(p, "rename")
    /\ UNCHANGED <<file, survivors, holder, req, ghosts, bounds>>

\* temp_path.replace(db_path).  After a power loss the directory may still hold
\* an earlier entry; an entry whose data was not fsynced may be torn.
Rename(p) ==
    LET r == req[p]
        t == temp[p] IN
    /\ pc[p] = "rename"
    /\ file' = [file EXCEPT ![r.path] = t.db]
    /\ survivors' = [survivors EXCEPT ![r.path] =
                        @ \cup {t.db} \cup (IF t.synced THEN {} ELSE {Corrupt})]
    /\ temp' = [temp EXCEPT ![p] = None]
    /\ era' = [era EXCEPT ![r.path] = IF r.op \in Discarding THEN @ + 1 ELSE @]
    /\ Request(p, [r EXCEPT !.era = era'[r.path]])
    /\ Goto(p, "unlock")
    /\ UNCHANGED <<holder, emitted, bounds>>

\* Mutant of WriteFails: the lock is released only when the save succeeds.
WriteFailsLocked(p) ==
    /\ pc[p] \in {"write", "fsync", "rename"}
    /\ temp' = [temp EXCEPT ![p] = None]
    /\ Finish(p)
    /\ UNCHANGED <<file, survivors, holder, ghosts, bounds>>

\* ENOSPC, EIO, ... while the temporary file is written: it is unlinked.
WriteFails(p) ==
    /\ pc[p] \in {"write", "fsync", "rename"}
    /\ temp' = [temp EXCEPT ![p] = None]
    /\ Finish(p) /\ Release(p)
    /\ UNCHANGED <<file, survivors, ghosts, bounds>>

\* The chmod after the rename succeeds and the lock is released.
Unlock(p) ==
    /\ pc[p] = "unlock"
    /\ Goto(p, "reload") /\ Release(p)
    /\ UNCHANGED <<file, survivors, temp, req, ghosts, bounds>>

\* The chmod after the rename fails: the caller sees an error although the
\* destination was replaced.
ChmodFails(p) ==
    /\ pc[p] = "unlock"
    /\ Finish(p) /\ Release(p)
    /\ UNCHANGED <<file, survivors, temp, ghosts, bounds>>

-----------------------------------------------------------------------------
(* After the save *)

\* The response reports the version of whatever the path holds by now.
Reload(p) ==
    LET r == req[p] IN
    /\ pc[p] = "reload"
    /\ IF file[r.path] \in Db /\ r.name # None
         THEN Goto(p, "output") /\ UNCHANGED req
         ELSE Finish(p)
    /\ UNCHANGED <<disk, ghosts, bounds>>

\* _write_output_text, or the text of an MCP response.
Output(p) ==
    LET r == req[p] IN
    /\ pc[p] = "output"
    /\ emitted' = emitted \cup {[path |-> r.path, era |-> r.era, since |-> losses,
                                 name |-> r.name, token |-> r.cand.tok[r.name]]}
    /\ Finish(p)
    /\ UNCHANGED <<disk, era, bounds>>

-----------------------------------------------------------------------------
(* Failures of the environment *)

\* The process dies, or its command ends in an error: the kernel drops its flock.
Crash(p) ==
    /\ pc[p] # "idle"
    /\ Finish(p)
    /\ temp' = [temp EXCEPT ![p] = None]
    /\ holder' = [f \in Paths |-> IF holder[f] = p THEN None ELSE holder[f]]
    /\ UNCHANGED <<file, survivors, ghosts, bounds>>

\* The kernel writes the directory of f back.
Writeback(f) ==
    /\ survivors' = [survivors EXCEPT ![f] = {file[f]}]
    /\ UNCHANGED <<file, holder, temp, pc, req, ghosts, bounds>>

\* Every process dies, and each path holds one of the contents whose rename the
\* disk may have: the directory is never fsynced, so a finished save may be undone.
PowerLoss ==
    /\ losses < MaxPowerLosses
    /\ losses' = losses + 1
    /\ file' \in [Paths -> UNION {survivors[f] : f \in Paths}]
    /\ \A f \in Paths : file'[f] \in survivors[f]
    /\ survivors' = [f \in Paths |-> {file'[f]}]
    /\ holder' = [f \in Paths |-> None]
    /\ pc' = [p \in Procs |-> "idle"]
    /\ req' = [p \in Procs |-> NoRequest]
    /\ temp' = [p \in Procs |-> None]
    /\ UNCHANGED <<ghosts, begun>>

-----------------------------------------------------------------------------
Start(p) ==
    \/ BeginInit(p) \/ BeginEdit(p) \/ BeginAnonymize(p)
    \/ BeginToolCopy(p) \/ BeginToolCopyOver(p)
    \/ BeginToolSave(p) \/ BeginToolSaveOver(p)

\* The steps a running command takes by itself.
Advance(p) ==
    \/ InitProbe(p) \/ InitLoad(p) \/ EditLoad(p) \/ AnonymizeLoad(p)
    \/ CopyLoad(p) \/ ToolProbe(p)
    \/ Acquire(p) \/ Check(p) \/ WriteTemp(p) \/ FsyncTemp(p) \/ Rename(p)
    \/ Unlock(p) \/ Reload(p) \/ Output(p)

Fail(p) == WriteFails(p) \/ ChmodFails(p) \/ Crash(p)

Next ==
    \/ \E p \in Procs : Start(p) \/ Advance(p) \/ Fail(p)
    \/ \E f \in Paths : Writeback(f)
    \/ PowerLoss

Spec == Init /\ [][Next]_vars

\* A running process is scheduled; the kernel wakes a waiter of a free flock.
FairSpec == Spec /\ \A p \in Procs : WF_vars(Advance(p))

-----------------------------------------------------------------------------
(* Properties *)

Requests == [op : AllCommands \cup {None}, path : Paths \cup {None},
             source : Paths \cup {None}, name : Names \cup {None},
             save : BOOLEAN, missing : BOOLEAN, seen : Content \cup {None},
             expect : Db \cup {None}, cand : Db \cup {None}, era : Nat]

Pcs == {"idle", "probe", "load", "lock", "reload", "output"} \cup CriticalPcs

\* Every variable keeps its type.
TypeOK ==
    /\ file \in [Paths -> Content]
    /\ survivors \in [Paths -> SUBSET Content]
    /\ holder \in [Paths -> Procs \cup {None}]
    /\ pc \in [Procs -> Pcs]
    /\ req \in [Procs -> Requests]
    /\ temp \in [Procs -> [db : Db, synced : BOOLEAN] \cup {None}]
    /\ begun \in Nat /\ losses \in Nat
    /\ era \in [Paths -> Nat]

\* What the request of a command holds at each point of it.
RequestOK ==
    \A p \in Procs :
        /\ pc[p] # "idle" => req[p].op \in Commands /\ req[p].path \in Paths
        /\ pc[p] = "load" => req[p].source \in Paths
        /\ pc[p] = "load" /\ req[p].op = "anonymize" => req[p].source = req[p].path
        /\ pc[p] = "probe" /\ req[p].op = "force_init" => req[p].source \in Paths
        /\ pc[p] = "probe" /\ req[p].op \in {"tool_save", "tool_copy"} => req[p].cand \in Db
        /\ pc[p] \in {"lock", "reload", "output"} \cup CriticalPcs => req[p].cand \in Db
        /\ pc[p] \in {"fsync", "rename"} =>
              /\ temp[p] \in [db : Db, synced : BOOLEAN]
              /\ temp[p].db = req[p].cand
        /\ pc[p] = "rename" => temp[p].synced

\* What the checks of save_replacement_db accepted is still true when the file
\* is renamed: nobody changes the destination between check and replacement.
AcceptedStillHolds ==
    \A p \in Procs : pc[p] \in {"write", "fsync", "rename"} =>
        SaveAccepted(file[req[p].path], req[p])

\* No lost update: a command replaces the content of a path only if that is the
\* content (or the absence) it based its decision on.
NoBlindOverwrite ==
    [][\A f \in Paths : file'[f] # file[f] /\ losses' = losses =>
          \E p \in Procs : pc[p] = "rename" /\ req[p].path = f
                           /\ req[p].seen = file[f]]_vars

\* A save never introduces a torn file, not even through a power loss: what may
\* be found after one is a database that was saved, or what was there before.
NoTornFile ==
    [][\A f \in Paths : Corrupt \notin survivors[f] =>
          Corrupt \notin survivors'[f] /\ file'[f] # Corrupt]_vars

\* With the content c, the output e can be reversed: its token is the token of its
\* original there, and of no other original.
Reverses(c, e) ==
    /\ c \in Db /\ e.token # 0
    /\ \A n \in Names : c.tok[n] = e.token <=> n = e.name

\* A token that was handed out can be reversed with the file it was saved to, until
\* somebody throws the database away.  It does not hold: output is only written once
\* its assignments are saved (cli.py:796-803), but the directory of the save is not
\* fsynced (replacements.py:840), so that a loss of power may take the save back.
TokensSurvive == \A e \in emitted : e.era = era[e.path] => Reverses(file[e.path], e)

\* What does hold: as long as the power stays on and nobody throws the database away,
\* every token handed out with an output can be reversed with the file it was saved to.
EmittedRecoverable ==
    \A e \in emitted : e.era = era[e.path] /\ e.since = losses => Reverses(file[e.path], e)

\* Whatever a loss of power leaves of the path of e, e can be reversed with it.
Kept(e) == e.era = era[e.path] /\ \A c \in survivors[e.path] : Reverses(c, e)

\* A token that is safe from a loss of power - the kernel has written the rename of
\* its save back, or an earlier loss has spared it - stays safe from any number of
\* later saves, crashes and losses, until somebody throws the database away.
KeptForGood ==
    [][\A e \in emitted : Kept(e) /\ era'[e.path] = era[e.path] => Kept(e)']_vars

\* The version a response reports is read after the lock was released, from
\* whatever the path holds by then: never less than what the command saved.
SavedVersionVisible ==
    \A p \in Procs : pc[p] \in {"unlock", "reload"} =>
        /\ file[req[p].path] \in Db
        /\ file[req[p].path].version >= req[p].cand.version

\* The flock protocol lets every started command end, however many contend.
CommandsFinish == \A p \in Procs : pc[p] # "idle" ~> pc[p] = "idle"

\* The files are registers with optimistic concurrency control.
Store == INSTANCE VersionedStore WITH
    Clients <- Procs, Keys <- Paths, Values <- Db,
    Missing <- Absent, Unreadable <- Corrupt, Nothing <- None,
    store <- file,
    seen <- [p \in Procs |-> IF req[p].seen = None THEN None
                             ELSE [key |-> req[p].path, value |-> req[p].seen]]

ImplementsStore == Store!Spec
=============================================================================
