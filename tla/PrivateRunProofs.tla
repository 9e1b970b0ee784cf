--------------------------- MODULE PrivateRunProofs ---------------------------
(***************************************************************************)
(* Proofs about private runs, for any runs, files, layouts and bounds: the *)
(* limit on pinned descriptors, the ownership of every descriptor, and     *)
(* what a step may do to a name.                                           *)
(***************************************************************************)
EXTENDS PrivateRun, TLAPS, FiniteSetTheorems

Before == {"idle", "refused", "open", "sync", "mark"}
Marked == {"check", "rename", "verify", "confirm"}

\* Which run holds a file, and which files cannot be held any more or yet.
Owners ==
    /\ \A r \in Runs : fds[r] \subseteq pinned
    /\ registry \subseteq pinned
    /\ \A r \in Runs : fds[r] \cap registry = {}
    /\ \A f \in pinned : content[f] # "none"
    /\ \A r \in Runs, f \in Files : f \in fds[r] =>
          \/ Home[f] = r
          \/ /\ Outer(Home[f]) = r
             /\ fds[Home[f]] = {}
             /\ pc[Home[f]] \notin {"idle", "open"} \cup Committing
    /\ \A f \in registry :
          \/ pc[Home[f]] \in {"failed", "wiped"}
          \/ Outer(Home[f]) # Nothing /\ pc[Outer(Home[f])] \in {"failed", "wiped"}

\* What a run has and has not when it stands at a point of its code.
Stands ==
    \A r \in Runs :
        /\ pc[r] \in {"idle", "refused"} => \A f \in Files : Home[f] = r => content[f] = "none"
        /\ pc[r] \in Before => content[Marker[r]] = "none"
        /\ pc[r] \in Before \cup {"check", "rename", "verify"} => r \notin promoted
        /\ pc[r] \in {"open", "clear", "find", "move"} \cup Committing => r \in stageFd
        /\ pc[r] \in {"confirm", "committed"} => r \in promoted
        /\ pc[r] = "committed" => r \notin stageFd
        /\ pc[r] = "committed" /\ Outer(r) # Nothing => fds[r] = {}
        /\ Outer(r) = Nothing =>
              /\ Marker[r] \notin pinned
              /\ pc[r] \in Marked \cup {"committed"} => content[Marker[r]] = "data"

\* Every pinned file that is not wiped has its descriptor, written to or not.
Accounted ==
    \A f \in pinned : content[f] # "wiped" =>
        \/ f \in registry
        \/ \E r \in Runs : f \in fds[r]
        \/ Published(Top(Home[f]))

RunInv == TypeOK /\ Owners /\ Stands /\ Accounted

-----------------------------------------------------------------------------
(* The constants *)

LEMMA HomeFacts ==
    ASSUME NEW r \in Runs
    PROVE  Marker[r] \in Files /\ Marker[r] \in Markers /\ Home[Marker[r]] = r
    BY FilesAssumption DEF Files, Markers

LEMMA HomeType == ASSUME NEW f \in Files PROVE Home[f] \in Runs
    BY FilesAssumption

\* The arrangement of the runs, as every step finds it.
LEMMA LayoutFacts ==
    ASSUME layout \in Layouts, NEW r \in Runs
    PROVE  /\ Outer(r) \in Runs \cup {Nothing}
           /\ Outer(r) # Nothing =>
                 Outer(r) \in Runs /\ Outer(r) # r /\ Outer(Outer(r)) = Nothing
                 /\ r \notin layout.retains
           /\ Stage(r) \in Places /\ Final(r) \in Places
           /\ layout.limit \in Nat
<1>1. layout \in [within : [Runs -> Runs \cup {Nothing}], shares : [Runs -> Runs],
                  retains : SUBSET Runs, limit : Nat]
    BY LayoutsAssumption
<1>2. layout.within[r] # Nothing => layout.within[layout.within[r]] = Nothing /\ r \notin layout.retains
    BY LayoutsAssumption
<1>3. layout.within \in [Runs -> Runs \cup {Nothing}] /\ layout.shares \in [Runs -> Runs]
      /\ layout.limit \in Nat
    BY <1>1
<1> QED
    BY <1>2, <1>3 DEF Outer, Stage, Final, Places

LEMMA FilesFinite == IsFiniteSet(Files)
<1>1. IsFiniteSet(Markers)
  <2>1. Marker \in Surjection(Runs, Markers)
    BY FilesAssumption DEF Surjection, Markers
  <2> QED
    BY <2>1, FilesAssumption, FS_Surjection
<1> QED
    BY <1>1, FilesAssumption, FS_Union DEF Files

LEMMA PlacesFinite == IsFiniteSet(Places)
<1>1. IsFiniteSet({"stage", "final"})
  <2>1. {"stage", "final"} = {"stage"} \cup {"final"}
    OBVIOUS
  <2>2. IsFiniteSet({"stage"}) /\ IsFiniteSet({"final"})
    BY FS_Singleton, Zenon
  <2> QED
    BY <2>1, <2>2, FS_Union
<1> QED
    BY <1>1, FilesAssumption, FS_Product DEF Places

LEMMA FewerFiles ==
    ASSUME NEW S \in SUBSET Files, NEW T \in SUBSET S
    PROVE  Cardinality(T) <= Cardinality(S) /\ Cardinality(S) \in Nat
    BY FilesFinite, FS_Subset, FS_CardinalityType

-----------------------------------------------------------------------------
(* Types *)

\* TypeOK without the limit.
Shapes ==
    /\ layout \in Layouts
    /\ pc \in [Runs -> Ended \cup Committing \cup Cleaning \cup {"open"}]
    /\ at \in [Places -> Runs \cup {Nothing, Foreign}]
    /\ tombs \subseteq Runs /\ stageFd \subseteq Runs
    /\ content \in [Files -> {"none", "empty", "data", "wiped"}]
    /\ durable \subseteq Files /\ writers \subseteq Files /\ moved \subseteq Files
    /\ fds \in [Runs -> SUBSET Files]
    /\ registry \subseteq Files /\ pinned \subseteq Files
    /\ promoted \subseteq Runs /\ bad \subseteq Runs
    /\ target \in [Runs -> Places \cup {Nothing}]
    /\ faults \in 0..MaxFaults /\ disturbances \in 0..MaxDisturbances

Limited == Cardinality(Held) <= layout.limit

LEMMA TypeParts == TypeOK <=> Shapes /\ Limited
    BY DEF TypeOK, Shapes, Limited

LEMMA InitShapes == Init => Shapes
    BY BoundsAssumption DEF Init, Shapes, Ended

LEMMA WipeShapes ==
    ASSUME Shapes, NEW done \in SUBSET Files, Wipe(done)
    PROVE  content' \in [Files -> {"none", "empty", "data", "wiped"}] /\ durable' \subseteq Files
    BY DEF Shapes, Wipe

LEMMA MeetsShapes ==
    ASSUME Shapes, NEW failed, Meets(failed)
    PROVE  faults' \in 0..MaxFaults
    BY BoundsAssumption DEF Shapes, Meets

LEMMA RenameShapes ==
    ASSUME Shapes, NEW from \in Places, NEW to \in Places, RenameNoReplace(from, to)
    PROVE  at' \in [Places -> Runs \cup {Nothing, Foreign}]
    BY DEF Shapes, RenameNoReplace

LEMMA TreeFiles == ASSUME NEW r PROVE TreeOf(r) \subseteq Files
    BY DEF TreeOf

LEMMA BuildShapes ==
    ASSUME Shapes, NEW r \in Runs, Build(r)
    PROVE  Shapes'
<1> USE DEF Shapes
<1>1. CASE Enter(r)
    <2>1. content' \in [Files -> {"none", "empty", "data", "wiped"}] /\ durable' \subseteq Files
        BY <1>1, WipeShapes DEF Enter, Retry
    <2>2. Stage(r) \in Places
        BY LayoutFacts
    <2>3. faults' = faults /\ registry' = {}
        BY <1>1 DEF Enter, Retry, Meets
    <2>4. /\ pc' \in [Runs -> Ended \cup Committing \cup Cleaning \cup {"open"}]
          /\ at' \in [Places -> Runs \cup {Nothing, Foreign}]
          /\ tombs' \subseteq Runs /\ stageFd' \subseteq Runs
        BY <1>1, <2>2 DEF Enter, Goto, names, Ended
    <2> QED
        BY <1>1, <2>1, <2>3, <2>4 DEF Enter, fate
<1>2. CASE EnterBlocked(r)
    <2> PICK failed \in SUBSET registry : Retry(failed)
        BY <1>2 DEF EnterBlocked
    <2>1. content' \in [Files -> {"none", "empty", "data", "wiped"}] /\ durable' \subseteq Files
        BY WipeShapes DEF Retry
    <2>2. faults' \in 0..MaxFaults /\ registry' \subseteq Files
        BY MeetsShapes DEF Retry
    <2> QED
        BY <1>2, <2>1, <2>2 DEF EnterBlocked, names, fate
<1>3. CASE PinTree(r)
    <2> PICK adopted \in SUBSET Strangers(r) :
                fds' = [fds EXCEPT ![r] = @ \cup adopted] /\ pinned' = pinned \cup adopted
        BY <1>3 DEF PinTree
    <2>1. adopted \subseteq Files
        BY TreeFiles DEF Strangers
    <2> QED
        BY <1>3, <2>1 DEF PinTree, tree, names, fate
<1>4. CASE Release(r)
    BY <1>4 DEF Release, tree, names, fate
<1>5. CASE WipeRetained(r)
    <2> PICK failed \in SUBSET fds[r] :
                Wipe(fds[r] \ failed) /\ Meets(failed) /\ registry' = registry \cup failed
        BY <1>5 DEF WipeRetained
    <2>1. content' \in [Files -> {"none", "empty", "data", "wiped"}] /\ durable' \subseteq Files
        BY WipeShapes
    <2>2. faults' \in 0..MaxFaults
        BY MeetsShapes
    <2> QED
        BY <1>5, <2>1, <2>2 DEF WipeRetained, Goto, Ended, names, fate
<1>6. ASSUME NEW f \in Files, CreateFile(r, f)
      PROVE  Shapes'
    BY <1>6 DEF CreateFile, names, fate
<1>7. ASSUME NEW f \in Files, Write(r, f)
      PROVE  Shapes'
    BY <1>7 DEF Write, names, authority, fate
<1>8. ASSUME NEW f \in Files, CloseFile(r, f)
      PROVE  Shapes'
    BY <1>8 DEF CloseFile, names, authority, fate
<1>9. ASSUME NEW f \in Files, AddDirect(r, f)
      PROVE  Shapes'
    BY <1>9 DEF AddDirect, names, authority, fate
<1> QED
    BY <1>1, <1>2, <1>3, <1>4, <1>5, <1>6, <1>7, <1>8, <1>9 DEF Build

LEMMA CommitShapes ==
    ASSUME Shapes, NEW r \in Runs, Commit(r)
    PROVE  Shapes'
<1> USE DEF Shapes
<1>1. CASE BeginCommit(r)
    BY <1>1 DEF BeginCommit, Quiet, Goto, Cleaning, Committing, tree, names, authority, fate
<1>2. CASE SyncTree(r)
    <2>1. durable' \subseteq Files
        BY <1>2, TreeFiles DEF SyncTree
    <2> QED
        BY <1>2, <2>1 DEF SyncTree, Quiet, Goto, Cleaning, Committing, names, authority, fate
<1>3. CASE Mark(r)
    <2>1. Marker[r] \in Files
        BY HomeFacts
    <2> QED
        BY <1>3, <2>1 DEF Mark, Quiet, Goto, Committing, names, authority, fate
<1>4. CASE Check(r)
    BY <1>4 DEF Check, Quiet, Goto, Cleaning, Committing, tree, names, authority, fate
<1>5. CASE Rename(r)
    <2>1. at' \in [Places -> Runs \cup {Nothing, Foreign}]
        BY <1>5, RenameShapes, LayoutFacts DEF Rename
    <2>2. pc' \in [Runs -> Ended \cup Committing \cup Cleaning \cup {"open"}]
        BY <1>5 DEF Rename, Quiet, Goto, Cleaning, Committing
    <2> QED
        BY <1>5, <2>1, <2>2 DEF Rename, Quiet, tree, authority, fate
<1>6. CASE Verify(r)
    <2>1. at' \in [Places -> Runs \cup {Nothing, Foreign}]
        BY <1>6, RenameShapes, LayoutFacts DEF Verify, Rollback
    <2>2. pc' \in [Runs -> Ended \cup Committing \cup Cleaning \cup {"open"}]
        BY <1>6 DEF Verify, Rollback, Quiet, Goto, Cleaning, Committing
    <2>3. promoted' \subseteq Runs
        BY <1>6 DEF Verify
    <2> QED
        BY <1>6, <2>1, <2>2, <2>3 DEF Verify, Rollback, Quiet, tree, authority
<1>7. CASE Confirm(r)
    <2>1. at' \in [Places -> Runs \cup {Nothing, Foreign}]
        BY <1>7, RenameShapes, LayoutFacts DEF Confirm, Rollback
    <2>2. pc' \in [Runs -> Ended \cup Committing \cup Cleaning \cup {"open"}]
        BY <1>7 DEF Confirm, Rollback, Quiet, Goto, Cleaning, Committing, Ended
    <2>3. /\ layout' = layout /\ disturbances' = disturbances
          /\ stageFd' \subseteq Runs
        BY <1>7 DEF Confirm, Rollback, Quiet
    <2>4. faults' \in 0..MaxFaults
        BY <1>7, MeetsShapes DEF Confirm, Rollback, Quiet
    <2>5. fds' \in [Runs -> SUBSET Files]
        <3>1. CASE HandOver(r)
            BY <3>1 DEF HandOver
        <3> QED
            BY <1>7, <3>1 DEF Confirm
    <2> QED
        BY <1>7, <2>1, <2>2, <2>3, <2>4, <2>5 DEF Confirm, tree, fate
<1> QED
    BY <1>1, <1>2, <1>3, <1>4, <1>5, <1>6, <1>7 DEF Commit

LEMMA CleanupShapes ==
    ASSUME Shapes, NEW r \in Runs, Cleanup(r)
    PROVE  Shapes'
<1> USE DEF Shapes
<1>1. CASE Abort(r)
    BY <1>1 DEF Abort, Quiet, Goto, Cleaning, tree, names, authority, fate
<1>2. CASE WipePins(r)
    <2> PICK failed \in SUBSET fds[r] :
                /\ Wipe(fds[r] \ failed) /\ Meets(failed)
                /\ bad' = IF failed # {} \/ r \notin stageFd THEN bad \cup {r} ELSE bad
        BY <1>2 DEF WipePins
    <2>1. content' \in [Files -> {"none", "empty", "data", "wiped"}] /\ durable' \subseteq Files
        BY WipeShapes
    <2>2. faults' \in 0..MaxFaults
        BY MeetsShapes
    <2> QED
        BY <1>2, <2>1, <2>2 DEF WipePins, Goto, Cleaning, names, authority
<1>3. CASE ClearTree(r)
    <2> PICK failed \in SUBSET TreeOf(r) :
                /\ Wipe(TreeOf(r) \ failed) /\ Meets(failed)
                /\ bad' = IF failed # {} THEN bad \cup {r} ELSE bad
        BY <1>3 DEF ClearTree
    <2>1. content' \in [Files -> {"none", "empty", "data", "wiped"}] /\ durable' \subseteq Files
        BY WipeShapes, TreeFiles
    <2>2. faults' \in 0..MaxFaults
        BY MeetsShapes
    <2> QED
        BY <1>3, <2>1, <2>2 DEF ClearTree, Goto, Cleaning, names, authority
<1>4. CASE FindName(r)
    <2>1. OwnNames(r) \subseteq Places
        BY LayoutFacts DEF OwnNames
    <2> QED
        BY <1>4, <2>1 DEF FindName, Quiet, Goto, Cleaning, tree, names, authority
<1>5. CASE Retire(r)
    BY <1>5 DEF Retire, Quiet, Goto, Cleaning, tree, authority
<1>6. CASE Drop(r)
    <2> PICK failed \in SUBSET fds[r] :
                /\ Wipe(fds[r] \ failed) /\ Meets(failed) /\ registry' = registry \cup failed
                /\ bad' = IF failed # {} THEN bad \cup {r} ELSE bad
        BY <1>6 DEF Drop
    <2>1. content' \in [Files -> {"none", "empty", "data", "wiped"}] /\ durable' \subseteq Files
        BY WipeShapes
    <2>2. faults' \in 0..MaxFaults
        BY MeetsShapes
    <2> QED
        BY <1>6, <2>1, <2>2 DEF Drop, Goto, Ended
<1> QED
    BY <1>1, <1>2, <1>3, <1>4, <1>5, <1>6 DEF Cleanup

LEMMA OtherShapes ==
    ASSUME Shapes, Others \/ (\E r \in Runs : Fault(r)) \/ UNCHANGED vars
    PROVE  Shapes'
<1> USE DEF Shapes
<1>1. CASE UNCHANGED vars
    BY <1>1 DEF vars, tree, names, authority, fate
<1>2. ASSUME NEW r \in Runs, Fault(r)
      PROVE  Shapes'
    <2>1. faults' \in 0..MaxFaults
        BY <1>2, BoundsAssumption DEF Fault, CommitFault, Interrupt
    <2> QED
        BY <1>2, <2>1 DEF Fault, CommitFault, Interrupt, Goto, Cleaning, tree, names, authority, fate
<1>3. CASE Others
    <2>1. Disturb
        BY <1>3 DEF Others, MoveOut, MoveAway, Occupy
    <2>2. disturbances' \in 0..MaxDisturbances
        BY <2>1, BoundsAssumption DEF Disturb
    <2>3. at' \in [Places -> Runs \cup {Nothing, Foreign}] /\ moved' \subseteq Files
        BY <1>3 DEF Others, MoveOut, MoveAway, Occupy
    <2> QED
        BY <2>1, <2>2, <2>3 DEF Disturb, authority, fate
<1> QED
    BY <1>1, <1>2, <1>3

LEMMA ShapesStep == Shapes /\ [Next]_vars => Shapes'
    BY BuildShapes, CommitShapes, CleanupShapes, OtherShapes DEF Next

-----------------------------------------------------------------------------
(* The limit on pinned descriptors *)

LEMMA HeldFiles ==
    ASSUME Shapes
    PROVE  Held \subseteq Files
    BY DEF Shapes, Held

\* A step that adds no descriptor.
LEMMA HeldShrinks ==
    ASSUME Shapes, Limited, layout' = layout, Held' \subseteq Held
    PROVE  Limited'
<1>1. Held \subseteq Files
    BY HeldFiles
<1>2. Cardinality(Held') <= Cardinality(Held) /\ Cardinality(Held) \in Nat /\ Cardinality(Held') \in Nat
    BY <1>1, FewerFiles
<1>3. layout.limit \in Nat
    BY LayoutsAssumption DEF Shapes
<1> QED
    BY <1>2, <1>3 DEF Limited

LEMMA InitLimited == Init => Limited
<1> SUFFICES ASSUME Init PROVE Limited
    OBVIOUS
<1>1. Held = {}
    BY DEF Init, Held
<1>2. Cardinality(Held) = 0
    BY <1>1, FS_EmptySet
<1>3. layout.limit \in Nat
    BY LayoutsAssumption DEF Init
<1> QED
    BY <1>2, <1>3 DEF Limited

\* No step but CreateFile and PinTree takes a descriptor.
LEMMA HeldStep ==
    ASSUME Shapes, [Next]_vars,
           \A r \in Runs : ~PinTree(r) /\ \A f \in Files : ~CreateFile(r, f)
    PROVE  layout' = layout /\ Held' \subseteq Held
<1>1. ASSUME fds' = fds, registry' = registry
      PROVE  Held' \subseteq Held
    BY <1>1 DEF Held
<1>2. ASSUME NEW r \in Runs, NEW failed \in SUBSET fds[r],
             fds' = [fds EXCEPT ![r] = {}], registry' = registry \cup failed
      PROVE  Held' \subseteq Held
    BY <1>2 DEF Held, Shapes
<1>3. ASSUME NEW r \in Runs, HandOver(r), registry' = registry
      PROVE  Held' \subseteq Held
    <2>1. \A i \in Runs : fds'[i] \subseteq fds[i] \cup fds[r]
        BY <1>3 DEF HandOver
    <2> QED
        BY <1>3, <2>1 DEF Held
<1>4. ASSUME NEW failed \in SUBSET registry, Retry(failed), fds' = fds
      PROVE  Held' \subseteq Held
    BY <1>4 DEF Retry, Held
<1>5. CASE UNCHANGED vars
    BY <1>1, <1>5 DEF vars, authority
<1>6. CASE Others
    BY <1>1, <1>6 DEF Others, MoveOut, MoveAway, Occupy, Disturb, authority
<1>7. ASSUME NEW r \in Runs, Build(r)
      PROVE  layout' = layout /\ Held' \subseteq Held
    <2>1. CASE Enter(r)
        BY <2>1, <1>4 DEF Enter
    <2>2. CASE EnterBlocked(r)
        BY <2>2, <1>4 DEF EnterBlocked
    <2>3. CASE Release(r)
        <3>1. registry' = registry \cup {} /\ {} \in SUBSET fds[r] /\ fds' = [fds EXCEPT ![r] = {}]
            BY <2>3 DEF Release
        <3> QED
            BY <3>1, <1>2, <2>3 DEF Release
    <2>4. CASE WipeRetained(r)
        BY <2>4, <1>2 DEF WipeRetained
    <2>5. ASSUME NEW f \in Files, Write(r, f) \/ CloseFile(r, f) \/ AddDirect(r, f)
          PROVE  layout' = layout /\ Held' \subseteq Held
        BY <2>5, <1>1 DEF Write, CloseFile, AddDirect, authority
    <2> QED
        BY <1>7, <2>1, <2>2, <2>3, <2>4, <2>5 DEF Build
<1>8. ASSUME NEW r \in Runs, Commit(r)
      PROVE  layout' = layout /\ Held' \subseteq Held
    <2>1. CASE Confirm(r)
        <3>1. layout' = layout /\ registry' = registry
            BY <2>1 DEF Confirm, Rollback, Quiet
        <3>2. HandOver(r) \/ fds' = fds
            BY <2>1 DEF Confirm
        <3> QED
            BY <3>1, <3>2, <1>1, <1>3
    <2>2. CASE ~Confirm(r)
        BY <1>8, <2>2, <1>1 DEF Commit, BeginCommit, SyncTree, Mark, Check, Rename, Verify,
                                Rollback, Quiet, authority
    <2> QED
        BY <2>1, <2>2
<1>9. ASSUME NEW r \in Runs, Cleanup(r)
      PROVE  layout' = layout /\ Held' \subseteq Held
    <2>1. CASE Drop(r)
        BY <2>1, <1>2 DEF Drop
    <2>2. CASE ~Drop(r)
        BY <1>9, <2>2, <1>1 DEF Cleanup, Abort, WipePins, ClearTree, FindName, Retire, Quiet,
                                authority
    <2> QED
        BY <2>1, <2>2
<1>10. ASSUME NEW r \in Runs, Fault(r)
       PROVE  layout' = layout /\ Held' \subseteq Held
    BY <1>10, <1>1 DEF Fault, CommitFault, Interrupt, authority
<1>11. CASE Others \/ UNCHANGED vars
    BY <1>5, <1>6, <1>11 DEF Others, MoveOut, MoveAway, Occupy, Disturb, vars
<1> QED
    BY <1>7, <1>8, <1>9, <1>10, <1>11 DEF Next

LEMMA LimitedStep == Shapes /\ Limited /\ [Next]_vars => Limited'
<1> SUFFICES ASSUME Shapes, Limited, [Next]_vars
             PROVE  Limited'
    OBVIOUS
<1>1. ASSUME NEW r \in Runs, NEW f \in Files, CreateFile(r, f)
      PROVE  Limited'
    <2>1. CASE Cardinality(Held) < layout.limit
        <3>1. Held' = Held \cup {f}
            BY <1>1, <2>1 DEF CreateFile, Held, Shapes
        <3>2. IsFiniteSet(Held) /\ Cardinality(Held) \in Nat
            BY HeldFiles, FilesFinite, FS_Subset, FS_CardinalityType
        <3>3. Cardinality(Held') <= Cardinality(Held) + 1
            <4>1. CASE f \in Held
                <5>1. Held' = Held
                    BY <3>1, <4>1
                <5>2. Cardinality(Held') = Cardinality(Held)
                    BY <5>1
                <5> QED
                    BY <3>2, <5>2
            <4>2. CASE f \notin Held
                <5>1. Cardinality(Held \cup {f}) = Cardinality(Held) + 1
                    BY <3>2, <4>2, FS_AddElement
                <5> QED
                    BY <3>1, <3>2, <5>1
            <4> QED
                BY <4>1, <4>2
        <3>4. layout' = layout /\ layout.limit \in Nat
            BY <1>1, LayoutsAssumption DEF CreateFile, Shapes
        <3>5. Cardinality(Held') \in Nat
            <4>1. IsFiniteSet(Held \cup {f})
                BY <3>2, FS_AddElement
            <4>2. Cardinality(Held \cup {f}) \in Nat
                BY <4>1, FS_CardinalityType
            <4> QED
                BY <3>1, <4>2
        <3> QED
            BY <2>1, <3>2, <3>3, <3>4, <3>5 DEF Limited
    <2>2. CASE ~(Cardinality(Held) < layout.limit)
        <3>1. layout' = layout /\ fds' = fds /\ registry' = registry
            BY <1>1, <2>2 DEF CreateFile
        <3>2. Held' \subseteq Held
            BY <3>1 DEF Held
        <3> QED
            BY <3>1, <3>2, HeldShrinks
    <2> QED
        BY <2>1, <2>2
<1>2. ASSUME NEW r \in Runs, PinTree(r)
      PROVE  Limited'
    <2> PICK adopted \in SUBSET Strangers(r) :
                /\ Cardinality(Held \cup adopted) <= layout.limit
                /\ fds' = [fds EXCEPT ![r] = @ \cup adopted]
        BY <1>2 DEF PinTree
    <2>1. Held' = Held \cup adopted
        BY <1>2 DEF PinTree, Held, Shapes
    <2> QED
        BY <1>2, <2>1 DEF PinTree, Limited
<1>3. CASE \A r \in Runs : ~PinTree(r) /\ \A f \in Files : ~CreateFile(r, f)
    BY <1>3, HeldStep, HeldShrinks
<1> QED
    BY <1>1, <1>2, <1>3

\* Every variable keeps its type and the process stays within the number of descriptors
\* it may keep pinned for cleanup (enron_private_io.py _reserve_cleanup_fd_slot).
THEOREM TypesAndLimit == Spec => []TypeOK
<1>1. Init => Shapes /\ Limited
    BY InitShapes, InitLimited
<1>2. Shapes /\ Limited /\ [Next]_vars => (Shapes /\ Limited)'
    BY ShapesStep, LimitedStep
<1>3. Shapes /\ Limited => TypeOK
    BY TypeParts
<1> QED
    BY <1>1, <1>2, <1>3, PTL DEF Spec

-----------------------------------------------------------------------------
(* Names *)

\* What a step of a run may do to the names.
Gentle ==
    /\ \A n \in Places : at[n] # at'[n] => at[n] = Nothing \/ at'[n] = Nothing
    /\ Cardinality(Strays') = Cardinality(Strays)

\* A name is given to a run or taken from one.
LEMMA OneName ==
    ASSUME Shapes, NEW n \in Places, NEW r \in Runs,
           \/ at[n] = Nothing /\ at' = [at EXCEPT ![n] = r]
           \/ at[n] = r /\ at' = [at EXCEPT ![n] = Nothing]
    PROVE  Gentle
<1>1. r # Foreign /\ Nothing # Foreign
    BY FilesAssumption
<1>2. Strays' = Strays
    BY <1>1 DEF Strays, Shapes
<1>3. \A m \in Places : at[m] # at'[m] => at[m] = Nothing \/ at'[m] = Nothing
    BY DEF Shapes
<1> QED
    BY <1>2, <1>3 DEF Gentle

LEMMA NoName == ASSUME at' = at PROVE Gentle
<1>1. Strays' = Strays
    BY DEF Strays
<1> QED
    BY <1>1 DEF Gentle

\* Whatever is renamed without replacing moves to a free name.
LEMMA RenamedName ==
    ASSUME Shapes, NEW from \in Places, NEW to \in Places, RenameNoReplace(from, to)
    PROVE  Gentle
<1>0. Nothing # Foreign
    BY FilesAssumption
<1>1. CASE at' = at
    BY <1>1, NoName
<1>2. CASE at[from] # Nothing /\ at[to] = Nothing /\ at' = [at EXCEPT ![to] = at[from], ![from] = Nothing]
    <2>1. \A n \in Places : at'[n] = IF n = from THEN Nothing ELSE IF n = to THEN at[from] ELSE at[n]
        BY <1>2 DEF Shapes
    <2>2. CASE at[from] # Foreign
        <3>0. \A n \in Places : at'[n] = Foreign <=> at[n] = Foreign
            BY <1>0, <1>2, <2>1, <2>2
        <3>1. Strays' = Strays
            BY <3>0 DEF Strays
        <3> QED
            BY <1>2, <2>1, <3>1 DEF Gentle
    <2>3. CASE at[from] = Foreign
        <3>0. \A n \in Places : at'[n] = Foreign <=> (at[n] = Foreign /\ n # from) \/ n = to
            BY <1>0, <1>2, <2>1, <2>3
        <3>1. Strays' = (Strays \ {from}) \cup {to} /\ from \in Strays /\ to \notin Strays
            BY <3>0, <1>0, <1>2, <2>3 DEF Strays
        <3>2. IsFiniteSet(Strays) /\ Cardinality(Strays) \in Nat
            BY PlacesFinite, FS_Subset, FS_CardinalityType DEF Strays
        <3>3. IsFiniteSet(Strays \ {from}) /\ Cardinality(Strays \ {from}) = Cardinality(Strays) - 1
            BY <3>1, <3>2, FS_RemoveElement
        <3>4. Cardinality((Strays \ {from}) \cup {to}) = Cardinality(Strays \ {from}) + 1
            BY <3>1, <3>3, FS_AddElement
        <3>5. Cardinality((Strays \ {from}) \cup {to}) = Cardinality(Strays)
            BY <3>2, <3>3, <3>4
        <3>6. Cardinality(Strays') = Cardinality(Strays)
            BY <3>1, <3>5
        <3> QED
            BY <1>2, <2>1, <3>6 DEF Gentle
    <2> QED
        BY <2>2, <2>3
<1> QED
    BY <1>1, <1>2 DEF RenameNoReplace

LEMMA GentleStep ==
    ASSUME Shapes, [Next]_vars
    PROVE  disturbances' # disturbances \/ Gentle
<1>1. CASE UNCHANGED vars
    BY <1>1, NoName DEF vars, names
<1>2. CASE Others
    <2>1. disturbances' = disturbances + 1 /\ disturbances \in 0..MaxDisturbances
        BY <1>2 DEF Others, MoveOut, MoveAway, Occupy, Disturb, Shapes
    <2> QED
        BY <2>1, BoundsAssumption
<1>3. ASSUME NEW r \in Runs, Build(r)
      PROVE  Gentle
    <2>1. CASE Enter(r)
        <3>1. Stage(r) \in Places
            BY LayoutFacts DEF Shapes
        <3> QED
            BY <2>1, <3>1, OneName, NoName DEF Enter, names
    <2>2. CASE ~Enter(r)
        <3>1. at' = at
            BY <1>3, <2>2 DEF Build, EnterBlocked, PinTree, CreateFile, Write, CloseFile, AddDirect,
                              Release, WipeRetained, names
        <3> QED
            BY <3>1, NoName
    <2> QED
        BY <2>1, <2>2
<1>4. ASSUME NEW r \in Runs, Commit(r)
      PROVE  Gentle
    <2>1. Stage(r) \in Places /\ Final(r) \in Places
        BY LayoutFacts DEF Shapes
    <2>2. \/ at' = at
          \/ RenameNoReplace(Stage(r), Final(r))
          \/ RenameNoReplace(Final(r), Stage(r))
        BY <1>4 DEF Commit, BeginCommit, SyncTree, Mark, Check, Rename, Verify, Confirm, Rollback, names
    <2> QED
        BY <2>1, <2>2, NoName, RenamedName
<1>5. ASSUME NEW r \in Runs, Cleanup(r)
      PROVE  Gentle
    <2>1. CASE Retire(r)
        <3>1. target[r] \in Places \cup {Nothing}
            BY DEF Shapes
        <3>2. CASE at' = at
            BY <3>2, NoName
        <3>3. CASE at[target[r]] = r /\ at' = [at EXCEPT ![target[r]] = Nothing]
            <4>1. CASE target[r] \in Places
                BY <3>3, <4>1, OneName
            <4>2. CASE target[r] \notin Places
                <5>1. at' = at
                    BY <3>3, <4>2 DEF Shapes
                <5> QED
                    BY <5>1, NoName
            <4> QED
                BY <4>1, <4>2
        <3> QED
            BY <2>1, <3>2, <3>3 DEF Retire
    <2>2. CASE ~Retire(r)
        <3>1. at' = at
            BY <1>5, <2>2 DEF Cleanup, Abort, WipePins, ClearTree, FindName, Drop, names
        <3> QED
            BY <3>1, NoName
    <2> QED
        BY <2>1, <2>2
<1>6. ASSUME NEW r \in Runs, Fault(r)
      PROVE  Gentle
    <2>1. at' = at
        BY <1>6 DEF Fault, CommitFault, Interrupt, names
    <2> QED
        BY <2>1, NoName
<1> QED
    BY <1>1, <1>2, <1>3, <1>4, <1>5, <1>6 DEF Next

\* A step of a run replaces nothing: it leaves a name alone, fills a free one or frees one,
\* and a directory another program put there stays as many (_rename_noreplace,
\* _rollback_unverified_promotion, _quarantine_verified_cleanup_entry).
THEOREM NothingClobbered == Spec => NeverClobbers
<1>1. Init => Shapes
    BY InitShapes
<1>2. Shapes /\ [Next]_vars => Shapes'
    BY ShapesStep
<1>3. Shapes /\ [Next]_vars =>
        [\/ disturbances' # disturbances
         \/ /\ \A n \in Places : at[n] # at'[n] => at[n] = Nothing \/ at'[n] = Nothing
            /\ Cardinality(Strays') = Cardinality(Strays)]_vars
    BY GentleStep DEF Gentle
<1> QED
    BY <1>1, <1>2, <1>3, PTL DEF Spec, NeverClobbers

-----------------------------------------------------------------------------
(* What a step does to where the runs stand *)

Moves(a, b) ==
    \/ a = "idle" /\ b \in {"refused", "open"}
    \/ a = "open" /\ b \in {"sync", "wipe"}
    \/ a = "sync" /\ b \in {"mark", "wipe"}
    \/ a = "mark" /\ b \in {"check", "wipe"}
    \/ a = "check" /\ b \in {"rename", "wipe"}
    \/ a = "rename" /\ b \in {"verify", "wipe"}
    \/ a = "verify" /\ b \in {"confirm", "wipe"}
    \/ a = "confirm" /\ b \in {"committed", "wipe"}
    \/ a = "committed" /\ b = "wiped"
    \/ a = "wipe" /\ b \in {"clear", "drop"}
    \/ a = "clear" /\ b \in {"find", "drop"}
    \/ a = "find" /\ b \in {"move", "drop"}
    \/ a = "move" /\ b = "drop"
    \/ a = "drop" /\ b = "failed"

LEMMA OneMoves ==
    ASSUME Shapes, NEW r \in Runs, NEW b, Goto(r, b), Moves(pc[r], b)
    PROVE  \A s \in Runs : pc'[s] = pc[s] \/ Moves(pc[s], pc'[s])
    BY DEF Shapes, Goto

LEMMA PcStep ==
    ASSUME Shapes, [Next]_vars
    PROVE  \A s \in Runs : pc'[s] = pc[s] \/ Moves(pc[s], pc'[s])
<1>1. ASSUME NEW r \in Runs, Build(r)
      PROVE  pc' = pc \/ \E b : Goto(r, b) /\ Moves(pc[r], b)
    <2>1. CASE Enter(r)
        BY <2>1 DEF Enter, Moves
    <2>2. CASE WipeRetained(r)
        BY <2>2 DEF WipeRetained, Moves
    <2>3. CASE ~Enter(r) /\ ~WipeRetained(r)
        BY <1>1, <2>3 DEF Build, EnterBlocked, PinTree, CreateFile, Write, CloseFile, AddDirect, Release
    <2> QED
        BY <2>1, <2>2, <2>3
<1>2. ASSUME NEW r \in Runs, Commit(r)
      PROVE  \E b : Goto(r, b) /\ Moves(pc[r], b)
    <2>1. CASE BeginCommit(r) \/ SyncTree(r) \/ Mark(r) \/ Check(r)
        BY <2>1 DEF BeginCommit, Building, SyncTree, Mark, Check, Quiet, Moves
    <2>2. CASE Rename(r) \/ Verify(r)
        BY <2>2 DEF Rename, Verify, Rollback, Quiet, Moves
    <2>3. CASE Confirm(r)
        BY <2>3 DEF Confirm, Rollback, Quiet, Moves
    <2> QED
        BY <1>2, <2>1, <2>2, <2>3 DEF Commit
<1>3. ASSUME NEW r \in Runs, Cleanup(r)
      PROVE  \E b : Goto(r, b) /\ Moves(pc[r], b)
    BY <1>3 DEF Cleanup, Abort, WipePins, ClearTree, FindName, Retire, Drop, Quiet, Moves
<1>4. ASSUME NEW r \in Runs, Fault(r)
      PROVE  \E b : Goto(r, b) /\ Moves(pc[r], b)
    BY <1>4 DEF Fault, CommitFault, Interrupt, Moves
<1>5. CASE Others \/ UNCHANGED vars
    BY <1>5 DEF Others, MoveOut, MoveAway, Occupy, Disturb, vars
<1> QED
    BY <1>1, <1>2, <1>3, <1>4, <1>5, OneMoves DEF Next

\* Where a run stands, its promotion and its staging descriptor go together.
LEMMA FateStep ==
    ASSUME Shapes, [Next]_vars
    PROVE  \A s \in Runs :
             /\ s \in promoted => s \in promoted'
             /\ s \in promoted' /\ s \notin promoted => pc[s] = "verify" /\ pc'[s] = "confirm"
             /\ pc[s] = "verify" /\ pc'[s] = "confirm" => s \in promoted'
             /\ s \in stageFd' /\ s \notin stageFd => pc[s] = "idle"
             /\ pc[s] = "idle" /\ pc'[s] = "open" => s \in stageFd'
             /\ s \in stageFd /\ s \notin stageFd' => pc'[s] \in {"committed", "wipe", "failed"}
             /\ pc[s] = "wipe" /\ pc'[s] = "clear" => s \in stageFd'
             /\ pc[s] = "confirm" /\ pc'[s] = "committed" => s \notin stageFd'
<1>0. pc = [s \in Runs |-> pc[s]]
    BY DEF Shapes
<1>1. ASSUME NEW r \in Runs, Enter(r)
      PROVE  \A s \in Runs :
               /\ s \in promoted' <=> s \in promoted
               /\ \/ s = r /\ pc[s] = "idle" /\ (s \in stageFd' \/ pc'[s] = "refused")
                  \/ s # r /\ pc'[s] = pc[s] /\ (s \in stageFd' <=> s \in stageFd)
               /\ s \in stageFd => s \in stageFd'
    <2>1. promoted' = promoted /\ pc[r] = "idle"
        BY <1>1 DEF Enter, fate
    <2>2. \/ stageFd' = stageFd /\ pc' = [pc EXCEPT ![r] = "refused"]
          \/ stageFd' = stageFd \cup {r} /\ pc' = [pc EXCEPT ![r] = "open"]
        BY <1>1 DEF Enter, Goto, names
    <2> QED
        BY <1>0, <2>1, <2>2
<1>2. ASSUME NEW r \in Runs, Build(r), ~Enter(r)
      PROVE  promoted' = promoted /\ stageFd' = stageFd
             /\ (pc' = pc \/ (pc[r] = "committed" /\ pc' = [pc EXCEPT ![r] = "wiped"]))
    <2>1. CASE WipeRetained(r)
        BY <2>1 DEF WipeRetained, Goto, names, fate
    <2>2. CASE EnterBlocked(r) \/ PinTree(r) \/ Release(r)
        BY <2>2 DEF EnterBlocked, PinTree, Release, names, fate
    <2>3. ASSUME NEW f \in Files, CreateFile(r, f) \/ Write(r, f) \/ CloseFile(r, f) \/ AddDirect(r, f)
          PROVE  promoted' = promoted /\ stageFd' = stageFd /\ pc' = pc
        BY <2>3 DEF CreateFile, Write, CloseFile, AddDirect, names, fate
    <2> QED
        BY <1>2, <2>1, <2>2, <2>3 DEF Build
<1>3. ASSUME NEW r \in Runs, BeginCommit(r) \/ SyncTree(r) \/ Mark(r) \/ Check(r) \/ Rename(r)
      PROVE  promoted' = promoted /\ stageFd' = stageFd
             /\ pc[r] \in {"open", "sync", "mark", "check", "rename"}
             /\ \E b : pc' = [pc EXCEPT ![r] = b]
    BY <1>3 DEF BeginCommit, Building, SyncTree, Mark, Check, Rename, Quiet, Goto, names, fate
<1>4. ASSUME NEW r \in Runs, Verify(r)
      PROVE  /\ stageFd' = stageFd /\ pc[r] = "verify"
             /\ \/ promoted' = promoted \cup {r} /\ pc' = [pc EXCEPT ![r] = "confirm"]
                \/ promoted' = promoted /\ pc' = [pc EXCEPT ![r] = "wipe"]
    BY <1>4 DEF Verify, Rollback, Quiet, Goto
<1>5. ASSUME NEW r \in Runs, Confirm(r)
      PROVE  /\ promoted' = promoted /\ pc[r] = "confirm"
             /\ \/ stageFd' = stageFd \ {r}
                   /\ \E b \in {"committed", "wipe"} : pc' = [pc EXCEPT ![r] = b]
                \/ stageFd' = stageFd /\ pc' = [pc EXCEPT ![r] = "wipe"]
    BY <1>5 DEF Confirm, Rollback, Quiet, Goto, fate
<1>6. ASSUME NEW r \in Runs, WipePins(r)
      PROVE  /\ promoted' = promoted /\ stageFd' = stageFd /\ pc[r] = "wipe"
             /\ pc' = [pc EXCEPT ![r] = IF r \in stageFd THEN "clear" ELSE "drop"]
    BY <1>6 DEF WipePins, Goto, names
<1>7. ASSUME NEW r \in Runs, Abort(r) \/ ClearTree(r) \/ FindName(r) \/ Retire(r) \/ Fault(r)
      PROVE  /\ promoted' = promoted /\ stageFd' = stageFd
             /\ \E b \in {"wipe", "find", "move", "drop"} : pc' = [pc EXCEPT ![r] = b]
             /\ pc[r] # "idle"
    BY <1>7 DEF Abort, ClearTree, FindName, Retire, Fault, CommitFault, Interrupt, Quiet, Goto, names, fate
<1>8. ASSUME NEW r \in Runs, Drop(r)
      PROVE  promoted' = promoted /\ stageFd' = stageFd \ {r} /\ pc[r] = "drop"
             /\ pc' = [pc EXCEPT ![r] = "failed"]
    BY <1>8 DEF Drop, Goto
<1>9. CASE Others \/ UNCHANGED vars
    BY <1>9 DEF Others, MoveOut, MoveAway, Occupy, Disturb, vars, names, fate
<1>10. ASSUME NEW r \in Runs, Commit(r)
       PROVE  BeginCommit(r) \/ SyncTree(r) \/ Mark(r) \/ Check(r) \/ Rename(r) \/ Verify(r) \/ Confirm(r)
    BY <1>10 DEF Commit
<1>11. ASSUME NEW r \in Runs, Cleanup(r)
       PROVE  Abort(r) \/ WipePins(r) \/ ClearTree(r) \/ FindName(r) \/ Retire(r) \/ Drop(r)
    BY <1>11 DEF Cleanup
<1>12. CASE Others \/ UNCHANGED vars \/ \E r \in Runs : Build(r)
    BY <1>0, <1>1, <1>2, <1>9, <1>12
<1>13. CASE \E r \in Runs : BeginCommit(r) \/ SyncTree(r) \/ Mark(r) \/ Check(r) \/ Rename(r)
    BY <1>0, <1>3, <1>13
<1>14. CASE \E r \in Runs : Verify(r) \/ Confirm(r)
    BY <1>0, <1>4, <1>5, <1>14
<1>15. CASE \E r \in Runs : WipePins(r) \/ Drop(r)
    BY <1>0, <1>6, <1>8, <1>15
<1>16. CASE \E r \in Runs : Abort(r) \/ ClearTree(r) \/ FindName(r) \/ Retire(r) \/ Fault(r)
    BY <1>0, <1>7, <1>16
<1> QED
    BY <1>10, <1>11, <1>12, <1>13, <1>14, <1>15, <1>16 DEF Next

-----------------------------------------------------------------------------
(* What a step does to the files *)

\* What the cleanup of a run may wipe: what is pinned, and its own tree.
Wipeable(done) ==
    \/ done \subseteq pinned
    \/ \E r \in Runs : pc[r] = "clear" /\ done \subseteq TreeOf(r)

Sets(f, v) == content' = [content EXCEPT ![f] = v]

LEMMA ContentKinds ==
    ASSUME Shapes, Owners, [Next]_vars
    PROVE  \/ content' = content
           \/ \E done \in SUBSET Files : Wipeable(done) /\ Wipe(done)
           \/ \E f \in Files : /\ content[f] = "none" /\ pc[Home[f]] = "open" /\ f \notin Markers
                               /\ Sets(f, "empty") \/ Sets(f, "data")
           \/ \E f \in Files : content[f] = "empty" /\ f \in pinned /\ Sets(f, "data")
           \/ \E r \in Runs : pc[r] = "mark" /\ pc'[r] = "check" /\ Sets(Marker[r], "data")
<1>1. ASSUME NEW done, NEW P \in SUBSET pinned, done \subseteq P, Wipe(done)
      PROVE  \E d \in SUBSET Files : Wipeable(d) /\ Wipe(d)
    <2>1. done \in SUBSET Files /\ Wipeable(done)
        BY <1>1 DEF Wipeable, Shapes
    <2> QED
        BY <1>1, <2>1
<1>2. registry \in SUBSET pinned /\ \A r \in Runs : fds[r] \in SUBSET pinned
    BY DEF Owners
<1>3. CASE Others \/ UNCHANGED vars
    BY <1>3 DEF Others, MoveOut, MoveAway, Occupy, Disturb, vars, tree
<1>4. ASSUME NEW r \in Runs, Enter(r) \/ EnterBlocked(r)
      PROVE  \E d \in SUBSET Files : Wipeable(d) /\ Wipe(d)
    <2> PICK failed \in SUBSET registry : Wipe(registry \ failed)
        BY <1>4 DEF Enter, EnterBlocked, Retry
    <2>1. registry \ failed \subseteq registry
        OBVIOUS
    <2> QED
        BY <2>1, <1>1, <1>2
<1>5. ASSUME NEW r \in Runs, WipeRetained(r) \/ WipePins(r) \/ Drop(r)
      PROVE  \E d \in SUBSET Files : Wipeable(d) /\ Wipe(d)
    <2> PICK failed \in SUBSET fds[r] : Wipe(fds[r] \ failed)
        BY <1>5 DEF WipeRetained, WipePins, Drop
    <2>1. fds[r] \ failed \subseteq fds[r]
        OBVIOUS
    <2> QED
        BY <2>1, <1>1, <1>2
<1>6. ASSUME NEW r \in Runs, ClearTree(r)
      PROVE  \E d \in SUBSET Files : Wipeable(d) /\ Wipe(d)
    <2> PICK failed \in SUBSET TreeOf(r) : Wipe(TreeOf(r) \ failed)
        BY <1>6 DEF ClearTree
    <2>1. TreeOf(r) \ failed \in SUBSET Files /\ Wipeable(TreeOf(r) \ failed)
        BY <1>6, TreeFiles DEF ClearTree, Wipeable
    <2> QED
        BY <2>1
<1>7. ASSUME NEW r \in Runs, NEW f \in Files, CreateFile(r, f) \/ AddDirect(r, f)
      PROVE  /\ content[f] = "none" /\ pc[Home[f]] = "open" /\ f \notin Markers
             /\ Sets(f, "empty") \/ Sets(f, "data")
    BY <1>7, FilesAssumption DEF CreateFile, AddDirect, Building, Sets
<1>8. ASSUME NEW r \in Runs, NEW f \in Files, Write(r, f)
      PROVE  content[f] = "empty" /\ f \in pinned /\ Sets(f, "data")
    BY <1>8 DEF Write, Sets
<1>9. ASSUME NEW r \in Runs, Mark(r)
      PROVE  pc[r] = "mark" /\ pc'[r] = "check" /\ Sets(Marker[r], "data")
    BY <1>9 DEF Mark, Quiet, Goto, Shapes, Sets
<1>10. ASSUME NEW r \in Runs,
              PinTree(r) \/ Release(r) \/ (Commit(r) /\ ~Mark(r)) \/ Abort(r) \/ FindName(r)
              \/ Retire(r) \/ Fault(r) \/ \E f \in Files : CloseFile(r, f)
       PROVE  content' = content
    BY <1>10 DEF PinTree, Release, Commit, BeginCommit, SyncTree, Check, Rename, Verify, Confirm,
                 Abort, FindName, Retire, Fault, CommitFault, Interrupt, CloseFile, tree
<1>11. ASSUME NEW r \in Runs, Build(r)
       PROVE  \/ Enter(r) \/ EnterBlocked(r) \/ WipeRetained(r) \/ PinTree(r) \/ Release(r)
              \/ \E f \in Files : CreateFile(r, f) \/ AddDirect(r, f) \/ Write(r, f) \/ CloseFile(r, f)
    BY <1>11 DEF Build
<1>12. ASSUME NEW r \in Runs, Cleanup(r)
       PROVE  WipePins(r) \/ Drop(r) \/ ClearTree(r) \/ Abort(r) \/ FindName(r) \/ Retire(r)
    BY <1>12 DEF Cleanup
<1>13. ASSUME NEW r \in Runs, Build(r)
       PROVE  \/ content' = content
              \/ \E done \in SUBSET Files : Wipeable(done) /\ Wipe(done)
              \/ \E f \in Files : /\ content[f] = "none" /\ pc[Home[f]] = "open" /\ f \notin Markers
                                  /\ Sets(f, "empty") \/ Sets(f, "data")
              \/ \E f \in Files : content[f] = "empty" /\ f \in pinned /\ Sets(f, "data")
    BY <1>13, <1>11, <1>4, <1>5, <1>7, <1>8, <1>10
<1>14. ASSUME NEW r \in Runs, Commit(r)
       PROVE  content' = content \/ (pc[r] = "mark" /\ pc'[r] = "check" /\ Sets(Marker[r], "data"))
    BY <1>14, <1>9, <1>10
<1>15. ASSUME NEW r \in Runs, Cleanup(r)
       PROVE  content' = content \/ \E done \in SUBSET Files : Wipeable(done) /\ Wipe(done)
    BY <1>15, <1>12, <1>5, <1>6, <1>10
<1> QED
    BY <1>3, <1>10, <1>13, <1>14, <1>15 DEF Next

LEMMA ContentStep ==
    ASSUME Shapes, Owners, Stands, [Next]_vars
    PROVE  \A f \in Files :
             /\ content[f] # "none" => content'[f] # "none"
             /\ content[f] = "none" /\ content'[f] # "none" =>
                   \/ pc[Home[f]] = "open" /\ f \notin Markers
                   \/ \E r \in Runs : pc[r] = "mark" /\ pc'[r] = "check" /\ f = Marker[r]
             /\ content[f] = "wiped" => content'[f] = "wiped"
<1>0. content = [f \in Files |-> content[f]]
    BY DEF Shapes
<1>1. CASE content' = content
    BY <1>1
<1>2. ASSUME NEW done \in SUBSET Files, Wipeable(done), Wipe(done)
      PROVE  \A f \in Files : content'[f] = content[f] \/ (content[f] # "none" /\ content'[f] = "wiped")
    <2>1. \A f \in done : content[f] # "none"
        BY <1>2 DEF Wipeable, Owners, TreeOf, InTree
    <2> QED
        BY <1>2, <2>1 DEF Wipe
<1>3. ASSUME NEW f \in Files, content[f] = "none", pc[Home[f]] = "open", f \notin Markers,
             Sets(f, "empty") \/ Sets(f, "data")
      PROVE  \A g \in Files : \/ content'[g] = content[g]
                              \/ /\ content[g] = "none" /\ content'[g] # "none"
                                 /\ pc[Home[g]] = "open" /\ g \notin Markers
    BY <1>0, <1>3 DEF Sets
<1>4. ASSUME NEW f \in Files, content[f] = "empty", Sets(f, "data")
      PROVE  \A g \in Files : content'[g] = content[g] \/ (content[g] = "empty" /\ content'[g] = "data")
    BY <1>0, <1>4 DEF Sets
<1>5. ASSUME NEW r \in Runs, pc[r] = "mark", pc'[r] = "check", Sets(Marker[r], "data")
      PROVE  \A g \in Files : \/ content'[g] = content[g]
                              \/ content[g] = "none" /\ content'[g] = "data" /\ g = Marker[r]
    <2>1. content[Marker[r]] = "none"
        BY <1>5 DEF Stands, Before
    <2> QED
        BY <1>0, <1>5, <2>1 DEF Sets
<1> QED
    BY <1>1, <1>2, <1>3, <1>4, <1>5, ContentKinds

\* The marker of an outermost run is wiped by no other run.
LEMMA MarkerStays ==
    ASSUME Shapes, Owners, Stands, [Next]_vars, NEW t \in Runs, Outer(t) = Nothing,
           content[Marker[t]] = "data", pc[t] # "clear"
    PROVE  content'[Marker[t]] = "data"
<1>0. content = [f \in Files |-> content[f]]
    BY DEF Shapes
<1>1. Marker[t] \in Files /\ Home[Marker[t]] = t
    BY HomeFacts
<1>2. CASE content' = content
    BY <1>2
<1>3. ASSUME NEW done \in SUBSET Files, Wipeable(done), Wipe(done)
      PROVE  content'[Marker[t]] = "data"
    <2>1. Marker[t] \notin pinned
        BY DEF Stands
    <2>2. ASSUME NEW r \in Runs, pc[r] = "clear"
          PROVE  Marker[t] \notin TreeOf(r)
        <3>1. r # t /\ Outer(t) # r
            BY <2>2, FilesAssumption
        <3> QED
            BY <1>1, <3>1 DEF TreeOf, InTree, Nested
    <2>3. Marker[t] \notin done
        BY <1>3, <2>1, <2>2 DEF Wipeable
    <2> QED
        BY <1>1, <1>3, <2>3 DEF Wipe
<1>4. ASSUME NEW f \in Files, content[f] # "data", Sets(f, "empty") \/ Sets(f, "data")
      PROVE  content'[Marker[t]] = "data"
    BY <1>0, <1>1, <1>4 DEF Sets
<1>5. ASSUME NEW r \in Runs, Sets(Marker[r], "data")
      PROVE  content'[Marker[t]] = "data"
    BY <1>0, <1>1, <1>5 DEF Sets
<1> QED
    BY <1>2, <1>3, <1>4, <1>5, ContentKinds

\* The step that follows the marker has it written.
LEMMA MarkerWritten ==
    ASSUME Shapes, [Next]_vars, NEW s \in Runs, pc[s] = "mark", pc'[s] = "check"
    PROVE  content'[Marker[s]] = "data"
<1>1. CASE Mark(s)
    BY <1>1, HomeFacts DEF Mark, Shapes
<1>2. ASSUME NEW r \in Runs, NEW b, Goto(r, b), b = "check"
      PROVE  r = s
    BY <1>2 DEF Goto, Shapes
<1>3. ASSUME NEW r \in Runs, NEW b, Goto(r, b), b # "check"
      PROVE  FALSE
    BY <1>3 DEF Goto, Shapes
<1>4. pc' # pc
    OBVIOUS
<1>5. ASSUME NEW r \in Runs, Mark(r)
      PROVE  r = s
    BY <1>5, <1>2 DEF Mark, Quiet
<1>6. ASSUME NEW r \in Runs, Build(r)
      PROVE  FALSE
    BY <1>6, <1>3, <1>4 DEF Build, Enter, EnterBlocked, PinTree, CreateFile, Write, CloseFile,
                            AddDirect, Release, WipeRetained
<1>7. ASSUME NEW r \in Runs, Commit(r), ~Mark(r)
      PROVE  FALSE
    <2>1. \E b : Goto(r, b) /\ b # "check"
        <3>1. CASE BeginCommit(r) \/ SyncTree(r) \/ Check(r) \/ Rename(r)
            BY <3>1 DEF BeginCommit, SyncTree, Check, Rename, Quiet
        <3>2. CASE Verify(r) \/ Confirm(r)
            BY <3>2 DEF Verify, Confirm, Rollback, Quiet
        <3> QED
            BY <1>7, <3>1, <3>2 DEF Commit
    <2> QED
        BY <2>1, <1>3
<1>8. ASSUME NEW r \in Runs, Cleanup(r) \/ Fault(r)
      PROVE  FALSE
    BY <1>8, <1>3 DEF Cleanup, Abort, WipePins, ClearTree, FindName, Retire, Drop, Quiet,
                      Fault, CommitFault, Interrupt
<1>9. CASE Others \/ UNCHANGED vars
    BY <1>9, <1>4 DEF Others, MoveOut, MoveAway, Occupy, Disturb, vars
<1> QED
    BY <1>1, <1>5, <1>6, <1>7, <1>8, <1>9 DEF Next

-----------------------------------------------------------------------------
(* Owners of descriptors *)

Gone(r) == pc[r] \in {"failed", "wiped"}
Past(r) == pc[r] \notin {"idle", "open"} \cup Committing

LEMMA StaysPast ==
    ASSUME Shapes, [Next]_vars, NEW r \in Runs
    PROVE  (Gone(r) => Gone(r)') /\ (Past(r) => Past(r)')
    BY PcStep DEF Gone, Past, Moves, Committing

LEMMA LayoutStep == ASSUME [Next]_vars PROVE layout' = layout
<1>1. ASSUME NEW r \in Runs, Build(r)
      PROVE  layout' = layout
    BY <1>1 DEF Build, Enter, EnterBlocked, PinTree, CreateFile, Write, CloseFile, AddDirect,
                Release, WipeRetained
<1>2. ASSUME NEW r \in Runs, Commit(r)
      PROVE  layout' = layout
    BY <1>2 DEF Commit, BeginCommit, SyncTree, Mark, Check, Rename, Verify, Confirm, Rollback, Quiet
<1>3. ASSUME NEW r \in Runs, Cleanup(r) \/ Fault(r)
      PROVE  layout' = layout
    BY <1>3 DEF Cleanup, Abort, WipePins, ClearTree, FindName, Retire, Drop, Quiet,
                Fault, CommitFault, Interrupt
<1>4. CASE Others \/ UNCHANGED vars
    BY <1>4 DEF Others, MoveOut, MoveAway, Occupy, Disturb, vars
<1> QED
    BY <1>1, <1>2, <1>3, <1>4 DEF Next

\* The two conditions on a held file, for one run, one file.
HeldWell(r, f) ==
    \/ Home[f] = r
    \/ Outer(Home[f]) = r /\ fds[Home[f]] = {} /\ Past(Home[f])

OwedWell(f) == Gone(Home[f]) \/ (Outer(Home[f]) # Nothing /\ Gone(Outer(Home[f])))

LEMMA OwnersParts ==
    Owners <=>
        /\ \A r \in Runs : fds[r] \subseteq pinned
        /\ registry \subseteq pinned
        /\ \A r \in Runs : fds[r] \cap registry = {}
        /\ \A f \in pinned : content[f] # "none"
        /\ \A r \in Runs, f \in Files : f \in fds[r] => HeldWell(r, f)
        /\ \A f \in registry : OwedWell(f)
    BY DEF Owners, HeldWell, OwedWell, Past, Gone

LEMMA OwedStays ==
    ASSUME Shapes, [Next]_vars, NEW f \in Files, OwedWell(f)
    PROVE  OwedWell(f)'
<1>1. Home[f] \in Runs
    BY HomeType
<1>2. Outer(Home[f]) # Nothing => Outer(Home[f]) \in Runs
    BY <1>1, LayoutFacts DEF Shapes
<1>3. Outer(Home[f])' = Outer(Home[f])
    BY LayoutStep DEF Outer
<1> QED
    BY <1>1, <1>2, <1>3, StaysPast DEF OwedWell, Gone

LEMMA HeldStays ==
    ASSUME Shapes, [Next]_vars, NEW r \in Runs, NEW f \in Files, HeldWell(r, f),
           Home[f] # r => fds'[Home[f]] \subseteq fds[Home[f]]
    PROVE  HeldWell(r, f)'
<1>1. Home[f] \in Runs
    BY HomeType
<1>2. Outer(Home[f])' = Outer(Home[f])
    BY LayoutStep DEF Outer
<1> QED
    BY <1>1, <1>2, StaysPast DEF HeldWell, Past

\* No new descriptor, and the registry owes no more.
LEMMA FewerOwners ==
    ASSUME Shapes, Owners, Stands, [Next]_vars, pinned' = pinned, registry' \subseteq registry,
           \A r \in Runs : fds'[r] \subseteq fds[r]
    PROVE  Owners'
<1>1. \A f \in pinned : content'[f] # "none"
    BY ContentStep, OwnersParts DEF Shapes
<1>2. ASSUME NEW r \in Runs, NEW f \in Files, f \in fds'[r]
      PROVE  HeldWell(r, f)'
    <2>1. f \in fds[r] /\ Home[f] \in Runs
        BY <1>2, HomeType
    <2>2. HeldWell(r, f)
        BY <2>1, OwnersParts
    <2> QED
        BY <2>1, <2>2, HeldStays
<1>3. ASSUME NEW f \in registry'
      PROVE  OwedWell(f)'
    <2>1. f \in Files /\ OwedWell(f)
        BY <1>3, OwnersParts DEF Shapes
    <2> QED
        BY <2>1, OwedStays
<1>4. /\ \A r \in Runs : fds'[r] \subseteq pinned'
      /\ registry' \subseteq pinned'
      /\ \A r \in Runs : fds'[r] \cap registry' = {}
    BY OwnersParts
<1> QED
    BY <1>1, <1>2, <1>3, <1>4 DEF Owners, HeldWell, OwedWell, Past, Gone

\* While the caller is in the with block of r, its nested runs have not failed.
LEMMA BuildingFacts ==
    ASSUME Shapes, NEW r \in Runs, Building(r), NEW f \in TreeOf(r)
    PROVE  /\ f \in Files /\ ~OwedWell(f)
           /\ Home[f] # r => Outer(Home[f]) = r /\ pc[Home[f]] \in {"idle", "committed"}
<1>1. f \in Files /\ Home[f] \in Runs
    BY TreeFiles, HomeType
<1>2. pc[r] = "open" /\ (Outer(r) # Nothing => pc[Outer(r)] = "open")
      /\ \A i \in Runs : Outer(i) = r => pc[i] \in {"idle", "committed"}
    BY DEF Building, MayStep, Nested
<1>3. Home[f] = r \/ Outer(Home[f]) = r
    BY DEF TreeOf, InTree, Nested
<1>4. r # Nothing
    BY FilesAssumption
<1> QED
    BY <1>1, <1>2, <1>3, <1>4 DEF OwedWell, Gone

LEMMA CreateOwners ==
    ASSUME Shapes, Owners, Stands, [Next]_vars, NEW r \in Runs, NEW g \in Files, CreateFile(r, g)
    PROVE  Owners'
<1>1. CASE UNCHANGED <<fds, pinned>>
    BY <1>1, FewerOwners DEF CreateFile
<1>2. CASE fds' = [fds EXCEPT ![r] = @ \cup {g}] /\ pinned' = pinned \cup {g}
    <2>1. /\ registry' = registry /\ pc' = pc /\ layout' = layout /\ pc[r] = "open"
          /\ Home[g] = r /\ content[g] = "none" /\ content'[g] = "empty"
          /\ \A f \in Files : f # g => content'[f] = content[f]
        BY <1>2 DEF CreateFile, Building, Shapes
    <2>2. \A s \in Runs : fds'[s] = IF s = r THEN fds[r] \cup {g} ELSE fds[s]
        BY <1>2 DEF Shapes
    <2>3. g \notin pinned /\ g \notin registry
        BY <2>1, OwnersParts
    <2>4. ASSUME NEW s \in Runs, NEW f \in Files, f \in fds'[s]
          PROVE  HeldWell(s, f)'
        <3>1. CASE f = g /\ s = r
            BY <2>1, <3>1 DEF HeldWell
        <3>2. CASE f \in fds[s]
            <4>1. HeldWell(s, f)
                BY <3>2, OwnersParts
            <4>2. Home[f] # s => Home[f] # r
                BY <4>1, <2>1 DEF HeldWell, Past
            <4>3. Home[f] # s => fds'[Home[f]] \subseteq fds[Home[f]]
                BY <4>2, <2>2, HomeType
            <4> QED
                BY <4>1, <4>3, HeldStays
        <3> QED
            BY <2>2, <2>4, <3>1, <3>2
    <2>5. \A f \in registry' : OwedWell(f)'
        BY <2>1, OwedStays, OwnersParts DEF Shapes
    <2>6. \A f \in pinned' : content'[f] # "none"
        BY <1>2, <2>1, OwnersParts DEF Shapes
    <2>7. /\ \A s \in Runs : fds'[s] \subseteq pinned' /\ fds'[s] \cap registry' = {}
          /\ registry' \subseteq pinned'
        BY <1>2, <2>1, <2>2, <2>3, OwnersParts
    <2> QED
        BY <2>4, <2>5, <2>6, <2>7 DEF Owners, HeldWell, OwedWell, Past, Gone
<1> QED
    BY <1>1, <1>2 DEF CreateFile

LEMMA PinOwners ==
    ASSUME Shapes, Owners, Stands, [Next]_vars, NEW r \in Runs, PinTree(r)
    PROVE  Owners'
<1> PICK adopted \in SUBSET Strangers(r) :
            fds' = [fds EXCEPT ![r] = @ \cup adopted] /\ pinned' = pinned \cup adopted
    BY DEF PinTree
<1>1. registry' = registry /\ pc' = pc /\ layout' = layout /\ content' = content /\ Building(r)
      /\ pc[r] = "open"
    BY DEF PinTree, tree, Building
<1>2. adopted \subseteq TreeOf(r)
    BY DEF Strangers
<1>3. \A s \in Runs : fds'[s] = IF s = r THEN fds[r] \cup adopted ELSE fds[s]
    BY DEF Shapes
<1>4. ASSUME NEW g \in adopted
      PROVE  g \in Files /\ g \notin registry /\ content[g] # "none" /\ HeldWell(r, g)
    <2>0. g \in TreeOf(r)
        BY <1>2
    <2>1. g \in Files /\ ~OwedWell(g)
          /\ (Home[g] # r => Outer(Home[g]) = r /\ pc[Home[g]] \in {"idle", "committed"})
        BY <1>1, <2>0, BuildingFacts
    <2>2. content[g] # "none"
        BY <2>0 DEF TreeOf, InTree
    <2>3. Home[g] \in Runs /\ r # Nothing
        BY <2>1, HomeType, FilesAssumption
    <2>4. Home[g] # r => fds[Home[g]] = {} /\ Past(Home[g])
        BY <2>1, <2>2, <2>3 DEF Stands, Past, Committing
    <2> QED
        BY <2>1, <2>2, <2>4, OwnersParts DEF HeldWell
<1>5. ASSUME NEW s \in Runs, NEW f \in Files, f \in fds'[s]
      PROVE  HeldWell(s, f)'
    <2>1. HeldWell(s, f)
        BY <1>3, <1>4, <1>5, OwnersParts
    <2>2. Home[f] # s => Home[f] # r
        BY <2>1, <1>1 DEF HeldWell, Past
    <2>3. Home[f] # s => fds'[Home[f]] \subseteq fds[Home[f]]
        BY <2>2, <1>3, HomeType
    <2> QED
        BY <2>1, <2>3, HeldStays
<1>6. \A f \in registry' : OwedWell(f)'
    BY <1>1, OwedStays, OwnersParts DEF Shapes
<1>7. \A f \in pinned' : content'[f] # "none"
    BY <1>1, <1>4, OwnersParts
<1>8. /\ \A s \in Runs : fds'[s] \subseteq pinned' /\ fds'[s] \cap registry' = {}
      /\ registry' \subseteq pinned'
    BY <1>1, <1>3, <1>4, OwnersParts
<1> QED
    BY <1>5, <1>6, <1>7, <1>8 DEF Owners, HeldWell, OwedWell, Past, Gone

LEMMA OneHolder ==
    ASSUME Shapes, Owners, NEW r \in Runs, NEW s \in Runs, NEW f \in fds[r], f \in fds[s]
    PROVE  r = s
<1>1. f \in Files /\ HeldWell(r, f) /\ HeldWell(s, f)
    BY OwnersParts DEF Shapes
<1> QED
    BY <1>1 DEF HeldWell

LEMMA HandOverOwners ==
    ASSUME Shapes, Owners, Stands, [Next]_vars, NEW r \in Runs, Confirm(r), HandOver(r)
    PROVE  Owners'
<1>1. /\ pc[r] = "confirm" /\ pc'[r] \in {"committed", "wipe"}
      /\ registry' = registry /\ pinned' = pinned /\ content' = content
      /\ layout' = layout
    BY LayoutStep DEF Confirm, Rollback, Quiet, Goto, Shapes, tree
<1>2. /\ Outer(r) # Nothing =>
            Outer(r) \in Runs /\ Outer(r) # r /\ Outer(Outer(r)) = Nothing /\ r \notin layout.retains
      /\ r # Nothing
    BY LayoutFacts, FilesAssumption DEF Shapes
<1>3. \A s \in Runs : /\ s = r => fds'[s] = IF r \in layout.retains THEN fds[r] ELSE {}
                      /\ s # r /\ s = Outer(r) => fds'[s] = fds[s] \cup fds[r]
                      /\ s # r /\ s # Outer(r) => fds'[s] = fds[s]
    BY DEF HandOver
<1>4. ASSUME NEW s \in Runs, NEW f \in Files, f \in fds'[s]
      PROVE  HeldWell(s, f)'
    <2>0. Home[f] \in Runs /\ Home[f] # Nothing /\ s # Nothing
        BY HomeType, FilesAssumption
    <2>9. Outer(Home[f]) # Nothing => Outer(Outer(Home[f])) = Nothing
        <3>1. layout \in Layouts
            BY DEF Shapes
        <3> QED
            BY <2>0, <3>1, LayoutFacts
    <2>1. CASE f \in fds[s]
        <3>1. HeldWell(s, f)
            BY <2>1, OwnersParts
        <3>2. Home[f] # s => Home[f] # Outer(r)
            BY <1>2, <2>0, <2>9, <3>1 DEF HeldWell
        <3>3. Home[f] # s => fds'[Home[f]] \subseteq fds[Home[f]]
            BY <1>3, <2>0, <3>2
        <3> QED
            BY <3>1, <3>3, HeldStays
    <2>2. CASE f \in fds[r] /\ s # r /\ s = Outer(r)
        <3>1. HeldWell(r, f)
            BY <2>2, OwnersParts
        <3>2. Home[f] = r
            BY <1>2, <2>0, <2>9, <2>2, <3>1 DEF HeldWell
        <3>3. fds'[r] = {} /\ Outer(r)' = s
            <4>1. Outer(r)' = Outer(r)
                BY <1>1 DEF Outer
            <4> QED
                BY <1>2, <1>3, <2>0, <2>2, <4>1
        <3>4. Past(r)'
            BY <1>1 DEF Past, Committing
        <3> QED
            BY <3>2, <3>3, <3>4 DEF HeldWell
    <2> QED
        BY <1>3, <1>4, <2>1, <2>2
<1>5. \A f \in registry' : OwedWell(f)'
    BY <1>1, OwedStays, OwnersParts DEF Shapes
<1>6. /\ \A s \in Runs : fds'[s] \subseteq pinned' /\ fds'[s] \cap registry' = {}
      /\ registry' \subseteq pinned'
      /\ \A f \in pinned' : content'[f] # "none"
    BY <1>1, <1>3, OwnersParts
<1> QED
    BY <1>4, <1>5, <1>6 DEF Owners, HeldWell, OwedWell, Past, Gone

\* The end of a cleanup, or the wiping of what was retained.
LEMMA SettleOwners ==
    ASSUME Shapes, Owners, Stands, [Next]_vars, NEW r \in Runs, Drop(r) \/ WipeRetained(r)
    PROVE  Owners'
<1> PICK failed \in SUBSET fds[r] : registry' = registry \cup failed
    BY DEF Drop, WipeRetained
<1>1. fds' = [fds EXCEPT ![r] = {}] /\ pinned' = pinned /\ Gone(r)'
    BY DEF Drop, WipeRetained, Goto, Shapes, Gone
<1>2. \A s \in Runs : fds'[s] = IF s = r THEN {} ELSE fds[s]
    BY <1>1 DEF Shapes
<1>3. \A f \in pinned' : content'[f] # "none"
    BY <1>1, ContentStep, OwnersParts DEF Shapes
<1>4. ASSUME NEW s \in Runs, NEW f \in Files, f \in fds'[s]
      PROVE  HeldWell(s, f)'
    <2>1. HeldWell(s, f)
        BY <1>2, <1>4, OwnersParts
    <2>2. fds'[Home[f]] \subseteq fds[Home[f]]
        BY <1>2, HomeType
    <2> QED
        BY <2>1, <2>2, HeldStays
<1>5. ASSUME NEW f \in registry'
      PROVE  OwedWell(f)'
    <2>1. CASE f \in registry
        BY <2>1, OwedStays, OwnersParts DEF Shapes
    <2>2. CASE f \in failed
        <3>1. f \in Files /\ HeldWell(r, f) /\ r # Nothing
            BY <2>2, OwnersParts, FilesAssumption DEF Shapes
        <3>2. Outer(Home[f])' = Outer(Home[f])
            BY LayoutStep DEF Outer
        <3> QED
            BY <1>1, <3>1, <3>2 DEF HeldWell, OwedWell, Gone
    <2> QED
        BY <1>5, <2>1, <2>2
<1>6. ASSUME NEW s \in Runs
      PROVE  fds'[s] \subseteq pinned' /\ fds'[s] \cap registry' = {}
    <2>1. s # r => fds[s] \cap failed = {}
        BY OneHolder
    <2> QED
        BY <1>1, <1>2, <2>1, OwnersParts
<1>7. registry' \subseteq pinned'
    BY <1>1, OwnersParts
<1> QED
    BY <1>3, <1>4, <1>5, <1>6, <1>7 DEF Owners, HeldWell, OwedWell, Past, Gone

LEMMA OwnersStep ==
    ASSUME Shapes, Owners, Stands, [Next]_vars
    PROVE  Owners'
<1>1. ASSUME NEW r \in Runs, Build(r)
      PROVE  Owners'
    <2>1. CASE Enter(r) \/ EnterBlocked(r)
        BY <2>1, FewerOwners DEF Enter, EnterBlocked, Retry
    <2>2. CASE PinTree(r)
        BY <2>2, PinOwners
    <2>3. CASE Release(r)
        BY <2>3, FewerOwners DEF Release, Shapes
    <2>4. CASE WipeRetained(r)
        BY <2>4, SettleOwners
    <2>5. ASSUME NEW f \in Files, CreateFile(r, f)
          PROVE  Owners'
        BY <2>5, CreateOwners
    <2>6. ASSUME NEW f \in Files, Write(r, f) \/ CloseFile(r, f) \/ AddDirect(r, f)
          PROVE  Owners'
        BY <2>6, FewerOwners DEF Write, CloseFile, AddDirect, authority
    <2> QED
        BY <1>1, <2>1, <2>2, <2>3, <2>4, <2>5, <2>6 DEF Build
<1>2. ASSUME NEW r \in Runs, Commit(r)
      PROVE  Owners'
    <2>1. CASE Confirm(r) /\ HandOver(r)
        BY <2>1, HandOverOwners
    <2>2. CASE ~(Confirm(r) /\ HandOver(r))
        <3>1. fds' = fds /\ registry' = registry /\ pinned' = pinned
            BY <1>2, <2>2 DEF Commit, BeginCommit, SyncTree, Mark, Check, Rename, Verify, Confirm, authority
        <3> QED
            BY <3>1, FewerOwners
    <2> QED
        BY <2>1, <2>2
<1>3. ASSUME NEW r \in Runs, Cleanup(r) \/ Fault(r)
      PROVE  Owners'
    <2>1. CASE Drop(r)
        BY <2>1, SettleOwners
    <2>2. CASE ~Drop(r)
        <3>1. fds' = fds /\ registry' = registry /\ pinned' = pinned
            BY <1>3, <2>2 DEF Cleanup, Abort, WipePins, ClearTree, FindName, Retire,
                              Fault, CommitFault, Interrupt, authority
        <3> QED
            BY <3>1, FewerOwners
    <2> QED
        BY <2>1, <2>2
<1>4. CASE Others \/ UNCHANGED vars
    <2>1. fds' = fds /\ registry' = registry /\ pinned' = pinned
        BY <1>4 DEF Others, MoveOut, MoveAway, Occupy, Disturb, vars, authority
    <2> QED
        BY <2>1, FewerOwners
<1> QED
    BY <1>1, <1>2, <1>3, <1>4 DEF Next

-----------------------------------------------------------------------------
(* Where the runs stand *)

\* Only an outermost run that confirms keeps its descriptors, and no marker of one is pinned.
LEMMA PinsStep ==
    ASSUME Shapes, Owners, Stands, [Next]_vars, NEW t \in Runs
    PROVE  /\ pc[t] = "confirm" /\ pc'[t] = "committed" /\ Outer(t) # Nothing => fds'[t] = {}
           /\ pc[t] = "committed" /\ Outer(t) # Nothing => fds'[t] = {}
           /\ Outer(t) = Nothing => Marker[t] \notin pinned'
<1> DEFINE Goal ==
           /\ pc[t] = "confirm" /\ pc'[t] = "committed" /\ Outer(t) # Nothing => fds'[t] = {}
           /\ pc[t] = "committed" /\ Outer(t) # Nothing => fds'[t] = {}
           /\ Outer(t) = Nothing => Marker[t] \notin pinned'
<1>0. /\ pc[t] = "committed" /\ Outer(t) # Nothing => fds[t] = {}
      /\ Outer(t) = Nothing => Marker[t] \notin pinned
    BY DEF Stands
<1>1. ASSUME pinned' = pinned, fds'[t] \subseteq fds[t], ~(pc[t] = "confirm" /\ pc'[t] = "committed")
      PROVE  Goal
    BY <1>0, <1>1
<1>2. ASSUME NEW r \in Runs, NEW b, pc' = [pc EXCEPT ![r] = b] \/ pc' = pc, b # "committed"
      PROVE  ~(pc[t] = "confirm" /\ pc'[t] = "committed")
    BY <1>2 DEF Shapes
<1>3. ASSUME NEW r \in Runs, Enter(r) \/ EnterBlocked(r)
      PROVE  Goal
    <2>1. pinned' = pinned /\ fds' = fds
        BY <1>3 DEF Enter, EnterBlocked
    <2>2. pc' = pc \/ pc' = [pc EXCEPT ![r] = "refused"] \/ pc' = [pc EXCEPT ![r] = "open"]
        BY <1>3 DEF Enter, EnterBlocked, Goto
    <2> QED
        BY <1>1, <1>2, <2>1, <2>2
<1>4. ASSUME NEW r \in Runs, NEW f \in Files, CreateFile(r, f)
      PROVE  Goal
    <2>1. pc' = pc /\ f \notin Markers /\ pc[r] = "open"
        BY <1>4, FilesAssumption DEF CreateFile, Building
    <2>2. pinned' \subseteq pinned \cup {f} /\ \A s \in Runs : s # r => fds'[s] = fds[s]
        BY <1>4 DEF CreateFile, Shapes
    <2> QED
        BY <1>0, <2>1, <2>2, HomeFacts
<1>5. ASSUME NEW r \in Runs, PinTree(r)
      PROVE  Goal
    <2> PICK adopted \in SUBSET Strangers(r) :
                fds' = [fds EXCEPT ![r] = @ \cup adopted] /\ pinned' = pinned \cup adopted
        BY <1>5 DEF PinTree
    <2>1. pc' = pc /\ pc[r] = "open" /\ \A s \in Runs : s # r => fds'[s] = fds[s]
        BY <1>5 DEF PinTree, Building, Shapes
    <2>2. Outer(t) = Nothing => Marker[t] \notin adopted
        <3>1. Home[Marker[t]] = t /\ r # Nothing
            BY HomeFacts, FilesAssumption
        <3> QED
            BY <3>1 DEF Strangers, TreeOf, InTree, Nested
    <2> QED
        BY <1>0, <2>1, <2>2
<1>6. ASSUME NEW r \in Runs, Release(r) \/ WipeRetained(r) \/ Drop(r)
      PROVE  Goal
    <2>1. pinned' = pinned /\ fds'[t] \subseteq fds[t]
        BY <1>6 DEF Release, WipeRetained, Drop, Shapes
    <2>2. pc' = pc \/ pc' = [pc EXCEPT ![r] = "wiped"] \/ pc' = [pc EXCEPT ![r] = "failed"]
        BY <1>6 DEF Release, WipeRetained, Drop, Goto
    <2> QED
        BY <1>1, <1>2, <2>1, <2>2
<1>7. ASSUME NEW r \in Runs, NEW f \in Files, Write(r, f) \/ CloseFile(r, f) \/ AddDirect(r, f)
      PROVE  Goal
    BY <1>7, <1>1, <1>2 DEF Write, CloseFile, AddDirect, authority
<1>8. ASSUME NEW r \in Runs, Commit(r), ~Confirm(r)
      PROVE  Goal
    <2>1. pinned' = pinned /\ fds' = fds
        BY <1>8 DEF Commit, BeginCommit, SyncTree, Mark, Check, Rename, Verify, authority
    <2>2. \E b : pc' = [pc EXCEPT ![r] = b] /\ b # "committed"
        <3>1. CASE BeginCommit(r) \/ SyncTree(r) \/ Mark(r) \/ Check(r) \/ Rename(r)
            BY <3>1 DEF BeginCommit, SyncTree, Mark, Check, Rename, Quiet, Goto
        <3>2. CASE Verify(r)
            BY <3>2 DEF Verify, Rollback, Quiet, Goto
        <3> QED
            BY <1>8, <3>1, <3>2 DEF Commit
    <2> QED
        BY <1>1, <1>2, <2>1, <2>2
<1>9. ASSUME NEW r \in Runs, Confirm(r)
      PROVE  Goal
    <2>1. pinned' = pinned /\ pc[r] = "confirm"
        BY <1>9 DEF Confirm
    <2>2. CASE HandOver(r)
        <3>1. /\ t = r => fds'[t] = IF r \in layout.retains THEN fds[r] ELSE {}
              /\ t # r /\ t # Outer(r) => fds'[t] = fds[t]
            BY <2>2 DEF HandOver
        <3>2. /\ Outer(r) # Nothing => Outer(Outer(r)) = Nothing /\ r \notin layout.retains
              /\ t # Nothing
            BY LayoutFacts, FilesAssumption DEF Shapes
        <3>3. t # r => ~(pc[t] = "confirm" /\ pc'[t] = "committed")
            BY <1>9, LayoutFacts DEF Confirm, Rollback, Quiet, Goto, Shapes
        <3> QED
            BY <1>0, <2>1, <3>1, <3>2, <3>3
    <2>3. CASE ~HandOver(r)
        <3>1. fds' = fds /\ pc' = [pc EXCEPT ![r] = "wipe"]
            BY <1>9, <2>3 DEF Confirm, Rollback, Quiet, Goto
        <3> QED
            BY <1>1, <1>2, <2>1, <3>1
    <2> QED
        BY <2>2, <2>3
<1>10. ASSUME NEW r \in Runs, (Cleanup(r) /\ ~Drop(r)) \/ Fault(r)
       PROVE  Goal
    <2>1. pinned' = pinned /\ fds' = fds
        BY <1>10 DEF Cleanup, Abort, WipePins, ClearTree, FindName, Retire, Fault, CommitFault, Interrupt,
                     authority
    <2>2. \E b : pc' = [pc EXCEPT ![r] = b] /\ b # "committed"
        BY <1>10 DEF Cleanup, Abort, WipePins, ClearTree, FindName, Retire, Fault, CommitFault, Interrupt,
                     Quiet, Goto
    <2> QED
        BY <1>1, <1>2, <2>1, <2>2
<1>11. ASSUME Others \/ UNCHANGED vars
       PROVE  Goal
    <2>1. pinned' = pinned /\ fds' = fds /\ pc' = pc
        BY <1>11 DEF Others, MoveOut, MoveAway, Occupy, Disturb, vars, authority
    <2> QED
        BY <1>0, <2>1
<1> HIDE DEF Goal
<1>12. ASSUME NEW r \in Runs, Build(r)
       PROVE  Goal
    BY <1>12, <1>3, <1>4, <1>5, <1>6, <1>7 DEF Build
<1>13. ASSUME NEW r \in Runs, Commit(r) \/ Cleanup(r) \/ Fault(r)
       PROVE  Goal
    BY <1>13, <1>6, <1>8, <1>9, <1>10
<1>14. Goal
    BY <1>11, <1>12, <1>13 DEF Next
<1> QED
    BY <1>14 DEF Goal

LEMMA StandsStep ==
    ASSUME Shapes, Owners, Stands, [Next]_vars
    PROVE  Stands'
<1> SUFFICES ASSUME NEW s \in Runs
    PROVE
        /\ pc'[s] \in {"idle", "refused"} => \A f \in Files : Home[f] = s => content'[f] = "none"
        /\ pc'[s] \in Before => content'[Marker[s]] = "none"
        /\ pc'[s] \in Before \cup {"check", "rename", "verify"} => s \notin promoted'
        /\ pc'[s] \in {"open", "clear", "find", "move"} \cup Committing => s \in stageFd'
        /\ pc'[s] \in {"confirm", "committed"} => s \in promoted'
        /\ pc'[s] = "committed" => s \notin stageFd'
        /\ pc'[s] = "committed" /\ Outer(s)' # Nothing => fds'[s] = {}
        /\ Outer(s)' = Nothing =>
              /\ Marker[s] \notin pinned'
              /\ pc'[s] \in Marked \cup {"committed"} => content'[Marker[s]] = "data"
    BY DEF Stands
<1>0. pc'[s] = pc[s] \/ Moves(pc[s], pc'[s])
    BY PcStep
<1>1. Marker[s] \in Files /\ Marker[s] \in Markers /\ Home[Marker[s]] = s
    BY HomeFacts
<1>2. Outer(s)' = Outer(s)
    BY LayoutStep DEF Outer
<1>3. ASSUME pc'[s] \in {"idle", "refused"}, NEW f \in Files, Home[f] = s
      PROVE  content'[f] = "none"
    <2>1. pc[s] \in {"idle", "refused"}
        BY <1>0, <1>3 DEF Moves
    <2>2. content[f] = "none"
        BY <2>1, <1>3 DEF Stands
    <2>3. \A r \in Runs : f = Marker[r] => pc[r] # "mark"
        BY <2>1, <1>3, HomeFacts
    <2> QED
        BY <2>1, <2>2, <2>3, <1>3, ContentStep
<1>4. ASSUME pc'[s] \in Before
      PROVE  content'[Marker[s]] = "none"
    <2>1. pc[s] \in Before
        BY <1>0, <1>4 DEF Moves, Before
    <2>2. content[Marker[s]] = "none"
        BY <2>1 DEF Stands
    <2>3. \A r \in Runs : Marker[s] = Marker[r] => pc'[r] # "check"
        BY <1>1, <1>4, HomeFacts DEF Before
    <2> QED
        BY <2>2, <2>3, <1>1, ContentStep
<1>5. ASSUME pc'[s] \in Before \cup {"check", "rename", "verify"}
      PROVE  s \notin promoted'
    <2>1. pc[s] \in Before \cup {"check", "rename", "verify"}
        BY <1>0, <1>5 DEF Moves, Before
    <2>2. s \notin promoted
        BY <2>1 DEF Stands
    <2>3. pc'[s] # "confirm"
        BY <1>5 DEF Before
    <2> QED
        BY <2>2, <2>3, FateStep
<1>6. ASSUME pc'[s] \in {"open", "clear", "find", "move"} \cup Committing
      PROVE  s \in stageFd'
    <2>1. CASE pc[s] = "idle" /\ pc'[s] = "open"
        BY <2>1, FateStep
    <2>2. CASE pc[s] = "wipe" /\ pc'[s] = "clear"
        BY <2>2, FateStep
    <2>3. CASE pc[s] \in {"open", "clear", "find", "move"} \cup Committing
        <3>1. s \in stageFd
            BY <2>3 DEF Stands
        <3>2. pc'[s] \notin {"committed", "wipe", "failed"}
            BY <1>6 DEF Committing
        <3> QED
            BY <3>1, <3>2, FateStep
    <2> QED
        BY <1>0, <1>6, <2>1, <2>2, <2>3 DEF Moves, Committing
<1>7. pc'[s] \in {"confirm", "committed"} => s \in promoted'
    <2>1. pc'[s] \in {"confirm", "committed"} => pc[s] \in {"verify", "confirm", "committed"}
        BY <1>0 DEF Moves
    <2>2. pc[s] \in {"confirm", "committed"} => s \in promoted
        BY DEF Stands
    <2>3. pc[s] = "verify" /\ pc'[s] # "confirm" => pc'[s] # "committed"
        BY <1>0 DEF Moves
    <2> QED
        BY <2>1, <2>2, <2>3, FateStep
<1>8. pc'[s] = "committed" => s \notin stageFd'
    <2>1. pc'[s] = "committed" => pc[s] \in {"confirm", "committed"}
        BY <1>0 DEF Moves
    <2>2. pc[s] = "committed" => s \notin stageFd
        BY DEF Stands
    <2> QED
        BY <2>1, <2>2, FateStep
<1>9. pc'[s] = "committed" /\ Outer(s) # Nothing => fds'[s] = {}
    <2>1. pc'[s] = "committed" => pc[s] \in {"confirm", "committed"}
        BY <1>0 DEF Moves
    <2> QED
        BY <2>1, PinsStep
<1>10. Outer(s) = Nothing => Marker[s] \notin pinned'
    BY PinsStep
<1>11. ASSUME Outer(s) = Nothing, pc'[s] \in Marked \cup {"committed"}
       PROVE  content'[Marker[s]] = "data"
    <2>1. CASE pc[s] = "mark" /\ pc'[s] = "check"
        BY <2>1, MarkerWritten
    <2>2. CASE pc[s] \in Marked \cup {"committed"}
        <3>1. content[Marker[s]] = "data" /\ pc[s] # "clear"
            BY <1>11, <2>2 DEF Stands, Marked
        <3> QED
            BY <1>11, <3>1, MarkerStays
    <2> QED
        BY <1>0, <1>11, <2>1, <2>2 DEF Moves, Marked
<1> QED
    BY <1>2, <1>3, <1>4, <1>5, <1>6, <1>7, <1>8, <1>9, <1>10, <1>11

-----------------------------------------------------------------------------
(* The descriptors of the payload *)

\* A publication is never taken back.
LEMMA PublishedStays ==
    ASSUME Shapes, Owners, Stands, [Next]_vars, NEW t \in Runs, Outer(t) = Nothing, Published(t)
    PROVE  Published(t)'
<1>1. t \in promoted /\ t \notin stageFd /\ content[Marker[t]] = "data"
    BY DEF Published
<1>2. pc[t] # "clear" /\ pc[t] # "idle"
    BY <1>1 DEF Stands, Before
<1>3. content'[Marker[t]] = "data"
    BY <1>1, <1>2, MarkerStays
<1>4. t \in promoted' /\ t \notin stageFd'
    BY <1>1, <1>2, FateStep
<1> QED
    BY <1>3, <1>4 DEF Published

\* The outermost run a file belongs to.
LEMMA TopFacts ==
    ASSUME Shapes, NEW r \in Runs
    PROVE  Top(r) \in Runs /\ Outer(Top(r)) = Nothing
<1>1. layout \in Layouts
    BY DEF Shapes
<1> QED
    BY <1>1, LayoutFacts DEF Top

\* Enough for the account: new pins are held, and what was held is held, wiped or published.
LEMMA AccountKept ==
    ASSUME Shapes, Owners, Stands, Accounted, [Next]_vars,
           \A f \in pinned' : f \notin pinned => \E r \in Runs : f \in fds'[r],
           \A f \in registry : \/ content'[f] = "wiped"
                               \/ f \in registry',
           \A r \in Runs : \A f \in fds[r] : \/ content'[f] = "wiped"
                                             \/ f \in registry'
                                             \/ \E s \in Runs : f \in fds'[s]
                                             \/ Published(Top(Home[f]))'
    PROVE  Accounted'
<1> SUFFICES ASSUME NEW f \in pinned', content'[f] # "wiped"
             PROVE  \/ f \in registry'
                    \/ \E r \in Runs : f \in fds'[r]
                    \/ Published(Top(Home[f]))'
    BY DEF Accounted
<1>1. CASE f \in pinned
    <2>1. f \in Files /\ Home[f] \in Runs
        BY <1>1, HomeType DEF Shapes
    <2>2. content[f] # "wiped"
        BY <2>1, ContentStep
    <2>3. Published(Top(Home[f])) => Published(Top(Home[f]))'
        <3>1. Top(Home[f])' = Top(Home[f])
            BY LayoutStep DEF Top, Outer
        <3>2. Top(Home[f]) \in Runs /\ Outer(Top(Home[f])) = Nothing
            BY <2>1, TopFacts
        <3>3. ASSUME NEW t \in Runs, t = Top(Home[f]), Published(t)
              PROVE  Published(t)'
            BY <3>2, <3>3, PublishedStays
        <3> QED
            BY <3>1, <3>2, <3>3 DEF Published
    <2> QED
        BY <1>1, <2>2, <2>3 DEF Accounted
<1> QED
    BY <1>1

\* What a run holds belongs to it or to a run nested in it.
LEMMA HeldTop ==
    ASSUME Shapes, Owners, NEW r \in Runs, Outer(r) = Nothing, NEW f \in fds[r]
    PROVE  Top(Home[f]) = r
<1>1. f \in Files /\ HeldWell(r, f) /\ r # Nothing
    BY OwnersParts, FilesAssumption DEF Shapes
<1> QED
    BY <1>1 DEF HeldWell, Top

LEMMA ReleaseAccounted ==
    ASSUME Shapes, Owners, Stands, Accounted, [Next]_vars, NEW r \in Runs, Release(r)
    PROVE  Accounted'
<1>1. pc[r] = "committed" /\ fds[r] # {} /\ fds' = [fds EXCEPT ![r] = {}]
      /\ registry' = registry /\ pinned' = pinned
    BY DEF Release
<1>2. Outer(r) = Nothing /\ Published(r)
    BY <1>1 DEF Stands, Published
<1>3. Published(r)'
    BY <1>2, PublishedStays
<1>4. ASSUME NEW s \in Runs, NEW f \in fds[s]
      PROVE  f \in fds'[s] \/ Published(Top(Home[f]))'
    <2>1. CASE s = r
        <3>1. Top(Home[f]) = r
            BY <1>2, <1>4, <2>1, HeldTop
        <3>2. Top(Home[f])' = Top(Home[f])
            BY LayoutStep DEF Top, Outer
        <3> QED
            BY <1>3, <3>1, <3>2 DEF Published
    <2>2. CASE s # r
        BY <1>1, <1>4, <2>2 DEF Shapes
    <2> QED
        BY <2>1, <2>2
<1> QED
    BY <1>1, <1>4, AccountKept

LEMMA SettleAccounted ==
    ASSUME Shapes, Owners, Stands, Accounted, [Next]_vars, NEW r \in Runs,
           Drop(r) \/ WipeRetained(r)
    PROVE  Accounted'
<1> PICK failed \in SUBSET fds[r] : registry' = registry \cup failed /\ Wipe(fds[r] \ failed)
    BY DEF Drop, WipeRetained
<1>1. fds' = [fds EXCEPT ![r] = {}] /\ pinned' = pinned
    BY DEF Drop, WipeRetained
<1>2. ASSUME NEW s \in Runs, NEW f \in fds[s]
      PROVE  content'[f] = "wiped" \/ f \in registry' \/ f \in fds'[s]
    <2>1. f \in Files
        BY <1>2 DEF Shapes
    <2>2. CASE s = r
        BY <1>2, <2>1, <2>2 DEF Wipe
    <2>3. CASE s # r
        BY <1>1, <1>2, <2>3 DEF Shapes
    <2> QED
        BY <2>2, <2>3
<1> QED
    BY <1>1, <1>2, AccountKept

LEMMA HandOverAccounted ==
    ASSUME Shapes, Owners, Stands, Accounted, [Next]_vars, NEW r \in Runs, Confirm(r), HandOver(r)
    PROVE  Accounted'
<1>1. /\ pc[r] = "confirm" /\ registry' = registry /\ pinned' = pinned /\ content' = content
      /\ promoted' = promoted
    BY DEF Confirm, tree, fate
<1>2. \A s \in Runs : /\ s = r => fds'[s] = IF r \in layout.retains THEN fds[r] ELSE {}
                      /\ s # r /\ s = Outer(r) => fds'[s] = fds[s] \cup fds[r]
                      /\ s # r /\ s # Outer(r) => fds'[s] = fds[s]
    BY DEF HandOver
<1>3. Outer(r) # Nothing => Outer(r) \in Runs /\ Outer(r) # r
    BY LayoutFacts DEF Shapes
<1>4. ASSUME NEW f \in fds[r], Outer(r) = Nothing, r \notin layout.retains
      PROVE  Published(Top(Home[f]))'
    <2>1. fds' # fds
        BY <1>2, <1>4
    <2>2. stageFd' = stageFd \ {r}
        BY <2>1 DEF Confirm
    <2>3. r \in promoted /\ content[Marker[r]] = "data"
        BY <1>1, <1>4 DEF Stands, Marked
    <2>4. Top(Home[f])' = r
        <3>1. Top(Home[f]) = r
            BY <1>4, HeldTop
        <3> QED
            BY <3>1, LayoutStep DEF Top, Outer
    <2> QED
        BY <1>1, <2>2, <2>3, <2>4 DEF Published
<1>5. ASSUME NEW s \in Runs, NEW f \in fds[s]
      PROVE  (\E i \in Runs : f \in fds'[i]) \/ Published(Top(Home[f]))'
    <2>1. CASE s = r
        BY <1>2, <1>3, <1>4, <1>5, <2>1
    <2>2. CASE s # r
        BY <1>2, <1>5, <2>2
    <2> QED
        BY <2>1, <2>2
<1> QED
    BY <1>1, <1>5, AccountKept

LEMMA AccountedStep ==
    ASSUME Shapes, Owners, Stands, Accounted, [Next]_vars
    PROVE  Accounted'
<1>1. ASSUME fds' = fds, registry' = registry, pinned' = pinned
      PROVE  Accounted'
    BY <1>1, AccountKept
<1>2. ASSUME NEW r \in Runs, Enter(r) \/ EnterBlocked(r)
      PROVE  Accounted'
    <2>1. fds' = fds /\ pinned' = pinned
        BY <1>2 DEF Enter, EnterBlocked
    <2>2. PICK failed : Wipe(registry \ failed) /\ registry' = failed
        BY <1>2 DEF Enter, EnterBlocked, Retry
    <2>3. \A f \in registry : f \in registry' \/ content'[f] = "wiped"
        BY <2>2 DEF Wipe, Shapes
    <2> QED
        BY <2>1, <2>3, AccountKept
<1>3. ASSUME NEW r \in Runs, NEW added \in SUBSET Files,
             fds' = [fds EXCEPT ![r] = @ \cup added], pinned' = pinned \cup added, registry' = registry
      PROVE  Accounted'
    <2>1. \A s \in Runs : fds[s] \subseteq fds'[s]
        BY <1>3 DEF Shapes
    <2>2. added \subseteq fds'[r]
        BY <1>3 DEF Shapes
    <2> QED
        BY <1>3, <2>1, <2>2, AccountKept
<1>4. ASSUME NEW r \in Runs, PinTree(r)
      PROVE  Accounted'
    <2>1. PICK adopted \in SUBSET Strangers(r) :
                fds' = [fds EXCEPT ![r] = @ \cup adopted] /\ pinned' = pinned \cup adopted
        BY <1>4 DEF PinTree
    <2>2. adopted \in SUBSET Files /\ registry' = registry
        BY <1>4, TreeFiles DEF Strangers, PinTree
    <2> QED
        BY <2>1, <2>2, <1>3
<1>5. ASSUME NEW r \in Runs, NEW f \in Files, CreateFile(r, f)
      PROVE  Accounted'
    <2>1. CASE UNCHANGED <<fds, pinned>>
        BY <1>5, <2>1, <1>1 DEF CreateFile
    <2>2. CASE fds' = [fds EXCEPT ![r] = @ \cup {f}] /\ pinned' = pinned \cup {f}
        <3>1. {f} \in SUBSET Files /\ registry' = registry
            BY <1>5 DEF CreateFile
        <3> QED
            BY <2>2, <3>1, <1>3
    <2> QED
        BY <1>5, <2>1, <2>2 DEF CreateFile
<1>6. ASSUME NEW r \in Runs, NEW f \in Files, Write(r, f) \/ CloseFile(r, f) \/ AddDirect(r, f)
      PROVE  Accounted'
    BY <1>6, <1>1 DEF Write, CloseFile, AddDirect, authority
<1>7. ASSUME NEW r \in Runs, Build(r)
      PROVE  Accounted'
    BY <1>7, <1>2, <1>4, <1>5, <1>6, ReleaseAccounted, SettleAccounted DEF Build
<1>8. ASSUME NEW r \in Runs, Commit(r)
      PROVE  Accounted'
    <2>1. CASE Confirm(r) /\ HandOver(r)
        BY <2>1, HandOverAccounted
    <2>2. CASE ~(Confirm(r) /\ HandOver(r))
        BY <1>8, <2>2, <1>1 DEF Commit, BeginCommit, SyncTree, Mark, Check, Rename, Verify, Confirm,
                                authority
    <2> QED
        BY <2>1, <2>2
<1>9. ASSUME NEW r \in Runs, Cleanup(r) \/ Fault(r)
      PROVE  Accounted'
    <2>1. CASE Drop(r)
        BY <2>1, SettleAccounted
    <2>2. CASE ~Drop(r)
        BY <1>9, <2>2, <1>1 DEF Cleanup, Abort, WipePins, ClearTree, FindName, Retire,
                                Fault, CommitFault, Interrupt, authority
    <2> QED
        BY <2>1, <2>2
<1>10. CASE Others \/ UNCHANGED vars
    BY <1>10, <1>1 DEF Others, MoveOut, MoveAway, Occupy, Disturb, vars, authority
<1> QED
    BY <1>7, <1>8, <1>9, <1>10 DEF Next

LEMMA InitAccount == Init => Owners /\ Stands /\ Accounted
<1> SUFFICES ASSUME Init
             PROVE  Owners /\ Stands /\ Accounted
    OBVIOUS
<1>1. Owners
    BY DEF Init, Owners
<1>2. Stands
    BY HomeFacts DEF Init, Stands, Committing, Marked
<1>3. Accounted
    BY DEF Init, Accounted
<1> QED
    BY <1>1, <1>2, <1>3

\* The payload of a pinned file always has one descriptor, of one run or of the retry
\* registry, until it is wiped or the outermost run is published (_transfer_cleanup_ownership,
\* _park_unresolved_cleanup_descriptors, release_cleanup_authority).
THEOREM PayloadIsAccounted == Spec => []PayloadAccounted
<1> DEFINE Inv == Shapes /\ Owners /\ Stands /\ Accounted
<1>1. Init => Inv
    BY InitShapes, InitAccount
<1>2. Inv /\ [Next]_vars => Inv'
    BY ShapesStep, OwnersStep, StandsStep, AccountedStep
<1>3. Inv => PayloadAccounted
    <2> SUFFICES ASSUME Inv
                 PROVE  PayloadAccounted
        OBVIOUS
    <2>1. \A r \in Runs : fds[r] \cap registry = {}
        BY DEF Owners
    <2>2. \A r, s \in Runs : r # s => fds[r] \cap fds[s] = {}
        BY OneHolder
    <2>3. \A f \in pinned : content[f] = "data" => f \in Held \/ Published(Top(Home[f]))
        BY DEF Accounted, Held
    <2> QED
        BY <2>1, <2>2, <2>3 DEF PayloadAccounted
<1> QED
    BY <1>1, <1>2, <1>3, PTL DEF Spec

-----------------------------------------------------------------------------
(* What is visible *)

Live(r) == ~Withdrawn(r) /\ ~Withdrawn(Top(r))
Unverified == Before \cup {"check", "rename"}
Synced == {"mark", "committed"} \cup Marked

\* What a run that nobody empties has in its directory.
Kept ==
    \A r \in Runs :
        /\ Live(r) => \A f \in Files : Home[f] = r => content[f] # "wiped"
        /\ Live(r) /\ pc[r] \in Marked \cup {"committed"} => content[Marker[r]] = "data"
        /\ pc[r] \in Committing \cup {"committed"} => \A f \in writers : Home[f] # r
        /\ pc[r] \in Synced =>
              \A f \in Files : Home[f] = r /\ content[f] # "none" /\ f \notin moved => f \in durable

\* Until its rename a run is not seen, and nobody else's directory is under its staging name.
Unseen ==
    \A r \in Runs : pc[r] \in Unverified =>
        at[Stage(r)] \in {r, Foreign, Nothing} /\ at[Final(r)] # r

\* A run that is being emptied stays so.
LEMMA WithdrawnStays ==
    ASSUME Shapes, [Next]_vars, NEW r \in Runs
    PROVE  /\ Withdrawn(r) => Withdrawn(r)'
           /\ Top(r)' = Top(r)
           /\ Live(r)' => Live(r)
<1>1. \A s \in Runs : Withdrawn(s) => Withdrawn(s)'
    BY PcStep DEF Withdrawn, Cleaning, Moves
<1>2. Top(r)' = Top(r) /\ Top(r) \in Runs
    BY LayoutStep, TopFacts DEF Top, Outer
<1> QED
    BY <1>1, <1>2 DEF Live

\* Whatever is wiped is wiped for a run that is emptied, or for its enclosing run.
LEMMA WipedForTheWithdrawn ==
    ASSUME Shapes, Owners, [Next]_vars, NEW f \in Files, content[f] # "wiped", content'[f] = "wiped"
    PROVE  ~Live(Home[f])'
<1>0. Home[f] \in Runs
    BY HomeType
<1>1. content = [g \in Files |-> content[g]]
    BY DEF Shapes
<1>2. ASSUME OwedWell(f)
      PROVE  ~Live(Home[f])'
    <2>1. Withdrawn(Home[f]) \/ Withdrawn(Top(Home[f]))
        BY <1>2, FilesAssumption, LayoutFacts DEF OwedWell, Gone, Withdrawn, Top, Shapes
    <2> QED
        BY <1>0, <2>1, WithdrawnStays DEF Live
<1>3. ASSUME NEW s \in Runs, Withdrawn(s)', Home[f] = s \/ Outer(Home[f]) = s
      PROVE  ~Live(Home[f])'
    <2>1. Home[f] = s \/ Top(Home[f]) = s
        BY <1>3, FilesAssumption DEF Top
    <2>2. Top(Home[f])' = Top(Home[f])
        BY <1>0, WithdrawnStays
    <2> QED
        BY <1>3, <2>1, <2>2 DEF Live
<1>4. ASSUME NEW r \in Runs, Enter(r) \/ EnterBlocked(r)
      PROVE  ~Live(Home[f])'
    <2>1. PICK failed \in SUBSET registry : Wipe(registry \ failed)
        BY <1>4 DEF Enter, EnterBlocked, Retry
    <2>2. f \in registry
        BY <2>1 DEF Wipe
    <2> QED
        BY <2>2, <1>2, OwnersParts
<1>5. ASSUME NEW r \in Runs, WipeRetained(r) \/ WipePins(r) \/ Drop(r)
      PROVE  ~Live(Home[f])'
    <2>1. PICK failed \in SUBSET fds[r] : Wipe(fds[r] \ failed)
        BY <1>5 DEF WipeRetained, WipePins, Drop
    <2>2. f \in fds[r]
        BY <2>1 DEF Wipe
    <2>3. Home[f] = r \/ Outer(Home[f]) = r
        BY <2>2, OwnersParts DEF HeldWell
    <2>4. Withdrawn(r)'
        BY <1>5 DEF WipeRetained, WipePins, Drop, Goto, Shapes, Withdrawn, Cleaning
    <2> QED
        BY <2>3, <2>4, <1>3
<1>6. ASSUME NEW r \in Runs, ClearTree(r)
      PROVE  ~Live(Home[f])'
    <2>1. PICK failed \in SUBSET TreeOf(r) : Wipe(TreeOf(r) \ failed)
        BY <1>6 DEF ClearTree
    <2>2. f \in TreeOf(r)
        BY <2>1 DEF Wipe
    <2>3. Home[f] = r \/ Outer(Home[f]) = r
        BY <2>2 DEF TreeOf, InTree, Nested
    <2>4. Withdrawn(r)'
        BY <1>6 DEF ClearTree, Goto, Shapes, Withdrawn, Cleaning
    <2> QED
        BY <2>3, <2>4, <1>3
<1>7. ASSUME NEW r \in Runs, NEW g \in Files,
             CreateFile(r, g) \/ AddDirect(r, g) \/ Write(r, g) \/ CloseFile(r, g)
      PROVE  FALSE
    <2>1. content' = content \/ content' = [content EXCEPT ![g] = "empty"]
            \/ content' = [content EXCEPT ![g] = "data"]
        BY <1>7 DEF CreateFile, AddDirect, Write, CloseFile
    <2> QED
        BY <1>1, <2>1
<1>8. ASSUME NEW r \in Runs, Commit(r)
      PROVE  FALSE
    <2>1. content' = content \/ content' = [content EXCEPT ![Marker[r]] = "data"]
        BY <1>8 DEF Commit, BeginCommit, SyncTree, Mark, Check, Rename, Verify, Confirm, tree
    <2> QED
        BY <1>1, <2>1
<1>9. ASSUME NEW r \in Runs, PinTree(r) \/ Release(r) \/ Abort(r) \/ FindName(r) \/ Retire(r) \/ Fault(r)
      PROVE  FALSE
    BY <1>9 DEF PinTree, Release, Abort, FindName, Retire, Fault, CommitFault, Interrupt, tree
<1>10. CASE Others \/ UNCHANGED vars
    BY <1>10 DEF Others, MoveOut, MoveAway, Occupy, Disturb, vars, tree
<1> QED
    BY <1>4, <1>5, <1>6, <1>7, <1>8, <1>9, <1>10 DEF Next, Build, Cleanup

\* Data stays until it is wiped.
LEMMA DataStays ==
    ASSUME Shapes, Owners, [Next]_vars, NEW f \in Files, content[f] = "data"
    PROVE  content'[f] \in {"data", "wiped"}
<1>0. content = [g \in Files |-> content[g]]
    BY DEF Shapes
<1>1. ASSUME NEW done \in SUBSET Files, Wipe(done)
      PROVE  content'[f] \in {"data", "wiped"}
    BY <1>1 DEF Wipe
<1>2. ASSUME NEW g \in Files, content[g] # "data" \/ Sets(g, "data"), Sets(g, "empty") \/ Sets(g, "data")
      PROVE  content'[f] \in {"data", "wiped"}
    BY <1>0, <1>2 DEF Sets
<1>3. \A r \in Runs : Marker[r] \in Files
    BY HomeFacts
<1> QED
    BY <1>1, <1>2, <1>3, ContentKinds

\* Files that are open belong to open runs.
LEMMA WritersStep ==
    ASSUME Shapes, [Next]_vars
    PROVE  /\ \A f \in writers' : f \in writers \/ pc'[Home[f]] = "open"
           /\ \A r \in Runs : pc[r] = "open" /\ pc'[r] = "sync" => \A f \in writers' : Home[f] # r
<1>0. pc = [s \in Runs |-> pc[s]]
    BY DEF Shapes
<1>1. ASSUME NEW r \in Runs, NEW g \in Files, CreateFile(r, g)
      PROVE  pc' = pc /\ \A f \in writers' : f \in writers \/ pc'[Home[f]] = "open"
    BY <1>1 DEF CreateFile, Building
<1>2. ASSUME NEW r \in Runs, BeginCommit(r)
      PROVE  /\ writers' = writers
             /\ \/ pc' = [pc EXCEPT ![r] = "wipe"]
                \/ pc' = [pc EXCEPT ![r] = "sync"] /\ \A f \in writers : Home[f] # r
    BY <1>2 DEF BeginCommit, Quiet, Goto, tree
<1>3. ASSUME NEW r \in Runs, Build(r), \A g \in Files : ~CreateFile(r, g)
      PROVE  /\ writers' \subseteq writers
             /\ pc' = pc \/ \E b \in {"refused", "open", "wiped"} : pc' = [pc EXCEPT ![r] = b]
    <2>1. CASE Enter(r)
        <3>1. writers' = writers
            BY <2>1 DEF Enter
        <3>2. pc' = [pc EXCEPT ![r] = "refused"] \/ pc' = [pc EXCEPT ![r] = "open"]
            BY <2>1 DEF Enter, Goto
        <3> QED
            BY <3>1, <3>2
    <2>2. CASE EnterBlocked(r)
        BY <2>2 DEF EnterBlocked
    <2>3. CASE PinTree(r) \/ Release(r)
        BY <2>3 DEF PinTree, Release, tree
    <2>4. CASE WipeRetained(r)
        BY <2>4 DEF WipeRetained, Goto
    <2>5. ASSUME NEW g \in Files, Write(r, g) \/ CloseFile(r, g) \/ AddDirect(r, g)
          PROVE  writers' \subseteq writers /\ pc' = pc
        BY <2>5 DEF Write, CloseFile, AddDirect
    <2> QED
        BY <1>3, <2>1, <2>2, <2>3, <2>4, <2>5 DEF Build
<1>4. ASSUME NEW r \in Runs, Commit(r), ~BeginCommit(r)
      PROVE  /\ writers' \subseteq writers
             /\ \E b \in {"mark", "check", "rename", "verify", "confirm", "committed", "wipe"} :
                    pc' = [pc EXCEPT ![r] = b]
    <2>1. writers' \subseteq writers
        BY <1>4 DEF Commit, SyncTree, Mark, Check, Rename, Verify, Confirm, tree
    <2>2. CASE SyncTree(r) \/ Mark(r) \/ Check(r) \/ Rename(r)
        BY <2>1, <2>2 DEF SyncTree, Mark, Check, Rename, Quiet, Goto
    <2>3. CASE Verify(r) \/ Confirm(r)
        BY <2>1, <2>3 DEF Verify, Confirm, Rollback, Quiet, Goto
    <2> QED
        BY <1>4, <2>2, <2>3 DEF Commit
<1>5. ASSUME NEW r \in Runs, Cleanup(r) \/ Fault(r)
      PROVE  /\ writers' \subseteq writers
             /\ \E b \in Cleaning \cup {"failed"} : pc' = [pc EXCEPT ![r] = b]
    BY <1>5 DEF Cleanup, Abort, WipePins, ClearTree, FindName, Retire, Drop, Fault, CommitFault, Interrupt,
                Quiet, Goto, Cleaning, tree
<1>6. CASE Others \/ UNCHANGED vars
    BY <1>6 DEF Others, MoveOut, MoveAway, Occupy, Disturb, vars, tree
<1>7. CASE \E r \in Runs : Build(r)
    BY <1>0, <1>1, <1>3, <1>7
<1>8. CASE \E r \in Runs : Commit(r)
    BY <1>0, <1>2, <1>4, <1>8
<1>9. CASE \E r \in Runs : Cleanup(r) \/ Fault(r)
    BY <1>0, <1>5, <1>9 DEF Cleaning
<1> QED
    BY <1>6, <1>7, <1>8, <1>9 DEF Next

\* What reached the disk stays there, what was moved out stays out, and the two steps that
\* write a directory's files through.
LEMMA DurableStep ==
    ASSUME Shapes, [Next]_vars
    PROVE  /\ durable \subseteq durable' /\ moved \subseteq moved'
           /\ \A r \in Runs : pc[r] = "sync" /\ pc'[r] = "mark" =>
                 TreeOf(r) \subseteq durable' /\ content' = content
           /\ \A r \in Runs : pc[r] = "mark" /\ pc'[r] = "check" => Marker[r] \in durable'
<1>0. pc = [s \in Runs |-> pc[s]]
    BY DEF Shapes
<1>1. ASSUME NEW r \in Runs, SyncTree(r)
      PROVE  /\ durable' = durable \cup TreeOf(r) /\ moved' = moved /\ content' = content
             /\ \E b \in {"mark", "wipe"} : pc' = [pc EXCEPT ![r] = b]
             /\ pc[r] = "sync"
    BY <1>1 DEF SyncTree, Quiet, Goto
<1>2. ASSUME NEW r \in Runs, Mark(r)
      PROVE  /\ durable' = durable \cup {Marker[r]} /\ moved' = moved
             /\ pc' = [pc EXCEPT ![r] = "check"] /\ pc[r] = "mark"
    BY <1>2 DEF Mark, Quiet, Goto
<1>3. ASSUME NEW r \in Runs, Build(r)
      PROVE  /\ durable \subseteq durable' /\ moved' = moved
             /\ pc' = pc \/ \E b \in {"refused", "open", "wiped"} : pc' = [pc EXCEPT ![r] = b]
    BY <1>3 DEF Build, Enter, EnterBlocked, Retry, Wipe, PinTree, CreateFile, Write, CloseFile, AddDirect,
                Release, WipeRetained, Goto, tree
<1>4. ASSUME NEW r \in Runs, Commit(r), ~SyncTree(r), ~Mark(r)
      PROVE  /\ durable' = durable /\ moved' = moved
             /\ \E b \in {"sync", "rename", "verify", "confirm", "committed", "wipe"} :
                    pc' = [pc EXCEPT ![r] = b]
    <2>1. durable' = durable /\ moved' = moved
        BY <1>4 DEF Commit, BeginCommit, Check, Rename, Verify, Confirm, tree
    <2>2. CASE BeginCommit(r) \/ Check(r) \/ Rename(r)
        BY <2>1, <2>2 DEF BeginCommit, Check, Rename, Quiet, Goto
    <2>3. CASE Verify(r) \/ Confirm(r)
        BY <2>1, <2>3 DEF Verify, Confirm, Rollback, Quiet, Goto
    <2> QED
        BY <1>4, <2>2, <2>3 DEF Commit
<1>5. ASSUME NEW r \in Runs, Cleanup(r) \/ Fault(r)
      PROVE  /\ durable \subseteq durable' /\ moved' = moved
             /\ \E b \in Cleaning \cup {"failed"} : pc' = [pc EXCEPT ![r] = b]
    BY <1>5 DEF Cleanup, Abort, WipePins, ClearTree, FindName, Retire, Drop, Wipe, Fault, CommitFault,
                Interrupt, Quiet, Goto, Cleaning, tree
<1>6. CASE Others \/ UNCHANGED vars
    BY <1>6 DEF Others, MoveOut, MoveAway, Occupy, Disturb, vars, tree
<1>7. CASE \E r \in Runs : Build(r)
    BY <1>0, <1>3, <1>7
<1>8. CASE \E r \in Runs : Commit(r)
    BY <1>0, <1>1, <1>2, <1>4, <1>8
<1>9. CASE \E r \in Runs : Cleanup(r) \/ Fault(r)
    BY <1>0, <1>5, <1>9 DEF Cleaning
<1> QED
    BY <1>6, <1>7, <1>8, <1>9 DEF Next
\* What a run that nobody empties keeps is kept.
LEMMA KeptStep ==
    ASSUME Shapes, Owners, Stands, Kept, [Next]_vars
    PROVE  Kept'
<1> SUFFICES ASSUME NEW r \in Runs
             PROVE  /\ Live(r)' => \A f \in Files : Home[f] = r => content'[f] # "wiped"
                    /\ Live(r)' /\ pc'[r] \in Marked \cup {"committed"} => content'[Marker[r]] = "data"
                    /\ pc'[r] \in Committing \cup {"committed"} => \A f \in writers' : Home[f] # r
                    /\ pc'[r] \in Synced =>
                          \A f \in Files : Home[f] = r /\ content'[f] # "none" /\ f \notin moved' => f \in durable'
    BY DEF Kept
<1>0. pc'[r] = pc[r] \/ Moves(pc[r], pc'[r])
    BY PcStep
<1>1. ASSUME Live(r)', NEW f \in Files, Home[f] = r
      PROVE  content'[f] # "wiped"
    <2>1. content[f] # "wiped"
        BY <1>1, WithdrawnStays DEF Kept
    <2> QED
        BY <1>1, <2>1, WipedForTheWithdrawn
<1>2. ASSUME Live(r)', pc'[r] \in Marked \cup {"committed"}
      PROVE  content'[Marker[r]] = "data"
    <2>1. CASE pc[r] = "mark" /\ pc'[r] = "check"
        BY <2>1, MarkerWritten
    <2>2. CASE pc[r] \in Marked \cup {"committed"}
        <3>1. content[Marker[r]] = "data"
            BY <1>2, <2>2, WithdrawnStays DEF Kept
        <3>2. content'[Marker[r]] \in {"data", "wiped"}
            BY <3>1, HomeFacts, DataStays
        <3> QED
            BY <1>2, <1>1, <3>2, HomeFacts
    <2> QED
        BY <1>0, <1>2, <2>1, <2>2 DEF Moves, Marked
<1>3. ASSUME pc'[r] \in Committing \cup {"committed"}, NEW f \in writers'
      PROVE  Home[f] # r
    <2>1. CASE pc[r] = "open" /\ pc'[r] = "sync"
        BY <2>1, WritersStep
    <2>2. CASE pc[r] \in Committing \cup {"committed"}
        <3>1. f \in writers \/ pc'[Home[f]] = "open"
            BY WritersStep
        <3> QED
            BY <1>3, <2>2, <3>1 DEF Kept, Committing
    <2> QED
        BY <1>0, <1>3, <2>1, <2>2 DEF Moves, Committing
<1>4. ASSUME pc'[r] \in Synced, NEW f \in Files, Home[f] = r, content'[f] # "none", f \notin moved'
      PROVE  f \in durable'
    <2>1. CASE pc[r] = "sync" /\ pc'[r] = "mark"
        <3>1. TreeOf(r) \subseteq durable' /\ content' = content /\ moved \subseteq moved'
            BY <2>1, DurableStep
        <3> QED
            BY <1>4, <3>1 DEF TreeOf, InTree
    <2>2. CASE pc[r] \in Synced /\ content[f] # "none"
        BY <1>4, <2>2, DurableStep DEF Kept
    <2>3. CASE pc[r] \in Synced /\ content[f] = "none"
        <3>1. pc[r] # "open"
            BY <2>3 DEF Synced, Marked
        <3>2. PICK s \in Runs : pc[s] = "mark" /\ pc'[s] = "check" /\ f = Marker[s]
            BY <1>4, <2>3, <3>1, ContentStep
        <3>3. s = r
            BY <1>4, <3>2, HomeFacts
        <3> QED
            BY <3>2, <3>3, DurableStep
    <2> QED
        BY <1>0, <1>4, <2>1, <2>2, <2>3 DEF Moves, Synced, Marked
<1> QED
    BY <1>1, <1>2, <1>3, <1>4

\* How a directory comes to be found at a name.
Comes(n) ==
    \/ at'[n] = at[n] \/ at'[n] \in {Nothing, Foreign}
    \/ \E s \in Runs :
          \/ n = Stage(s) /\ at'[n] = s
          \/ n = Final(s) /\ at'[n] = at[Stage(s)] /\ pc[s] = "rename" /\ pc'[s] = "verify"
          \/ n = Stage(s) /\ pc'[s] = "wipe" /\ pc[s] \in {"verify", "confirm"}

LEMMA ComesStep ==
    ASSUME Shapes, [Next]_vars, NEW n \in Places
    PROVE  Comes(n)
<1>0. at = [m \in Places |-> at[m]] /\ pc = [s \in Runs |-> pc[s]]
    BY DEF Shapes
<1>1. CASE at' = at
    BY <1>1 DEF Comes
<1>2. ASSUME NEW r \in Runs, Enter(r), at' # at
      PROVE  Comes(n)
    BY <1>0, <1>2 DEF Enter, names, Comes
<1>3. ASSUME NEW r \in Runs, Rename(r), at' # at
      PROVE  Comes(n)
    <2>1. at' = [at EXCEPT ![Final(r)] = at[Stage(r)], ![Stage(r)] = Nothing]
        BY <1>3 DEF Rename, RenameNoReplace
    <2>2. pc[r] = "rename" /\ pc'[r] = "verify"
        BY <1>0, <1>3 DEF Rename, Quiet, Goto
    <2> QED
        BY <1>0, <2>1, <2>2 DEF Comes
<1>4. ASSUME NEW r \in Runs, Verify(r) \/ Confirm(r), at' # at
      PROVE  Comes(n)
    <2>1. Rollback(r) /\ pc[r] \in {"verify", "confirm"}
        BY <1>4 DEF Verify, Confirm
    <2>2. at' = [at EXCEPT ![Stage(r)] = at[Final(r)], ![Final(r)] = Nothing]
        BY <1>4, <2>1 DEF Rollback, RenameNoReplace
    <2>3. pc'[r] = "wipe"
        BY <1>0, <2>1 DEF Rollback, Quiet, Goto
    <2> QED
        BY <1>0, <2>1, <2>2, <2>3 DEF Comes
<1>5. ASSUME NEW r \in Runs, Retire(r), at' # at
      PROVE  Comes(n)
    BY <1>0, <1>5 DEF Retire, Comes
<1>6. CASE Others
    BY <1>0, <1>6 DEF Others, MoveOut, MoveAway, Occupy, Comes
<1>7. ASSUME NEW r \in Runs, Build(r), ~Enter(r)
      PROVE  at' = at
    BY <1>7 DEF Build, EnterBlocked, PinTree, CreateFile, Write, CloseFile, AddDirect, Release,
                WipeRetained, names
<1>8. ASSUME NEW r \in Runs, BeginCommit(r) \/ SyncTree(r) \/ Mark(r) \/ Check(r)
      PROVE  at' = at
    BY <1>8 DEF BeginCommit, SyncTree, Mark, Check, names
<1>9. ASSUME NEW r \in Runs, Cleanup(r) \/ Fault(r), ~Retire(r)
      PROVE  at' = at
    BY <1>9 DEF Cleanup, Abort, WipePins, ClearTree, FindName, Drop, Fault, CommitFault, Interrupt, names
<1>10. CASE UNCHANGED vars
    BY <1>1, <1>10 DEF vars, names
<1>11. ASSUME NEW r \in Runs, Commit(r)
       PROVE  Comes(n)
    BY <1>11, <1>1, <1>3, <1>4, <1>8 DEF Commit
<1> QED
    BY <1>1, <1>2, <1>5, <1>6, <1>7, <1>9, <1>10, <1>11 DEF Next

LEMMA UnseenStep ==
    ASSUME Shapes, Unseen, [Next]_vars
    PROVE  Unseen'
<1> SUFFICES ASSUME NEW r \in Runs, pc'[r] \in Unverified
             PROVE  at'[Stage(r)] \in {r, Foreign, Nothing} /\ at'[Final(r)] # r
    BY LayoutStep DEF Unseen, Unverified, Before, Stage, Final
<1>0. Foreign \notin Runs /\ Nothing \notin Runs
    BY FilesAssumption
<1>1. pc[r] \in Unverified
    BY PcStep DEF Moves, Unverified, Before
<1>2. at[Stage(r)] \in {r, Foreign, Nothing} /\ at[Final(r)] # r
    BY <1>1 DEF Unseen
<1>3. Stage(r) \in Places /\ Final(r) \in Places
    BY LayoutFacts DEF Shapes
<1>4. at'[Stage(r)] \in {r, Foreign, Nothing}
    <2>1. Comes(Stage(r))
        BY <1>3, ComesStep
    <2>2. \A s \in Runs : Stage(r) # Final(s) /\ (Stage(r) = Stage(s) => s = r)
        BY DEF Stage, Final
    <2>3. pc'[r] # "wipe"
        BY DEF Unverified, Before
    <2> QED
        BY <1>2, <2>1, <2>2, <2>3 DEF Comes
<1>5. at'[Final(r)] # r
    <2>1. Comes(Final(r))
        BY <1>3, ComesStep
    <2>2. \A s \in Runs : Final(r) # Stage(s)
        BY DEF Stage, Final
    <2>3. ASSUME NEW s \in Runs, pc[s] = "rename", pc'[s] = "verify"
          PROVE  at[Stage(s)] # r
        <3>1. at[Stage(s)] \in {s, Foreign, Nothing}
            BY <2>3 DEF Unseen, Unverified
        <3>2. s # r
            BY <2>3 DEF Unverified, Before
        <3> QED
            BY <1>0, <3>1, <3>2
    <2> QED
        BY <1>0, <1>2, <2>1, <2>2, <2>3 DEF Comes
<1> QED
    BY <1>4, <1>5

\* A directory found under its final name is whole, at every moment until its run fails.
THEOREM VisibleWhole == Spec => []VisibleIsComplete
<1>1. Init => Shapes /\ Owners /\ Stands /\ Kept /\ Unseen
    <2> SUFFICES ASSUME Init PROVE Kept /\ Unseen
        BY InitShapes, InitAccount
    <2>1. Kept
        BY DEF Init, Kept, Committing, Synced, Marked
    <2>2. Unseen
        BY FilesAssumption, InitShapes, LayoutFacts DEF Init, Unseen, Shapes
    <2> QED
        BY <2>1, <2>2
<1>2. Shapes /\ Owners /\ Stands /\ Kept /\ Unseen /\ [Next]_vars
        => (Shapes /\ Owners /\ Stands /\ Kept /\ Unseen)'
    BY ShapesStep, OwnersStep, StandsStep, KeptStep, UnseenStep
<1>3. Shapes /\ Kept /\ Unseen => VisibleIsComplete
    <2> SUFFICES ASSUME Shapes, Kept, Unseen, NEW r \in Runs, at[Final(r)] = r, Live(r)
                 PROVE  /\ content[Marker[r]] = "data"
                        /\ \A f \in TreeOf(r) :
                              Home[f] = r => f \in durable /\ f \notin writers /\ content[f] # "wiped"
        BY DEF VisibleIsComplete, Live
    <2>1. pc[r] \in {"verify", "confirm", "committed"}
        <3>1. pc[r] \notin Unverified
            BY DEF Unseen
        <3>2. pc[r] \notin Cleaning \cup {"failed", "wiped"}
            BY DEF Live, Withdrawn
        <3> QED
            BY <3>1, <3>2 DEF Shapes, Unverified, Before, Ended, Committing, Cleaning
    <2> QED
        BY <2>1 DEF Kept, TreeOf, InTree, Marked, Committing, Synced
<1> QED
    BY <1>1, <1>2, <1>3, PTL DEF Spec
=============================================================================
