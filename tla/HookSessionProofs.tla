------------------------- MODULE HookSessionProofs -------------------------
(***************************************************************************)
(* What holds of the hooks for every repository, every number of calls in  *)
(* flight and every interleaving of their steps: type correctness, and     *)
(* that a path one of git's views lists is never weakened by a turn the    *)
(* sweep passes, with hooks lost and ptree saves failing at any point.     *)
(* Then what holds of one call at a time: nothing present is weakened even *)
(* where no view looks, and what was allowed is not denied again.          *)
(***************************************************************************)
EXTENDS MCHookSession, FiniteSetTheorems, TLAPS

\* The faults under which the turn's start is never misremembered: the saves
\* of the turn tree and of the marker succeed.
StartIsKept == "turntree" \notin Fault /\ "marker" \notin Fault

\* A tree as the index records it.
LEMMA AsPTreeType ==
    ASSUME NEW tree \in Tree
    PROVE  AsPTree(tree) \in PTree
  BY DEF AsPTree, PTree, Entry, Tree

\* What a shell command leaves is a worktree.
LEMMA ShellEffectType ==
    ASSUME WorktreeTypeOK, ShellEffect
    PROVE  WorktreeTypeOK'
<1>1. CASE \E p \in Path, c \in Bytes : WriteFile(p, c)
  BY <1>1 DEF WorktreeTypeOK, WriteFile, Tree, Bytes
<1>2. CASE \E p \in Path : GitAdd(p)
  BY <1>2 DEF WorktreeTypeOK, GitAdd, Tree, Bytes
<1>3. CASE \E p \in Path : GitRmCached(p)
  BY <1>3 DEF WorktreeTypeOK, GitRmCached, Tree, Bytes
<1>4. CASE \E p \in Path : UpdateIndexHide(p)
  BY <1>4 DEF WorktreeTypeOK, UpdateIndexHide, Tracked, Tree
<1>5. CASE \E p \in Path : ExcludePath(p)
  BY <1>5 DEF WorktreeTypeOK, ExcludePath
<1>6. CASE GitCommit
  BY <1>6 DEF WorktreeTypeOK, GitCommit
<1> QED
  BY <1>1, <1>2, <1>3, <1>4, <1>5, <1>6 DEF ShellEffect

(***************************************************************************)
(* Type correctness.  TypeOK alone is not inductive: a snapshot, an amended *)
(* ptree or an edit may be missing (None) in general, but not at the labels *)
(* that use one.                                                           *)
(***************************************************************************)
CallInv ==
    \A k \in Call :
        /\ pc[k] \in {"firstSight", "firstTurnTree", "judge", "absorb"} => current[k] \in Tree
        /\ pc[k] = "sanctionSave" => expected[k] \in PTree
        /\ pc[k] = "sanction" => tool[k] \in Edits

StopInv == stopPc # "idle" => stopTree \in Tree

TInv == TypeOK /\ CallInv /\ StopInv

\* With or without an established session.
LEMMA InitTInv ==
    ASSUME InitFresh \/ InitEstablished
    PROVE  TInv
<1>1. InitWorktree /\ InitRest
  BY DEF InitFresh, InitEstablished
<1>2. AsPTree(disk) \in PTree
  BY <1>1, AsPTreeType DEF InitWorktree
<1>3. marker \in Tree \union {None} /\ ptree \in PTree \union {None} /\ turnTree \in Tree \union {None}
  BY <1>1, <1>2 DEF InitFresh, InitEstablished, InitWorktree
<1> QED
  BY <1>1, <1>3, HookAssumption
  DEF TInv, TypeOK, CallInv, StopInv, InitWorktree, InitRest, WorktreeTypeOK, CallStates

\* A tool call and its hook.
LEMMA CallTInv ==
    ASSUME TInv, NEW k \in Call, CallStep(k)
    PROVE  TInv'
<1> USE HookAssumption DEF TInv, TypeOK, CallInv, StopInv, worktree, state, process, sweep, history,
                           CallStates, Goto, Finish, Deny, Allow, ToolDone, Faulty, NoFault
<1>1. CASE \E t \in Tool : Begin(k, t)
  BY <1>1 DEF Begin, WorktreeTypeOK
<1>2. CASE ReadMarker(k)
  BY <1>2 DEF ReadMarker, WorktreeTypeOK
<1>3. CASE RecordMarker(k)
  BY <1>3 DEF RecordMarker, WorktreeTypeOK
<1>4. CASE LoadPtree(k)
  BY <1>4 DEF LoadPtree, WorktreeTypeOK
<1>5. CASE TakeSnapshot(k)
  BY <1>5 DEF TakeSnapshot, Snapshot, WorktreeTypeOK
<1>6. CASE FirstSight(k)
  BY <1>6, AsPTreeType DEF FirstSight, SavePtree, WorktreeTypeOK
<1>7. CASE FirstTurnTree(k)
  BY <1>7 DEF FirstTurnTree, SaveTurnTree, WorktreeTypeOK
<1>8. CASE NoDrift(k)
  BY <1>8, AsPTreeType DEF NoDrift, SavePtree, WorktreeTypeOK
<1>9. CASE DriftDeny(k)
  BY <1>9 DEF DriftDeny, WorktreeTypeOK
<1>10. CASE DriftClean(k)
  BY <1>10 DEF DriftClean, WorktreeTypeOK
<1>11. CASE Absorb(k)
  BY <1>11, AsPTreeType DEF Absorb, SavePtree, WorktreeTypeOK
<1>12. CASE Evaluate(k)
  <2>1. Changes(k) # {} => tool[k] \in Edits
    BY DEF Changes, Tool, Edits, Shell, NoTool
  <2> QED
    BY <1>12, <2>1 DEF Evaluate, WorktreeTypeOK
<1>13. CASE LoadSanctioned(k)
  <2>1. tool[k] \in Edits
    BY <1>13 DEF LoadSanctioned
  <2>2. ptree # None =>
          [ptree EXCEPT ![tool[k].path] = [bytes |-> tool[k].bytes, predicted |-> TRUE]] \in PTree
    BY <2>1 DEF PTree, Entry, Edits, Bytes
  <2> QED
    BY <1>13, <2>2 DEF LoadSanctioned, WorktreeTypeOK
<1>14. CASE SaveSanctioned(k)
  BY <1>14 DEF SaveSanctioned, SavePtree, WorktreeTypeOK
<1>15. CASE FailClosed(k)
  BY <1>15 DEF FailClosed, WorktreeTypeOK
<1>16. CASE HookLost(k)
  BY <1>16 DEF HookLost, WorktreeTypeOK
<1>17. CASE EditLands(k)
  <2>1. tool[k] \in Edits
    BY <1>17 DEF EditLands, Tool, Edits, Shell, NoTool
  <2>2. disk' \in Tree /\ landed' \subseteq Path
    BY <1>17, <2>1 DEF EditLands, Edits, Tree, Bytes, WorktreeTypeOK
  <2> QED
    BY <1>17, <2>2 DEF EditLands, WorktreeTypeOK
<1>18. CASE EditRejected(k)
  BY <1>18 DEF EditRejected, WorktreeTypeOK
<1>19. CASE ShellRuns(k)
  BY <1>19, ShellEffectType DEF ShellRuns
<1>20. CASE ShellExits(k)
  BY <1>20 DEF ShellExits, WorktreeTypeOK
<1> QED
  BY <1>1, <1>2, <1>3, <1>4, <1>5, <1>6, <1>7, <1>8, <1>9, <1>10, <1>11, <1>12, <1>13,
     <1>14, <1>15, <1>16, <1>17, <1>18, <1>19, <1>20 DEF CallStep

\* A Stop sweep.
LEMMA SweepTInv ==
    ASSUME TInv, SweepStep
    PROVE  TInv'
<1> USE HookAssumption DEF TInv, TypeOK, CallInv, StopInv, worktree, state, process, sweep, history,
                           Faulty, NoFault, WorktreeTypeOK
<1>1. CASE StopBlocks
  BY <1>1 DEF StopBlocks, SweepBase
<1>2. CASE StopPasses
  BY <1>2 DEF StopPasses, SweepBase, Snapshot
<1>3. CASE StopSavesPtree
  BY <1>3, AsPTreeType DEF StopSavesPtree, SavePtree
<1>4. CASE StopSavesTurnTree
  BY <1>4 DEF StopSavesTurnTree, SaveTurnTree
<1>5. CASE StopAdvances
  BY <1>5 DEF StopAdvances
<1>6. CASE SweepLost
  BY <1>6 DEF SweepLost
<1> QED
  BY <1>1, <1>2, <1>3, <1>4, <1>5, <1>6 DEF SweepStep

\* Every step keeps the types.
LEMMA NextTInv == TInv /\ [Next]_vars => TInv'
<1> SUFFICES ASSUME TInv, [Next]_vars PROVE TInv'
  OBVIOUS
<1>1. CASE Next
  BY <1>1, CallTInv, SweepTInv DEF Next
<1>2. CASE UNCHANGED vars
  BY <1>2 DEF vars, worktree, state, process, sweep, history,
              TInv, TypeOK, CallInv, StopInv, WorktreeTypeOK
<1> QED
  BY <1>1, <1>2

\* Every state a session reaches has the shape TypeOK gives it, whether it
\* starts with no state files or with the three of them.
THEOREM TypeCorrect == Spec => []TypeOK
<1>1. InitEstablished => TInv
  BY InitTInv
<1>2. TInv => TypeOK
  BY DEF TInv
<1> QED
  BY <1>1, <1>2, NextTInv, PTL DEF Spec

\* The same of a session that has yet to establish its baseline.  (ensureBaseline)
THEOREM TypeCorrectFresh == SpecFresh => []TypeOK
<1>1. InitFresh => TInv
  BY InitTInv
<1>2. TInv => TypeOK
  BY DEF TInv
<1> QED
  BY <1>1, <1>2, NextTInv, PTL DEF SpecFresh

(***************************************************************************)
(* A passed sweep leaves no listed path weakened.  The argument does not    *)
(* use the ptree: the marker is the turn's starting HEAD, and what the      *)
(* turn tree excuses was sound when the turn tree was written.              *)
(***************************************************************************)
Listable == Path \ (excluded \union Unlisted)

TurnTreeSound ==
    turnTree # None =>
        \A p \in Listable : turnTree[p] # Absent => SoundBytes(p, turnTree[p])

\* No first sight happens again in a session whose files stand.
Established ==
    /\ marker = startHead
    /\ ptree # None
    /\ \A k \in Call :
          /\ pc[k] \notin {"record", "firstSight", "firstTurnTree"}
          /\ pc[k] = "snapshot" => expected[k] # None

\* While the sweep writes, nothing moves under it.
SweepInv ==
    stopPc # "idle" =>
        /\ AllIdle
        /\ stopTree = disk
        /\ \A p \in Path : Visible(p) => SoundBytes(p, disk[p])
        /\ stopPc = "marker" => turnTree = disk

SInv == Established /\ TurnTreeSound /\ SweepInv

\* What the turn began with is sound.
LEMMA SameBytesSound ==
    ASSUME NEW p \in Path, NEW bytes, turnStart[p] = bytes
    PROVE  SoundBytes(p, bytes)
  BY DEF SoundBytes, Blocking

\* A listed path the sweep did not deny is sound: git's diff shows it against
\* the turn's HEAD, or it is an add, or the turn tree excuses it.
LEMMA SweepJudges ==
    ASSUME TypeOK, marker = startHead, marker # None, TurnTreeSound,
           SweepDenied(SweepBase) = {}, NEW p \in Path, Visible(p)
    PROVE  SoundBytes(p, disk[p])
<1>1. SweepBase = startHead
  BY DEF SweepBase
<1> DEFINE V == TurnView(startHead, ptree, turnTree)
<1>2. \A c \in V : ~ BlockedChange(c)
  BY <1>1 DEF SweepDenied, PathsOf
<1>3. \A c \in DiffSince(startHead) : c \in V
  BY DEF TurnView
<1>4. startHead[p] # WorkSide(p) =>
        ~ Blocking(startHead[p], IF WorkSide(p) = Absent THEN Absent ELSE disk[p])
  <2> SUFFICES ASSUME startHead[p] # WorkSide(p)
               PROVE  ~ Blocking(startHead[p], IF WorkSide(p) = Absent THEN Absent ELSE disk[p])
    OBVIOUS
  <2> DEFINE c == ChangeOf(p, startHead[p], IF WorkSide(p) = Absent THEN Absent ELSE disk[p])
  <2>1. c \in DiffSince(startHead)
    BY DEF DiffSince
  <2>2. ~ BlockedChange(c)
    BY <2>1, <1>2, <1>3
  <2> QED
    BY <2>2 DEF BlockedChange, ChangeOf
<1>5. \A q \in Path : q \in PathsOf(DiffSince(startHead)) <=> startHead[q] # WorkSide(q)
  <2> DEFINE after(q) == IF WorkSide(q) = Absent THEN Absent ELSE disk[q]
             shown == {q \in Path : startHead[q] # WorkSide(q)}
  <2>1. DiffSince(startHead) = {ChangeOf(q, startHead[q], after(q)) : q \in shown}
    BY DEF DiffSince
  <2>2. \A q : ChangeOf(q, startHead[q], after(q)).path = q
    BY DEF ChangeOf
  <2> HIDE DEF after
  <2>3. ASSUME NEW q \in PathsOf(DiffSince(startHead)) PROVE q \in shown
    <3>1. PICK c \in DiffSince(startHead) : q = c.path
      BY <2>3 DEF PathsOf
    <3>2. PICK r \in shown : c = ChangeOf(r, startHead[r], after(r))
      BY <3>1, <2>1
    <3> QED
      BY <3>1, <3>2, <2>2
  <2>4. ASSUME NEW q \in shown PROVE q \in PathsOf(DiffSince(startHead))
    BY <2>1, <2>2 DEF PathsOf
  <2> QED
    BY <2>3, <2>4
<1>6. disk[p] # Absent /\ ~ Blocking(Absent, disk[p]) => SoundBytes(p, disk[p])
  BY WorktreeAssumption DEF SoundBytes, Blocking
<1>7. CASE startHead[p] # Absent
  <2>1. CASE p \in Tracked /\ p \in hidden
    <3>1. CASE startHead[p] # WorkSide(p)
      <4>1. WorkSide(p) # Absent
        BY <2>1 DEF WorkSide, Tracked
      <4> QED
        BY <1>4, <3>1, <4>1, <1>7 DEF SoundBytes
    <3>2. CASE startHead[p] = WorkSide(p) /\ startHead[p] # disk[p]
      <4> DEFINE c == ChangeOf(p, startHead[p], disk[p])
      <4>1. p \notin PathsOf(DiffSince(startHead))
        BY <1>5, <3>2
      <4>2. \A q \in UntrackedPaths \union IgnoredPaths : q # p
        BY <2>1 DEF UntrackedPaths, IgnoredPaths
      <4>3. c \in V
        BY <2>1, <3>2, <4>1, <4>2 DEF TurnView, HiddenTrackedPaths, PathsOf, AddOf, ChangeOf
      <4>4. ~ Blocking(startHead[p], disk[p])
        BY <4>3, <1>2 DEF BlockedChange, ChangeOf
      <4> QED
        BY <4>4, <1>7 DEF SoundBytes
    <3>3. CASE startHead[p] = disk[p]
      BY <3>3, <1>7 DEF SoundBytes, Blocking
    <3> QED
      BY <3>1, <3>2, <3>3
  <2>2. CASE p \in Tracked /\ p \notin hidden
    <3>1. WorkSide(p) = disk[p]
      BY <2>2 DEF WorkSide
    <3> QED
      BY <3>1, <1>4, <1>7 DEF SoundBytes, Blocking
  <2>3. CASE p \notin Tracked
    <3>1. WorkSide(p) = Absent
      BY <2>3 DEF WorkSide, Tracked
    <3> QED
      BY <3>1, <1>4, <1>7 DEF SoundBytes, Blocking
  <2> QED
    BY <2>1, <2>2, <2>3
<1>8. CASE startHead[p] = Absent
  <2>1. disk[p] # Absent /\ (p \in Tracked \/ p \in Listable)
    BY <1>8 DEF Visible, Listable
  <2>2. CASE p \in Tracked
    <3>1. WorkSide(p) # Absent
      BY <2>1, <2>2 DEF WorkSide, Tracked
    <3> QED
      BY <3>1, <2>1, <1>4, <1>6, <1>8
  <2>3. CASE p \notin Tracked /\ ~ Untouched(p, ptree, turnTree)
    <3>1. p \notin PathsOf(DiffSince(startHead))
      BY <1>5, <1>8, <2>3 DEF WorkSide, Tracked
    <3>2. p \in UntrackedPaths
      BY <2>1, <2>3 DEF UntrackedPaths, OnDisk, Listable
    <3>3. AddOf(p) \in V
      BY <3>1, <3>2, <2>3 DEF TurnView
    <3>4. ~ Blocking(Absent, disk[p])
      BY <3>3, <1>2 DEF BlockedChange, AddOf, ChangeOf
    <3> QED
      BY <3>4, <2>1, <1>6
  <2>4. CASE p \notin Tracked /\ Untouched(p, ptree, turnTree)
    <3>1. turnTree # None /\ turnTree[p] = disk[p]
      BY <2>4 DEF Untouched, HashOnDisk
    <3>2. p \in Listable
      BY <2>1, <2>4
    <3> QED
      BY <3>1, <3>2, <2>1 DEF TurnTreeSound
  <2> QED
    BY <2>2, <2>3, <2>4
<1> QED
  BY <1>7, <1>8

\* An established session has nothing to sweep.
LEMMA InitSInv ==
    ASSUME InitEstablished
    PROVE  SInv
<1>1. marker = startHead /\ turnTree = turnStart /\ stopPc = "idle" /\ ptree \in PTree
  BY AsPTreeType DEF InitEstablished, InitRest, InitWorktree
<1>2. Established
  BY <1>1, HookAssumption DEF Established, InitEstablished, InitRest
<1>3. TurnTreeSound
  BY <1>1, SameBytesSound DEF TurnTreeSound, Listable
<1> QED
  BY <1>1, <1>2, <1>3 DEF SInv, SweepInv

\* A step of a call moves neither the turn's start nor the turn tree, and no
\* call steps while the sweep writes.
LEMMA CallSInv ==
    ASSUME TInv, SInv, NEW k \in Call, CallStep(k)
    PROVE  SInv'
<1> USE DEF Goto, Finish, Deny, Allow, ToolDone, state, process, sweep, history, worktree
<1>1. stopPc = "idle" /\ stopPc' = "idle"
  <2>1. stopPc # "idle" => pc[k] = "idle"
    BY DEF SInv, SweepInv, AllIdle
  <2> QED
    BY <2>1 DEF CallStep, Begin, ReadMarker, RecordMarker, LoadPtree, TakeSnapshot, FirstSight,
       FirstTurnTree, NoDrift, DriftDeny, DriftClean, Absorb, Evaluate, LoadSanctioned,
       SaveSanctioned, FailClosed, HookLost, EditLands, EditRejected, ShellRuns, ShellExits
<1>2. pc[k] \notin {"record", "firstSight", "firstTurnTree"}
  BY DEF SInv, Established
<1>3. UNCHANGED <<marker, turnTree, turnStart, startHead>>
  BY <1>2 DEF CallStep, Begin, ReadMarker, RecordMarker, LoadPtree, TakeSnapshot, FirstSight,
     FirstTurnTree, NoDrift, DriftDeny, DriftClean, Absorb, Evaluate, LoadSanctioned,
     SaveSanctioned, FailClosed, HookLost, EditLands, EditRejected, ShellRuns, ShellExits
<1>4. excluded \subseteq excluded'
  BY DEF CallStep, Begin, ReadMarker, RecordMarker, LoadPtree, TakeSnapshot, FirstSight,
     FirstTurnTree, NoDrift, DriftDeny, DriftClean, Absorb, Evaluate, LoadSanctioned,
     SaveSanctioned, FailClosed, HookLost, EditLands, EditRejected, ShellRuns, ShellExits,
     ShellEffect, WriteFile, GitAdd, GitRmCached, GitCommit, UpdateIndexHide, ExcludePath
<1>5. TurnTreeSound'
  BY <1>3, <1>4 DEF SInv, TurnTreeSound, Listable, SoundBytes
<1>6. ptree' # None
  <2>1. pc[k] \in {"judge", "absorb"} => AsPTree(current[k]) \in PTree
    BY AsPTreeType DEF TInv, CallInv
  <2>2. pc[k] = "sanctionSave" => expected[k] \in PTree
    BY DEF TInv, CallInv
  <2> QED
    BY <1>2, <2>1, <2>2, HookAssumption
    DEF SInv, Established, SavePtree,
        CallStep, Begin, ReadMarker, RecordMarker, LoadPtree, TakeSnapshot, FirstSight,
        FirstTurnTree, NoDrift, DriftDeny, DriftClean, Absorb, Evaluate, LoadSanctioned,
        SaveSanctioned, FailClosed, HookLost, EditLands, EditRejected, ShellRuns, ShellExits
<1>7. marker # None
  BY HookAssumption DEF TInv, TypeOK, SInv, Established
<1>8. \A j \in Call : j # k => pc'[j] = pc[j] /\ expected'[j] = expected[j]
  BY DEF TInv, TypeOK,
     CallStep, Begin, ReadMarker, RecordMarker, LoadPtree, TakeSnapshot, FirstSight,
     FirstTurnTree, NoDrift, DriftDeny, DriftClean, Absorb, Evaluate, LoadSanctioned,
     SaveSanctioned, FailClosed, HookLost, EditLands, EditRejected, ShellRuns, ShellExits
<1>9. /\ pc'[k] \notin {"record", "firstSight", "firstTurnTree"}
      /\ pc'[k] = "snapshot" => expected'[k] # None
  BY <1>2, <1>7 DEF TInv, TypeOK, SInv, Established,
     CallStep, Begin, ReadMarker, RecordMarker, LoadPtree, TakeSnapshot, FirstSight,
     FirstTurnTree, NoDrift, DriftDeny, DriftClean, Absorb, Evaluate, LoadSanctioned,
     SaveSanctioned, FailClosed, HookLost, EditLands, EditRejected, ShellRuns, ShellExits
<1>10. Established'
  BY <1>3, <1>6, <1>8, <1>9 DEF SInv, Established
<1> QED
  BY <1>1, <1>5, <1>10 DEF SInv, SweepInv

\* The sweep keeps what the turn began with.
LEMMA SweepSInv ==
    ASSUME TInv, SInv, StartIsKept, SweepStep
    PROVE  SInv'
<1> USE DEF state, process, sweep, history, worktree
<1>1. marker \in Tree /\ marker # None /\ SweepBase = marker
  BY HookAssumption DEF TInv, TypeOK, WorktreeTypeOK, SInv, Established, SweepBase
<1>2. UNCHANGED <<disk, idx, head, hidden, excluded, pc, expected>>
  BY DEF SweepStep, StopBlocks, StopPasses, StopSavesPtree, StopSavesTurnTree, StopAdvances, SweepLost
<1>3. CASE StopBlocks
  BY <1>1, <1>2, <1>3 DEF StopBlocks, SInv, Established, TurnTreeSound, SweepInv, Listable,
                          SoundBytes, AllIdle, Visible, Tracked
<1>4. CASE StopPasses
  <2>1. \A p \in Path : Visible(p) => SoundBytes(p, disk[p])
    BY <1>1, <1>4, SweepJudges DEF StopPasses, TInv, SInv, Established
  <2> QED
    BY <1>1, <1>2, <1>4, <2>1
    DEF StopPasses, Snapshot, SInv, Established, TurnTreeSound, SweepInv, Listable,
        SoundBytes, AllIdle, Visible, Tracked
<1>5. CASE StopSavesPtree
  <2>1. ptree' # None
    BY <1>5, AsPTreeType, HookAssumption DEF StopSavesPtree, SavePtree, TInv, StopInv, SInv, Established
  <2> QED
    BY <1>2, <1>5, <2>1
    DEF StopSavesPtree, SInv, Established, TurnTreeSound, SweepInv, Listable,
        SoundBytes, AllIdle, Visible, Tracked
<1>6. CASE StopSavesTurnTree
  <2>1. turnTree' = disk
    BY <1>6 DEF StopSavesTurnTree, SaveTurnTree, Faulty, StartIsKept, SInv, SweepInv
  <2>2. \A p \in Path : Visible(p) => SoundBytes(p, disk[p])
    BY <1>6 DEF StopSavesTurnTree, SInv, SweepInv
  <2>3. TurnTreeSound'
    BY <1>2, <1>6, <2>1, <2>2
    DEF StopSavesTurnTree, TurnTreeSound, Listable, SoundBytes, Visible
  <2> QED
    BY <1>2, <1>6, <2>1, <2>2, <2>3
    DEF StopSavesTurnTree, SInv, Established, SweepInv, SoundBytes, AllIdle, Visible, Tracked
<1>7. CASE StopAdvances
  <2>1. marker' = head /\ startHead' = head /\ turnStart' = disk /\ turnTree' = disk /\ stopPc' = "idle"
    BY <1>7 DEF StopAdvances, Faulty, StartIsKept, SInv, SweepInv
  <2>2. TurnTreeSound'
    BY <1>2, <2>1 DEF TurnTreeSound, Listable, SoundBytes, Blocking
  <2>3. Established'
    BY <1>2, <1>7, <2>1 DEF StopAdvances, SInv, Established
  <2> QED
    BY <2>1, <2>2, <2>3 DEF SInv, SweepInv
<1>8. CASE SweepLost
  BY <1>2, <1>8 DEF SweepLost, SInv, Established, TurnTreeSound, SweepInv, Listable, SoundBytes
<1> QED
  BY <1>3, <1>4, <1>5, <1>6, <1>7, <1>8 DEF SweepStep

\* Every step, as long as no write of the turn tree or the marker fails.
LEMMA NextSInv == TInv /\ SInv /\ StartIsKept /\ [Next]_vars => SInv'
<1> SUFFICES ASSUME TInv, SInv, StartIsKept, [Next]_vars PROVE SInv'
  OBVIOUS
<1>1. CASE Next
  BY <1>1, CallSInv, SweepSInv DEF Next
<1>2. CASE UNCHANGED vars
  BY <1>2 DEF vars, worktree, state, process, sweep, history, SInv, Established, TurnTreeSound,
              SweepInv, Listable, SoundBytes, AllIdle, Visible, Tracked
<1> QED
  BY <1>1, <1>2

\* A turn the sweep passes has weakened no path git lists, however many calls
\* were in flight, whatever they interleaved with, with hooks and sweeps lost
\* and ptree saves failing anywhere (stopVerdict over turnView).
THEOREM VisibleSound ==
    ASSUME StartIsKept
    PROVE  Spec => []VisibleSweepSound
<1>1. InitEstablished => TInv /\ SInv
  BY InitTInv, InitSInv
<1>2. TInv /\ SInv => VisibleSweepSound
  BY DEF SInv, SweepInv, VisibleSweepSound
<1>3. TInv /\ SInv /\ [Next]_vars => TInv' /\ SInv'
  BY NextTInv, NextSInv, StartIsKept
<1> QED
  BY <1>1, <1>2, <1>3, PTL DEF Spec

\* The baseline moves only when a turn ends clean, once the session's files stand
\* (turnBaseline, advanceTurnBaseline).
THEOREM BaselineMoves ==
    ASSUME StartIsKept
    PROVE  Spec => BaselineMovesAtCleanStop
<1>1. InitEstablished => TInv /\ SInv
  BY InitTInv, InitSInv
<1>2. TInv /\ SInv /\ [Next]_vars => [marker # None /\ marker' # marker => stopPc = "marker"]_vars
  <2> SUFFICES ASSUME TInv, SInv, Next, marker' # marker PROVE stopPc = "marker"
    BY DEF vars
  <2>1. ASSUME NEW k \in Call, CallStep(k) PROVE FALSE
    <3>1. pc[k] \notin {"record", "firstSight", "firstTurnTree"}
      BY DEF SInv, Established
    <3> QED
      BY <2>1, <3>1
      DEF state, CallStep, Begin, ReadMarker, RecordMarker, LoadPtree, TakeSnapshot, FirstSight,
          FirstTurnTree, NoDrift, DriftDeny, DriftClean, Absorb, Evaluate, LoadSanctioned,
          SaveSanctioned, FailClosed, HookLost, EditLands, EditRejected, ShellRuns, ShellExits
  <2>2. SweepBase = marker
    BY HookAssumption DEF SweepBase, TInv, TypeOK, WorktreeTypeOK, SInv, Established
  <2> QED
    BY <2>1, <2>2 DEF Next, SweepStep, StopBlocks, StopPasses, StopSavesPtree, StopSavesTurnTree,
                      StopAdvances, SweepLost, state
<1>3. TInv /\ SInv /\ [Next]_vars => TInv' /\ SInv'
  BY NextTInv, NextSInv, StartIsKept
<1> QED
  BY <1>1, <1>2, <1>3, PTL DEF Spec, BaselineMovesAtCleanStop

-----------------------------------------------------------------------------
(* A call at a time.  The ptree now carries the argument: what it holds was  *)
(* seen to be sound, so a path no view lists is judged by how it drifted.    *)

\* Bytes at p that a call or a sweep may leave there.  Away from git's eyes a
\* file HEAD never held may be gone.
Kept(p, bytes) == setting = "alone" \/ bytes # Absent \/ startHead[p] # Absent => SoundBytes(p, bytes)
AllKept(tree) == \A p \in Path : Kept(p, tree[p])

\* Nothing moved before the first ptree was saved.
Pristine ==
    ptree = None =>
        /\ disk = turnStart /\ head = startHead /\ turnTree = None /\ landed = {}
        /\ \A k \in Call : pc[k] \in {"idle", "marker", "record", "load", "snapshot", "firstSight"}

MarkerInv ==
    /\ marker \in {None, startHead}
    /\ marker = None => ptree = None

PtreeInv == ptree # None => \A p \in Path : Kept(p, ptree[p].bytes)

TurnTreeKept ==
    turnTree # None =>
        /\ \A p \in Path : turnTree[p] # Absent => SoundBytes(p, turnTree[p])
        /\ setting = "alone" /\ stopPc # "marker" => turnTree = turnStart

PassedInv ==
    stopPc # "idle" => /\ AllIdle /\ stopTree = disk /\ AllKept(disk) /\ marker # None
                       /\ stopPc # "ptree" => ptree # None /\ \A p \in Path : ptree[p].bytes = disk[p]
                       /\ stopPc = "marker" => turnTree = disk

LoneCall == \A j, k \in Call : pc[j] # "idle" /\ pc[k] # "idle" => j = k

\* What call k knows, while no other runs.
Knows(k) ==
    /\ pc[k] = "record" => marker = None
    /\ pc[k] \in {"load", "snapshot", "firstSight"} => marker # None
    /\ pc[k] = "snapshot" => expected[k] = ptree
    /\ pc[k] \in {"firstSight", "firstTurnTree", "judge", "absorb"} => current[k] = disk
    /\ pc[k] = "firstSight" => ptree = None
    /\ pc[k] = "firstTurnTree" => disk = turnStart /\ turnTree = None
    /\ pc[k] = "judge" => expected[k] = ptree
    /\ pc[k] \in {"absorb", "evaluate"} => AllKept(disk)
    /\ pc[k] \in {"firstTurnTree", "evaluate", "sanction"} => \A p \in Path : ptree[p].bytes = disk[p]
    /\ pc[k] = "sanction" => Kept(tool[k].path, tool[k].bytes)
    /\ pc[k] = "sanctionSave" =>
          /\ tool[k] \in Edits
          /\ \A p \in Path : /\ Kept(p, expected[k][p].bytes)
                             /\ expected[k][p].bytes = IF p = tool[k].path THEN tool[k].bytes ELSE disk[p]
    /\ setting = "alone" /\ pc[k] = "running" /\ tool[k].kind = "edit" =>
          ptree[tool[k].path].bytes = tool[k].bytes

LandedInv ==
    setting = "alone" =>
        /\ hidden = {}
        /\ \A p \in landed : \/ ptree[p].bytes = disk[p]
                             \/ \E k \in Call : pc[k] = "running" /\ tool[k].kind = "edit" /\ tool[k].path = p

AloneInv ==
    /\ Pristine /\ MarkerInv /\ PtreeInv /\ TurnTreeKept /\ PassedInv /\ LoneCall /\ LandedInv
    /\ \A k \in Call : Knows(k)

-----------------------------------------------------------------------------
\* Nothing is worse than a weak content that is sound.
LEMMA WeakIsWorst ==
    ASSUME NEW p, NEW b \in Weak, SoundBytes(p, b), NEW c
    PROVE  SoundBytes(p, c)
BY DEF SoundBytes, Blocking

\* A strong content is sound wherever it stands.
LEMMA StrongIsSound ==
    ASSUME NEW p, NEW b, b \notin Weak, b # Absent
    PROVE  SoundBytes(p, b)
BY DEF SoundBytes, Blocking

\* What the view carries and the sweep does not deny is kept.
LEMMA ViewKeeps ==
    ASSUME setting = "alone" => hidden = {}, NEW pt, NEW tt,
           NEW c \in TurnView(startHead, pt, tt), ~ BlockedChange(c)
    PROVE  c.path \in Path /\ Kept(c.path, disk[c.path])
<1>1. Absent \notin Weak BY WorktreeAssumption
<1>2. ~ Blocking(c.before, c.after) BY DEF BlockedChange
<1>3. CASE c \in DiffSince(startHead)
  <2>1. PICK p \in Path : /\ startHead[p] # WorkSide(p)
                          /\ c = ChangeOf(p, startHead[p], IF WorkSide(p) = Absent THEN Absent ELSE disk[p])
    BY <1>3 DEF DiffSince
  <2>2. c.path = p /\ ~ Blocking(startHead[p], IF WorkSide(p) = Absent THEN Absent ELSE disk[p])
    BY <1>2, <2>1 DEF ChangeOf
  <2>3. CASE startHead[p] # Absent
    <3>1. CASE WorkSide(p) = Absent
      <4>1. startHead[p] \in Weak BY <2>2, <2>3, <3>1 DEF Blocking
      <4>2. SoundBytes(p, disk[p]) BY <2>3, <4>1 DEF SoundBytes, Blocking
      <4>3. QED BY <2>2, <4>2 DEF Kept
    <3>2. CASE WorkSide(p) # Absent
      BY <2>2, <2>3, <3>2 DEF Kept, SoundBytes
    <3>3. QED BY <3>1, <3>2
  <2>4. CASE startHead[p] = Absent
    <3>1. WorkSide(p) # Absent /\ disk[p] \notin Weak BY <1>1, <2>1, <2>2, <2>4 DEF Blocking
    <3>2. setting = "alone" => disk[p] # Absent BY <3>1 DEF WorkSide, Tracked
    <3>3. disk[p] # Absent => SoundBytes(p, disk[p]) BY <3>1, StrongIsSound
    <3>4. QED BY <2>2, <2>4, <3>2, <3>3 DEF Kept
  <2>5. QED BY <2>3, <2>4
<1>4. CASE \E p \in UntrackedPaths \cup IgnoredPaths : c = AddOf(p)
  <2>1. PICK p \in UntrackedPaths \cup IgnoredPaths : c = AddOf(p) BY <1>4
  <2>2. p \in Path /\ disk[p] # Absent BY <2>1 DEF UntrackedPaths, IgnoredPaths, OnDisk
  <2>3. c.path = p /\ disk[p] \notin Weak BY <1>1, <1>2, <2>1 DEF AddOf, ChangeOf, Blocking
  <2>4. QED BY <2>2, <2>3, StrongIsSound DEF Kept
<1>5. CASE \E p \in HiddenTrackedPaths : startHead[p] # disk[p] /\ c = ChangeOf(p, startHead[p], disk[p])
  <2>1. PICK p \in HiddenTrackedPaths : startHead[p] # disk[p] /\ c = ChangeOf(p, startHead[p], disk[p]) BY <1>5
  <2>2. p \in Path /\ p \in hidden BY <2>1 DEF HiddenTrackedPaths, Tracked
  <2>3. c.path = p /\ ~ Blocking(startHead[p], disk[p]) BY <1>2, <2>1 DEF ChangeOf
  <2>4. CASE startHead[p] # Absent BY <2>2, <2>3, <2>4 DEF Kept, SoundBytes
  <2>5. CASE startHead[p] = Absent
    <3>1. disk[p] \notin Weak /\ disk[p] # Absent BY <1>1, <2>1, <2>3, <2>5 DEF Blocking
    <3>2. QED BY <2>2, <2>3, <3>1, StrongIsSound DEF Kept
  <2>6. QED BY <2>4, <2>5
<1>6. \/ c \in DiffSince(startHead) \/ \E p \in UntrackedPaths \cup IgnoredPaths : c = AddOf(p)
      \/ \E p \in HiddenTrackedPaths : startHead[p] # disk[p] /\ c = ChangeOf(p, startHead[p], disk[p])
  BY DEF TurnView
<1>7. QED BY <1>3, <1>4, <1>5, <1>6

\* Drift no part of the view carries and that is not denied leaves kept bytes.
LEMMA GapKeeps ==
    ASSUME NEW pt \in PTree, NEW tt, NEW p \in Path, Kept(p, pt[p].bytes), pt[p].bytes # disk[p],
           tt # None /\ tt[p] # Absent => SoundBytes(p, tt[p]),
           ~ GapBlocks(p, pt, disk, startHead, tt)
    PROVE  Kept(p, disk[p])
<1>1. Absent \notin Weak BY WorktreeAssumption
<1>2. CASE pt[p].bytes = Absent
  <2>1. disk[p] # Absent /\ disk[p] \notin Weak BY <1>1, <1>2 DEF GapBlocks, Blocking
  <2>2. QED BY <2>1, StrongIsSound DEF Kept
<1>3. CASE pt[p].bytes # Absent /\ Excused(p, pt, disk, startHead, tt)
  <2>1. disk[p] # Absent BY <1>3 DEF Excused
  <2>2. CASE disk[p] = startHead[p]
    <3>1. SoundBytes(p, disk[p]) BY <2>1, <2>2 DEF SoundBytes, Blocking
    <3>2. QED BY <3>1 DEF Kept
  <2>3. CASE tt # None /\ tt[p] = disk[p] BY <2>1, <2>3 DEF Kept
  <2>4. QED BY <1>3, <2>2, <2>3 DEF Excused
<1>4. CASE pt[p].bytes # Absent /\ ~ Excused(p, pt, disk, startHead, tt)
  <2>1. ~ Blocking(pt[p].bytes, disk[p]) BY <1>4 DEF GapBlocks
  <2>2. SoundBytes(p, pt[p].bytes) BY <1>4 DEF Kept
  <2>3. CASE pt[p].bytes \in Weak
    <3>1. SoundBytes(p, disk[p]) BY <2>2, <2>3, WeakIsWorst
    <3>2. QED BY <3>1 DEF Kept
  <2>4. CASE pt[p].bytes \notin Weak
    <3>1. disk[p] \notin Weak /\ disk[p] # Absent BY <1>4, <2>1, <2>4 DEF Blocking
    <3>2. QED BY <3>1, StrongIsSound DEF Kept
  <2>5. QED BY <2>3, <2>4
<1>5. QED BY <1>2, <1>3, <1>4

\* A drift check that denies nothing leaves a tree that is kept.
LEMMA JudgeKeeps ==
    ASSUME setting = "alone" => hidden = {}, NEW pt \in PTree, NEW tt, \A p \in Path : Kept(p, pt[p].bytes),
           tt # None => \A p \in Path : tt[p] # Absent => SoundBytes(p, tt[p]),
           DriftDenied(pt, disk, startHead, pt, tt) = {}
    PROVE  AllKept(disk)
<1> SUFFICES ASSUME NEW p \in Path PROVE Kept(p, disk[p])
  BY DEF AllKept
<1> DEFINE drifted == Drift(pt, disk)
           scoped == {c \in TurnView(startHead, pt, tt) : c.path \in drifted}
<1>1. CASE p \notin drifted
  <2>1. pt[p].bytes = disk[p] BY <1>1 DEF Drift
  <2>2. QED BY <2>1
<1>2. CASE p \in PathsOf(scoped)
  <2>1. PICK c \in scoped : c.path = p BY <1>2 DEF PathsOf
  <2>2. ~ BlockedChange(c)
    <3>1. PathsOf({d \in scoped : BlockedChange(d)}) = {} BY DEF DriftDenied
    <3>2. QED BY <2>1, <3>1 DEF PathsOf
  <2>3. QED BY <2>1, <2>2, ViewKeeps
<1>3. CASE p \in drifted \ PathsOf(scoped)
  <2>1. {q \in drifted \ PathsOf(scoped) : GapBlocks(q, pt, disk, startHead, tt)} = {} BY DEF DriftDenied
  <2>2. ~ GapBlocks(p, pt, disk, startHead, tt) BY <1>3, <2>1
  <2>3. pt[p].bytes # disk[p] BY <1>3 DEF Drift
  <2>4. QED BY <2>2, <2>3, GapKeeps
<1>4. QED BY <1>1, <1>2, <1>3

\* A sweep that denies nothing does too.
LEMMA SweepKeeps ==
    ASSUME TInv, Pristine, MarkerInv, PtreeInv, TurnTreeKept, setting = "alone" => hidden = {},
           SweepDenied(SweepBase) = {}
    PROVE  SweepBase = startHead /\ AllKept(disk)
<1>1. SweepBase = startHead BY DEF SweepBase, MarkerInv, Pristine
<1> DEFINE seen == TurnView(startHead, ptree, turnTree)
<1>2. SUFFICES ASSUME NEW p \in Path PROVE Kept(p, disk[p])
  BY <1>1 DEF AllKept
<1>3. CASE p \in PathsOf(seen)
  <2>1. PICK c \in seen : c.path = p BY <1>3 DEF PathsOf
  <2>2. ~ BlockedChange(c)
    <3>1. PathsOf({d \in seen : BlockedChange(d)}) = {} BY <1>1 DEF SweepDenied
    <3>2. QED BY <2>1, <3>1 DEF PathsOf
  <2>3. QED BY <2>1, <2>2, ViewKeeps
<1>4. CASE ptree = None
  <2>1. turnStart[p] = disk[p] BY <1>4 DEF Pristine
  <2>2. QED BY <2>1, SameBytesSound DEF Kept
<1>5. CASE p \notin PathsOf(seen) /\ ptree # None
  <2>1. ptree \in PTree BY <1>5 DEF TInv, TypeOK
  <2>2. Kept(p, ptree[p].bytes) BY <1>5 DEF PtreeInv
  <2>3. CASE ptree[p].bytes = disk[p] BY <2>2, <2>3
  <2>4. CASE ptree[p].bytes # disk[p]
    <3>1. p \in Drift(ptree, Snapshot) BY <2>4 DEF Drift, Snapshot
    <3>2. {q \in Drift(ptree, Snapshot) \ PathsOf(seen) : GapBlocks(q, ptree, Snapshot, startHead, turnTree)} = {}
      BY <1>1, <1>5 DEF SweepDenied
    <3>3. ~ GapBlocks(p, ptree, disk, startHead, turnTree) BY <1>5, <3>1, <3>2 DEF Snapshot
    <3>4. QED BY <2>1, <2>2, <2>4, <3>3, GapKeeps DEF TurnTreeKept
  <2>5. QED BY <2>3, <2>4
<1>6. QED BY <1>3, <1>4, <1>5

-----------------------------------------------------------------------------
\* The setting, the counters and what a step of it may not do.
Steps == NextEither /\ setting \in {"alone", "wide"} /\ FaultsLaterWhenWide'

\* While call k steps no other is in flight, and no sweep.
LEMMA OnlyCall ==
    ASSUME TInv, AloneInv, Steps, IsFiniteSet(Call), NEW k \in Call, CallStep(k)
    PROVE  /\ LoneCall' /\ stopPc = "idle" /\ stopPc' = "idle" /\ stopTree' = stopTree
           /\ \A j \in Call : j # k => pc[j] = "idle" /\ pc'[j] = "idle"
<1> USE DEF Goto, Finish, Deny, Allow, ToolDone, process, sweep, history
<1>1. Cardinality(InFlight') <= 1 BY DEF Steps, NextEither
<1>2. IsFiniteSet(InFlight') BY FS_Subset DEF InFlight
<1>3. LoneCall'
  <2> SUFFICES ASSUME NEW i \in Call, NEW j \in Call, pc'[i] # "idle", pc'[j] # "idle", i # j PROVE FALSE
    BY DEF LoneCall
  <2>1. {i, j} \subseteq InFlight' BY DEF InFlight
  <2>2. IsFiniteSet({i}) /\ Cardinality({i}) = 1 BY FS_Singleton
  <2>a. j \notin {i} OBVIOUS
  <2>b. Cardinality({i} \cup {j}) = Cardinality({i}) + 1 BY <2>2, <2>a, FS_AddElement
  <2>3. Cardinality({i} \cup {j}) = 2 BY <2>2, <2>b
  <2>4. {i} \cup {j} = {i, j} OBVIOUS
  <2>5. Cardinality({i, j}) <= Cardinality(InFlight') BY <1>2, <2>1, FS_Subset
  <2>6. Cardinality(InFlight') \in Nat BY <1>2, FS_CardinalityType
  <2>7. QED BY <1>1, <2>3, <2>4, <2>5, <2>6
<1>4. stopPc = "idle"
  <2>1. stopPc # "idle" => pc[k] = "idle" BY DEF AloneInv, PassedInv, AllIdle
  <2>2. QED
    BY <2>1 DEF CallStep, Begin, ReadMarker, RecordMarker, LoadPtree, TakeSnapshot, FirstSight,
       FirstTurnTree, NoDrift, DriftDeny, DriftClean, Absorb, Evaluate, LoadSanctioned,
       SaveSanctioned, FailClosed, HookLost, EditLands, EditRejected, ShellRuns, ShellExits
<1>5. stopPc' = "idle" /\ stopTree' = stopTree
  BY <1>4 DEF CallStep, Begin, ReadMarker, RecordMarker, LoadPtree, TakeSnapshot, FirstSight,
       FirstTurnTree, NoDrift, DriftDeny, DriftClean, Absorb, Evaluate, LoadSanctioned,
       SaveSanctioned, FailClosed, HookLost, EditLands, EditRejected, ShellRuns, ShellExits
<1>6. \A j \in Call : j # k => pc'[j] = pc[j]
  BY DEF TInv, TypeOK,
     CallStep, Begin, ReadMarker, RecordMarker, LoadPtree, TakeSnapshot, FirstSight,
     FirstTurnTree, NoDrift, DriftDeny, DriftClean, Absorb, Evaluate, LoadSanctioned,
     SaveSanctioned, FailClosed, HookLost, EditLands, EditRejected, ShellRuns, ShellExits
<1>7. pc[k] # "idle" \/ pc'[k] # "idle"
  BY DEF TInv, TypeOK,
     CallStep, Begin, ReadMarker, RecordMarker, LoadPtree, TakeSnapshot, FirstSight,
     FirstTurnTree, NoDrift, DriftDeny, DriftClean, Absorb, Evaluate, LoadSanctioned,
     SaveSanctioned, FailClosed, HookLost, EditLands, EditRejected, ShellRuns, ShellExits
<1>8. \A j \in Call : j # k => pc[j] = "idle" /\ pc'[j] = "idle"
  <2> SUFFICES ASSUME NEW j \in Call, j # k PROVE pc[j] = "idle" /\ pc'[j] = "idle"
    OBVIOUS
  <2>1. CASE pc[k] # "idle"
    <3>1. pc[j] = "idle" BY <2>1 DEF AloneInv, LoneCall
    <3>2. QED BY <1>6, <3>1
  <2>2. CASE pc'[k] # "idle"
    <3>1. pc'[j] = "idle" BY <1>3, <2>2 DEF LoneCall
    <3>2. QED BY <1>6, <3>1
  <2>3. QED BY <1>7, <2>1, <2>2
<1>9. QED BY <1>3, <1>4, <1>5, <1>8

\* A step of call k that leaves the tree, the state files and the history alone
\* keeps what is known, if k knows what it goes on with.
LEMMA QuietStep ==
    ASSUME TInv, AloneInv, Steps, IsFiniteSet(Call), NEW k \in Call, CallStep(k),
           UNCHANGED <<disk, head, hidden, state, turnStart, startHead>>, landed' \subseteq landed,
           ptree = None => pc'[k] \in {"idle", "marker", "record", "load", "snapshot", "firstSight"},
           Knows(k)',
           \A p \in landed' : setting = "alone" => ptree[p].bytes = disk[p] \/ (pc'[k] = "running" /\ tool'[k].kind = "edit" /\ tool'[k].path = p)
    PROVE  AloneInv'
<1>1. setting' = setting BY DEF Steps, NextEither
<1>2. /\ LoneCall' /\ stopPc = "idle" /\ stopPc' = "idle" /\ \A j \in Call : j # k => pc[j] = "idle" /\ pc'[j] = "idle"
  BY OnlyCall
<1>3. Pristine' BY <1>2 DEF AloneInv, Pristine, state
<1>4. MarkerInv' BY DEF AloneInv, MarkerInv, state
<1>5. PtreeInv' BY <1>1 DEF AloneInv, PtreeInv, Kept, SoundBytes, state
<1>6. TurnTreeKept' BY <1>1, <1>2 DEF AloneInv, TurnTreeKept, SoundBytes, state
<1>7. PassedInv' BY <1>2 DEF PassedInv
<1>8. LandedInv' BY <1>1 DEF AloneInv, LandedInv, state
<1>9. \A j \in Call : Knows(j)'
  <2> SUFFICES ASSUME NEW j \in Call, j # k PROVE Knows(j)'
    OBVIOUS
  <2>1. pc'[j] = "idle" BY <1>2
  <2>2. QED BY <2>1 DEF Knows
<1>10. QED BY <1>2, <1>3, <1>4, <1>5, <1>6, <1>7, <1>8, <1>9 DEF AloneInv

\* At every label but these the tree a call landed edits in is the ptree's.
LEMMA LandedIsSanctioned ==
    ASSUME AloneInv, setting = "alone", NEW k \in Call, pc[k] # "idle", ~ (pc[k] = "running" /\ tool[k].kind = "edit"),
           NEW p \in landed
    PROVE  ptree[p].bytes = disk[p]
<1>1. \A j \in Call : pc[j] # "idle" => j = k BY DEF AloneInv, LoneCall
<1>2. ~ \E j \in Call : pc[j] = "running" /\ tool[j].kind = "edit" /\ tool[j].path = p BY <1>1
<1>3. QED BY <1>2 DEF AloneInv, LandedInv

\* A call keeps it.
LEMMA CallKeeps ==
    ASSUME TInv, AloneInv, Steps, IsFiniteSet(Call), NEW k \in Call, CallStep(k)
    PROVE  AloneInv'
<1> USE DEF Goto, Finish, Deny, Allow, ToolDone
<1>1. setting' = setting BY DEF Steps, NextEither
<1>2. /\ LoneCall' /\ stopPc = "idle" /\ stopPc' = "idle" /\ \A j \in Call : j # k => pc[j] = "idle" /\ pc'[j] = "idle"
  BY OnlyCall
<1>3. Knows(k) BY DEF AloneInv
<1>4. pc \in [Call -> CallStates] /\ expected \in [Call -> PTree \cup {None}] /\ current \in [Call -> Tree \cup {None}]
      /\ tool \in [Call -> Tool \cup {NoTool}] /\ faults \in Nat
  BY HookAssumption DEF TInv, TypeOK
<1>5. pc[k] # "idle" /\ ~ (pc[k] = "running" /\ tool[k].kind = "edit") =>
        \A p \in landed : setting = "alone" => ptree[p].bytes = disk[p]
  BY LandedIsSanctioned
<1>6. \A j \in Call : j # k => Knows(j)'
  BY <1>2 DEF Knows
<1>7. setting = "alone" => hidden = {} /\ hidden' = {} BY DEF AloneInv, LandedInv, Steps, NextEither
<1>8. faults' = faults \/ HookLost(k)
  <2>1. faults' # faults => SweepLost \/ \E j \in Call : HookLost(j)
    <3>1. CASE setting = "alone"
      <4>1. faults' = 0 BY <3>1 DEF Steps, NextEither
      <4>2. faults' = faults \/ faults' = faults + 1
        BY DEF CallStep, Begin, ReadMarker, RecordMarker, LoadPtree, TakeSnapshot, FirstSight,
         FirstTurnTree, NoDrift, DriftDeny, DriftClean, Absorb, Evaluate, LoadSanctioned, SavePtree, SaveTurnTree, NoFault, Faulty,
         SaveSanctioned, FailClosed, HookLost, EditLands, EditRejected, ShellRuns, ShellExits
      <4>3. QED BY <1>4, <4>1, <4>2
    <3>2. CASE setting = "wide" BY <3>2 DEF Steps, NextEither, StaysWide
    <3>3. QED BY <3>1, <3>2 DEF Steps
  <2>2. ~ SweepLost BY <1>2 DEF SweepLost
  <2>3. ASSUME NEW j \in Call, HookLost(j) PROVE j = k
    BY <1>2, <2>3 DEF HookLost
  <2>4. QED BY <2>1, <2>2, <2>3
<1>9. ~ Faulty("ptree") \/ faults' # faults BY <1>4 DEF Faulty
<1>10. ~ Faulty("turntree") \/ faults' # faults BY <1>4 DEF Faulty
<1>11. ~ Faulty("marker") \/ faults' # faults BY <1>4 DEF Faulty
<1>a. ptree = None => pc[k] \in {"idle", "marker", "record", "load", "snapshot", "firstSight"} BY DEF AloneInv, Pristine
<1>12. CASE \E t \in Tool : Begin(k, t)
  <2>1. PICK t \in Tool : Begin(k, t) BY <1>12
  <2>2. pc'[k] = "marker" /\ pc[k] = "idle" /\ UNCHANGED <<worktree, state, history>> BY <1>4, <2>1 DEF Begin
  <2>3. Knows(k)' BY <2>2 DEF Knows
  <2>4. \A p \in landed : setting = "alone" => ptree[p].bytes = disk[p]
    BY <1>2, <2>2 DEF AloneInv, LandedInv
  <2>5. QED BY <2>2, <2>3, <2>4, QuietStep DEF worktree, history
<1>13. CASE ReadMarker(k)
  <2>1. pc'[k] = (IF marker = None THEN "record" ELSE "load") /\ pc[k] = "marker" /\ UNCHANGED <<worktree, state, history>>
    BY <1>4, <1>13 DEF ReadMarker
  <2>2. Knows(k)' BY <2>1 DEF Knows, state
  <2>3. QED BY <1>5, <2>1, <2>2, QuietStep DEF worktree, history
<1>14. CASE LoadPtree(k)
  <2>1. pc'[k] = "snapshot" /\ pc[k] = "load" /\ expected'[k] = ptree /\ UNCHANGED <<worktree, state, history>>
    BY <1>4, <1>14 DEF LoadPtree
  <2>2. Knows(k)' BY <1>3, <2>1 DEF Knows, state
  <2>3. QED BY <1>5, <2>1, <2>2, QuietStep DEF worktree, history
<1>15. CASE TakeSnapshot(k)
  <2>1. pc'[k] = (IF expected[k] = None THEN "firstSight" ELSE "judge") /\ pc[k] = "snapshot" /\ expected' = expected
        /\ current'[k] = disk /\ UNCHANGED <<worktree, state, history>>
    BY <1>4, <1>15 DEF TakeSnapshot, Snapshot
  <2>2. expected[k] = ptree /\ marker # None BY <1>3, <2>1 DEF Knows
  <2>3. Knows(k)' BY <2>1, <2>2 DEF Knows, state, worktree
  <2>4. QED BY <1>5, <2>1, <2>2, <2>3, QuietStep DEF worktree, history
<1>16. CASE DriftDeny(k)
  <2>1. pc'[k] = "idle" /\ pc[k] = "judge" /\ UNCHANGED <<worktree, state, history>> BY <1>4, <1>16 DEF DriftDeny
  <2>2. Knows(k)' BY <2>1 DEF Knows
  <2>3. QED BY <1>5, <2>1, <2>2, QuietStep DEF worktree, history
<1>17. CASE FailClosed(k)
  <2>1. pc'[k] = "idle" /\ pc[k] \notin {"idle", "running"} /\ UNCHANGED <<worktree, state, history>> BY <1>4, <1>17 DEF FailClosed
  <2>2. Knows(k)' BY <2>1 DEF Knows
  <2>3. QED BY <1>5, <2>1, <2>2, QuietStep DEF worktree, history
<1>18. CASE HookLost(k)
  <2>1. pc'[k] = "running" /\ pc[k] \notin {"idle", "running"} /\ faults' = faults + 1 /\ UNCHANGED <<worktree, state, history>>
    BY <1>4, <1>18 DEF HookLost, Faulty
  <2>2. setting = "wide" BY <1>4, <2>1 DEF Steps, NextEither
  <2>3. ptree # None BY <1>1, <1>4, <2>1, <2>2 DEF Steps, FaultsLaterWhenWide, FaultsLater, state
  <2>4. Knows(k)' BY <1>1, <2>1, <2>2 DEF Knows
  <2>5. QED BY <1>5, <2>1, <2>2, <2>3, <2>4, QuietStep DEF worktree, history
<1>19. CASE EditRejected(k)
  <2>1. pc'[k] = "idle" /\ pc[k] = "running" /\ tool[k].kind = "edit" /\ landed' = landed \ {tool[k].path} /\ UNCHANGED <<worktree, state, turnStart, startHead>>
    BY <1>4, <1>19 DEF EditRejected
  <2>2. Knows(k)' BY <2>1 DEF Knows
  <2>3. ASSUME NEW p \in landed', setting = "alone" PROVE ptree[p].bytes = disk[p]
    <3>1. p \in landed /\ p # tool[k].path BY <2>1
    <3>2. QED BY <1>2, <2>3, <3>1 DEF AloneInv, LandedInv
  <2>4. QED BY <1>a, <2>1, <2>2, <2>3, QuietStep DEF worktree, history
<1>20. CASE ShellExits(k)
  <2>1. pc'[k] = "idle" /\ pc[k] = "running" /\ tool[k].kind = "shell" /\ UNCHANGED <<worktree, state, history>>
    BY <1>4, <1>20 DEF ShellExits
  <2>2. Knows(k)' BY <2>1 DEF Knows
  <2>3. QED BY <1>5, <1>a, <2>1, <2>2, QuietStep DEF worktree, history
<1>21. CASE DriftClean(k)
  <2>1. /\ pc'[k] = "absorb" /\ pc[k] = "judge" /\ Denied(k) = {} /\ current' = current
        /\ UNCHANGED <<worktree, state, history>>
    BY <1>4, <1>21 DEF DriftClean
  <2>2. expected[k] = ptree /\ current[k] = disk /\ ptree # None BY <1>3, <1>a, <2>1 DEF Knows
  <2>3. ptree \in PTree /\ marker = startHead BY <2>2 DEF TInv, TypeOK, AloneInv, MarkerInv
  <2>4. DriftDenied(ptree, disk, startHead, ptree, turnTree) = {} BY <2>1, <2>2, <2>3 DEF Denied
  <2>5. \A p \in Path : Kept(p, ptree[p].bytes) BY <2>2 DEF AloneInv, PtreeInv
  <2>6. AllKept(disk) BY <1>7, <2>3, <2>4, <2>5, JudgeKeeps DEF AloneInv, TurnTreeKept
  <2>7. AllKept(disk)' BY <1>1, <2>1, <2>6 DEF AllKept, Kept, SoundBytes, worktree, history
  <2>8. Knows(k)' BY <2>1, <2>2, <2>7 DEF Knows, worktree
  <2>9. QED BY <1>5, <2>1, <2>2, <2>8, QuietStep DEF worktree, history
<1>22. CASE Evaluate(k)
  <2>1. /\ pc[k] = "evaluate" /\ pc'[k] \in {"idle", "running", "sanction"} /\ UNCHANGED <<worktree, state, history>>
        /\ pc'[k] = "running" => Changes(k) = {} /\ tool' = tool
        /\ pc'[k] = "sanction" => tool' = tool /\ \E c \in Changes(k) : ~ Blocking(c.before, c.after)
    BY <1>4, <1>22 DEF Evaluate
  <2>2. AllKept(disk) /\ \A p \in Path : ptree[p].bytes = disk[p] BY <1>3, <2>1 DEF Knows
  <2>3. tool[k].kind = "edit" => tool[k] \in Edits BY <1>4 DEF Tool, Edits, Shell, NoTool
  <2>4. CASE pc'[k] = "running"
    <3>1. tool[k].kind = "edit" => disk[tool[k].path] = tool[k].bytes BY <2>1, <2>4 DEF Changes
    <3>2. tool[k].kind = "edit" => ptree[tool[k].path].bytes = tool[k].bytes BY <2>2, <2>3, <3>1 DEF Edits
    <3>3. Knows(k)' BY <2>1, <2>4, <3>2 DEF Knows, state
    <3>4. QED BY <1>5, <1>a, <2>1, <3>3, QuietStep DEF worktree, history
  <2>5. CASE pc'[k] = "idle"
    <3>1. Knows(k)' BY <2>5 DEF Knows
    <3>2. QED BY <1>5, <2>1, <2>5, <3>1, QuietStep DEF worktree, history
  <2>6. CASE pc'[k] = "sanction"
    <3>1. tool[k].kind = "edit" /\ tool' = tool /\ ~ Blocking(disk[tool[k].path], tool[k].bytes)
      BY <2>1, <2>6 DEF Changes, ChangeOf
    <3>2. tool[k].path \in Path /\ tool[k].bytes \in Content /\ tool[k].bytes # Absent
      BY <2>3, <3>1, WorktreeAssumption DEF Edits
    <3>3. Kept(tool[k].path, tool[k].bytes)
      <4>1. CASE tool[k].bytes \notin Weak BY <3>2, <4>1, StrongIsSound DEF Kept
      <4>2. CASE tool[k].bytes \in Weak
        <5>1. disk[tool[k].path] \in Weak BY <3>1, <4>2 DEF Blocking
        <5>2. disk[tool[k].path] # Absent BY <5>1, WorktreeAssumption
        <5>3. SoundBytes(tool[k].path, disk[tool[k].path]) BY <2>2, <3>2, <5>2 DEF AllKept, Kept
        <5>4. QED BY <5>1, <5>3, WeakIsWorst DEF Kept
      <4>3. QED BY <4>1, <4>2
    <3>4. Kept(tool[k].path, tool[k].bytes)' BY <1>1, <2>1, <3>1, <3>3 DEF Kept, SoundBytes, history
    <3>5. Knows(k)' BY <2>1, <2>2, <2>6, <3>4 DEF Knows, state, worktree
    <3>6. QED BY <1>5, <1>a, <2>1, <3>5, QuietStep DEF worktree, history
  <2>7. QED BY <2>1, <2>4, <2>5, <2>6
<1>23. CASE LoadSanctioned(k)
  <2>1. pc[k] = "sanction" /\ UNCHANGED <<worktree, state, history>> /\ tool' = tool /\ ptree # None BY <1>a, <1>23 DEF LoadSanctioned
  <2>2. /\ pc'[k] = "sanctionSave"
        /\ expected'[k] = [ptree EXCEPT ![tool[k].path] = [bytes |-> tool[k].bytes, predicted |-> TRUE]]
    BY <1>4, <1>23, <2>1 DEF LoadSanctioned
  <2>3. tool[k] \in Edits /\ ptree \in PTree BY <2>1 DEF TInv, CallInv, TypeOK
  <2>4. \A p \in Path : ptree[p].bytes = disk[p] BY <1>3, <2>1 DEF Knows
  <2>5. \A p \in Path : Kept(p, ptree[p].bytes) BY <2>1 DEF AloneInv, PtreeInv
  <2>6. Kept(tool[k].path, tool[k].bytes) BY <1>3, <2>1 DEF Knows
  <2>7. ASSUME NEW p \in Path
        PROVE  /\ expected'[k][p].bytes = IF p = tool[k].path THEN tool[k].bytes ELSE disk[p]
               /\ Kept(p, expected'[k][p].bytes)
    <3>1. CASE p = tool[k].path
      <4>1. expected'[k][p].bytes = tool[k].bytes BY <2>2, <2>3, <3>1 DEF PTree
      <4>2. QED BY <2>6, <3>1, <4>1
    <3>2. CASE p # tool[k].path
      <4>1. expected'[k][p] = ptree[p] BY <2>2, <2>3, <3>2 DEF PTree
      <4>2. QED BY <2>4, <2>5, <3>2, <4>1
    <3>3. QED BY <3>1, <3>2
  <2>8. \A p \in Path : Kept(p, expected[k][p].bytes)' BY <1>1, <2>1, <2>7 DEF Kept, SoundBytes, history
  <2>9. Knows(k)' BY <2>1, <2>2, <2>3, <2>7, <2>8 DEF Knows, worktree
  <2>10. QED BY <1>5, <2>1, <2>2, <2>9, QuietStep DEF worktree, history
<1>24. CASE RecordMarker(k)
  <2>1. pc[k] = "record" /\ marker = None BY <1>3, <1>24 DEF RecordMarker, Knows
  <2>2. faults' = faults BY <1>8, <1>24, <1>4 DEF HookLost, RecordMarker, Faulty, NoFault
  <2>3. marker' = head /\ pc'[k] = "load" /\ UNCHANGED <<worktree, ptree, turnTree, history>>
    BY <1>4, <1>11, <1>24, <2>2 DEF RecordMarker
  <2>4. ptree = None /\ disk = turnStart /\ head = startHead /\ turnTree = None /\ landed = {} BY <2>1 DEF AloneInv, MarkerInv, Pristine
  <2>5. marker' # None BY <2>3, HookAssumption DEF TInv, TypeOK, WorktreeTypeOK
  <2>6. Pristine' BY <1>2, <2>3, <2>4 DEF Pristine, worktree, history
  <2>7. MarkerInv' BY <2>3, <2>4 DEF MarkerInv, history
  <2>8. Knows(k)' BY <2>3, <2>5 DEF Knows
  <2>9. PtreeInv' /\ TurnTreeKept' /\ PassedInv' /\ LandedInv'
    BY <1>1, <1>2, <1>7, <2>3, <2>4 DEF PtreeInv, TurnTreeKept, PassedInv, LandedInv, history
  <2>10. QED BY <1>2, <1>6, <2>6, <2>7, <2>8, <2>9 DEF AloneInv
<1>25. CASE FirstSight(k)
  <2>1. pc[k] = "firstSight" /\ ptree = None /\ marker # None /\ current[k] = disk BY <1>3, <1>25 DEF FirstSight, Knows
  <2>2. faults' = faults BY <1>8, <1>25, <1>4, <2>1 DEF HookLost, FirstSight
  <2>3. ptree' = AsPTree(disk) /\ pc'[k] = "firstTurnTree" /\ current' = current /\ UNCHANGED <<worktree, marker, turnTree, history>>
    BY <1>4, <1>9, <1>25, <2>1, <2>2 DEF FirstSight, SavePtree
  <2>4. disk = turnStart /\ head = startHead /\ turnTree = None /\ landed = {} BY <2>1 DEF AloneInv, Pristine
  <2>5. \A p \in Path : ptree'[p].bytes = disk[p] BY <2>3 DEF AsPTree
  <2>6. disk \in Tree BY DEF TInv, TypeOK, WorktreeTypeOK
  <2>7. ptree' # None BY <2>3, <2>6, AsPTreeType, HookAssumption
  <2>8. PtreeInv' BY <2>3, <2>4, <2>5, SameBytesSound DEF PtreeInv, Kept, SoundBytes, history
  <2>9. Knows(k)' BY <2>1, <2>3, <2>4, <2>5 DEF Knows, worktree, history
  <2>10. Pristine' BY <2>7 DEF Pristine
  <2>11. MarkerInv' BY <2>1, <2>3 DEF AloneInv, MarkerInv, history
  <2>12. TurnTreeKept' /\ PassedInv' /\ LandedInv'
    BY <1>1, <1>2, <1>7, <2>3, <2>4 DEF TurnTreeKept, PassedInv, LandedInv, history
  <2>13. QED BY <1>2, <1>6, <2>8, <2>9, <2>10, <2>11, <2>12 DEF AloneInv
<1>26. CASE FirstTurnTree(k)
  <2>1. pc[k] = "firstTurnTree" /\ ptree # None /\ turnTree = None /\ disk = turnStart /\ current[k] = disk
    BY <1>3, <1>a, <1>26 DEF FirstTurnTree, Knows
  <2>2. faults' = faults BY <1>8, <1>26, <1>4, <2>1 DEF HookLost, FirstTurnTree
  <2>3. turnTree' = disk /\ pc'[k] = "evaluate" /\ UNCHANGED <<worktree, marker, ptree, history>>
    BY <1>4, <1>10, <1>26, <2>1, <2>2 DEF FirstTurnTree, SaveTurnTree
  <2>4. \A p \in Path : SoundBytes(p, disk[p]) BY <2>1, SameBytesSound
  <2>5. AllKept(disk)' BY <2>3, <2>4 DEF AllKept, Kept, SoundBytes, worktree, history
  <2>6. \A p \in Path : ptree[p].bytes = disk[p] BY <1>3, <2>1 DEF Knows
  <2>7. Knows(k)' BY <2>3, <2>5, <2>6 DEF Knows, worktree
  <2>8. Pristine' /\ MarkerInv' BY <2>1, <2>3 DEF AloneInv, Pristine, MarkerInv, history
  <2>9. PtreeInv' BY <1>1, <2>3 DEF AloneInv, PtreeInv, Kept, SoundBytes, history
  <2>10. TurnTreeKept' BY <2>1, <2>3, <2>4 DEF TurnTreeKept, SoundBytes, history
  <2>11. LandedInv' BY <1>5, <1>7, <1>1, <2>1, <2>3 DEF LandedInv, worktree, history
  <2>12. PassedInv' BY <1>2 DEF PassedInv
  <2>13. QED BY <1>2, <1>6, <2>7, <2>8, <2>9, <2>10, <2>11, <2>12 DEF AloneInv
<1>27. CASE NoDrift(k) \/ Absorb(k)
  <2>1. pc[k] \in {"judge", "absorb"} /\ ptree # None /\ current[k] = disk BY <1>3, <1>a, <1>27 DEF NoDrift, Absorb, Knows
  <2>2. faults' = faults BY <1>8, <1>27, <1>4, <2>1 DEF HookLost, NoDrift, Absorb
  <2>3. ptree' = AsPTree(disk) /\ pc'[k] = "evaluate" /\ UNCHANGED <<worktree, marker, turnTree, history>>
    BY <1>4, <1>9, <1>27, <2>1, <2>2 DEF NoDrift, Absorb, SavePtree
  <2>4. \A p \in Path : ptree'[p].bytes = disk[p] BY <2>3 DEF AsPTree
  <2>5. AllKept(disk)
    <3>1. CASE Absorb(k) BY <1>3, <3>1 DEF Absorb, Knows
    <3>2. CASE NoDrift(k)
      <4>1. expected[k] = ptree /\ Drift(ptree, disk) = {} BY <1>3, <2>1, <3>2 DEF NoDrift, Knows
      <4>2. \A p \in Path : ptree[p].bytes = disk[p] BY <4>1 DEF Drift
      <4>3. \A p \in Path : Kept(p, ptree[p].bytes) BY <2>1 DEF AloneInv, PtreeInv
      <4>4. QED BY <4>2, <4>3 DEF AllKept
    <3>3. QED BY <1>27, <3>1, <3>2
  <2>6. AllKept(disk)' BY <1>1, <2>3, <2>5 DEF AllKept, Kept, SoundBytes, worktree, history
  <2>7. disk \in Tree BY DEF TInv, TypeOK, WorktreeTypeOK
  <2>8. ptree' # None BY <2>3, <2>7, AsPTreeType, HookAssumption
  <2>9. Knows(k)' BY <2>3, <2>4, <2>6 DEF Knows, worktree
  <2>10. PtreeInv' BY <2>3, <2>4, <2>6 DEF PtreeInv, AllKept, worktree
  <2>11. Pristine' /\ MarkerInv' BY <2>1, <2>3, <2>8 DEF AloneInv, Pristine, MarkerInv, history
  <2>12. TurnTreeKept' BY <1>1, <1>2, <2>3 DEF AloneInv, TurnTreeKept, SoundBytes, history
  <2>13. LandedInv' BY <1>7, <1>1, <2>3, <2>4 DEF LandedInv, TInv, TypeOK, worktree, history
  <2>14. PassedInv' BY <1>2 DEF PassedInv
  <2>15. QED BY <1>2, <1>6, <2>9, <2>10, <2>11, <2>12, <2>13, <2>14 DEF AloneInv
<1>28. CASE SaveSanctioned(k)
  <2>1. pc[k] = "sanctionSave" /\ ptree # None /\ expected[k] \in PTree BY <1>a, <1>28 DEF SaveSanctioned, TInv, CallInv
  <2>2. faults' = faults \/ HookLost(k) BY <1>8
  <2>3. CASE faults' = faults
    <3>1. ptree' = expected[k] /\ pc'[k] = "running" /\ tool' = tool /\ UNCHANGED <<worktree, marker, turnTree, history>>
      BY <1>4, <1>9, <1>28, <2>3 DEF SaveSanctioned, SavePtree
    <3>2. tool[k] \in Edits
          /\ \A p \in Path : Kept(p, expected[k][p].bytes) /\ expected[k][p].bytes = IF p = tool[k].path THEN tool[k].bytes ELSE disk[p]
      BY <1>3, <2>1 DEF Knows
    <3>3. tool[k].kind = "edit" /\ tool[k].path \in Path BY <3>2 DEF Edits
    <3>4. Knows(k)' BY <3>1, <3>2, <3>3 DEF Knows
    <3>5. PtreeInv' BY <1>1, <3>1, <3>2 DEF PtreeInv, Kept, SoundBytes, history
    <3>6. ptree' # None BY <2>1, <3>1, HookAssumption
    <3>7. Pristine' /\ MarkerInv' BY <2>1, <3>1, <3>6 DEF AloneInv, Pristine, MarkerInv, history
    <3>8. TurnTreeKept' BY <1>1, <1>2, <3>1 DEF AloneInv, TurnTreeKept, SoundBytes, history
    <3>9. LandedInv'
      <4>1. \A p \in landed : p \in Path BY DEF TInv, TypeOK
      <4>2. QED BY <1>7, <1>1, <3>1, <3>2, <3>3, <4>1 DEF LandedInv, worktree, history
    <3>10. PassedInv' BY <1>2 DEF PassedInv
    <3>11. QED BY <1>2, <1>6, <3>4, <3>5, <3>7, <3>8, <3>9, <3>10 DEF AloneInv
  <2>4. QED BY <1>18, <2>2, <2>3
<1>29. CASE EditLands(k) \/ ShellRuns(k)
  <2>1. pc[k] = "running" /\ ptree # None /\ UNCHANGED <<state, turnStart, startHead>> BY <1>a, <1>29 DEF EditLands, ShellRuns
  <2>2. Pristine' /\ MarkerInv' BY <2>1 DEF AloneInv, Pristine, MarkerInv, state
  <2>3. PtreeInv' BY <1>1, <2>1 DEF AloneInv, PtreeInv, Kept, SoundBytes, state
  <2>4. TurnTreeKept' BY <1>1, <1>2, <2>1 DEF AloneInv, TurnTreeKept, SoundBytes, state
  <2>5. PassedInv' BY <1>2 DEF PassedInv
  <2>6. Knows(k)'
    <3>1. CASE EditLands(k)
      <4>1. pc'[k] = "idle" BY <1>4, <3>1 DEF EditLands
      <4>2. QED BY <4>1 DEF Knows
    <3>2. CASE ShellRuns(k)
      <4>1. pc'[k] = "running" /\ tool'[k].kind = "shell" BY <3>2 DEF ShellRuns, process
      <4>2. QED BY <4>1 DEF Knows
    <3>3. QED BY <1>29, <3>1, <3>2
  <2>7. LandedInv'
    <3> SUFFICES ASSUME setting = "alone" PROVE \A p \in landed' : ptree'[p].bytes = disk'[p]
      BY <1>1, <1>7 DEF LandedInv
    <3> SUFFICES ASSUME NEW p \in landed' PROVE ptree'[p].bytes = disk'[p]
      OBVIOUS
    <3>1. CASE ShellRuns(k)
      <4>1. p \in landed /\ disk'[p] = disk[p] /\ tool[k].kind = "shell" BY <3>1 DEF ShellRuns
      <4>2. QED BY <1>5, <2>1, <4>1 DEF state
    <3>2. CASE EditLands(k)
      <4>1. /\ tool[k].kind = "edit" /\ landed' = landed \cup {tool[k].path}
            /\ disk' = [disk EXCEPT ![tool[k].path] = tool[k].bytes]
        BY <3>2 DEF EditLands
      <4>2. ptree[tool[k].path].bytes = tool[k].bytes BY <1>3, <2>1, <4>1 DEF Knows
      <4>3. landed \subseteq Path /\ disk \in [Path -> Bytes] BY DEF TInv, TypeOK, WorktreeTypeOK, Tree
      <4>4. tool[k].path \in Path BY <1>4, <4>1 DEF Tool, Edits, Shell, NoTool
      <4>5. CASE p = tool[k].path BY <2>1, <4>1, <4>2, <4>3, <4>4, <4>5 DEF state
      <4>6. CASE p # tool[k].path
        <5>1. p \in landed /\ disk'[p] = disk[p] BY <4>1, <4>3, <4>6
        <5>2. ptree[p].bytes = disk[p] BY <1>2, <4>6, <5>1 DEF AloneInv, LandedInv
        <5>3. QED BY <2>1, <5>1, <5>2 DEF state
      <4>7. QED BY <4>5, <4>6
    <3>3. QED BY <1>29, <3>1, <3>2
  <2>8. QED BY <1>2, <1>6, <2>2, <2>3, <2>4, <2>5, <2>6, <2>7 DEF AloneInv
<1>30. QED
  BY <1>12, <1>13, <1>14, <1>15, <1>16, <1>17, <1>18, <1>19, <1>20, <1>21, <1>22, <1>23, <1>24, <1>25, <1>26, <1>27, <1>28, <1>29
     DEF CallStep

\* So does a sweep.
LEMMA PassKeeps ==
    ASSUME TInv, AloneInv, Steps, SweepStep
    PROVE  AloneInv'
<1>1. setting' = setting BY DEF Steps, NextEither
<1>2. faults' = faults \/ SweepLost
  <2>1. faults \in Nat BY HookAssumption DEF TInv, TypeOK
  <2>2. faults' # faults => SweepLost \/ \E j \in Call : HookLost(j)
    <3>1. CASE setting = "alone"
      <4>1. faults' = 0 BY <3>1 DEF Steps, NextEither
      <4>2. faults' = faults \/ faults' = faults + 1
        BY DEF SweepStep, StopBlocks, StopPasses, StopSavesPtree, StopSavesTurnTree, StopAdvances, SweepLost,
               SavePtree, SaveTurnTree, NoFault, Faulty
      <4>3. QED BY <2>1, <4>1, <4>2
    <3>2. CASE setting = "wide" BY <3>2 DEF Steps, NextEither, StaysWide
    <3>3. QED BY <3>1, <3>2 DEF Steps
  <2>3. ASSUME NEW j \in Call, HookLost(j) PROVE FALSE
    <3>1. pc'[j] = "running" /\ pc[j] # "running" BY <2>3 DEF HookLost, Allow, Finish, Goto, TInv, TypeOK, CallStates
    <3>2. pc' = pc
      BY DEF SweepStep, StopBlocks, StopPasses, StopSavesPtree, StopSavesTurnTree, StopAdvances, SweepLost, process
    <3>3. QED BY <3>1, <3>2
  <2>4. QED BY <2>2, <2>3
<1>3. /\ UNCHANGED <<disk, head, hidden, pc, tool, expected, current>> /\ AllIdle /\ AllIdle'
  <2>1. UNCHANGED <<disk, head, hidden, pc, tool, expected, current>>
    BY DEF SweepStep, StopBlocks, StopPasses, StopSavesPtree, StopSavesTurnTree, StopAdvances, SweepLost, process, worktree
  <2>2. AllIdle
    BY DEF SweepStep, StopBlocks, StopPasses, StopSavesPtree, StopSavesTurnTree, StopAdvances, SweepLost, AloneInv, PassedInv
  <2>3. QED BY <2>1, <2>2 DEF AllIdle
<1>4. LoneCall' /\ \A k \in Call : Knows(k)' BY <1>3 DEF AllIdle, LoneCall, Knows
<1>5. setting = "alone" => hidden = {} BY DEF AloneInv, LandedInv
<1>6. ~ Faulty("ptree") \/ faults' # faults BY HookAssumption DEF Faulty, TInv, TypeOK
<1>7. ~ Faulty("turntree") \/ faults' # faults BY HookAssumption DEF Faulty, TInv, TypeOK
<1>8. ~ Faulty("marker") \/ faults' # faults BY HookAssumption DEF Faulty, TInv, TypeOK
<1>9. disk \in Tree /\ AsPTree(disk) # None /\ disk # None /\ head # None
  BY AsPTreeType, HookAssumption DEF TInv, TypeOK, WorktreeTypeOK
<1>10. \A p \in landed : setting = "alone" => ptree[p].bytes = disk[p] BY <1>3 DEF AllIdle, AloneInv, LandedInv
<1>11. CASE StopBlocks
  <2>1. marker' = SweepBase /\ UNCHANGED <<ptree, turnTree, stopPc, stopTree, history>> BY <1>11 DEF StopBlocks, sweep
  <2>2. SweepBase = startHead BY DEF SweepBase, AloneInv, MarkerInv, Pristine
  <2>3. Pristine' BY <1>3, <2>1 DEF AloneInv, Pristine, AllIdle, history
  <2>4. MarkerInv' BY <1>9, <2>1, <2>2, HookAssumption DEF AloneInv, MarkerInv, history, TInv, TypeOK
  <2>5. PtreeInv' BY <1>1, <2>1 DEF AloneInv, PtreeInv, Kept, SoundBytes, history
  <2>6. TurnTreeKept' BY <1>1, <2>1 DEF AloneInv, TurnTreeKept, SoundBytes, history
  <2>7. PassedInv' BY <1>11, <2>1 DEF PassedInv, StopBlocks
  <2>8. LandedInv' BY <1>1, <1>3, <1>10, <1>5, <2>1 DEF LandedInv, history
  <2>9. QED BY <1>4, <2>3, <2>4, <2>5, <2>6, <2>7, <2>8 DEF AloneInv
<1>12. CASE StopPasses
  <2>1. /\ marker' = SweepBase /\ stopPc' = "ptree" /\ stopTree' = disk /\ stopPc = "idle" /\ SweepDenied(SweepBase) = {}
        /\ UNCHANGED <<ptree, turnTree, history>>
    BY <1>12 DEF StopPasses, Snapshot
  <2>2. SweepBase = startHead /\ AllKept(disk) BY <1>5, <2>1, SweepKeeps DEF AloneInv
  <2>3. Pristine' BY <1>3, <2>1 DEF AloneInv, Pristine, AllIdle, history
  <2>4. MarkerInv' BY <1>9, <2>1, <2>2, HookAssumption DEF AloneInv, MarkerInv, history, TInv, TypeOK
  <2>5. PtreeInv' BY <1>1, <2>1 DEF AloneInv, PtreeInv, Kept, SoundBytes, history
  <2>6. TurnTreeKept' BY <1>1, <2>1 DEF AloneInv, TurnTreeKept, SoundBytes, history
  <2>7. AllKept(disk)' BY <1>1, <1>3, <2>1, <2>2 DEF AllKept, Kept, SoundBytes, history
  <2>a. startHead # None BY HookAssumption DEF TInv, TypeOK
  <2>8. PassedInv' BY <1>3, <2>1, <2>2, <2>7, <2>a DEF PassedInv
  <2>9. LandedInv' BY <1>1, <1>3, <1>10, <1>5, <2>1 DEF LandedInv, history
  <2>10. QED BY <1>4, <2>3, <2>4, <2>5, <2>6, <2>8, <2>9 DEF AloneInv
<1>13. CASE StopSavesPtree
  <2>1. stopPc = "ptree" /\ stopPc' = "turntree" /\ stopTree' = stopTree /\ stopTree = disk /\ AllKept(disk) /\ UNCHANGED <<marker, turnTree, history>>
    BY <1>13 DEF StopSavesPtree, AloneInv, PassedInv
  <2>2. ptree' = AsPTree(disk) BY <1>2, <1>6, <1>13, <2>1 DEF StopSavesPtree, SavePtree, SweepLost
  <2>3. \A p \in Path : ptree'[p].bytes = disk[p] BY <2>2 DEF AsPTree
  <2>4. AllKept(disk)' BY <1>1, <1>3, <2>1 DEF AllKept, Kept, SoundBytes, history
  <2>5. PtreeInv' BY <1>3, <2>3, <2>4 DEF PtreeInv, AllKept
  <2>6. PassedInv' BY <1>3, <1>9, <1>13, <2>1, <2>2, <2>3, <2>4 DEF StopSavesPtree, AloneInv, PassedInv
  <2>7. Pristine' BY <1>9, <2>2 DEF Pristine
  <2>8. MarkerInv' BY <1>13, <2>1 DEF StopSavesPtree, AloneInv, MarkerInv, PassedInv, history
  <2>9. TurnTreeKept' BY <1>1, <2>1 DEF AloneInv, TurnTreeKept, SoundBytes, history
  <2>10. LandedInv' BY <1>1, <1>3, <1>5, <2>1, <2>3 DEF LandedInv, history, TInv, TypeOK
  <2>11. QED BY <1>4, <2>5, <2>6, <2>7, <2>8, <2>9, <2>10 DEF AloneInv
<1>14. CASE StopSavesTurnTree
  <2>1. /\ stopPc = "turntree" /\ stopPc' = "marker" /\ stopTree' = stopTree /\ stopTree = disk /\ AllKept(disk)
        /\ ptree # None /\ (\A p \in Path : ptree[p].bytes = disk[p]) /\ marker # None /\ UNCHANGED <<marker, ptree, history>>
    BY <1>14 DEF StopSavesTurnTree, AloneInv, PassedInv
  <2>2. turnTree' = disk BY <1>2, <1>7, <1>14, <2>1 DEF StopSavesTurnTree, SaveTurnTree, SweepLost
  <2>3. AllKept(disk)' BY <1>1, <1>3, <2>1 DEF AllKept, Kept, SoundBytes, history
  <2>4. PtreeInv' BY <1>1, <2>1 DEF AloneInv, PtreeInv, Kept, SoundBytes, history
  <2>5. PassedInv' BY <1>3, <2>1, <2>2, <2>3 DEF PassedInv
  <2>6. Pristine' BY <2>1 DEF Pristine
  <2>7. MarkerInv' BY <2>1 DEF AloneInv, MarkerInv, history
  <2>8. (\A p \in Path : turnTree[p] # Absent => SoundBytes(p, turnTree[p]))'
    BY <1>3, <2>2, <2>3 DEF AllKept, Kept
  <2>9. TurnTreeKept' BY <2>1, <2>8 DEF TurnTreeKept
  <2>10. LandedInv' BY <1>1, <1>3, <1>5, <1>10, <2>1 DEF LandedInv, history
  <2>11. QED BY <1>4, <2>4, <2>5, <2>6, <2>7, <2>9, <2>10 DEF AloneInv
<1>15. CASE SweepLost
  <2>1. /\ stopPc' = "idle" /\ faults' = faults + 1 /\ UNCHANGED <<marker, ptree, turnTree, turnStart, startHead, landed>>
    BY <1>15 DEF SweepLost, Faulty, state, history
  <2>2. setting = "wide" BY <2>1, HookAssumption DEF Steps, NextEither, TInv, TypeOK
  <2>3. Pristine' BY <1>3, <2>1 DEF AloneInv, Pristine, AllIdle
  <2>4. MarkerInv' BY <2>1 DEF AloneInv, MarkerInv
  <2>5. PtreeInv' BY <1>1, <2>1 DEF AloneInv, PtreeInv, Kept, SoundBytes
  <2>6. TurnTreeKept' BY <1>1, <2>1, <2>2 DEF AloneInv, TurnTreeKept, SoundBytes
  <2>7. PassedInv' BY <2>1 DEF PassedInv
  <2>8. LandedInv' BY <1>1, <2>2 DEF LandedInv
  <2>9. QED BY <1>4, <2>3, <2>4, <2>5, <2>6, <2>7, <2>8 DEF AloneInv
<1>16. CASE StopAdvances /\ ~ SweepLost
  <2>1. /\ stopPc = "marker" /\ stopPc' = "idle" /\ turnStart' = disk /\ startHead' = head /\ landed' = {}
        /\ ptree # None /\ (\A p \in Path : ptree[p].bytes = disk[p]) /\ turnTree = disk /\ UNCHANGED <<ptree, turnTree>>
    BY <1>16 DEF StopAdvances, AloneInv, PassedInv
  <2>2. faults' = faults BY <1>2, <1>16
  <2>3. marker' = head BY <1>8, <1>16, <2>2 DEF StopAdvances
  <2>4. \A p \in Path : SoundBytes(p, disk[p])' BY <1>3, <2>1 DEF SoundBytes, Blocking
  <2>5. \A p \in Path : SoundBytes(p, ptree[p].bytes)' BY <1>3, <2>1, <2>4
  <2>6. PtreeInv' BY <2>5 DEF PtreeInv, Kept
  <2>7. Pristine' /\ MarkerInv' BY <1>9, <2>1, <2>3 DEF Pristine, MarkerInv
  <2>8. TurnTreeKept' BY <1>3, <2>1, <2>4 DEF TurnTreeKept
  <2>9. PassedInv' BY <2>1 DEF PassedInv
  <2>10. LandedInv' BY <1>1, <1>3, <1>5, <2>1 DEF LandedInv
  <2>11. QED BY <1>4, <2>6, <2>7, <2>8, <2>9, <2>10 DEF AloneInv
<1>17. QED BY <1>11, <1>12, <1>13, <1>14, <1>15, <1>16 DEF SweepStep

\* A session that has not begun.
LEMMA AloneStarts ==
    ASSUME InitFresh \/ InitEstablished, setting = "alone" => InitFresh
    PROVE  AloneInv
<1>1. InitWorktree /\ InitRest BY DEF InitFresh, InitEstablished
<1>2. TInv BY InitTInv
<1>3. \A k \in Call : pc[k] = "idle" BY <1>1 DEF InitRest
<1>4. disk = turnStart /\ head = startHead /\ landed = {} /\ hidden = {} /\ stopPc = "idle" BY <1>1 DEF InitRest, InitWorktree
<1>5. LoneCall /\ \A k \in Call : Knows(k) BY <1>3 DEF LoneCall, Knows
<1>6. PassedInv /\ LandedInv BY <1>4 DEF PassedInv, LandedInv
<1>7. CASE InitFresh
  <2>1. marker = None /\ ptree = None /\ turnTree = None BY <1>7 DEF InitFresh
  <2>2. QED BY <1>3, <1>4, <1>5, <1>6, <2>1 DEF AloneInv, Pristine, MarkerInv, PtreeInv, TurnTreeKept
<1>8. CASE InitEstablished
  <2>1. marker = head /\ ptree = AsPTree(disk) /\ turnTree = disk BY <1>8 DEF InitEstablished
  <2>2. disk \in Tree /\ head # None /\ ptree # None
    BY <1>2, <2>1, AsPTreeType, HookAssumption DEF TInv, TypeOK, WorktreeTypeOK
  <2>3. \A p \in Path : SoundBytes(p, disk[p]) BY <1>4, SameBytesSound
  <2>4. \A p \in Path : ptree[p].bytes = disk[p] BY <2>1 DEF AsPTree
  <2>5. Pristine /\ MarkerInv BY <1>4, <2>1, <2>2 DEF Pristine, MarkerInv
  <2>6. PtreeInv /\ TurnTreeKept BY <1>4, <2>1, <2>3, <2>4 DEF PtreeInv, Kept, TurnTreeKept
  <2>7. QED BY <1>5, <1>6, <2>5, <2>6 DEF AloneInv
<1>9. QED BY <1>7, <1>8

\* Every step.
LEMMA AloneKeeps ==
    ASSUME IsFiniteSet(Call)
    PROVE  TInv /\ AloneInv /\ setting \in {"alone", "wide"} /\ [NextEither]_<<vars, setting>> /\ FaultsLaterWhenWide' => AloneInv'
<1> SUFFICES ASSUME TInv, AloneInv, setting \in {"alone", "wide"}, [NextEither]_<<vars, setting>>, FaultsLaterWhenWide'
             PROVE  AloneInv'
  OBVIOUS
<1>1. CASE NextEither
  <2>1. Steps BY <1>1 DEF Steps
  <2>2. CASE \E k \in Call : CallStep(k) BY <2>1, <2>2, CallKeeps
  <2>3. CASE SweepStep BY <2>1, <2>3, PassKeeps
  <2>4. QED BY <1>1, <2>2, <2>3 DEF NextEither, Next
<1>2. CASE UNCHANGED <<vars, setting>>
  <2>1. UNCHANGED <<disk, head, idx, hidden, excluded, marker, ptree, turnTree, pc, tool, expected, current, stopPc, stopTree, turnStart, startHead, landed, setting>>
    BY <1>2 DEF vars, worktree, state, process, sweep, history
  <2>2. Pristine' /\ MarkerInv' BY <2>1 DEF AloneInv, Pristine, MarkerInv
  <2>3. PtreeInv' /\ TurnTreeKept' BY <2>1 DEF AloneInv, PtreeInv, Kept, SoundBytes, TurnTreeKept
  <2>4. PassedInv' /\ LoneCall' /\ LandedInv' BY <2>1 DEF AloneInv, PassedInv, AllIdle, AllKept, Kept, SoundBytes, LoneCall, LandedInv
  <2>5. \A k \in Call : Knows(k)' BY <2>1 DEF AloneInv, Knows, AllKept, Kept, SoundBytes
  <2>6. QED BY <2>2, <2>3, <2>4, <2>5 DEF AloneInv
<1>3. QED BY <1>1, <1>2

-----------------------------------------------------------------------------
\* One call at a time, in a session without state files and with no fault: an
\* edit that was allowed and landed is not denied again, a turn is judged against
\* its own start, and one that passes left no protected path weakened, whatever
\* git was told to ignore (sanctionPredictedWrites, turnBaseline, stopVerdict).
THEOREM AloneIsSound ==
    ASSUME IsFiniteSet(Call)
    PROVE  SpecEither => []AloneSound
<1> DEFINE Inv == TInv /\ setting \in {"alone", "wide", "together"} /\ (setting = "alone" => AloneInv)
<1>1. InitEither => Inv
  <2> SUFFICES ASSUME InitEither PROVE Inv
    OBVIOUS
  <2>1. InitFresh \/ InitEstablished BY DEF InitEither
  <2>2. setting = "alone" => InitFresh BY DEF InitEither
  <2>3. QED BY <2>1, <2>2, InitTInv, AloneStarts DEF InitEither
<1>2. Inv /\ [NextEither]_<<vars, setting>> => Inv'
  <2> SUFFICES ASSUME Inv, [NextEither]_<<vars, setting>> PROVE Inv'
    OBVIOUS
  <2>1. TInv' BY NextTInv DEF NextEither
  <2>2. setting' = setting BY DEF NextEither
  <2>3. setting = "alone" => FaultsLaterWhenWide' BY <2>2 DEF FaultsLaterWhenWide
  <2>4. QED BY <2>1, <2>2, <2>3, AloneKeeps
<1>3. Inv => AloneSound
  <2> SUFFICES ASSUME Inv, setting = "alone" PROVE NoRelitigation /\ TurnStateIsTurnStart /\ CleanSweepSound
    BY DEF AloneSound
  <2>1. ASSUME NEW k \in Call, pc[k] = "judge" PROVE Denied(k) \cap landed = {}
    <3>1. expected[k] = ptree /\ current[k] = disk BY <2>1 DEF AloneInv, Knows
    <3>2. \A p \in landed : ptree[p].bytes = disk[p] BY <2>1, LandedIsSanctioned
    <3>3. Denied(k) \subseteq Drift(ptree, disk) BY <3>1 DEF Denied, DriftDenied, PathsOf
    <3>4. \A p \in Drift(ptree, disk) : ptree[p].bytes # disk[p] BY DEF Drift
    <3>5. QED BY <3>2, <3>3, <3>4
  <2>2. TurnStateIsTurnStart BY DEF TurnStateIsTurnStart, AloneInv, MarkerInv, TurnTreeKept
  <2>3. CleanSweepSound BY DEF CleanSweepSound, AloneInv, PassedInv, AllKept, Kept, Sound
  <2>4. QED BY <2>1, <2>2, <2>3 DEF NoRelitigation
<1>4. QED BY <1>1, <1>2, <1>3, PTL DEF SpecEither

\* One call at a time, with hooks and sweeps lost once the session's files stand:
\* what is present when a sweep passes is sound even where no listing shows it,
\* what the ptree sanctions is, and no tool is let run over a tree that was not
\* judged so (effectDriftBlocks, uncoveredDrift, stopVerdict).
THEOREM WideIsSound ==
    ASSUME IsFiniteSet(Call)
    PROVE  SpecEither /\ []FaultsLaterWhenWide => []WideSound
<1> DEFINE Inv == TInv /\ setting \in {"alone", "wide", "together"} /\ (setting = "wide" => AloneInv)
<1>1. InitEither => Inv
  <2> SUFFICES ASSUME InitEither PROVE Inv
    OBVIOUS
  <2>1. InitFresh \/ InitEstablished BY DEF InitEither
  <2>2. QED BY <2>1, InitTInv, AloneStarts DEF InitEither
<1>2. Inv /\ [NextEither]_<<vars, setting>> /\ FaultsLaterWhenWide' => Inv'
  <2> SUFFICES ASSUME Inv, [NextEither]_<<vars, setting>>, FaultsLaterWhenWide' PROVE Inv'
    OBVIOUS
  <2>1. TInv' BY NextTInv DEF NextEither
  <2>2. setting' = setting BY DEF NextEither
  <2>3. QED BY <2>1, <2>2, AloneKeeps
<1>3. Inv => WideSound
  <2> SUFFICES ASSUME Inv, setting = "wide" PROVE PresentSweepSound /\ GateBeforeTool /\ PtreeSound
    BY DEF WideSound
  <2>1. AllKept(disk) => JudgedSound BY DEF AllKept, Kept, JudgedSound, Sound
  <2>2. PresentSweepSound BY <2>1 DEF PresentSweepSound, AloneInv, PassedInv
  <2>3. GateBeforeTool BY <2>1 DEF GateBeforeTool, AloneInv, Knows
  <2>4. PtreeSound BY DEF PtreeSound, AloneInv, PtreeInv, Kept
  <2>5. QED BY <2>2, <2>3, <2>4
<1>4. QED BY <1>1, <1>2, <1>3, PTL DEF SpecEither
=============================================================================
