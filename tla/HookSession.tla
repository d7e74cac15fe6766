---------------------------- MODULE HookSession ----------------------------
(***************************************************************************)
(* The agent-loop gate: the PreToolUse hook and the Stop sweep             *)
(* (src/cli/hook.ts) over the three state files they keep per session      *)
(* under .git/tamperward (src/session.ts, src/effect.ts):                  *)
(*   marker    the commit the turn started from                            *)
(*   ptree     the last SANCTIONED state of every protected path           *)
(*   turnTree  the protected tree as the turn found it                     *)
(*                                                                         *)
(* Every PreToolUse call is a process of its own, started by the runtime   *)
(* when the agent issues a tool call, and calls of parallel tool calls     *)
(* interleave: each reads and replaces whole files by an atomic rename,    *)
(* with no lock between the read and the replacement.  The Stop sweep      *)
(* runs when no call is in flight.                                         *)
(***************************************************************************)
EXTENDS Worktree, Naturals, FiniteSets

CONSTANTS Call,      \* slots for tool calls in flight at once
          None,      \* no file there
          MaxMoves,  \* bound: effects tool calls have on the repository
          MayHide,   \* whether git is told not to compare a path
          MaxFaults, \* bound: injected faults
          Fault      \* which faults happen: "hook", "sweep", "ptree", "turntree", "marker"

VARIABLES marker, ptree, turnTree,            \* the state files
          pc, tool, expected, current,      \* one PreToolUse process per call
          stopPc, stopTree,                   \* the Stop sweep
          moves, faults,                      \* bounded counters
          turnStart, startHead, landed        \* history, read by properties only

state   == <<marker, ptree, turnTree>>
process == <<pc, tool, expected, current>>
sweep   == <<stopPc, stopTree>>
history == <<turnStart, startHead, landed>>
vars == <<worktree, state, process, sweep, moves, faults, history>>

NoTool == [kind |-> "none"]
Edits  == [kind : {"edit"}, path : Path, bytes : Content]
Shell  == [kind |-> "shell"]
Tool   == Edits \union {Shell}

\* predicted: recorded by sanctionPredictedWrites and not yet seen on disk by a
\* snapshot (mtimeMs = -1 in the code).
Entry == [bytes : Bytes, predicted : BOOLEAN]
PTree == [Path -> Entry]

ASSUME HookAssumption ==
    /\ None \notin Tree \union PTree
    /\ MaxMoves \in Nat
    /\ MaxFaults \in Nat
    /\ MayHide \in BOOLEAN

\* snapshotProtected: the protected tree as it stands.
Snapshot == disk
AsPTree(tree) == [p \in Path |-> [bytes |-> tree[p], predicted |-> FALSE]]

CallStates == {"idle", "marker", "record", "load", "snapshot", "firstSight",
               "firstTurnTree", "judge", "absorb", "evaluate", "sanction",
               "sanctionSave", "running"}

TypeOK ==
    /\ WorktreeTypeOK
    /\ marker   \in Tree \union {None}
    /\ ptree    \in PTree \union {None}
    /\ turnTree \in Tree \union {None}
    /\ pc       \in [Call -> CallStates]
    /\ tool     \in [Call -> Tool \union {NoTool}]
    /\ expected \in [Call -> PTree \union {None}]
    /\ current  \in [Call -> Tree \union {None}]
    /\ stopPc   \in {"idle", "ptree", "turntree", "marker"}
    /\ stopTree \in Tree \union {None}
    /\ moves \in 0 .. MaxMoves
    /\ faults \in 0 .. MaxFaults
    /\ turnStart \in Tree
    /\ startHead \in Tree
    /\ landed \subseteq Path

-----------------------------------------------------------------------------
(* The judgement.  evaluate() reads a change's before and after; what the   *)
(* rules make of the two is abstracted to an order: strong contents may     *)
(* not become weak ones, and only weak ones may go away.                    *)

Blocking(before, after) ==
    /\ before \notin Weak
    /\ after \in Weak \/ (after = Absent /\ before # Absent)

BlockedChange(c) == Blocking(c.before, c.after) \/ disk[c.path] \in Unread

\* turnView: untracked and ignored protected files the turn found in place are
\* dropped, when both trees know them at the bytes on disk; an ignored file the
\* ptree sanctioned at other bytes is left to uncoveredDrift.
Untouched(p, pt, tt) ==
    /\ HashOnDisk(p) # Absent
    /\ tt # None /\ tt[p] = HashOnDisk(p)
    /\ pt # None /\ pt[p].bytes = HashOnDisk(p)

SanctionedElsewhere(p, pt) ==
    /\ pt # None /\ pt[p].bytes # Absent
    /\ HashOnDisk(p) # Absent
    /\ pt[p].bytes # HashOnDisk(p)

TurnView(base, pt, tt) ==
    LET tracked   == DiffSince(base)
        untracked == {AddOf(p) : p \in {q \in UntrackedPaths \ PathsOf(tracked) :
                                            ~ Untouched(q, pt, tt)}}
        ignored   == {AddOf(p) : p \in {q \in IgnoredPaths \ PathsOf(tracked) :
                                            /\ ~ Untouched(q, pt, tt)
                                            /\ ~ SanctionedElsewhere(q, pt)}}
        seen      == PathsOf(tracked \union untracked \union ignored)
        hiddenOnes == {ChangeOf(p, base[p], disk[p]) :
                          p \in {q \in HiddenTrackedPaths \ seen : base[q] # disk[q]}}
    IN  tracked \union untracked \union ignored \union hiddenOnes

\* driftBetween: the paths whose snapshot is not the sanctioned state.
Drift(exp, cur) == {p \in Path : exp[p].bytes # cur[p]}

\* uncoveredDrift, for one drifted path no part of the view carries.
Excused(p, exp, cur, base, tt) ==
    /\ exp[p].bytes # Absent /\ cur[p] # Absent
    /\ \/ disk[p] # Absent /\ disk[p] = base[p]
       \/ exp[p].predicted /\ tt # None /\ tt[p] = cur[p]

Reconstructible(p, exp, base) == exp[p].bytes \in {base[p], head[p], idx[p]}

GapBlocks(p, exp, cur, base, tt) ==
    \/ disk[p] \in Unread
    \/ /\ exp[p].bytes # Absent
       /\ ~ Excused(p, exp, cur, base, tt)
       /\ \/ ~ Reconstructible(p, exp, base)
          \/ Blocking(exp[p].bytes, disk[p])
    \/ /\ exp[p].bytes = Absent
       /\ disk[p] = Absent \/ Blocking(Absent, disk[p])


\* Mutant: drift no part of the view carries is not reconstructed.
DriftWithoutGap(exp, cur, base, pt, tt) ==
    PathsOf({c \in TurnView(base, pt, tt) : c.path \in Drift(exp, cur) /\ BlockedChange(c)})

\* The paths the drift check of one call denies: the view scoped to the drifted
\* paths, and the drift the view does not carry.
DriftDenied(exp, cur, base, pt, tt) ==
    LET drifted == Drift(exp, cur)
        scoped  == {c \in TurnView(base, pt, tt) : c.path \in drifted}
    IN  PathsOf({c \in scoped : BlockedChange(c)})
          \union {p \in drifted \ PathsOf(scoped) : GapBlocks(p, exp, cur, base, tt)}


\* The paths the Stop sweep denies: the whole view, and the drift it misses.
SweepDenied(base) ==
    LET seen == TurnView(base, ptree, turnTree)
    IN  PathsOf({c \in seen : BlockedChange(c)})
          \union (IF ptree = None THEN {} ELSE
                    {p \in Drift(ptree, Snapshot) \ PathsOf(seen) :
                        GapBlocks(p, ptree, Snapshot, base, turnTree)})

-----------------------------------------------------------------------------
(* Two starting points: a session with no state yet, and one whose first    *)
(* call has recorded the three files.  The repository may already be dirty. *)

InitWorktree ==
    /\ disk \in Tree /\ head \in Tree
    /\ idx = head
    /\ hidden = {} /\ excluded \in SUBSET Path
    /\ \A p \in Path : p \in Unlisted => head[p] = Absent

InitRest ==
    /\ pc = [k \in Call |-> "idle"]
    /\ tool = [k \in Call |-> NoTool]
    /\ expected = [k \in Call |-> None]
    /\ current  = [k \in Call |-> None]
    /\ stopPc = "idle" /\ stopTree = None
    /\ moves = 0 /\ faults = 0
    /\ turnStart = disk /\ startHead = head /\ landed = {}

InitFresh ==
    /\ InitWorktree /\ InitRest
    /\ marker = None /\ ptree = None /\ turnTree = None

InitEstablished ==
    /\ InitWorktree /\ InitRest
    /\ marker = head /\ ptree = AsPTree(disk) /\ turnTree = disk

-----------------------------------------------------------------------------
(* A fault is injected at most MaxFaults times: a state file that cannot be *)
(* written (the tree saves are best effort), a hook the runtime kills.      *)

Faulty(kind) == kind \in Fault /\ faults < MaxFaults /\ faults' = faults + 1
NoFault == UNCHANGED faults

SavePtree(tree) ==
    \/ NoFault /\ ptree' = tree
    \/ Faulty("ptree") /\ UNCHANGED ptree

SaveTurnTree(tree) ==
    \/ NoFault /\ turnTree' = tree
    \/ Faulty("turntree") /\ UNCHANGED turnTree

-----------------------------------------------------------------------------
(* PreToolUse: preToolUseVerdict for call k.                                *)

Goto(k, label) == pc' = [pc EXCEPT ![k] = label]
Finish(k, label) ==
    /\ Goto(k, label)
    /\ expected' = [expected EXCEPT ![k] = None]
    /\ current'  = [current EXCEPT ![k] = None]

\* Denied, or the verdict threw and the hook failed closed: the tool never runs.
Deny(k) ==
    /\ Finish(k, "idle")
    /\ tool' = [tool EXCEPT ![k] = NoTool]
Allow(k) == Finish(k, "running") /\ UNCHANGED tool

Begin(k, t) ==
    /\ pc[k] = "idle" /\ stopPc = "idle" /\ moves < MaxMoves
    /\ Goto(k, "marker")
    /\ tool' = [tool EXCEPT ![k] = t]
    /\ UNCHANGED <<worktree, state, expected, current, sweep, moves, faults, history>>


\* turnBaseline, the read: a marker stands, or one has to be established.
ReadMarker(k) ==
    /\ pc[k] = "marker"
    /\ Goto(k, IF marker = None THEN "record" ELSE "load")
    /\ UNCHANGED <<worktree, state, tool, expected, current, sweep, moves, faults, history>>

\* turnBaseline, headSha and writeBaseline: the rename replaces whatever
\* another call put there meanwhile.  A write that fails raises, and denies.
RecordMarker(k) ==
    /\ pc[k] = "record"
    /\ \/ /\ marker' = head
          /\ Goto(k, "load")
          /\ NoFault /\ UNCHANGED <<tool, expected, current>>
       \/ Faulty("marker") /\ Deny(k) /\ UNCHANGED marker
    /\ UNCHANGED <<worktree, ptree, turnTree, sweep, moves, history>>

\* effectDriftBlocks: loadPtree, then snapshotProtected.
LoadPtree(k) ==
    /\ pc[k] = "load"
    /\ expected' = [expected EXCEPT ![k] = ptree]
    /\ Goto(k, "snapshot")
    /\ UNCHANGED <<worktree, state, tool, current, sweep, moves, faults, history>>

TakeSnapshot(k) ==
    /\ pc[k] = "snapshot"
    /\ current' = [current EXCEPT ![k] = Snapshot]
    /\ Goto(k, IF expected[k] = None THEN "firstSight" ELSE "judge")
    /\ UNCHANGED <<worktree, state, tool, expected, sweep, moves, faults, history>>

\* First sight: savePtree, then the turn tree is written beside it, or dropped
\* when one already stands there with no ptree.
FirstSight(k) ==
    /\ pc[k] = "firstSight"
    /\ SavePtree(AsPTree(current[k]))
    /\ Goto(k, "firstTurnTree")
    /\ UNCHANGED <<worktree, marker, turnTree, tool, expected, current, sweep, moves, history>>

FirstTurnTree(k) ==
    /\ pc[k] = "firstTurnTree"
    /\ IF turnTree # None THEN turnTree' = None /\ NoFault
                          ELSE SaveTurnTree(current[k])
    /\ Goto(k, "evaluate")
    /\ UNCHANGED <<worktree, marker, ptree, tool, expected, current, sweep, moves, history>>

\* The drift check: no drift refreshes the ptree; drift that is denied is not
\* absorbed; drift that is judged clean is.
NoDrift(k) ==
    /\ pc[k] = "judge"
    /\ Drift(expected[k], current[k]) = {}
    /\ SavePtree(AsPTree(current[k]))
    /\ Goto(k, "evaluate")
    /\ UNCHANGED <<worktree, marker, turnTree, tool, expected, current, sweep, moves, history>>

Denied(k) == DriftDenied(expected[k], current[k], marker, ptree, turnTree)


DriftDeny(k) ==
    /\ pc[k] = "judge"
    /\ Denied(k) # {}
    /\ Deny(k)
    /\ UNCHANGED <<worktree, state, sweep, moves, faults, history>>

DriftClean(k) ==
    /\ pc[k] = "judge"
    /\ Drift(expected[k], current[k]) # {}
    /\ Denied(k) = {}
    /\ Goto(k, "absorb")
    /\ UNCHANGED <<worktree, state, tool, expected, current, sweep, moves, faults, history>>


\* Mutant: the turn tree moves with the ptree at every call.
AbsorbBoth(k) ==
    /\ pc[k] = "absorb"
    /\ SavePtree(AsPTree(current[k]))
    /\ turnTree' = current[k]
    /\ Goto(k, "evaluate")
    /\ UNCHANGED <<worktree, marker, tool, expected, current, sweep, moves, history>>

Absorb(k) ==
    /\ pc[k] = "absorb"
    /\ SavePtree(AsPTree(current[k]))
    /\ Goto(k, "evaluate")
    /\ UNCHANGED <<worktree, marker, turnTree, tool, expected, current, sweep, moves, history>>

\* evaluate(changesFromClaudeHook): an edit is judged against the disk as it is
\* now; a shell command carries no file change.
Changes(k) ==
    IF tool[k].kind = "edit" /\ disk[tool[k].path] # tool[k].bytes
    THEN {ChangeOf(tool[k].path, disk[tool[k].path], tool[k].bytes)} ELSE {}

Evaluate(k) ==
    /\ pc[k] = "evaluate"
    /\ \/ /\ \E c \in Changes(k) : Blocking(c.before, c.after)
          /\ Deny(k)
       \/ /\ Changes(k) = {}
          /\ Allow(k)
       \/ /\ \E c \in Changes(k) : ~ Blocking(c.before, c.after)
          /\ Finish(k, "sanction") /\ UNCHANGED tool
    /\ UNCHANGED <<worktree, state, sweep, moves, faults, history>>

\* sanctionPredictedWrites: the ptree is loaded afresh, amended, and saved whole.
LoadSanctioned(k) ==
    /\ pc[k] = "sanction"
    /\ IF ptree = None THEN Allow(k)
       ELSE /\ expected' = [expected EXCEPT ![k] =
                   [ptree EXCEPT ![tool[k].path] = [bytes |-> tool[k].bytes, predicted |-> TRUE]]]
            /\ Goto(k, "sanctionSave")
            /\ UNCHANGED <<tool, current>>
    /\ UNCHANGED <<worktree, state, sweep, moves, faults, history>>


SaveSanctioned(k) ==
    /\ pc[k] = "sanctionSave"
    /\ SavePtree(expected[k])
    /\ Allow(k)
    /\ UNCHANGED <<worktree, marker, turnTree, sweep, moves, history>>

\* Any step may throw (an unreadable policy, a git failure): failClosed denies.
FailClosed(k) ==
    /\ pc[k] \in CallStates \ {"idle", "running"}
    /\ Deny(k)
    /\ UNCHANGED <<worktree, state, sweep, moves, faults, history>>

\* The runtime gave up on the hook process (a timeout, a crash): the tool runs
\* with no verdict.
HookLost(k) ==
    /\ pc[k] \in CallStates \ {"idle", "running"}
    /\ Faulty("hook")
    /\ Allow(k)
    /\ UNCHANGED <<worktree, state, sweep, moves, history>>

-----------------------------------------------------------------------------
(* The tool call itself, once allowed.                                      *)

ToolDone(k) ==
    /\ Finish(k, "idle")
    /\ tool' = [tool EXCEPT ![k] = NoTool]

EditLands(k) ==
    /\ pc[k] = "running" /\ tool[k].kind = "edit" /\ moves < MaxMoves
    /\ disk' = [disk EXCEPT ![tool[k].path] = tool[k].bytes]
    /\ landed' = landed \union {tool[k].path}
    /\ moves' = moves + 1
    /\ ToolDone(k)
    /\ UNCHANGED <<idx, head, hidden, excluded, state, sweep, faults, turnStart, startHead>>

\* The user rejects the edit, or the tool fails to apply it.
EditRejected(k) ==
    /\ pc[k] = "running" /\ tool[k].kind = "edit"
    /\ landed' = landed \ {tool[k].path}
    /\ ToolDone(k)
    /\ UNCHANGED <<worktree, state, sweep, moves, faults, turnStart, startHead>>

ShellRuns(k) ==
    /\ pc[k] = "running" /\ tool[k].kind = "shell" /\ moves < MaxMoves
    /\ ShellEffect
    /\ hidden' \subseteq hidden \/ MayHide
    /\ landed' = {p \in landed : disk'[p] = disk[p] /\ idx'[p] = idx[p]}
    /\ moves' = moves + 1
    /\ UNCHANGED <<state, process, sweep, faults, turnStart, startHead>>

ShellExits(k) ==
    /\ pc[k] = "running" /\ tool[k].kind = "shell"
    /\ ToolDone(k)
    /\ UNCHANGED <<worktree, state, sweep, moves, faults, history>>

-----------------------------------------------------------------------------
(* Stop: stopVerdict.  No tool call is in flight, so what the sweep reads   *)
(* does not move while it reads it; its three writes are separate renames.  *)

AllIdle == \A k \in Call : pc[k] = "idle"


\* Mutant: the sweep compares with HEAD, as `git diff HEAD` did.
SweepAgainstHead == head

\* turnBaseline in the sweep: the marker, established now if none stands.
SweepBase == IF marker = None THEN head ELSE marker


\* Mutant: a denied turn moves the baseline too.
StopBlocksAdvancing ==
    /\ stopPc = "idle" /\ AllIdle
    /\ SweepDenied(SweepBase) # {}
    /\ marker' = head
    /\ UNCHANGED <<worktree, ptree, turnTree, process, sweep, moves, faults, history>>

\* The verdict.  A denied turn keeps the trees and the baseline as they are.
StopBlocks ==
    /\ stopPc = "idle" /\ AllIdle
    /\ SweepDenied(SweepBase) # {}
    /\ marker' = SweepBase
    /\ UNCHANGED <<worktree, ptree, turnTree, process, sweep, moves, faults, history>>

StopPasses ==
    /\ stopPc = "idle" /\ AllIdle
    /\ SweepDenied(SweepBase) = {}
    /\ marker' = SweepBase
    /\ stopPc' = "ptree"
    /\ stopTree' = Snapshot
    /\ UNCHANGED <<worktree, ptree, turnTree, process, moves, faults, history>>

StopSavesPtree ==
    /\ stopPc = "ptree"
    /\ SavePtree(AsPTree(stopTree))
    /\ stopPc' = "turntree"
    /\ UNCHANGED <<worktree, marker, turnTree, process, stopTree, moves, history>>

StopSavesTurnTree ==
    /\ stopPc = "turntree"
    /\ SaveTurnTree(stopTree)
    /\ stopPc' = "marker"
    /\ UNCHANGED <<worktree, marker, ptree, process, stopTree, moves, history>>

\* advanceTurnBaseline: best effort.  The turn ends here.
StopAdvances ==
    /\ stopPc = "marker"
    /\ \/ NoFault /\ marker' = head
       \/ Faulty("marker") /\ UNCHANGED marker
    /\ stopPc' = "idle" /\ stopTree' = None
    /\ turnStart' = disk /\ startHead' = head /\ landed' = {}
    /\ UNCHANGED <<worktree, ptree, turnTree, process, moves>>

\* The runtime gave up on the sweep between its writes: the turn never ended clean.
SweepLost ==
    /\ stopPc # "idle"
    /\ Faulty("sweep")
    /\ stopPc' = "idle" /\ stopTree' = None
    /\ UNCHANGED <<worktree, state, process, moves, history>>

-----------------------------------------------------------------------------
CallStep(k) ==
    \/ \E t \in Tool : Begin(k, t)
    \/ ReadMarker(k) \/ RecordMarker(k)
    \/ LoadPtree(k) \/ TakeSnapshot(k)
    \/ FirstSight(k) \/ FirstTurnTree(k)
    \/ NoDrift(k) \/ DriftDeny(k) \/ DriftClean(k) \/ Absorb(k)
    \/ Evaluate(k) \/ LoadSanctioned(k) \/ SaveSanctioned(k)
    \/ FailClosed(k) \/ HookLost(k)
    \/ EditLands(k) \/ EditRejected(k) \/ ShellRuns(k) \/ ShellExits(k)

SweepStep ==
    \/ StopBlocks \/ StopPasses
    \/ StopSavesPtree \/ StopSavesTurnTree \/ StopAdvances \/ SweepLost

Next == (\E k \in Call : CallStep(k)) \/ SweepStep

SpecFresh == InitFresh /\ [][Next]_vars
Spec      == InitEstablished /\ [][Next]_vars
\* Bound: a fault before anything was recorded leaves nothing to compare with.
FaultsLater == ptree = None => faults = 0
-----------------------------------------------------------------------------
(* Properties.                                                              *)

\* Bytes at p that weaken neither what the turn found on disk nor what HEAD
\* held for p when the turn started.
SoundBytes(p, bytes) ==
    \/ ~ Blocking(turnStart[p], bytes)
    \/ startHead[p] # Absent /\ ~ Blocking(startHead[p], bytes)

Sound(p) == SoundBytes(p, disk[p])

\* A turn the sweep passes leaves no protected path weakened, however the
\* change was made and wherever git was told not to look (stopVerdict,
\* turnView, uncoveredDrift).
CleanSweepSound == stopPc # "idle" => \A p \in Path : Sound(p)

\* The same, but for a file HEAD never held and that is gone: hidden after it
\* was added to the index, the diff still lists it as an add, so no other part
\* of the sweep looks for it on disk.
JudgedSound ==
    \A p \in Path : (disk[p] # Absent \/ startHead[p] # Absent) => Sound(p)
PresentSweepSound == stopPc # "idle" => JudgedSound

\* The part of PresentSweepSound that does not depend on the ptree, and so holds
\* under any interleaving of the calls and any fault of theirs: a path that one
\* of git's views lists is judged against the turn's own start.
Visible(p) == \/ startHead[p] # Absent
              \/ disk[p] # Absent /\ (p \in Tracked \/ p \notin excluded \union Unlisted)
VisibleSweepSound ==
    stopPc # "idle" => \A p \in Path : Visible(p) => SoundBytes(p, disk[p])

\* Drift is not absorbed unjudged: whatever the ptree sanctions is sound
\* (effectDriftBlocks: "do NOT absorb"; uncoveredDrift).
PtreeSound ==
    ptree # None =>
        \A p \in Path : ptree[p].bytes = Absent \/ SoundBytes(p, ptree[p].bytes)

\* The effect check runs before the tool: once it has passed, the call cannot be
\* allowed over a tree some earlier call (or a hook the runtime lost) weakened.
GateBeforeTool ==
    \A k \in Call : pc[k] = "evaluate" => JudgedSound

\* An edit this hook allowed, and that landed as predicted, is not denied by the
\* drift check of a later call (sanctionPredictedWrites).
NoRelitigation ==
    \A k \in Call : pc[k] = "judge" => Denied(k) \intersect landed = {}

\* The baseline is the commit the turn STARTED from: once recorded it moves only
\* when a turn ends clean (turnBaseline, advanceTurnBaseline).
BaselineMovesAtCleanStop ==
    [][marker # None /\ marker' # marker => stopPc = "marker"]_vars

\* What the sweep judges a turn against is that turn's own start: the baseline
\* is the HEAD it began from, and the turn tree the disk it began on.
TurnStateIsTurnStart ==
    stopPc = "idle" =>
        /\ marker # None => marker = startHead
        /\ turnTree # None => turnTree = turnStart

=============================================================================
