--------------------------- MODULE MCHookSession ---------------------------
(* HookSession for TLC, in three settings: calls in flight together; a call *)
(* at a time in a session without state files; and a call at a time among   *)
(* more contents and paths, one of them known to nobody's listing, whatever *)
(* the session's start, with a fault.  Calls are interchangeable, so the    *)
(* instance is symmetric in Call; no liveness property is checked on it.    *)
EXTENDS HookSession, TLC

CONSTANT WideMoves   \* bound: moves in the wide setting
CallSymmetry == Permutations(Call)

VARIABLE setting

\* Outside the wide setting: listed paths only, and contents the engine reads.
Narrow(tree) == \A x \in Path : tree[x] \notin Unread /\ (x \in Unlisted => tree[x] = Absent)
NarrowTool(t) == t.kind = "edit" => t.path \notin Unlisted /\ t.bytes \notin Unread

InitEither ==
    /\ setting \in {"together", "alone", "wide"}
    /\ CASE setting = "together" -> InitEstablished
         [] setting = "alone" -> InitFresh
         [] OTHER -> InitFresh \/ InitEstablished
    /\ setting = "wide" => \A x \in Path : head[x] \notin Unread   \* bound
    /\ setting # "wide" => Narrow(disk) /\ Narrow(head) /\ excluded \cap Unlisted = {}

InFlight == {k \in Call : pc[k] # "idle"}
StaysNarrow == /\ Narrow(disk') /\ Narrow(head') /\ Narrow(idx')
               /\ \A k \in Call : NarrowTool(tool'[k])
               /\ (hidden' \cup excluded') \cap Unlisted = {}
StaysWide == /\ moves' <= WideMoves
             /\ moves = WideMoves => InFlight' \subseteq InFlight
             /\ faults' # faults => SweepLost \/ \E k \in Call : HookLost(k)
NextEither ==
    /\ Next
    /\ UNCHANGED setting
    /\ setting # "together" => Cardinality(InFlight') <= 1
    /\ setting = "alone" => hidden' = {} /\ faults' = 0
    /\ IF setting = "wide" THEN StaysWide ELSE StaysNarrow
SpecEither == InitEither /\ [][NextEither]_<<vars, setting>>

FaultsLaterWhenWide == setting = "wide" => FaultsLater

\* A call at a time: what an allowed edit left is not denied again, a turn is
\* judged against its own start, and one that passes left no protected path
\* weakened (sanctionPredictedWrites, turnBaseline, stopVerdict).
AloneSound == setting = "alone" => NoRelitigation /\ TurnStateIsTurnStart /\ CleanSweepSound

\* In the wide setting: what is present at a clean sweep was judged, what is in
\* the ptree was seen or sanctioned, and no tool runs on an unjudged drift
\* (stopVerdict, uncoveredDrift, hookVerdict).
WideSound == setting = "wide" => PresentSweepSound /\ GateBeforeTool /\ PtreeSound
=============================================================================
