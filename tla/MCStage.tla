------------------------------ MODULE MCStage ------------------------------
(* What a suite stage is made of, for TLC: reading the disk, the captured   *)
(* suite, the container, the copies, the dependency environment; and the    *)
(* traced verifier.  None reads another's state: a behaviour moves one.     *)
EXTENDS DiskRead, SuiteCapture, ContainerStage, Materialise, DependencyEnv, MCTrace

VARIABLE side
all == <<diskVars, captureVars, containerVars, copyVars, depVars, traceVars, side>>

Init == /\ DiskInit /\ CaptureInit /\ ContainerInit /\ CopyInit /\ DepInit /\ TraceInit
        /\ side \in {"disk", "capture", "container", "copy", "deps", "trace"}
        /\ side # "disk" => at = NoInode
        /\ side # "container" => ~engine.replaceable
Next == /\ UNCHANGED side
        /\ \/ side = "disk" /\ DiskNext /\ UNCHANGED <<captureVars, containerVars, copyVars, depVars, traceVars>>
           \/ side = "capture" /\ CaptureNext /\ UNCHANGED <<diskVars, containerVars, copyVars, depVars, traceVars>>
           \/ side = "container" /\ ContainerNext /\ UNCHANGED <<diskVars, captureVars, copyVars, depVars, traceVars>>
           \/ side = "copy" /\ CopyNext /\ UNCHANGED <<diskVars, captureVars, containerVars, depVars, traceVars>>
           \/ side = "deps" /\ DepNext /\ UNCHANGED <<diskVars, captureVars, containerVars, copyVars, traceVars>>
           \/ side = "trace" /\ TraceNext /\ UNCHANGED <<diskVars, captureVars, containerVars, copyVars, depVars>>
Spec == /\ Init /\ [][Next]_all
        /\ WF_diskVars(side = "disk" /\ DiskStep /\ UNCHANGED <<captureVars, containerVars, copyVars, depVars, traceVars, side>>)
        /\ WF_captureVars(side = "capture" /\ SupStep /\ UNCHANGED <<diskVars, containerVars, copyVars, depVars, traceVars, side>>)

(* A captured suite: its exit is the child's own, the answer comes after its *)
(* end, what it left behind and still owns is ended, and no stranger is      *)
(* signalled (suite-diagnostics.ts).                                         *)
SuiteOwned == CaptureTypeOK /\ StrangersSpared /\ ExitIsChilds /\ AnswerAfterEnd /\ OwnedEnded

(* A copy keeps its links at home, and its protected surface is the base's   *)
(* (candidate-snapshot.ts, verify.ts).                                       *)
CopySound == LinksStayHome /\ SurfaceIsBase

(* An environment that is told unchanged is bounded, and the one frozen      *)
(* (dependency-env.ts).                                                      *)
EnvironmentSound == OkMeansAsFrozen /\ OkIsBounded

(* A refused container never runs, an exit is that of the box, and no box is *)
(* left behind (verifier-backend.ts); what is read stood at the path and     *)
(* what is appended lands at home, whatever is put there (disk.ts).          *)
OutsideSound == /\ [](ContainerTypeOK /\ DiskTypeOK /\ RefusedNeverRuns /\ ReadsWhatStood)
                /\ ExitIsBoxes /\ LeavesNoBox /\ AppendsAtHome

(* A captured suite is always answered for, and a call on a path of another  *)
(* kind of file comes back.                                                  *)
StageEnds == AnswerComes /\ CallEnds

Kinds == [f |-> "file", g |-> "file", o |-> "oversize", l |-> "symlink", p |-> "fifo", d |-> "directory", s |-> "socket"]

(* Trees: a protected directory t, its other spelling T, a source directory *)
(* s, a link l, node_modules.                                               *)
LinkTexts == {<<"s", "a">>, <<"t", "a", "..", "..", "s">>, <<NM, "..", "s">>, <<"NODE_MODULES", "..", "s">>,
              <<NM, "e">>, <<NM, "f">>, <<NM, "g">>, <<"l">>, <<"..", "s">>}
LowerCase == ("NODE_MODULES" :> NM) @@ ("T" :> "t")
CandidateTrees ==
    Trees((<<"t">> :> {None, Link(<<"s">>), File("c")}) @@ (<<"t", "b">> :> {None, File("c")})
       @@ (<<"t", "a">> :> {None, File("c"), Link(<<"..">>)}) @@ (<<"T", "a">> :> {None, File("c")})
       @@ (<<"s", "a">> :> {None, File("c"), Special, Link(<<"..", "l">>)})
       @@ (<<"l">> :> {None, AbsLink("out", <<>>)} \cup {Link(to) : to \in LinkTexts}))
    \cup Trees(<<NM, "x">> :> {File("c")}) \cup Trees(<<"NODE_MODULES", "x">> :> {File("c")})
BaseTrees ==
    Trees(<<"t", "a">> :> {None, File("b"), Link(<<"..">>), Link(<<"..", NM, "..", "s">>), [k |-> "commit"]})
DependencyTrees ==
    {<<>>, (<<"d">> :> File("d")) @@ (<<"e">> :> AbsLink("out", <<>>)) @@ (<<"f">> :> Link(<<"..", "o">>))
              @@ (<<"g">> :> AbsLink("deps", <<"d">>))}
Surface == {<<"t", "a">>, <<"t", "b">>, <<"u", "a">>}
SomeCommands ==
    {[virtualEnv |-> v, inferred |-> i, python |-> TRUE, unsupported |-> FALSE] :
        v \in {"unset", "sound"}, i \in {"none", "unbounded"}}
=============================================================================
