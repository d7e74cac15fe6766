--------------------------- MODULE SuiteCapture ---------------------------
(* The supervisor that runs a suite or a container client, drains its       *)
(* pipes, ends what it owns and answers (src/suite-diagnostics.ts, Linux).  *)
(* Pids are reused: a (pid, birth) pair is one process.  Bounds: MaxBirth   *)
(* processes in all.                                                        *)
EXTENDS Integers, FiniteSets

CONSTANTS Pid, MaxBirth
ASSUME CaptureAssumption == MaxBirth \in Nat /\ Pid \cap {"root", "init", "none"} = {}

VARIABLES
    child,     \* the suite's own process: running, ended by itself or killed
    proc,      \* pid -> its bearer
    births,    \* processes born so far, other than the child
    tracked,   \* {<<pid, birth>>} the supervisor has seen below the child
    sup,       \* the supervisor
    answer,    \* what the caller gets
    signalled  \* whose processes were signalled
captureVars == <<child, proc, births, tracked, sup, answer, signalled>>

NoProc == [birth |-> 0, parent |-> "none", group |-> FALSE, pipe |-> FALSE, of |-> "nobody"]
NoAnswer == [there |-> FALSE, exit |-> "null", timedOut |-> FALSE, held |-> FALSE, error |-> FALSE]
Code == {"zero", "nonzero"}

CaptureInit ==
    /\ child = [state |-> "none", code |-> "null", bearer |-> "none"]
    /\ proc = [p \in Pid |-> NoProc]
    /\ births = 0
    /\ tracked = {}
    /\ sup = [pc |-> "start", timer |-> FALSE, timedOut |-> FALSE, drain |-> FALSE, exit |-> "null",
              kills |-> FALSE, detached |-> FALSE]
    /\ answer = NoAnswer
    /\ signalled = {}

Running == sup.pc = "running"
There(p) == proc[p].birth # 0

(* The tree below the child's pid as /proc shows it, whoever bears the pid. *)
Descendants ==
    LET direct == {p \in Pid : There(p) /\ proc[p].parent = "root"}
    IN  direct \cup {p \in Pid : There(p) /\ proc[p].parent \in direct}
Observed == IF child.bearer = "none" THEN {} ELSE {<<p, proc[p].birth>> : p \in Descendants}
(* Mutant: a pid is taken for the process that had it.                      *)
KillableByPid(seen) == {p \in Pid : There(p) /\ \E e \in seen : e[1] = p}

Killable(seen) == {p \in Pid : There(p) /\ <<p, proc[p].birth>> \in seen}

(* A process that ends leaves its children to init.                         *)
Without(gone) ==
    [p \in Pid |-> IF p \in gone THEN NoProc
                   ELSE IF proc[p].parent \in gone THEN [proc[p] EXCEPT !.parent = "init"]
                   ELSE proc[p]]
Orphaned(ps) == [p \in Pid |-> IF ps[p].parent = "root" THEN [ps[p] EXCEPT !.parent = "init"] ELSE ps[p]]

(* Looks once more, then signals: the group and the child only while the    *)
(* child has not been reported as ended; descendants by (pid, birth).       *)
KillOwned ==
    LET seen == tracked \cup Observed
        live == child.state = "running"
        hit == Killable(seen) \cup (IF live /\ sup.detached THEN {p \in Pid : There(p) /\ proc[p].group} ELSE {})
    IN  /\ tracked' = seen
        /\ proc' = Orphaned(Without(hit))
        /\ child' = IF live THEN [child EXCEPT !.state = "killed", !.bearer = "none"] ELSE child
        /\ signalled' = signalled \cup {proc[p].of : p \in hit}

Finish(held, error) ==
    /\ sup' = [sup EXCEPT !.pc = "done"]
    /\ answer' = [there |-> TRUE, exit |-> sup.exit, timedOut |-> sup.timedOut, held |-> held, error |-> error]

(* ------------------------------ supervisor ------------------------------ *)

Spawn ==
    /\ sup.pc = "start"
    /\ \E kills, detached \in BOOLEAN :
        sup' = [sup EXCEPT !.pc = "running", !.timer = TRUE, !.kills = kills, !.detached = detached]
    /\ child' = [state |-> "running", code |-> "null", bearer |-> "child"]
    /\ UNCHANGED <<proc, births, tracked, answer, signalled>>

CannotSpawn ==
    /\ sup.pc = "start"
    /\ Finish(FALSE, TRUE)
    /\ UNCHANGED <<child, proc, births, tracked, signalled>>

TrackDescendants ==
    /\ Running
    /\ tracked' = tracked \cup Observed
    /\ UNCHANGED <<child, proc, births, sup, answer, signalled>>

(* The child ended by itself; its code is taken, what it left is ended, and *)
(* the pipes are drained for a bounded time.                                *)
ChildExits(code) ==
    /\ Running /\ child.state = "running"
    /\ LET ended == [state |-> "ended", code |-> code, bearer |-> "none"]
           hit == Killable(tracked)
       IN  /\ child' = ended
           /\ proc' = Orphaned(IF sup.kills THEN Without(hit) ELSE proc)
           /\ signalled' = signalled \cup (IF sup.kills THEN {proc[p].of : p \in hit} ELSE {})
    /\ sup' = [sup EXCEPT !.exit = code, !.drain = TRUE]
    /\ UNCHANGED <<births, tracked, answer>>

KilledChildReported ==
    /\ Running /\ child.state = "killed" /\ ~sup.drain
    /\ sup' = [sup EXCEPT !.drain = TRUE]
    /\ UNCHANGED <<child, proc, births, tracked, answer, signalled>>

Close ==
    /\ Running /\ sup.drain
    /\ ~\E p \in Pid : proc[p].pipe
    /\ Finish(FALSE, FALSE)
    /\ UNCHANGED <<child, proc, births, tracked, signalled>>

DrainEnds ==
    /\ Running /\ sup.drain
    /\ Finish(TRUE, FALSE)
    /\ UNCHANGED <<child, proc, births, tracked, signalled>>

(* The budget's timer is cleared by the close, not by the exit.             *)
Budget ==
    /\ Running /\ sup.timer
    /\ KillOwned
    /\ sup' = [sup EXCEPT !.timer = FALSE, !.timedOut = TRUE]
    /\ UNCHANGED <<births, answer>>

Backstop ==
    /\ Running /\ sup.timedOut
    /\ Finish(FALSE, FALSE)
    /\ UNCHANGED <<child, proc, births, tracked, signalled>>

(* The caller's own timeout ends the supervisor, or its channel holds       *)
(* something else than one answer.                                          *)
NoResult ==
    /\ Running
    /\ sup' = [sup EXCEPT !.pc = "lost"]
    /\ answer' = [NoAnswer EXCEPT !.there = TRUE, !.timedOut = sup.timedOut, !.error = TRUE]
    /\ UNCHANGED <<child, proc, births, tracked, signalled>>

(* ------------------------------- the suite ------------------------------ *)

Bear(p, b) == proc' = [proc EXCEPT ![p] = b] /\ births' = births + 1

(* A worker: of the child or of another worker, in the group or in a        *)
(* session of its own, with the pipe or without.                            *)
Fork(p) ==
    /\ sup.pc # "start" /\ ~There(p) /\ births < MaxBirth
    /\ \E parent \in {q \in Pid : There(q) /\ proc[q].of = "suite"} \cup (IF child.state = "running" THEN {"root"} ELSE {}),
          group, pipe \in BOOLEAN :
        Bear(p, [birth |-> births + 1, parent |-> parent, group |-> group /\ sup.detached, pipe |-> pipe, of |-> "suite"])
    /\ UNCHANGED <<child, tracked, sup, answer, signalled>>

End(p) ==
    /\ There(p)
    /\ proc' = Without({p})
    /\ UNCHANGED <<child, births, tracked, sup, answer, signalled>>

(* Another process of the machine takes a free pid, under init or below     *)
(* whoever took the child's.                                                *)
Stranger(p) ==
    /\ ~There(p) /\ births < MaxBirth /\ sup.pc # "start"
    /\ \E parent \in {"init"} \cup (IF child.bearer = "stranger" THEN {"root"} ELSE {}) :
        Bear(p, [NoProc EXCEPT !.birth = births + 1, !.parent = parent,
                                !.of = IF parent = "root" THEN "below" ELSE "stranger"])
    /\ UNCHANGED <<child, tracked, sup, answer, signalled>>

TakeRoot ==
    /\ child.state \in {"ended", "killed"} /\ child.bearer = "none"
    /\ child' = [child EXCEPT !.bearer = "stranger"]
    /\ UNCHANGED <<proc, births, tracked, sup, answer, signalled>>

SupStep == Spawn \/ CannotSpawn \/ KilledChildReported \/ Close \/ DrainEnds \/ Budget \/ Backstop
CaptureNext ==
    \/ SupStep \/ TrackDescendants \/ NoResult \/ TakeRoot
    \/ \E code \in Code : ChildExits(code)
    \/ \E p \in Pid : Fork(p) \/ End(p) \/ Stranger(p)

(* ------------------------------ properties ------------------------------ *)

(* TypeOK part.                                                             *)
CaptureTypeOK ==
    /\ child.state \in {"none", "running", "ended", "killed"}
    /\ sup.pc \in {"start", "running", "done", "lost"}
    /\ answer.there = (sup.pc \in {"done", "lost"})
    /\ births \in 0..MaxBirth
    /\ \A p \in Pid : proc[p].birth \in 0..births

(* However pids are reused, no process that is not the suite's is ever      *)
(* signalled (#545), but one born below whoever took the child's own pid.   *)
StrangersSpared == "stranger" \notin signalled

(* No process but the suite's, without the exception: the trackers walk     *)
(* from the child's pid after its exit too.                                 *)
OnlyTheSuiteSignalled == signalled \subseteq {"suite"}

(* An exit code is the suite's own: it ended by itself with that code.      *)
ExitIsChilds == answer.there /\ answer.exit # "null" => child.state = "ended" /\ child.code = answer.exit

(* Unless something failed, the answer is not given while the suite runs.   *)
AnswerAfterEnd == answer.there /\ ~answer.error => child.state \in {"ended", "killed"}

(* After an answer nothing the supervisor had seen of the suite runs on     *)
(* when it was asked to end what it owns (#371).                            *)
OwnedEnded ==
    sup.pc = "done" /\ (sup.kills \/ sup.timedOut) => \A p \in Killable(tracked) : proc[p].of # "suite"

(* Whoever holds the pipes, and whatever the child does, an answer comes.   *)
AnswerComes == sup.pc = "running" ~> answer.there
=============================================================================
