---------------------------- MODULE StageProofs ----------------------------
(* Proofs about what a suite stage is made of, for every machine, every     *)
(* reuse of its pids, every disk and every container engine: the captured   *)
(* suite is owned and its answer is the child's; what is read stood at the  *)
(* path, what is appended lands at home; a container's exit is the          *)
(* daemon's, with no container left behind; an environment told unchanged   *)
(* reads as it did when it was frozen; and what the traced verifier touched *)
(* is shown as it was, for every base, its links and every interleaving.    *)
EXTENDS MCStage, FiniteSetTheorems, TLAPS

-----------------------------------------------------------------------------
(* The captured suite.                                                      *)

\* What stands under a pid.
Bearer == [birth : Nat, parent : Pid \cup {"root", "init", "none"}, group : BOOLEAN, pipe : BOOLEAN,
           of : {"nobody", "suite", "stranger", "below"}]

CaptureTyped ==
    /\ proc \in [Pid -> Bearer]
    /\ child \in [state : {"none", "running", "ended", "killed"}, code : Code \cup {"null"},
                  bearer : {"none", "child", "stranger"}]
    /\ sup \in [pc : {"start", "running", "done", "lost"}, timer : BOOLEAN, timedOut : BOOLEAN, drain : BOOLEAN,
                exit : Code \cup {"null"}, kills : BOOLEAN, detached : BOOLEAN]
    /\ answer \in [there : BOOLEAN, exit : Code \cup {"null"}, timedOut : BOOLEAN, held : BOOLEAN, error : BOOLEAN]
    /\ births \in 0 .. MaxBirth
    /\ \A p \in Pid : proc[p].birth <= births

\* A process of the machine is under init, in no group of the suite's; a parent
\* is a process of the suite; and below the child's pid, once the child is gone,
\* there is nothing of the suite.
ProcInv ==
    /\ \A p \in Pid : There(p) /\ proc[p].of = "stranger" => proc[p].parent = "init" /\ ~proc[p].group
    /\ \A p \in Pid : There(p) /\ proc[p].parent \in Pid =>
          There(proc[p].parent) /\ proc[proc[p].parent].of = "suite"
    /\ \A p \in Pid : There(p) /\ proc[p].parent = "root" => child.state = "running" \/ proc[p].of = "below"
    /\ \A p \in Pid : There(p) /\ proc[p].parent \in Pid => proc[p].of = "suite"

\* What is remembered was born by then, and is no stranger's.
TrackInv ==
    /\ \A e \in tracked : e[2] \in Nat /\ e[2] <= births
    /\ \A p \in Killable(tracked) : proc[p].of # "stranger"
    /\ "stranger" \notin signalled

\* The phases of the supervisor.
PhaseInv ==
    /\ answer.there <=> sup.pc \in {"done", "lost"}
    /\ sup.pc = "start" => sup.exit = "null" /\ ~sup.drain /\ ~sup.timedOut /\ ~sup.kills /\ child.state = "none"
    /\ sup.pc = "running" => child.state # "none"
    /\ sup.exit # "null" => child.state = "ended" /\ child.code = sup.exit
    /\ answer.exit # "null" => answer.exit = sup.exit
    /\ sup.drain \/ sup.timedOut => child.state \in {"ended", "killed"}
    /\ child.state = "killed" => sup.timedOut
    /\ answer.there /\ ~answer.error => child.state \in {"ended", "killed"}
    /\ sup.pc = "done" => answer.error \/ sup.drain \/ sup.timedOut
    /\ sup.pc = "done" /\ answer.error => ~sup.kills /\ ~sup.timedOut
    /\ (sup.drain /\ sup.kills) \/ sup.timedOut => \A p \in Killable(tracked) : proc[p].of # "suite"

CaptureInv == CaptureTyped /\ ProcInv /\ TrackInv /\ PhaseInv

\* The names a parent may have are no pids.
LEMMA NoPids == /\ "root" \notin Pid /\ "init" \notin Pid /\ "none" \notin Pid
                /\ NoProc.birth = 0 /\ NoProc.parent = "none" /\ NoProc \in Bearer
BY CaptureAssumption DEF NoProc, Bearer

\* Nothing is running.
LEMMA CaptureStarts == CaptureInit => CaptureInv
<1> SUFFICES ASSUME CaptureInit PROVE CaptureInv
  OBVIOUS
<1> USE CaptureAssumption DEF CaptureInit
<1>1. CaptureTyped BY DEF CaptureTyped, Bearer, NoProc, NoAnswer, Code
<1>2. \A p \in Pid : ~There(p) BY DEF There, NoProc
<1>3. ProcInv /\ TrackInv BY <1>2 DEF ProcInv, TrackInv, Killable
<1>4. PhaseInv
  <2>1. /\ child.state = "none" /\ sup.pc = "start" /\ sup.exit = "null" /\ ~sup.drain /\ ~sup.timedOut /\ ~sup.kills
        /\ ~answer.there /\ answer.exit = "null"
    BY DEF NoAnswer
  <2>2. QED BY <2>1 DEF PhaseInv
<1>5. QED BY <1>1, <1>3, <1>4 DEF CaptureInv

\* A look finds nobody but the suite's and those below who took its pid.
LEMMA ObservedIs ==
    ASSUME CaptureInv
    PROVE  /\ \A e \in Observed : e[1] \in Pid /\ e[2] = proc[e[1]].birth /\ e[2] \in Nat /\ e[2] <= births /\ There(e[1])
                                  /\ proc[e[1]].of # "stranger"
           /\ child.state \in {"ended", "killed"} => \A e \in Observed : proc[e[1]].of = "below"
<1> USE NoPids DEF CaptureInv, CaptureTyped, ProcInv
<1>0. \A p \in Pid : proc[p].birth \in Nat BY DEF Bearer
<1>1. SUFFICES ASSUME NEW p, p \in Descendants
      PROVE  /\ p \in Pid /\ There(p) /\ proc[p].of # "stranger"
             /\ child.state \in {"ended", "killed"} => proc[p].of = "below"
  BY <1>0 DEF Observed, Descendants
<1>2. CASE p \in Pid /\ There(p) /\ proc[p].parent = "root" BY <1>2
<1>3. CASE p \in Pid /\ There(p) /\ proc[p].parent \in {q \in Pid : There(q) /\ proc[q].parent = "root"}
  <2>1. PICK q \in Pid : proc[p].parent = q BY <1>3
  <2>2. p \in Pid /\ There(p) BY <1>1, <1>3
  <2>3. proc[p].of = "suite" /\ There(q) /\ proc[q].of = "suite" BY <2>1, <2>2
  <2>4. proc[q].parent = "root" BY <1>3, <2>1
  <2>5. child.state = "running" BY <2>1, <2>3, <2>4
  <2>6. QED BY <2>2, <2>3, <2>5
<1>4. p \in Pid /\ There(p) /\ proc[p].parent \in {"root"} \cup {q \in Pid : There(q) /\ proc[q].parent = "root"}
  BY <1>1 DEF Descendants
<1>5. QED BY <1>2, <1>3, <1>4

\* What some ends leave: the rest as they were, or under init.
Left(ps, hit) ==
    /\ ps \in [Pid -> Bearer]
    /\ \A p \in hit : ps[p] = NoProc
    /\ \A p \in Pid \ hit : /\ ps[p].birth = proc[p].birth /\ ps[p].of = proc[p].of /\ ps[p].group = proc[p].group
                            /\ ps[p].parent \in {proc[p].parent, "init"} /\ ps[p].parent \notin hit

\* An end, with or without those below the child's pid going to init.
LEMMA WithoutLeaves ==
    ASSUME CaptureInv, NEW hit \in SUBSET Pid
    PROVE  Left(Without(hit), hit)
<1>0. proc \in [Pid -> Bearer] BY DEF CaptureInv, CaptureTyped
<1>1. Without(hit) \in [Pid -> Bearer] BY <1>0, NoPids DEF Without, Bearer
<1>2. \A p \in hit : Without(hit)[p] = NoProc BY DEF Without
<1>3. ASSUME NEW p \in Pid \ hit
      PROVE  /\ Without(hit)[p].birth = proc[p].birth /\ Without(hit)[p].of = proc[p].of
             /\ Without(hit)[p].group = proc[p].group
             /\ Without(hit)[p].parent \in {proc[p].parent, "init"} /\ Without(hit)[p].parent \notin hit
  <2>1. proc[p] \in Bearer BY <1>0
  <2>2. CASE proc[p].parent \in hit
    <3>1. Without(hit)[p] = [proc[p] EXCEPT !.parent = "init"] BY <2>2 DEF Without
    <3>2. QED BY <2>1, <3>1, NoPids DEF Bearer
  <2>3. CASE proc[p].parent \notin hit
    <3>1. Without(hit)[p] = proc[p] BY <2>3 DEF Without
    <3>2. QED BY <2>3, <3>1
  <2>4. QED BY <2>2, <2>3
<1>4. QED BY <1>1, <1>2, <1>3 DEF Left

\* Those below the child's pid go to init.
LEMMA OrphanedLeaves ==
    ASSUME NEW hit \in SUBSET Pid, NEW ps, Left(ps, hit)
    PROVE  Left(Orphaned(ps), hit) /\ \A p \in Pid : Orphaned(ps)[p].parent # "root"
<1>0. ps \in [Pid -> Bearer] BY DEF Left
<1>1. ASSUME NEW p \in Pid, ps[p].parent = "root" PROVE Orphaned(ps)[p] = [ps[p] EXCEPT !.parent = "init"]
  BY <1>1 DEF Orphaned
<1>2. ASSUME NEW p \in Pid, ps[p].parent # "root" PROVE Orphaned(ps)[p] = ps[p]
  BY <1>2 DEF Orphaned
<1>3. Orphaned(ps) \in [Pid -> Bearer] BY <1>0 DEF Orphaned, Bearer
<1>4. ASSUME NEW p \in hit PROVE Orphaned(ps)[p] = NoProc
  <2>1. p \in Pid /\ ps[p] = NoProc BY DEF Left
  <2>2. ps[p].parent # "root" BY <2>1, NoPids
  <2>3. QED BY <1>2, <2>1, <2>2
<1>5. ASSUME NEW p \in Pid PROVE Orphaned(ps)[p].parent # "root"
  <2>1. CASE ps[p].parent = "root" BY <1>0, <1>1, <2>1 DEF Bearer
  <2>2. QED BY <1>2, <2>1
<1>6. ASSUME NEW p \in Pid \ hit
      PROVE  /\ Orphaned(ps)[p].birth = proc[p].birth /\ Orphaned(ps)[p].of = proc[p].of
             /\ Orphaned(ps)[p].group = proc[p].group
             /\ Orphaned(ps)[p].parent \in {proc[p].parent, "init"} /\ Orphaned(ps)[p].parent \notin hit
  <2>1. /\ ps[p] \in Bearer
        /\ ps[p].birth = proc[p].birth /\ ps[p].of = proc[p].of /\ ps[p].group = proc[p].group
        /\ ps[p].parent \in {proc[p].parent, "init"} /\ ps[p].parent \notin hit
    BY <1>0 DEF Left
  <2>2. CASE ps[p].parent = "root"
    <3>1. Orphaned(ps)[p] = [ps[p] EXCEPT !.parent = "init"] BY <1>1, <2>2
    <3>2. "init" \notin hit BY NoPids
    <3>3. QED BY <2>1, <3>1, <3>2 DEF Bearer
  <2>3. CASE ps[p].parent # "root"
    <3>1. Orphaned(ps)[p] = ps[p] BY <1>2, <2>3
    <3>2. QED BY <2>1, <3>1
  <2>4. QED BY <2>2, <2>3
<1>7. QED BY <1>3, <1>4, <1>5, <1>6 DEF Left

\* Ends keep what is said of processes, if nothing of the suite is left below a
\* child that is gone.
LEMMA EndsKeep ==
    ASSUME CaptureInv, NEW hit \in SUBSET Pid, Left(proc', hit),
           child.state = "running" => child'.state = "running" \/ \A p \in Pid : proc'[p].parent # "root",
           births' = births
    PROVE  /\ ProcInv' /\ \A p \in Pid : proc'[p].birth <= births'
           /\ \A p \in Pid : There(p)' => p \notin hit /\ There(p) /\ proc'[p].birth = proc[p].birth /\ proc'[p].of = proc[p].of
<1> USE NoPids DEF CaptureInv, CaptureTyped, Bearer
<1>1. \A p \in Pid : There(p)' => /\ p \notin hit /\ There(p) /\ proc'[p].birth = proc[p].birth
                                  /\ proc'[p].of = proc[p].of /\ proc'[p].group = proc[p].group
                                  /\ proc'[p].parent \in {proc[p].parent, "init"} /\ proc'[p].parent \notin hit
  BY DEF Left, There, NoProc
<1>2. \A p \in Pid : There(p) /\ p \notin hit => There(p)' BY DEF Left, There
<1>3. \A p \in Pid : proc'[p].birth <= births'
  <2>1. \A p \in hit : proc'[p].birth = 0 BY DEF Left, NoProc
  <2>2. \A p \in Pid \ hit : proc'[p].birth = proc[p].birth BY DEF Left
  <2>3. QED BY <2>1, <2>2
<1>4. \A p \in Pid : There(p)' /\ proc'[p].of = "stranger" => proc'[p].parent = "init" /\ ~proc'[p].group
  BY <1>1 DEF ProcInv
<1>5. \A p \in Pid : There(p)' /\ proc'[p].parent \in Pid =>
         proc'[proc'[p].parent].birth # 0 /\ proc'[proc'[p].parent].of = "suite"
  <2>1. ASSUME NEW p \in Pid, There(p)', proc'[p].parent \in Pid
        PROVE  proc'[proc'[p].parent].birth # 0 /\ proc'[proc'[p].parent].of = "suite"
    <3>1. proc'[p].parent = proc[p].parent /\ proc[p].parent \notin hit BY <1>1, <2>1
    <3>2. There(proc[p].parent) /\ proc[proc[p].parent].of = "suite" BY <1>1, <2>1, <3>1 DEF ProcInv
    <3>3. There(proc[p].parent)' BY <1>2, <2>1, <3>1, <3>2
    <3>4. proc'[proc[p].parent].of = "suite" BY <2>1, <3>1, <3>2 DEF Left
    <3>5. QED BY <2>1, <3>1, <3>3, <3>4 DEF There
  <2>2. QED BY <2>1
<1>6. \A p \in Pid : There(p)' /\ proc'[p].parent = "root" => child'.state = "running" \/ proc'[p].of = "below"
  <2>1. ASSUME NEW p \in Pid, There(p)', proc'[p].parent = "root"
        PROVE  child'.state = "running" \/ proc'[p].of = "below"
    <3>1. proc[p].parent = "root" /\ There(p) /\ proc'[p].of = proc[p].of BY <1>1, <2>1
    <3>2. child.state = "running" \/ proc[p].of = "below" BY <3>1 DEF ProcInv
    <3>3. QED BY <2>1, <3>1, <3>2
  <2>2. QED BY <2>1
<1>7. \A p \in Pid : There(p)' /\ proc'[p].parent \in Pid => proc'[p].of = "suite"
  BY <1>1 DEF ProcInv
<1>8. ProcInv' BY <1>4, <1>5, <1>6, <1>7 DEF ProcInv, There
<1>9. QED BY <1>1, <1>3, <1>8

\* A budget that is over: what was seen of the suite is gone, and the child.
LEMMA BudgetKeeps == CaptureInv /\ Budget => CaptureInv'
<1> SUFFICES ASSUME CaptureInv, Budget PROVE CaptureInv'
  OBVIOUS
<1> DEFINE seen == tracked \cup Observed
           live == child.state = "running"
           hit == Killable(seen) \cup (IF live /\ sup.detached THEN {p \in Pid : There(p) /\ proc[p].group} ELSE {})
<1>1. /\ tracked' = seen /\ proc' = Orphaned(Without(hit))
      /\ child' = IF live THEN [child EXCEPT !.state = "killed", !.bearer = "none"] ELSE child
      /\ signalled' = signalled \cup {proc[p].of : p \in hit}
      /\ Running /\ sup' = [sup EXCEPT !.timer = FALSE, !.timedOut = TRUE]
      /\ births' = births /\ answer' = answer
  BY DEF Budget, KillOwned
<1>2. hit \in SUBSET Pid /\ Killable(seen) \subseteq hit BY DEF Killable
<1> HIDE DEF seen, live, hit
<1>3. Left(proc', hit) /\ \A p \in Pid : proc'[p].parent # "root"
  BY <1>1, <1>2, WithoutLeaves, OrphanedLeaves
<1>4. /\ ProcInv' /\ \A p \in Pid : proc'[p].birth <= births'
      /\ \A p \in Pid : There(p)' => p \notin hit /\ There(p) /\ proc'[p].birth = proc[p].birth /\ proc'[p].of = proc[p].of
  BY <1>1, <1>2, <1>3, EndsKeep
<1>5. CaptureTyped'
  <2>1. proc' \in [Pid -> Bearer] BY <1>3 DEF Left
  <2>2. QED BY <1>1, <1>4, <2>1 DEF CaptureInv, CaptureTyped
<1>6. \A p \in hit : proc[p].of # "stranger"
  <2>1. \A p \in Killable(seen) : proc[p].of # "stranger"
    <3>1. ASSUME NEW p \in Pid, There(p), <<p, proc[p].birth>> \in seen PROVE proc[p].of # "stranger"
      <4>1. CASE <<p, proc[p].birth>> \in tracked
        <5>1. p \in Killable(tracked) BY <3>1, <4>1 DEF Killable
        <5>2. QED BY <5>1 DEF CaptureInv, TrackInv
      <4>2. CASE <<p, proc[p].birth>> \in Observed
        <5>1. proc[<<p, proc[p].birth>>[1]].of # "stranger" BY <4>2, ObservedIs
        <5>2. QED BY <5>1
      <4>3. QED BY <3>1, <4>1, <4>2 DEF seen
    <3>2. QED BY <3>1 DEF Killable
  <2>2. \A p \in Pid : There(p) /\ proc[p].group => proc[p].of # "stranger"
    BY DEF CaptureInv, ProcInv
  <2>3. QED BY <2>1, <2>2 DEF hit
<1>7. Killable(tracked)' = {}
  <2>1. ASSUME NEW p \in Pid, There(p)', <<p, proc'[p].birth>> \in seen PROVE FALSE
    <3>1. There(p) /\ proc'[p].birth = proc[p].birth /\ p \notin hit BY <1>4, <2>1
    <3>2. p \in Killable(seen) BY <2>1, <3>1 DEF Killable
    <3>3. QED BY <1>2, <3>1, <3>2
  <2>2. QED BY <1>1, <2>1 DEF Killable
<1>8. TrackInv'
  <2>1. \A e \in tracked' : e[2] \in Nat /\ e[2] <= births' BY <1>1, ObservedIs DEF seen, CaptureInv, TrackInv
  <2>2. "stranger" \notin signalled' BY <1>1, <1>6 DEF CaptureInv, TrackInv
  <2>3. QED BY <1>7, <2>1, <2>2 DEF TrackInv
<1>9. PhaseInv'
  <2>1. /\ sup'.pc = "running" /\ sup'.timedOut /\ sup'.drain = sup.drain /\ sup'.exit = sup.exit /\ sup.pc = "running"
    BY <1>1 DEF Running, CaptureInv, CaptureTyped
  <2>2. child'.state \in {"ended", "killed"} /\ (child.state = "ended" => child' = child)
    <3>1. child.state # "none" BY <2>1 DEF CaptureInv, PhaseInv
    <3>2. QED BY <1>1, <3>1 DEF live, CaptureInv, CaptureTyped
  <2>3. QED BY <1>1, <1>7, <2>1, <2>2 DEF CaptureInv, PhaseInv
<1>10. QED BY <1>4, <1>5, <1>8, <1>9 DEF CaptureInv

\* A child that ended: what was seen of it is gone, when it is asked for.
LEMMA ExitKeeps ==
    ASSUME CaptureInv, NEW code \in Code, ChildExits(code)
    PROVE  CaptureInv'
<1> DEFINE hit == IF sup.kills THEN Killable(tracked) ELSE {}
<1>1. /\ proc' = Orphaned(IF sup.kills THEN Without(Killable(tracked)) ELSE proc)
      /\ child' = [state |-> "ended", code |-> code, bearer |-> "none"]
      /\ signalled' = signalled \cup {proc[p].of : p \in hit}
      /\ Running /\ sup' = [sup EXCEPT !.exit = code, !.drain = TRUE]
      /\ births' = births /\ answer' = answer /\ tracked' = tracked /\ child.state = "running"
  BY DEF ChildExits
<1>2. hit \in SUBSET Pid BY DEF Killable
<1>3. Left(proc', hit)
  <2>1. CASE sup.kills
    <3>1. Left(Without(hit), hit) /\ proc' = Orphaned(Without(hit)) BY <1>1, <1>2, <2>1, WithoutLeaves
    <3>2. QED BY <1>2, <3>1, OrphanedLeaves
  <2>2. CASE ~sup.kills
    <3>1. Left(proc, {})
      <4>1. proc \in [Pid -> Bearer] BY DEF CaptureInv, CaptureTyped
      <4>2. QED BY <4>1 DEF Left
    <3>2. Left(Orphaned(proc), {}) BY <3>1, OrphanedLeaves
    <3>3. QED BY <1>1, <2>2, <3>2
  <2>3. QED BY <2>1, <2>2
<1> HIDE DEF hit
<1>3a. \A p \in Pid : proc'[p].parent # "root"
  <2>1. CASE sup.kills
    <3>1. Killable(tracked) \in SUBSET Pid BY DEF Killable
    <3>2. Left(Without(Killable(tracked)), Killable(tracked)) BY <3>1, WithoutLeaves
    <3>3. QED BY <1>1, <2>1, <3>1, <3>2, OrphanedLeaves
  <2>2. CASE ~sup.kills
    <3>1. Left(proc, {})
      <4>1. proc \in [Pid -> Bearer] BY DEF CaptureInv, CaptureTyped
      <4>2. QED BY <4>1 DEF Left
    <3>2. QED BY <1>1, <2>2, <3>1, OrphanedLeaves
  <2>3. QED BY <2>1, <2>2
<1>4. /\ ProcInv' /\ \A p \in Pid : proc'[p].birth <= births'
      /\ \A p \in Pid : There(p)' => p \notin hit /\ There(p) /\ proc'[p].birth = proc[p].birth /\ proc'[p].of = proc[p].of
  BY <1>1, <1>2, <1>3, <1>3a, EndsKeep
<1>5. CaptureTyped'
  <2>1. proc' \in [Pid -> Bearer] BY <1>3 DEF Left
  <2>2. QED BY <1>1, <1>4, <2>1 DEF CaptureInv, CaptureTyped
<1>6. \A p \in Killable(tracked)' : p \in Killable(tracked) /\ p \notin hit /\ proc'[p].of = proc[p].of
  BY <1>1, <1>4 DEF Killable
<1>7. TrackInv' BY <1>1, <1>6 DEF hit, CaptureInv, TrackInv
<1>8. PhaseInv'
  <2>1. /\ sup'.pc = "running" /\ sup'.timedOut = sup.timedOut /\ sup'.kills = sup.kills /\ sup'.exit = code /\ sup.pc = "running"
        /\ child'.state = "ended" /\ child'.code = code /\ ~sup.timedOut /\ answer.exit = "null" /\ ~answer.there
    <3>1. ~answer.there /\ ~sup.timedOut /\ sup.exit = "null"
      BY <1>1 DEF Running, CaptureInv, PhaseInv
    <3>2. QED BY <1>1, <3>1 DEF Running, CaptureInv, PhaseInv, CaptureTyped
  <2>2. sup.kills => Killable(tracked)' = {} BY <1>6 DEF hit
  <2>3. QED BY <1>1, <2>1, <2>2 DEF PhaseInv
<1>9. QED BY <1>4, <1>5, <1>7, <1>8 DEF CaptureInv

\* A birth: nothing that was seen before is it.
LEMMA BirthKeeps ==
    ASSUME CaptureInv, NEW p \in Pid, NEW b \in Bearer, ~There(p), births < MaxBirth, Bear(p, b),
           b.birth = births + 1,
           b.of = "stranger" => b.parent = "init" /\ ~b.group,
           b.parent \in Pid => b.of = "suite" /\ There(b.parent) /\ proc[b.parent].of = "suite",
           b.parent = "root" => child.state = "running" \/ b.of = "below",
           UNCHANGED <<child, tracked, sup, answer, signalled>>
    PROVE  CaptureInv'
<1>1. /\ proc \in [Pid -> Bearer] /\ births \in 0 .. MaxBirth /\ MaxBirth \in Nat
      /\ proc' = [proc EXCEPT ![p] = b] /\ births' = births + 1
  BY CaptureAssumption DEF CaptureInv, CaptureTyped, Bear
<1>2. proc'[p] = b /\ (\A q \in Pid \ {p} : proc'[q] = proc[q]) /\ proc' \in [Pid -> Bearer] BY <1>1
<1>3. \A q \in Pid : proc'[q].birth <= births'
  <2>1. \A q \in Pid : proc[q].birth <= births /\ proc[q].birth \in Nat BY <1>1 DEF CaptureInv, CaptureTyped, Bearer
  <2>2. QED BY <1>1, <1>2, <2>1
<1>4. CaptureTyped'
  <2>1. births' \in 0 .. MaxBirth BY <1>1
  <2>2. QED BY <1>2, <1>3, <2>1 DEF CaptureInv, CaptureTyped
<1>5. \A q \in Pid : There(q) => q # p /\ There(q)' BY <1>2 DEF There
<1>6. ProcInv'
  <2>1. \A q \in Pid : There(q)' /\ proc'[q].of = "stranger" => proc'[q].parent = "init" /\ ~proc'[q].group
    BY <1>2 DEF There, CaptureInv, ProcInv
  <2>2. ASSUME NEW q \in Pid, There(q)', proc'[q].parent \in Pid
        PROVE  proc'[proc'[q].parent].birth # 0 /\ proc'[proc'[q].parent].of = "suite" /\ proc'[q].of = "suite"
    <3>1. There(proc'[q].parent) /\ proc[proc'[q].parent].of = "suite" /\ proc'[q].of = "suite"
      BY <1>2, <2>2 DEF There, CaptureInv, ProcInv
    <3>2. proc'[q].parent # p BY <1>5, <2>2, <3>1
    <3>3. QED BY <1>2, <2>2, <3>1, <3>2 DEF There
  <2>3. ASSUME NEW q \in Pid, There(q)', proc'[q].parent = "root" PROVE child'.state = "running" \/ proc'[q].of = "below"
    BY <1>2, <2>3 DEF There, CaptureInv, ProcInv
  <2>4. QED BY <2>1, <2>2, <2>3 DEF ProcInv, There
<1>7. \A q \in Killable(tracked)' : q \in Killable(tracked) /\ proc'[q] = proc[q]
  <2>1. ASSUME NEW q \in Killable(tracked)' PROVE q # p
    <3>1. CASE q = p
      <4>1. <<p, births + 1>> \in tracked BY <1>2, <2>1, <3>1 DEF Killable
      <4>2. <<p, births + 1>>[2] \in Nat /\ <<p, births + 1>>[2] <= births BY <4>1 DEF CaptureInv, TrackInv
      <4>3. QED BY <1>1, <4>2
    <3>2. QED BY <3>1
  <2>2. QED BY <1>2, <2>1 DEF Killable, There
<1>8. TrackInv'
  <2>1. \A e \in tracked' : e[2] \in Nat /\ e[2] <= births'
    <3>1. ASSUME NEW e \in tracked PROVE e[2] \in Nat /\ e[2] <= births + 1
      <4>1. e[2] \in Nat /\ e[2] <= births BY DEF CaptureInv, TrackInv
      <4>2. QED BY <1>1, <4>1
    <3>2. QED BY <1>1, <3>1
  <2>2. QED BY <1>7, <2>1 DEF CaptureInv, TrackInv
<1>9. PhaseInv' BY <1>7 DEF CaptureInv, PhaseInv
<1>10. QED BY <1>4, <1>6, <1>8, <1>9 DEF CaptureInv

\* Every step keeps it.
LEMMA CaptureKeeps == CaptureInv /\ [CaptureNext]_captureVars => CaptureInv'
<1> SUFFICES ASSUME CaptureInv, [CaptureNext]_captureVars PROVE CaptureInv'
  OBVIOUS
<1>0. /\ CaptureTyped /\ ProcInv /\ TrackInv /\ PhaseInv
      /\ UNCHANGED <<proc, births, child>> => ProcInv'
      /\ UNCHANGED <<proc, births, tracked, signalled>> => TrackInv'
      /\ UNCHANGED <<proc, tracked>> => Killable(tracked)' = Killable(tracked)
  BY DEF CaptureInv, ProcInv, TrackInv, There, Killable
<1>1. CASE Spawn
  <2>1. /\ sup.pc = "start" /\ child' = [state |-> "running", code |-> "null", bearer |-> "child"]
        /\ UNCHANGED <<proc, births, tracked, answer, signalled>>
        /\ \E kills, detached \in BOOLEAN :
              sup' = [sup EXCEPT !.pc = "running", !.timer = TRUE, !.kills = kills, !.detached = detached]
    BY <1>1 DEF Spawn
  <2>2. PICK kills, detached \in BOOLEAN :
            sup' = [sup EXCEPT !.pc = "running", !.timer = TRUE, !.kills = kills, !.detached = detached]
    BY <2>1
  <2>3. CaptureTyped' BY <1>0, <2>1, <2>2 DEF CaptureTyped
  <2>4. ProcInv' BY <1>0, <2>1 DEF ProcInv, There
  <2>5. PhaseInv'
    <3>1. /\ sup'.pc = "running" /\ sup'.exit = "null" /\ ~sup'.drain /\ ~sup'.timedOut /\ ~answer.there /\ answer.exit = "null"
      BY <1>0, <2>1, <2>2 DEF CaptureTyped, PhaseInv
    <3>2. QED BY <2>1, <3>1 DEF PhaseInv
  <2>6. QED BY <1>0, <2>1, <2>3, <2>4, <2>5 DEF CaptureInv
<1>2. CASE CannotSpawn
  <2>1. /\ sup.pc = "start" /\ UNCHANGED <<child, proc, births, tracked, signalled>>
        /\ sup' = [sup EXCEPT !.pc = "done"]
        /\ answer' = [there |-> TRUE, exit |-> sup.exit, timedOut |-> sup.timedOut, held |-> FALSE, error |-> TRUE]
    BY <1>2 DEF CannotSpawn, Finish
  <2>2. CaptureTyped' BY <1>0, <2>1 DEF CaptureTyped
  <2>3. PhaseInv'
    <3>1. /\ sup'.pc = "done" /\ sup'.exit = "null" /\ ~sup'.drain /\ ~sup'.timedOut /\ ~sup'.kills /\ child.state = "none"
      BY <1>0, <2>1 DEF CaptureTyped, PhaseInv
    <3>2. QED BY <2>1, <3>1 DEF PhaseInv
  <2>4. QED BY <1>0, <2>1, <2>2, <2>3 DEF CaptureInv
<1>3. CASE KilledChildReported
  <2>1. /\ sup.pc = "running" /\ child.state = "killed" /\ UNCHANGED <<child, proc, births, tracked, answer, signalled>>
        /\ sup' = [sup EXCEPT !.drain = TRUE]
    BY <1>3 DEF KilledChildReported, Running
  <2>2. CaptureTyped' BY <1>0, <2>1 DEF CaptureTyped
  <2>3. PhaseInv'
    <3>1. /\ sup'.pc = "running" /\ sup'.exit = sup.exit /\ sup.timedOut /\ sup'.timedOut = sup.timedOut /\ sup'.kills = sup.kills
      BY <1>0, <2>1 DEF CaptureTyped, PhaseInv
    <3>2. QED BY <1>0, <2>1, <3>1 DEF PhaseInv
  <2>4. QED BY <1>0, <2>1, <2>2, <2>3 DEF CaptureInv
<1>4. ASSUME Close \/ DrainEnds \/ Backstop PROVE CaptureInv'
  <2>1. /\ sup.pc = "running" /\ (sup.drain \/ sup.timedOut)
        /\ UNCHANGED <<child, proc, births, tracked, signalled>>
        /\ sup' = [sup EXCEPT !.pc = "done"]
        /\ \E held \in BOOLEAN :
              answer' = [there |-> TRUE, exit |-> sup.exit, timedOut |-> sup.timedOut, held |-> held, error |-> FALSE]
    BY <1>4 DEF Close, DrainEnds, Backstop, Running, Finish
  <2>2. CaptureTyped' BY <1>0, <2>1 DEF CaptureTyped
  <2>3. PhaseInv'
    <3>1. /\ sup'.pc = "done" /\ sup'.exit = sup.exit /\ sup'.timedOut = sup.timedOut /\ sup'.kills = sup.kills
          /\ sup'.drain = sup.drain /\ answer'.there /\ ~answer'.error /\ answer'.exit = sup.exit
      BY <1>0, <2>1 DEF CaptureTyped
    <3>2. QED BY <1>0, <2>1, <3>1 DEF PhaseInv
  <2>4. QED BY <1>0, <2>1, <2>2, <2>3 DEF CaptureInv
<1>5. CASE Budget BY <1>5, BudgetKeeps
<1>6. CASE TrackDescendants
  <2>1. /\ tracked' = tracked \cup Observed /\ UNCHANGED <<child, proc, births, sup, answer, signalled>>
    BY <1>6 DEF TrackDescendants
  <2>2. CaptureTyped' BY <1>0, <2>1 DEF CaptureTyped
  <2>3. \A p \in Killable(tracked)' : p \in Killable(tracked) \/ <<p, proc[p].birth>> \in Observed
    BY <2>1 DEF Killable, There
  <2>4. ASSUME NEW p \in Pid, <<p, proc[p].birth>> \in Observed
        PROVE  proc[p].of # "stranger" /\ (child.state \in {"ended", "killed"} => proc[p].of = "below")
    <3>1. <<p, proc[p].birth>>[1] = p OBVIOUS
    <3>2. QED BY <2>4, <3>1, ObservedIs
  <2>5. TrackInv'
    <3>1. \A e \in tracked' : e[2] \in Nat /\ e[2] <= births BY <1>0, <2>1, ObservedIs DEF TrackInv
    <3>2. \A p \in Killable(tracked)' : p \in Pid BY DEF Killable
    <3>3. \A p \in Killable(tracked)' : proc[p].of # "stranger" BY <1>0, <2>3, <2>4, <3>2 DEF TrackInv
    <3>4. QED BY <1>0, <2>1, <3>1, <3>3 DEF TrackInv
  <2>6. PhaseInv'
    <3>1. (sup.drain /\ sup.kills) \/ sup.timedOut => \A p \in Killable(tracked)' : proc[p].of # "suite"
      <4>1. \A p \in Killable(tracked)' : p \in Pid BY DEF Killable
      <4>2. QED BY <1>0, <2>3, <2>4, <4>1 DEF PhaseInv
    <3>2. QED BY <1>0, <2>1, <3>1 DEF PhaseInv
  <2>7. QED BY <1>0, <2>1, <2>2, <2>5, <2>6 DEF CaptureInv
<1>7. CASE NoResult
  <2>1. /\ sup.pc = "running" /\ UNCHANGED <<child, proc, births, tracked, signalled>>
        /\ sup' = [sup EXCEPT !.pc = "lost"]
        /\ answer' = [NoAnswer EXCEPT !.there = TRUE, !.timedOut = sup.timedOut, !.error = TRUE]
    BY <1>7 DEF NoResult, Running
  <2>2. answer'.there /\ answer'.error /\ answer'.exit = "null" BY <2>1 DEF NoAnswer
  <2>3. CaptureTyped'
    <3>1. answer' \in [there : BOOLEAN, exit : Code \cup {"null"}, timedOut : BOOLEAN, held : BOOLEAN, error : BOOLEAN]
      BY <1>0, <2>1 DEF CaptureTyped, NoAnswer
    <3>2. QED BY <1>0, <2>1, <3>1 DEF CaptureTyped
  <2>4. PhaseInv'
    <3>1. /\ sup'.pc = "lost" /\ sup'.exit = sup.exit /\ sup'.timedOut = sup.timedOut /\ sup'.kills = sup.kills
          /\ sup'.drain = sup.drain
      BY <1>0, <2>1 DEF CaptureTyped
    <3>2. QED BY <1>0, <2>1, <2>2, <3>1 DEF PhaseInv
  <2>5. QED BY <1>0, <2>1, <2>3, <2>4 DEF CaptureInv
<1>8. CASE TakeRoot
  <2>1. child' = [child EXCEPT !.bearer = "stranger"] /\ UNCHANGED <<proc, births, tracked, sup, answer, signalled>>
    BY <1>8 DEF TakeRoot
  <2>2. CaptureTyped' /\ child'.state = child.state /\ child'.code = child.code BY <1>0, <2>1 DEF CaptureTyped
  <2>3. ProcInv' BY <1>0, <2>1, <2>2 DEF ProcInv, There
  <2>4. PhaseInv' BY <1>0, <2>1, <2>2 DEF PhaseInv
  <2>5. QED BY <1>0, <2>1, <2>2, <2>3, <2>4 DEF CaptureInv
<1>9. ASSUME NEW code \in Code, ChildExits(code) PROVE CaptureInv'
  BY <1>9, ExitKeeps
<1>10. ASSUME NEW p \in Pid, Fork(p) PROVE CaptureInv'
  <2>1. PICK parent \in {q \in Pid : There(q) /\ proc[q].of = "suite"} \cup (IF child.state = "running" THEN {"root"} ELSE {}),
             group \in BOOLEAN, pipe \in BOOLEAN :
          Bear(p, [birth |-> births + 1, parent |-> parent, group |-> group /\ sup.detached, pipe |-> pipe, of |-> "suite"])
    BY <1>10 DEF Fork
  <2>2. ~There(p) /\ births < MaxBirth /\ UNCHANGED <<child, tracked, sup, answer, signalled>> BY <1>10 DEF Fork
  <2> DEFINE b == [birth |-> births + 1, parent |-> parent, group |-> group /\ sup.detached, pipe |-> pipe, of |-> "suite"]
  <2>3. b \in Bearer /\ b.birth = births + 1 /\ b.of = "suite" /\ b.parent = parent
    BY <1>0, <2>1 DEF CaptureTyped, Bearer
  <2>4. parent \in Pid => There(parent) /\ proc[parent].of = "suite" BY <2>1, NoPids
  <2>5. parent = "root" => child.state = "running" BY <2>1, NoPids
  <2>6. Bear(p, b) BY <2>1
  <2> HIDE DEF b
  <2>7. QED BY <2>2, <2>3, <2>4, <2>5, <2>6, BirthKeeps
<1>11. ASSUME NEW p \in Pid, End(p) PROVE CaptureInv'
  <2>1. proc' = Without({p}) /\ UNCHANGED <<child, births, tracked, sup, answer, signalled>> BY <1>11 DEF End
  <2>2. Left(proc', {p}) BY <2>1, WithoutLeaves
  <2>3. /\ ProcInv' /\ \A q \in Pid : proc'[q].birth <= births'
        /\ \A q \in Pid : There(q)' => There(q) /\ proc'[q].birth = proc[q].birth /\ proc'[q].of = proc[q].of
    BY <2>1, <2>2, EndsKeep
  <2>4. CaptureTyped'
    <3>1. proc' \in [Pid -> Bearer] BY <2>2 DEF Left
    <3>2. births' = births /\ child' = child /\ sup' = sup /\ answer' = answer BY <2>1
    <3>3. QED BY <1>0, <2>3, <3>1, <3>2 DEF CaptureTyped
  <2>5. \A q \in Killable(tracked)' : q \in Killable(tracked) /\ proc'[q].of = proc[q].of BY <2>1, <2>3 DEF Killable
  <2>6. TrackInv' BY <1>0, <2>1, <2>5 DEF TrackInv
  <2>7. PhaseInv' BY <1>0, <2>1, <2>5 DEF PhaseInv
  <2>8. QED BY <2>3, <2>4, <2>6, <2>7 DEF CaptureInv
<1>12. ASSUME NEW p \in Pid, Stranger(p) PROVE CaptureInv'
  <2>1. PICK parent \in {"init"} \cup (IF child.bearer = "stranger" THEN {"root"} ELSE {}) :
          Bear(p, [NoProc EXCEPT !.birth = births + 1, !.parent = parent,
                                 !.of = IF parent = "root" THEN "below" ELSE "stranger"])
    BY <1>12 DEF Stranger
  <2>2. ~There(p) /\ births < MaxBirth /\ UNCHANGED <<child, tracked, sup, answer, signalled>> BY <1>12 DEF Stranger
  <2> DEFINE b == [NoProc EXCEPT !.birth = births + 1, !.parent = parent,
                                 !.of = IF parent = "root" THEN "below" ELSE "stranger"]
  <2>3. parent \in {"init", "root"} BY <2>1
  <2>4. /\ b \in Bearer /\ b.birth = births + 1 /\ b.of = IF parent = "root" THEN "below" ELSE "stranger"
        /\ b.parent = parent /\ b.group = FALSE
    <3>1. births + 1 \in Nat BY <1>0, CaptureAssumption DEF CaptureTyped
    <3>2. QED BY <2>3, <3>1 DEF Bearer, NoProc
  <2>5. Bear(p, b) BY <2>1
  <2> HIDE DEF b
  <2>6. QED BY <2>2, <2>3, <2>4, <2>5, NoPids, BirthKeeps
<1>13. CASE UNCHANGED captureVars
  BY <1>0, <1>13 DEF captureVars, CaptureInv, CaptureTyped, PhaseInv
<1>14. QED BY <1>1, <1>2, <1>3, <1>4, <1>5, <1>6, <1>7, <1>8, <1>9, <1>10, <1>11, <1>12, <1>13 DEF CaptureNext, SupStep

\* What it says of the answer.
LEMMA CaptureSound == CaptureInv => SuiteOwned
<1> SUFFICES ASSUME CaptureInv PROVE SuiteOwned
  OBVIOUS
<1>0. CaptureTyped /\ ProcInv /\ TrackInv /\ PhaseInv BY DEF CaptureInv
<1>1. CaptureTypeOK
  <2>1. \A p \in Pid : proc[p].birth \in 0 .. births BY <1>0, CaptureAssumption DEF CaptureTyped, Bearer
  <2>2. answer.there \in BOOLEAN BY <1>0 DEF CaptureTyped
  <2>3. answer.there = (sup.pc \in {"done", "lost"}) BY <1>0, <2>2 DEF PhaseInv
  <2>4. QED BY <1>0, <2>1, <2>3 DEF CaptureTyped, CaptureTypeOK
<1>2. StrangersSpared BY <1>0 DEF TrackInv, StrangersSpared
<1>3. ExitIsChilds BY <1>0 DEF PhaseInv, ExitIsChilds
<1>4. AnswerAfterEnd BY <1>0 DEF PhaseInv, AnswerAfterEnd
<1>5. OwnedEnded
  <2>1. ASSUME sup.pc = "done", sup.kills \/ sup.timedOut PROVE (sup.drain /\ sup.kills) \/ sup.timedOut
    BY <1>0, <2>1 DEF PhaseInv
  <2>2. QED BY <1>0, <2>1 DEF PhaseInv, OwnedEnded
<1>6. QED BY <1>1, <1>2, <1>3, <1>4, <1>5 DEF SuiteOwned

\* However pids are reused and in whatever order exit, close, drain, budget and
\* backstop fire: no stranger is signalled, an exit is the child's own and an
\* answer comes after its end, and what was seen of the suite and is to be ended
\* is. (CAPTURE_SUPERVISOR of suite-diagnostics.ts)
THEOREM SuiteIsOwned == Spec => []SuiteOwned
<1>1. Init => CaptureInv BY CaptureStarts DEF Init
<1>2. [Next]_all => [CaptureNext]_captureVars BY DEF Next, all
<1>3. CaptureInv /\ [Next]_all => CaptureInv' BY <1>2, CaptureKeeps
<1>4. QED BY <1>1, <1>3, CaptureSound, PTL DEF Spec

-----------------------------------------------------------------------------
(* Reading the disk.                                                        *)

\* What stands at the path has stood there; what a descriptor names stood there
\* with the names it has now; and each result is of something that stood there.
DiskInv ==
    /\ at \in {NoInode} \cup Inode
    /\ names \in [Inode -> 1 .. 2]
    /\ call \in [pc : {"idle", "lstat", "open", "again", "fstat", "transfer"}, op : DiskOp \cup {"none"},
                 fd : {NoInode} \cup Inode, of : {NoInode} \cup Inode,
                 result : KindsOfInode \cup {"none", "absent", "refused", "unreadable", "irregular", "descriptor",
                                             "appended", "content"}]
    /\ call.op # "none" => Standing(at, names) \in stood
    /\ call.pc # "idle" => call.op # "none" /\ call.result = "none"
    /\ call.pc \in {"fstat", "transfer"} <=> call.fd # NoInode
    /\ call.fd # NoInode => <<call.fd, names[call.fd]>> \in stood
    /\ call.pc = "transfer" =>
          /\ Regular(call.fd) /\ call.op # "open"
          /\ IF call.op = "append" THEN <<call.fd, 1>> \in stood ELSE Kind(call.fd) = "file"
    /\ ReadsWhatStood

\* What a reading of the state has to be typed for.
LEMMA KindIs ==
    /\ NoInode \notin Inode /\ Kind(NoInode) = "absent" /\ ~Regular(NoInode)
    /\ \A i \in Inode : Kind(i) \in KindsOfInode
BY DiskAssumption DEF Kind, Regular, KindsOfInode

\* No call has begun.
LEMMA DiskStarts == DiskInit => DiskInv
BY DEF DiskInit, DiskInv, ReadsWhatStood, KindsOfInode, DiskOp

\* A call that ends with what stood there.
LEMMA ReturnKeeps ==
    ASSUME DiskInv, NEW result, NEW of \in {NoInode} \cup Inode, Return(result, of),
           result \in KindsOfInode \cup {"none", "absent", "refused", "unreadable", "irregular", "descriptor", "appended", "content"},
           call.pc # "idle", UNCHANGED <<at, names, swaps, stood>>,
           result \in {"content", "descriptor"} => Regular(of) /\ Stood(of),
           result = "content" => Kind(of) = "file",
           result = "absent" => Stood(NoInode)
    PROVE  DiskInv'
<1>1. /\ call' = [call EXCEPT !.pc = "idle", !.result = result, !.of = of, !.fd = NoInode]
      /\ UNCHANGED <<at, names, stood>>
  BY DEF Return
<1>2. /\ call'.pc = "idle" /\ call'.result = result /\ call'.of = of /\ call'.fd = NoInode /\ call'.op = call.op
  BY <1>1 DEF DiskInv
<1>3. call' \in [pc : {"idle", "lstat", "open", "again", "fstat", "transfer"}, op : DiskOp \cup {"none"},
                 fd : {NoInode} \cup Inode, of : {NoInode} \cup Inode,
                 result : KindsOfInode \cup {"none", "absent", "refused", "unreadable", "irregular", "descriptor",
                                             "appended", "content"}]
  BY <1>1 DEF DiskInv
<1>4. ReadsWhatStood' BY <1>1, <1>2 DEF ReadsWhatStood, Stood
<1>5. QED BY <1>1, <1>2, <1>3, <1>4 DEF DiskInv

\* Every step keeps it, what others put at the path among them.
LEMMA DiskKeeps == DiskInv /\ [DiskNext]_diskVars => DiskInv'
<1> SUFFICES ASSUME DiskInv, [DiskNext]_diskVars PROVE DiskInv'
  OBVIOUS
<1>0. /\ at \in {NoInode} \cup Inode /\ names \in [Inode -> 1 .. 2] /\ call.op \in DiskOp \cup {"none"}
      /\ call.op # "none" => Standing(at, names) \in stood
      /\ call.pc # "idle" => call.op # "none" /\ call.result = "none"
      /\ call.fd \in {NoInode} \cup Inode
      /\ call.pc \in {"fstat", "transfer"} <=> call.fd # NoInode
      /\ call.fd # NoInode => <<call.fd, names[call.fd]>> \in stood
      /\ DiskOp = {"inspect", "state", "open", "append"}
      /\ call.pc = "transfer" =>
          /\ Regular(call.fd) /\ call.op # "open"
          /\ IF call.op = "append" THEN <<call.fd, 1>> \in stood ELSE Kind(call.fd) = "file"
      /\ ReadsWhatStood
  BY DEF DiskInv, DiskOp
<1> DEFINE Typed(c) == c \in [pc : {"idle", "lstat", "open", "again", "fstat", "transfer"}, op : DiskOp \cup {"none"},
                 fd : {NoInode} \cup Inode, of : {NoInode} \cup Inode,
                 result : KindsOfInode \cup {"none", "absent", "refused", "unreadable", "irregular", "descriptor",
                                             "appended", "content"}]
<1>t. Typed(call) BY DEF DiskInv
<1>s. call.pc # "idle" => Stood(at)
  <2>1. \A n : Standing(at, n)[1] = at BY DEF Standing
  <2>2. QED BY <1>0, <2>1 DEF Stood
<1>1. ASSUME NEW op \in DiskOp, Begin(op) PROVE DiskInv'
  <2>1. /\ call' = [call EXCEPT !.pc = "lstat", !.op = op, !.result = "none", !.of = NoInode]
        /\ stood' = {Standing(at, names)} /\ UNCHANGED <<at, names, swaps>> /\ call.pc = "idle"
    BY <1>1 DEF Begin
  <2>2. call'.pc = "lstat" /\ call'.op = op /\ call'.result = "none" /\ call'.fd = call.fd /\ op # "none" /\ Typed(call')
    BY <1>0, <1>t, <2>1
  <2>3. ReadsWhatStood' BY <2>2 DEF ReadsWhatStood
  <2>4. QED BY <1>0, <2>1, <2>2, <2>3 DEF DiskInv
<1> DEFINE Goes(pc) == call' = [call EXCEPT !.pc = pc] /\ UNCHANGED <<at, names, written, swaps, stood>>
<1>g. ASSUME NEW pc \in {"open", "again"}, Goes(pc), call.fd = NoInode, call.pc # "idle" PROVE DiskInv'
  <2>1. call'.pc = pc /\ call'.op = call.op /\ call'.result = call.result /\ call'.fd = call.fd /\ call'.of = call.of /\ Typed(call')
    BY <1>0, <1>t, <1>g
  <2>2. ReadsWhatStood' BY <1>0, <1>g, <2>1 DEF ReadsWhatStood, Stood
  <2>3. QED BY <1>0, <1>g, <2>1, <2>2 DEF DiskInv
<1>2. CASE Lstat
  <2>0. call.pc = "lstat" /\ UNCHANGED <<at, names, written, swaps, stood>> /\ call.op \in DiskOp /\ call.fd = NoInode
    BY <1>0, <1>2 DEF Lstat
  <2>1. CASE Goes("open") BY <1>g, <2>0, <2>1
  <2>2. CASE Kind(at) = "absent" /\ Return("absent", NoInode)
    <3>1. at = NoInode BY <1>0, <2>2, KindIs DEF KindsOfInode
    <3>2. QED BY <1>s, <2>0, <2>2, <3>1, ReturnKeeps
  <2>3. CASE Return("refused", at) BY <1>0, <2>0, <2>3, ReturnKeeps
  <2>4. CASE Return(Kind(at), at) /\ at # NoInode
    <3>1. Kind(at) \in KindsOfInode BY <1>0, <2>4, KindIs
    <3>2. QED BY <1>0, <2>0, <2>4, <3>1, ReturnKeeps DEF KindsOfInode
  <2>5. Kind(at) # "absent" => at # NoInode BY KindIs
  <2>6. QED BY <1>2, <2>0, <2>1, <2>2, <2>3, <2>4, <2>5 DEF Lstat, Refuse
<1>3. CASE Open
  <2>0. call.pc = "open" /\ UNCHANGED <<at, names, written, swaps, stood>> /\ call.op \in DiskOp /\ call.fd = NoInode
    BY <1>0, <1>3 DEF Open
  <2>1. CASE call' = [call EXCEPT !.pc = "again"] BY <1>g, <2>0, <2>1
  <2>2. CASE at = NoInode /\ Return("absent", at) BY <1>s, <1>0, <2>0, <2>2, ReturnKeeps
  <2>3. CASE Return("refused", at) BY <1>0, <2>0, <2>3, ReturnKeeps
  <2>4. CASE Return("unreadable", at) BY <1>0, <2>0, <2>4, ReturnKeeps
  <2>5. CASE at # NoInode /\ call' = [call EXCEPT !.pc = "fstat", !.fd = at]
    <3>1. call'.pc = "fstat" /\ call'.fd = at /\ call'.op = call.op /\ call'.result = call.result /\ call'.of = call.of /\ Typed(call')
      BY <1>0, <1>t, <2>5
    <3>2. <<at, names[at]>> \in stood BY <1>0, <2>0, <2>5 DEF Standing
    <3>3. ReadsWhatStood' BY <1>0, <2>0, <3>1 DEF ReadsWhatStood, Stood
    <3>4. QED BY <1>0, <2>0, <2>5, <3>1, <3>2, <3>3 DEF DiskInv
  <2> DEFINE Failing == OpenFails(call.op, at)
  <2>a. Failing /\ call.op \in {"open", "append"} =>
           Return(IF call.op = "open" /\ at = NoInode THEN "absent" ELSE "refused", at)
    BY <1>3 DEF Open
  <2>b. Failing /\ call.op \in {"inspect", "state"} => call' = [call EXCEPT !.pc = "again"] \/ Return("unreadable", at)
    BY <1>3 DEF Open
  <2>c. ~Failing => at # NoInode /\ call' = [call EXCEPT !.pc = "fstat", !.fd = at]
    BY <1>3 DEF Open
  <2>6. QED BY <1>0, <2>0, <2>1, <2>2, <2>3, <2>4, <2>5, <2>a, <2>b, <2>c
<1>4. CASE Create
  <2>0. call.pc = "open" /\ call.op = "append" /\ at = NoInode /\ call.fd = NoInode
    BY <1>0, <1>4 DEF Create
  <2>1. PICK i \in Inode : /\ Kind(i) = "file" /\ at' = i /\ names' = [names EXCEPT ![i] = 1]
                           /\ call' = [call EXCEPT !.pc = "fstat", !.fd = i] /\ stood' = stood \cup {<<i, 1>>}
    BY <1>4 DEF Create
  <2>2. i # NoInode BY KindIs
  <2>3. call'.pc = "fstat" /\ call'.fd = i /\ call'.op = call.op /\ call'.result = call.result /\ call'.of = call.of /\ Typed(call')
    BY <1>0, <1>t, <2>1
  <2>4. names' \in [Inode -> 1 .. 2] /\ names'[i] = 1 BY <1>0, <2>1
  <2>5. Standing(at, names)' = <<i, 1>> BY <2>1, <2>2, <2>4 DEF Standing
  <2>6. ReadsWhatStood' BY <1>0, <2>0, <2>3 DEF ReadsWhatStood
  <2>7. QED BY <1>0, <2>0, <2>1, <2>2, <2>3, <2>4, <2>5, <2>6 DEF DiskInv
<1>5. CASE InspectOnce
  <2>0. call.pc = "again" /\ UNCHANGED <<at, names, written, swaps, stood>> /\ call.op \in DiskOp
        /\ Return(IF Kind(at) = "file" THEN "unreadable" ELSE Kind(at), at)
    BY <1>0, <1>5 DEF InspectOnce
  <2>1. CASE Kind(at) = "file" BY <1>0, <2>0, <2>1, ReturnKeeps
  <2>2. CASE at = NoInode BY <1>s, <2>0, <2>2, KindIs, ReturnKeeps
  <2>3. CASE at # NoInode /\ Kind(at) # "file"
    <3>1. Kind(at) \in KindsOfInode BY <1>0, <2>3, KindIs
    <3>2. QED BY <1>0, <2>0, <2>3, <3>1, ReturnKeeps DEF KindsOfInode
  <2>4. QED BY <2>1, <2>2, <2>3
<1>6. CASE Fstat
  <2>0. call.pc = "fstat" /\ UNCHANGED <<at, names, written, swaps, stood>> /\ call.op \in DiskOp
        /\ call.fd \in Inode /\ call.fd # NoInode /\ Stood(call.fd)
    <3>1. call.fd # NoInode /\ <<call.fd, names[call.fd]>> \in stood BY <1>0, <1>6 DEF Fstat
    <3>2. <<call.fd, names[call.fd]>>[1] = call.fd OBVIOUS
    <3>3. QED BY <1>0, <1>6, <3>1, <3>2 DEF Fstat, Stood
  <2> DEFINE i == call.fd
  <2> DEFINE Second == call.op = "append" /\ names[i] # 1
             Over == call.op \in {"inspect", "state"} /\ Kind(i) = "oversize"
  <2>a. ~Regular(i) => Return(IF call.op = "inspect" THEN "irregular" ELSE "refused", i)
    <3>1. SUFFICES ASSUME ~Regular(i) PROVE Return(IF call.op = "inspect" THEN "irregular" ELSE "refused", i)
      OBVIOUS
    <3>2. Kind(i) # "oversize" BY <3>1 DEF Regular
    <3>3. QED BY <1>6, <3>1, <3>2 DEF Fstat
  <2>b. Regular(i) /\ Second => Return("refused", i)
    BY <1>6 DEF Fstat
  <2>c. Regular(i) /\ ~Second /\ Over => Return(IF call.op = "state" THEN "refused" ELSE "oversize", i)
    BY <1>6 DEF Fstat
  <2>d. Regular(i) /\ ~Second /\ ~Over /\ call.op = "open" => Return("descriptor", i)
    BY <1>6 DEF Fstat
  <2>e. Regular(i) /\ ~Second /\ ~Over /\ call.op # "open" => call' = [call EXCEPT !.pc = "transfer"]
    BY <1>6 DEF Fstat
  <2>1. \/ ~Regular(i) /\ Return(IF call.op = "inspect" THEN "irregular" ELSE "refused", i)
        \/ Return("refused", i)
        \/ Return("oversize", i)
        \/ Regular(i) /\ Return("descriptor", i)
        \/ /\ Regular(i) /\ ~Second /\ call.op # "open" /\ ~Over
           /\ call' = [call EXCEPT !.pc = "transfer"]
    BY <2>a, <2>b, <2>c, <2>d, <2>e
  <2>2. CASE ~Regular(i) /\ Return(IF call.op = "inspect" THEN "irregular" ELSE "refused", i)
    BY <1>0, <2>0, <2>2, ReturnKeeps
  <2>3. CASE Return("refused", i) BY <1>0, <2>0, <2>3, ReturnKeeps
  <2>4. CASE Return("oversize", i) BY <1>0, <2>0, <2>4, ReturnKeeps DEF KindsOfInode
  <2>5. CASE Regular(i) /\ Return("descriptor", i) BY <1>0, <2>0, <2>5, ReturnKeeps
  <2>6. CASE /\ Regular(i) /\ ~(call.op = "append" /\ names[i] # 1) /\ call.op # "open"
             /\ ~(call.op \in {"inspect", "state"} /\ Kind(i) = "oversize")
             /\ call' = [call EXCEPT !.pc = "transfer"]
    <3>1. call'.pc = "transfer" /\ call'.fd = i /\ call'.op = call.op /\ call'.result = call.result /\ call'.of = call.of /\ Typed(call')
      BY <1>0, <1>t, <2>6
    <3>2. IF call.op = "append" THEN <<i, 1>> \in stood ELSE Kind(i) = "file"
      BY <1>0, <2>0, <2>6 DEF Regular
    <3>3. ReadsWhatStood' BY <1>0, <2>0, <3>1 DEF ReadsWhatStood, Stood
    <3>4. Regular(call.fd)' BY <2>6, <3>1 DEF Regular, Kind
    <3>5. Kind(call.fd)' = Kind(i) BY <3>1 DEF Kind
    <3>6. QED BY <1>0, <2>0, <2>6, <3>1, <3>2, <3>3, <3>4, <3>5 DEF DiskInv
  <2>7. QED BY <2>1, <2>2, <2>3, <2>4, <2>5, <2>6
<1>7. CASE Transfer
  <2>1. call.fd \in Inode /\ Stood(call.fd)
    <3>1. call.fd # NoInode /\ <<call.fd, names[call.fd]>> \in stood BY <1>0, <1>7 DEF Transfer
    <3>2. <<call.fd, names[call.fd]>>[1] = call.fd OBVIOUS
    <3>3. QED BY <1>0, <3>1, <3>2 DEF Stood
  <2>2. QED BY <1>0, <1>7, <2>1, ReturnKeeps DEF Transfer
<1>8. CASE Swap
  <2>1. PICK i \in {NoInode} \cup Inode, n \in 1 .. 2 :
            /\ at' = i /\ names' = IF i = NoInode THEN names ELSE [names EXCEPT ![i] = n]
            /\ stood' = stood \cup {Standing(i, names')}
    BY <1>8 DEF Swap
  <2>2. call' = call BY <1>8 DEF Swap
  <2>3. names' \in [Inode -> 1 .. 2] BY <1>0, <2>1
  <2>4. call.fd # NoInode => <<call.fd, names'[call.fd]>> \in stood'
    <3>1. CASE call.fd = i /\ i # NoInode BY <2>1, <3>1 DEF Standing
    <3>2. CASE call.fd # i BY <1>0, <2>1, <3>2
    <3>3. QED BY <3>1, <3>2
  <2>5. ReadsWhatStood' BY <1>0, <2>1, <2>2 DEF ReadsWhatStood, Stood, Regular, Kind
  <2>6. QED BY <1>0, <1>t, <2>1, <2>2, <2>3, <2>4, <2>5 DEF DiskInv, Regular, Kind
<1>9. CASE UNCHANGED diskVars
  BY <1>0, <1>t, <1>9 DEF diskVars, DiskInv, ReadsWhatStood, Stood, Regular, Kind, Standing
<1>10. QED BY <1>1, <1>2, <1>3, <1>4, <1>5, <1>6, <1>7, <1>8, <1>9 DEF DiskNext, DiskStep

\* Only an append writes, and at home.
LEMMA AppendIsHome ==
    ASSUME DiskInv, [DiskNext]_diskVars
    PROVE  [\A i \in Inode : i \in written' \ written => Regular(i) /\ <<i, 1>> \in stood]_diskVars
<1>1. CASE Transfer
  <2>1. call.pc = "transfer" /\ (written' = written \/ (call.op = "append" /\ written' = {call.fd}))
    BY <1>1 DEF Transfer
  <2>2. QED BY <2>1 DEF DiskInv
<1>2. ASSUME NEW op \in DiskOp, Begin(op) PROVE written' = {} BY <1>2 DEF Begin
<1>3. Lstat \/ Open \/ Create \/ InspectOnce \/ Fstat \/ Swap => written' = written
  BY DEF Lstat, Open, Create, InspectOnce, Fstat, Swap
<1>4. QED BY <1>1, <1>2, <1>3 DEF DiskNext, DiskStep

-----------------------------------------------------------------------------
(* The container.                                                           *)

Failure == {"none", "resource", "backend", "budget"}
Box == [status : {"none", "running", "exited", "dead"}, code : Code2 \cup {"null"}, oom : BOOLEAN, error : BOOLEAN,
        by : {"none", "genuine", "other"}]

ContainerTyped ==
    /\ engine \in [bytes : {"genuine", "other"}, replaceable : BOOLEAN]
    /\ backend \in [available : BOOLEAN, prepared : BOOLEAN, sha : {"none", "genuine", "other"}]
    /\ box \in [Stage -> Box]
    /\ stage \in [n : 0 .. MaxStages, pc : {"idle", "run", "wait", "inspect"}]
    /\ verdict \in [Stage -> [exit : Code2 \cup {"null"}, failure : Failure]]

\* A stage in progress has prepared authority behind it and has reported nothing,
\* neither has one to come; without that authority there is no container.
ContainerInv ==
    /\ ContainerTyped
    /\ stage.pc # "idle" => stage.n \in Stage /\ backend.available /\ verdict[stage.n].exit = "null"
    /\ \A s \in Stage : s > stage.n => verdict[s].exit = "null"
    /\ backend.available => backend.prepared
    /\ RefusedNeverRuns
    /\ \A s \in Stage : verdict[s].exit # "null" => verdict[s].failure = "none"

\* The daemon's account as a report: an exit is that of a box that exited.
LEMMA ResultIsBoxes ==
    ASSUME NEW b \in Box
    PROVE  /\ StateResult(b) \in [exit : Code2 \cup {"null"}, failure : Failure]
           /\ StateResult(b).exit # "null" => /\ b.status = "exited" /\ ~b.oom /\ ~b.error
                                              /\ b.code = StateResult(b).exit /\ StateResult(b).failure = "none"
<1>1. b.code \in Code2 \cup {"null"} /\ b.oom \in BOOLEAN /\ b.error \in BOOLEAN BY DEF Box
<1>2. CASE b.oom \/ b.status # "exited" \/ b.error
  <2>1. \/ StateResult(b) = [exit |-> "null", failure |-> "resource"]
        \/ StateResult(b) = [exit |-> "null", failure |-> "backend"]
    <3>1. CASE b.oom BY <3>1 DEF StateResult
    <3>2. CASE ~b.oom BY <1>2, <3>2 DEF StateResult
    <3>3. QED BY <3>1, <3>2
  <2>2. QED BY <2>1 DEF Failure
<1>3. CASE ~(b.oom \/ b.status # "exited" \/ b.error)
  <2>1. StateResult(b) = [exit |-> b.code, failure |-> "none"] BY <1>3 DEF StateResult
  <2>2. QED BY <1>1, <1>3, <2>1 DEF Failure
<1>4. QED BY <1>2, <1>3

\* Nothing is prepared.
LEMMA ContainerStarts == ContainerInit => ContainerInv
BY StagesAssumption DEF ContainerInit, ContainerInv, ContainerTyped, RefusedNeverRuns, NoBox, NoVerdict, Box, Failure, Stage

\* A stage's end: what it reports, and what is left of its container.
LEMMA EndKeeps ==
    ASSUME ContainerInv, stage.pc # "idle", NEW r \in [exit : Code2 \cup {"null"}, failure : Failure],
           r.exit # "null" => r.failure = "none",
           verdict' = [verdict EXCEPT ![stage.n] = r], stage' = [stage EXCEPT !.pc = "idle"],
           UNCHANGED <<engine, backend>>, Cleanup \/ UNCHANGED box
    PROVE  /\ ContainerInv'
           /\ \A s \in Stage : verdict'[s].exit # verdict[s].exit => s = stage.n /\ verdict'[s] = r /\ r.exit # "null"
<1>0. /\ ContainerTyped /\ stage.n \in Stage /\ backend.available /\ verdict[stage.n].exit = "null"
      /\ \A s \in Stage : s > stage.n => verdict[s].exit = "null"
      /\ backend.prepared
      /\ \A s \in Stage : verdict[s].exit # "null" => verdict[s].failure = "none"
  BY DEF ContainerInv
<1>1. NoBox \in Box BY DEF NoBox, Box
<1>2. box' \in [Stage -> Box]
  <2>1. box' = box \/ box' = [box EXCEPT ![stage.n] = NoBox] BY DEF Cleanup
  <2>2. QED BY <1>0, <1>1, <2>1 DEF ContainerTyped
<1>3. verdict' \in [Stage -> [exit : Code2 \cup {"null"}, failure : Failure]] BY <1>0 DEF ContainerTyped
<1>4. /\ stage' \in [n : 0 .. MaxStages, pc : {"idle", "run", "wait", "inspect"}]
      /\ stage'.n = stage.n /\ stage'.pc = "idle"
  BY <1>0 DEF ContainerTyped
<1>5. /\ \A s \in Stage : s # stage.n => verdict'[s] = verdict[s]
      /\ verdict'[stage.n] = r
  BY <1>0 DEF ContainerTyped
<1>6. \A s \in Stage : (s > stage.n)' => verdict'[s].exit = "null"
  <2>1. stage.n \in Nat /\ Stage \subseteq Nat BY <1>0 DEF ContainerTyped, Stage
  <2>2. \A s \in Stage : s > stage.n => s # stage.n BY <2>1
  <2>3. QED BY <1>0, <1>4, <1>5, <2>2
<1>7. RefusedNeverRuns' BY <1>0 DEF RefusedNeverRuns
<1>8. \A s \in Stage : verdict'[s].exit # "null" => verdict'[s].failure = "none" BY <1>0, <1>5
<1>9. ContainerTyped' BY <1>0, <1>2, <1>3, <1>4 DEF ContainerTyped
<1>10. ContainerInv' BY <1>0, <1>4, <1>6, <1>7, <1>8, <1>9 DEF ContainerInv
<1>11. QED BY <1>0, <1>5, <1>10

\* Every step keeps it, the replaced engine's and the lost daemon's among them.
LEMMA ContainerKeeps ==
    ContainerInv /\ [ContainerNext]_containerVars =>
        /\ ContainerInv'
        /\ [\A s \in Stage : verdict'[s].exit # verdict[s].exit =>
                    /\ box[s].status = "exited" /\ ~box[s].oom /\ ~box[s].error
                    /\ box[s].code = verdict'[s].exit]_containerVars
        /\ [(stage.pc # "idle" /\ stage'.pc = "idle" /\ EngineStable /\ daemon)
                    => box'[stage.n].status = "none"]_containerVars
<1> DEFINE Exits == \A s \in Stage : verdict'[s].exit # verdict[s].exit =>
                    /\ box[s].status = "exited" /\ ~box[s].oom /\ ~box[s].error
                    /\ box[s].code = verdict'[s].exit
           Clears == (stage.pc # "idle" /\ stage'.pc = "idle" /\ EngineStable /\ daemon) => box'[stage.n].status = "none"
           Goal == ContainerInv' /\ [Exits]_containerVars /\ [Clears]_containerVars
<1> SUFFICES ASSUME ContainerInv, [ContainerNext]_containerVars PROVE Goal
  OBVIOUS
<1>0. /\ ContainerTyped
      /\ stage.pc # "idle" => stage.n \in Stage /\ backend.available /\ verdict[stage.n].exit = "null"
      /\ \A s \in Stage : s > stage.n => verdict[s].exit = "null"
      /\ backend.available => backend.prepared
      /\ RefusedNeverRuns
      /\ \A s \in Stage : verdict[s].exit # "null" => verdict[s].failure = "none"
  BY DEF ContainerInv
<1>a. stage.n \in 0 .. MaxStages /\ stage.pc \in {"idle", "run", "wait", "inspect"} BY <1>0 DEF ContainerTyped
<1>b. NoBox \in Box BY DEF NoBox, Box
\* A step that reports nothing and ends no stage.
<1>q. ASSUME ContainerInv', verdict' = verdict, stage.pc = "idle" \/ stage'.pc # "idle" PROVE Goal
  BY <1>q
<1>1. ASSUME NEW pinned \in BOOLEAN, NEW forcedOther \in BOOLEAN, NEW there \in BOOLEAN, NEW inspected \in BOOLEAN,
             NEW volumes \in BOOLEAN, Prepare(pinned, forcedOther, there, inspected, volumes)
      PROVE  Goal
  <2>1. ~backend.prepared /\ UNCHANGED <<engine, daemon, box, stage, verdict>> BY <1>1 DEF Prepare
  <2>2. /\ backend'.prepared /\ ~backend.available
        /\ backend' \in [available : BOOLEAN, prepared : BOOLEAN, sha : {"none", "genuine", "other"}]
    <3>1. engine.bytes \in {"genuine", "other"} BY <1>0 DEF ContainerTyped
    <3>2. QED BY <1>0, <1>1, <2>1, <3>1 DEF Prepare
  <2>3. stage.pc = "idle" BY <1>0, <2>2
  <2>4. RefusedNeverRuns' BY <1>0, <2>1, <2>2 DEF RefusedNeverRuns
  <2>5. ContainerInv' BY <1>0, <2>1, <2>2, <2>3, <2>4 DEF ContainerInv, ContainerTyped
  <2>6. QED BY <1>q, <2>1, <2>3, <2>5
<1>2. CASE Enter
  <2> DEFINE n == stage.n + 1
  <2>1. /\ backend.prepared /\ stage.pc = "idle" /\ stage.n < MaxStages
        /\ UNCHANGED <<engine, daemon, backend, box>>
        /\ \/ /\ stage' = [n |-> n, pc |-> "idle"]
              /\ verdict' = [verdict EXCEPT ![n] = [exit |-> "null", failure |-> "backend"]]
           \/ backend.available /\ stage' = [n |-> n, pc |-> "run"] /\ UNCHANGED verdict
    BY <1>2 DEF Enter
  <2>2. n \in Stage /\ n \in 0 .. MaxStages /\ n > stage.n BY <1>a, <2>1, StagesAssumption DEF Stage
  <2>3. \A s \in Stage : s > n => s > stage.n BY <1>a, <2>2 DEF Stage
  <2>4. verdict[n].exit = "null" BY <1>0, <2>2
  <2> HIDE DEF n
  <2>5. CASE stage' = [n |-> n, pc |-> "idle"] /\ verdict' = [verdict EXCEPT ![n] = [exit |-> "null", failure |-> "backend"]]
    <3>1. verdict' \in [Stage -> [exit : Code2 \cup {"null"}, failure : Failure]]
      BY <1>0, <2>2, <2>5 DEF ContainerTyped, Failure
    <3>2. \A s \in Stage : verdict'[s].exit = verdict[s].exit /\ (s # n => verdict'[s] = verdict[s])
      BY <1>0, <2>2, <2>4, <2>5 DEF ContainerTyped
    <3>3. verdict'[n].exit = "null" BY <2>2, <2>4, <3>2
    <3>4. stage'.n = n /\ stage'.pc = "idle" BY <2>5
    <3>5. RefusedNeverRuns' BY <1>0, <2>1, <3>2 DEF RefusedNeverRuns
    <3>6. \A s \in Stage : (s > stage.n)' => verdict'[s].exit = "null" BY <1>0, <2>3, <3>2, <3>4
    <3>7. ContainerTyped' BY <1>0, <2>1, <2>2, <2>5, <3>1 DEF ContainerTyped
    <3>8. \A s \in Stage : verdict'[s].exit # "null" => verdict'[s].failure = "none" BY <1>0, <3>2, <3>3
    <3>9. ContainerInv' BY <1>0, <2>1, <3>4, <3>5, <3>6, <3>7, <3>8 DEF ContainerInv
    <3>10. QED BY <2>1, <3>2, <3>9
  <2>6. CASE backend.available /\ stage' = [n |-> n, pc |-> "run"] /\ UNCHANGED verdict
    <3>1. stage'.n = n /\ stage'.pc = "run" BY <2>6
    <3>2. RefusedNeverRuns' BY <1>0, <2>1, <2>6 DEF RefusedNeverRuns
    <3>3. \A s \in Stage : (s > stage.n)' => verdict'[s].exit = "null" BY <1>0, <2>3, <2>6, <3>1
    <3>4. ContainerTyped' BY <1>0, <2>1, <2>2, <2>6 DEF ContainerTyped
    <3>5. ContainerInv' BY <1>0, <2>1, <2>2, <2>4, <2>6, <3>1, <3>2, <3>3, <3>4 DEF ContainerInv
    <3>6. QED BY <1>q, <2>6, <2>1, <3>5
  <2>7. QED BY <2>1, <2>5, <2>6
<1> DEFINE Goes(pc) == stage' = [stage EXCEPT !.pc = pc] /\ UNCHANGED <<engine, daemon, backend, verdict>>
<1>g. ASSUME NEW pc \in {"wait", "inspect"}, Goes(pc), stage.pc # "idle",
             \/ box' = box
             \/ \E b \in Box : box' = [box EXCEPT ![stage.n] = b]
      PROVE  Goal
  <2>1. stage'.n = stage.n /\ stage'.pc = pc /\ stage' \in [n : 0 .. MaxStages, pc : {"idle", "run", "wait", "inspect"}]
    BY <1>0, <1>g DEF ContainerTyped
  <2>2. box' \in [Stage -> Box] BY <1>0, <1>g DEF ContainerTyped
  <2>3. RefusedNeverRuns' BY <1>0, <1>g DEF RefusedNeverRuns
  <2>4. ContainerTyped' BY <1>0, <1>g, <2>1, <2>2 DEF ContainerTyped
  <2>5. ContainerInv' BY <1>0, <1>g, <2>1, <2>3, <2>4 DEF ContainerInv
  <2>6. QED BY <1>g, <1>q, <2>1, <2>5
<1>3. CASE RunClient
  <2>1. [NoBox EXCEPT !.status = "running", !.by = engine.bytes] \in Box
    <3>1. engine.bytes \in {"genuine", "other"} BY <1>0 DEF ContainerTyped
    <3>2. QED BY <3>1 DEF NoBox, Box
  <2>2. stage.pc = "run" /\ Goes("wait") BY <1>3 DEF RunClient
  <2>3. box' = box \/ box' = [box EXCEPT ![stage.n] = [NoBox EXCEPT !.status = "running", !.by = engine.bytes]]
    BY <1>3 DEF RunClient
  <2>4. QED BY <1>g, <2>1, <2>2, <2>3
<1>4. CASE ClientReturns \/ ClientLeaves
  <2>1. stage.pc = "wait" /\ Goes("inspect") /\ box' = box BY <1>4 DEF ClientReturns, ClientLeaves
  <2>2. QED BY <1>g, <2>1
\* The end of a stage, with what the daemon said.
<1>e. ASSUME NEW r \in [exit : Code2 \cup {"null"}, failure : Failure], stage.pc # "idle",
             r.exit # "null" => /\ box[stage.n].status = "exited" /\ ~box[stage.n].oom /\ ~box[stage.n].error
                                /\ box[stage.n].code = r.exit /\ r.failure = "none",
             verdict' = [verdict EXCEPT ![stage.n] = r], stage' = [stage EXCEPT !.pc = "idle"],
             UNCHANGED <<engine, daemon, backend>>, Cleanup \/ (UNCHANGED box /\ ~EngineStable)
      PROVE  Goal
  <2>1. /\ ContainerInv'
        /\ \A s \in Stage : verdict'[s].exit # verdict[s].exit => s = stage.n /\ verdict'[s] = r /\ r.exit # "null"
    BY <1>e, EndKeeps
  <2>2. Exits BY <1>e, <2>1
  <2>3. Clears
    <3>1. SUFFICES ASSUME EngineStable, daemon PROVE box'[stage.n].status = "none"
      OBVIOUS
    <3>2. box' = [box EXCEPT ![stage.n] = NoBox] BY <1>e, <3>1 DEF Cleanup
    <3>3. box'[stage.n] = NoBox BY <1>0, <1>e, <3>2 DEF ContainerTyped
    <3>4. QED BY <3>3 DEF NoBox
  <2>4. QED BY <2>1, <2>2, <2>3
<1>5. ASSUME NEW why \in {"budget", "backend"}, ClientFails(why) PROVE Goal
  <2>1. /\ stage.pc = "wait" /\ Cleanup /\ UNCHANGED <<engine, daemon, backend>>
        /\ verdict' = [verdict EXCEPT ![stage.n] = [exit |-> "null", failure |-> why]]
        /\ stage' = [stage EXCEPT !.pc = "idle"]
    BY <1>5 DEF ClientFails, Fails
  <2>2. [exit |-> "null", failure |-> why] \in [exit : Code2 \cup {"null"}, failure : Failure] BY DEF Failure
  <2>3. QED BY <1>e, <2>1, <2>2
<1>6. CASE Inspect
  <2>0. stage.pc = "inspect" /\ UNCHANGED <<engine, daemon, backend>> BY <1>6 DEF Inspect
  <2>1. CASE ~EngineStable
    <3>1. /\ verdict' = [verdict EXCEPT ![stage.n] = [exit |-> "null", failure |-> "backend"]]
          /\ stage' = [stage EXCEPT !.pc = "idle"] /\ UNCHANGED box
      BY <1>6, <2>1 DEF Inspect, Fails
    <3>2. [exit |-> "null", failure |-> "backend"] \in [exit : Code2 \cup {"null"}, failure : Failure] BY DEF Failure
    <3>3. QED BY <1>e, <2>0, <2>1, <3>1, <3>2
  <2>2. CASE EngineStable
    <3> DEFINE seen == IF daemon THEN box[stage.n] ELSE NoBox
    <3>1. /\ verdict' = [verdict EXCEPT ![stage.n] = StateResult(seen)]
          /\ stage' = [stage EXCEPT !.pc = "idle"] /\ Cleanup
      BY <1>6, <2>2 DEF Inspect
    <3>2. stage.n \in Stage BY <1>0, <2>0
    <3>3. seen \in Box BY <1>0, <1>b, <3>2 DEF ContainerTyped
    <3>4. seen.status = "exited" => seen = box[stage.n] BY DEF NoBox
    <3> HIDE DEF seen
    <3>5. /\ StateResult(seen) \in [exit : Code2 \cup {"null"}, failure : Failure]
          /\ StateResult(seen).exit # "null" => /\ seen.status = "exited" /\ ~seen.oom /\ ~seen.error
                                /\ seen.code = StateResult(seen).exit /\ StateResult(seen).failure = "none"
      BY <3>3, ResultIsBoxes
    <3>6. QED BY <1>e, <2>0, <3>1, <3>4, <3>5
  <2>3. QED BY <2>1, <2>2
<1>7. ASSUME NEW n \in Stage, NEW e \in Endings, BoxEnds(n, e) PROVE Goal
  <2>1. /\ box[n].status = "running" /\ box' = [box EXCEPT ![n] = [e EXCEPT !.by = box[n].by]]
        /\ UNCHANGED <<engine, daemon, backend, stage, verdict>>
    BY <1>7 DEF BoxEnds
  <2>2. [e EXCEPT !.by = box[n].by] \in Box
    <3>1. e \in Box
      <4>1. \/ \E c \in Code2 : e = [NoBox EXCEPT !.status = "exited", !.code = c]
            \/ e = [NoBox EXCEPT !.status = "exited", !.code = "nonzero", !.oom = TRUE]
            \/ e = [NoBox EXCEPT !.status = "exited", !.code = "nonzero", !.error = TRUE]
            \/ e = [NoBox EXCEPT !.status = "dead"]
        BY DEF Endings
      <4>2. "nonzero" \in Code2 BY DEF Code2
      <4>3. CASE \E c \in Code2 : e = [NoBox EXCEPT !.status = "exited", !.code = c] BY <4>3 DEF Box, NoBox
      <4>4. CASE e = [NoBox EXCEPT !.status = "exited", !.code = "nonzero", !.oom = TRUE]
        BY <4>2, <4>4 DEF Box, NoBox
      <4>5. CASE e = [NoBox EXCEPT !.status = "exited", !.code = "nonzero", !.error = TRUE]
        BY <4>2, <4>5 DEF Box, NoBox
      <4>6. CASE e = [NoBox EXCEPT !.status = "dead"] BY <4>6 DEF Box, NoBox
      <4>7. QED BY <4>1, <4>3, <4>4, <4>5, <4>6
    <3>2. box[n].by \in {"none", "genuine", "other"} BY <1>0 DEF ContainerTyped, Box
    <3>3. QED BY <3>1, <3>2 DEF Box
  <2>3. box' \in [Stage -> Box] BY <1>0, <2>1, <2>2 DEF ContainerTyped
  <2>4. backend.available BY <1>0, <2>1 DEF RefusedNeverRuns
  <2>5. RefusedNeverRuns' BY <2>1, <2>4 DEF RefusedNeverRuns
  <2>6. ContainerInv' BY <1>0, <2>1, <2>3, <2>5 DEF ContainerInv, ContainerTyped
  <2>7. stage.pc = "idle" \/ stage'.pc # "idle" BY <2>1
  <2>8. QED BY <1>q, <2>1, <2>6, <2>7
<1>8. CASE EngineReplaced \/ DaemonFlips
  <2>1. UNCHANGED <<backend, box, stage, verdict>> BY <1>8 DEF EngineReplaced, DaemonFlips
  <2>2. engine' \in [bytes : {"genuine", "other"}, replaceable : BOOLEAN]
    BY <1>0, <1>8 DEF EngineReplaced, DaemonFlips, ContainerTyped
  <2>3. ContainerInv' BY <1>0, <2>1, <2>2 DEF ContainerInv, ContainerTyped, RefusedNeverRuns
  <2>4. stage.pc = "idle" \/ stage'.pc # "idle" BY <2>1
  <2>5. QED BY <1>q, <2>1, <2>3, <2>4
<1>9. CASE UNCHANGED containerVars
  <2>1. UNCHANGED <<engine, daemon, backend, box, stage, verdict>> BY <1>9 DEF containerVars
  <2>2. ContainerInv' BY <1>0, <2>1 DEF ContainerInv, ContainerTyped, RefusedNeverRuns
  <2>3. stage.pc = "idle" \/ stage'.pc # "idle" BY <2>1
  <2>4. QED BY <1>q, <2>1, <2>2, <2>3
<1>10. QED BY <1>1, <1>2, <1>3, <1>4, <1>5, <1>6, <1>7, <1>8, <1>9 DEF ContainerNext

\* What it says of the reports.
LEMMA ContainerSound == ContainerInv => ContainerTypeOK /\ RefusedNeverRuns
BY DEF ContainerInv, ContainerTyped, ContainerTypeOK

-----------------------------------------------------------------------------
(* The dependency environment.                                              *)

\* What is frozen for a command, as the world is.
Measured(cmd, w) ==
    LET snap == Snapshot([real |-> w.root], w)
    IN  [real |-> w.root,
         status |-> IF Unbounded(cmd) \/ ~snap.ok THEN "unattestable" ELSE IF w.root # "none" THEN "attested" ELSE "none",
         fingerprint |-> IF Unbounded(cmd) THEN {} ELSE snap.of, stood |-> Reads(w), bounded |-> Supplied(cmd)]
Descriptor == {Measured(cmd, w) : cmd \in Commands, w \in Worlds}

\* An answer that is ok is of the world its descriptor was frozen in.
AsFrozen(a) == a.ok => a.id \in DOMAIN frozen /\ a.saw = frozen[a.id].stood /\ frozen[a.id].bounded

EnvInv ==
    /\ world \in Worlds
    /\ frozen \in Seq(Descriptor)
    /\ \A a \in issued : AsFrozen(a)
    /\ AsFrozen(told)

\* A node is its kind and its content.
Same(n) == [k |-> n.k, c |-> n.c]

\* The node at a path is one a suite or a package manager may leave there.
LEMMA NodesOf ==
    ASSUME NEW w \in Worlds, NEW p \in Paths
    PROVE  /\ w.at[p].k \in {"file", "link", "none", "special", "dir"}
           /\ w.at[p].k # "link" /\ w.at[p].k # "file" => w.at[p].c = "empty"
           /\ w.at[p].k \in {"file", "link"} => p # <<"d">>
           /\ w.at[p].k = "link" => w.at[p].c \in IF p = <<"a">> THEN Targets ELSE Targets \ {"d", "x"}
           /\ w.at[p] = Same(w.at[p])
           /\ w.sys.k \in {"file", "none"} /\ (w.sys.k = "none" => w.sys.c = "empty")
           /\ w.at = [q \in Paths |-> w.at[q]]
<1>1. w.at[p] \in NodesAt(p) BY DEF Worlds, IsWorld
<1>2. w.sys \in {Holding(c) : c \in Bytes} \cup {Plain("none")} BY DEF Worlds
<1>3. w.at = [q \in Paths |-> w.at[q]] BY DEF Worlds
<1>4. w.sys.k \in {"file", "none"} /\ (w.sys.k = "none" => w.sys.c = "empty")
  <2>1. CASE w.sys = Plain("none") BY <2>1 DEF Plain
  <2>2. CASE \E c \in Bytes : w.sys = Holding(c) BY <2>2 DEF Holding
  <2>3. QED BY <1>2, <2>1, <2>2
<1>5. CASE p = <<"d">>
  <2>1. w.at[p] \in {Plain("dir"), Plain("none")} BY <1>1, <1>5 DEF NodesAt
  <2>2. /\ w.at[p].k \in {"dir", "none"} /\ w.at[p].c = "empty"
        /\ w.at[p] = Same(w.at[p])
    BY <2>1 DEF Plain, Same
  <2>3. QED BY <1>3, <1>4, <2>2
<1>6. CASE p # <<"d">>
  <2>1. w.at[p] \in {Holding(c) : c \in Bytes} \cup {Plain("none"), Plain("special")}
                     \cup {Pointing(t) : t \in IF p = <<"a">> THEN Targets ELSE Targets \ {"d", "x"}}
    BY <1>1, <1>6 DEF NodesAt
  <2> DEFINE Points(n) == n.k = "link" => n.c \in IF p = <<"a">> THEN Targets ELSE Targets \ {"d", "x"}
             Node(n) == /\ n = Same(n) /\ n.k \in {"file", "link", "none", "special"}
                        /\ n.k # "link" /\ n.k # "file" => n.c = "empty"
  <2>2. CASE \E c \in Bytes : w.at[p] = Holding(c)
    <3>1. Node(w.at[p]) /\ Points(w.at[p]) BY <2>2 DEF Holding, Same
    <3>2. QED BY <1>3, <1>4, <1>6, <3>1
  <2>3. CASE w.at[p] = Plain("none") \/ w.at[p] = Plain("special")
    <3>1. Node(w.at[p]) /\ Points(w.at[p]) BY <2>3 DEF Plain, Same
    <3>2. QED BY <1>3, <1>4, <1>6, <3>1
  <2>4. CASE \E x \in IF p = <<"a">> THEN Targets ELSE Targets \ {"d", "x"} : w.at[p] = Pointing(x)
    <3>1. Node(w.at[p]) /\ Points(w.at[p]) BY <2>4 DEF Pointing, Same
    <3>2. QED BY <1>3, <1>4, <1>6, <3>1
  <2>5. QED BY <2>1, <2>2, <2>3, <2>4
<1>7. QED BY <1>5, <1>6

\* A fingerprint tells what stands under every path.
LEMMA StreamTells ==
    ASSUME NEW v \in Worlds, NEW w \in Worlds, Stream(v) = Stream(w), NEW p \in Paths
    PROVE  /\ v.at[p] = w.at[p]
           /\ v.at[p].k # "none" => Entry(v, p).target = Entry(w, p).target
<1>1. \A u \in Worlds, q \in Paths : /\ Entry(u, q).path = IF q = <<"d", "x">> THEN <<DirLabel(u), "x">> ELSE q
                                     /\ Entry(u, q).kind = u.at[q].k /\ Entry(u, q).text = u.at[q].c
  BY DEF Entry
<1>2. \A l, m : \A q \in Paths :
         (IF p = <<"d", "x">> THEN <<l, "x">> ELSE p) = (IF q = <<"d", "x">> THEN <<m, "x">> ELSE q) => q = p
  BY DEF Paths
<1>3. ASSUME NEW u \in Worlds, NEW t \in Worlds, Stream(u) = Stream(t), u.at[p].k # "none"
      PROVE  t.at[p].k = u.at[p].k /\ t.at[p].c = u.at[p].c /\ Entry(u, p).target = Entry(t, p).target
  <2>1. Entry(u, p) \in Stream(t) BY <1>3 DEF Stream
  <2>2. PICK q \in Paths : Entry(t, q) = Entry(u, p) BY <2>1 DEF Stream
  <2>3. Entry(t, q).path = Entry(u, p).path BY <2>2
  <2>4. (IF p = <<"d", "x">> THEN <<DirLabel(u), "x">> ELSE p) = (IF q = <<"d", "x">> THEN <<DirLabel(t), "x">> ELSE q)
    BY <1>1, <2>3
  <2>5. q = p BY <1>2, <2>4
  <2>6. Entry(t, p) = Entry(u, p) BY <2>2, <2>5
  <2>7. Entry(t, p).kind = t.at[p].k /\ Entry(t, p).text = t.at[p].c /\ Entry(u, p).kind = u.at[p].k /\ Entry(u, p).text = u.at[p].c
    BY <1>1
  <2>8. QED BY <2>6, <2>7
<1>4. v.at[p].k = w.at[p].k /\ v.at[p].c = w.at[p].c
  <2>1. CASE v.at[p].k # "none" BY <1>3, <2>1
  <2>2. CASE w.at[p].k # "none" BY <1>3, <2>2
  <2>3. CASE v.at[p].k = "none" /\ w.at[p].k = "none" BY <2>3, NodesOf
  <2>4. QED BY <2>1, <2>2, <2>3
<1>5. v.at[p] = Same(v.at[p]) /\ w.at[p] = Same(w.at[p]) BY NodesOf
<1>6. v.at[p] = w.at[p] BY <1>4, <1>5 DEF Same
<1>7. QED BY <1>3, <1>6

\* What a name leads to that is not in the root is either told by the fingerprint,
\* with its bytes, or stands for itself.
LEMMA StreamResolves ==
    ASSUME NEW v \in Worlds, NEW w \in Worlds, Stream(v) = Stream(w), NEW p \in Paths
    PROVE  Resolved(v)[p].k = Resolved(w)[p].k /\ Resolved(v)[p].c = Resolved(w)[p].c
<1>1. \A q \in Paths : v.at[q] = w.at[q] BY StreamTells
<1>2. <<"d">> \in Paths /\ <<"d", "x">> \in Paths BY DEF Paths
<1> DEFINE Via(u) == IF u.at[p].k = "link" /\ u.at[p].c = "d" THEN <<"d">>
                     ELSE IF u.at[p].k = "link" /\ u.at[p].c = "x" THEN <<"d", "x">> ELSE p
<1>3. \A u \in Worlds : Resolved(u)[p] = Behind(u, Via(u)) BY DEF Resolved
<1>4. Via(v) = Via(w) /\ Via(v) \in Paths BY <1>1, <1>2
<1> DEFINE q == Via(v)
<1>5. Resolved(v)[p] = Behind(v, q) /\ Resolved(w)[p] = Behind(w, q) /\ q \in Paths BY <1>3, <1>4
<1>6. v.at[p].k # "link" => q = p OBVIOUS
<1>7. v.at[p].k = w.at[p].k BY <1>1
<1>8. v.at[p].k # "none" => Entry(v, p).target = Entry(w, p).target BY StreamTells
<1> HIDE DEF q
<1>9. CASE v.at[q].k # "link"
  BY <1>1, <1>5, <1>9 DEF Behind
<1>10. CASE v.at[q].k = "link" /\ v.at[q].c # "sys"
  BY <1>1, <1>5, <1>10 DEF Behind, LeadsTo
<1>11. CASE v.at[q].k = "link" /\ v.at[q].c = "sys"
  <2>1. v.at[p].k = "link" /\ w.at[p].k = "link" BY <1>6, <1>7, <1>11
  <2>2. \A u \in {v, w} : Resolved(u)[p] = [k |-> u.sys.k, c |-> u.sys.c, place |-> "sys"]
    BY <1>1, <1>5, <1>11 DEF Behind, LeadsTo
  <2>3. \A u \in {v, w} : Entry(u, p).target = IF u.sys.k = "file" THEN <<"sys", u.sys.c>> ELSE <<>>
    BY <2>1, <2>2 DEF Entry
  <2>4. /\ v.sys.k \in {"file", "none"} /\ (v.sys.k = "none" => v.sys.c = "empty")
        /\ w.sys.k \in {"file", "none"} /\ (w.sys.k = "none" => w.sys.c = "empty")
    BY <1>2, NodesOf
  <2>5. Entry(v, p).target = Entry(w, p).target BY <1>8, <2>1
  <2>6. v.sys.k = w.sys.k /\ v.sys.c = w.sys.c
    <3>1. \A c : <<"sys", c>> # << >> OBVIOUS
    <3>2. \A b, c : <<"sys", b>> = <<"sys", c>> => b = c OBVIOUS
    <3>3. QED BY <2>3, <2>4, <2>5, <3>1, <3>2
  <2>7. QED BY <2>2, <2>6
<1>12. QED BY <1>9, <1>10, <1>11

\* One fingerprint, one environment: whatever a suite reads, by whatever name.
LEMMA FingerprintIsReads ==
    ASSUME NEW v \in Worlds, NEW w \in Worlds, v.root = w.root, Stream(v) = Stream(w)
    PROVE  Reads(v) = Reads(w)
<1>1. <<"a">> \in Paths /\ <<"d", "x">> \in Paths BY DEF Paths
<1>2. \A p \in Paths : Resolved(v)[p].k = Resolved(w)[p].k /\ Resolved(v)[p].c = Resolved(w)[p].c BY StreamResolves
<1>3. v.at[<<"a">>] = w.at[<<"a">>] BY <1>1, StreamTells
<1>4. [p \in Paths |-> [k |-> Resolved(v)[p].k, c |-> Resolved(v)[p].c]]
        = [p \in Paths |-> [k |-> Resolved(w)[p].k, c |-> Resolved(w)[p].c]]
  BY <1>2
<1>5. QED BY <1>1, <1>2, <1>3, <1>4 DEF Reads

\* A bounded command names where everything it can import comes from.
LEMMA BoundedIsSupplied == \A cmd \in Commands : ~Unbounded(cmd) => Supplied(cmd)
<1> SUFFICES ASSUME NEW cmd \in Commands, ~Unbounded(cmd) PROVE Supplied(cmd)
  OBVIOUS
<1>1. cmd \in AnyCommand BY CommandsAreCommands
<1>2. QED BY <1>1 DEF AnyCommand, Unbounded, Venv, Supplied

\* An ok is of a descriptor that was measured, in a world that reads the same.
LEMMA OkIsAsFrozen ==
    ASSUME EnvInv, NEW id \in DOMAIN frozen, CheckNow(id)
    PROVE  Reads(world) = frozen[id].stood /\ frozen[id].bounded
<1> DEFINE d == frozen[id]
<1>1. world \in Worlds /\ d \in Descriptor BY DEF EnvInv
<1>2. PICK cmd \in Commands, w \in Worlds : d = Measured(cmd, w) BY <1>1 DEF Descriptor
<1> DEFINE snap == Snapshot([real |-> w.root], w)
           now == Snapshot(d, world)
<1>3. /\ d.real = w.root /\ d.stood = Reads(w) /\ d.bounded = Supplied(cmd)
      /\ d.status = (IF Unbounded(cmd) \/ ~snap.ok THEN "unattestable" ELSE IF w.root # "none" THEN "attested" ELSE "none")
      /\ d.fingerprint = IF Unbounded(cmd) THEN {} ELSE snap.of
  BY <1>2 DEF Measured
<1>4. d.status # "unattestable" /\ now.ok /\ now.of = d.fingerprint BY DEF CheckNow
<1>5. ~Unbounded(cmd) /\ snap.ok /\ now.of = snap.of BY <1>3, <1>4
<1>6. d.bounded BY <1>3, <1>5, BoundedIsSupplied
<1>7. CASE w.root # "none"
  <2>1. snap = IF Unattestable(w) THEN [ok |-> FALSE, of |-> {}] ELSE [ok |-> TRUE, of |-> Stream(w)]
    BY <1>7 DEF Snapshot
  <2>2. now = IF world.root # w.root \/ Unattestable(world) THEN [ok |-> FALSE, of |-> {}]
              ELSE [ok |-> TRUE, of |-> Stream(world)]
    BY <1>3, <1>7 DEF Snapshot
  <2>3. world.root = w.root /\ Stream(world) = Stream(w) BY <1>4, <1>5, <2>1, <2>2
  <2>4. QED BY <1>1, <1>3, <1>6, <2>3, FingerprintIsReads
<1>8. CASE w.root = "none"
  <2>1. snap.of = {[probe |-> IF w.root = "none" THEN "absent" ELSE "present"]} BY <1>8 DEF Snapshot
  <2>2. now.of = {[probe |-> IF world.root = "none" THEN "absent" ELSE "present"]} BY <1>3, <1>8 DEF Snapshot
  <2>3. world.root = "none"
    <3>1. SUFFICES ASSUME world.root # "none" PROVE FALSE
      OBVIOUS
    <3>2. {[probe |-> "present"]} = {[probe |-> "absent"]} BY <1>5, <1>8, <2>1, <2>2, <3>1
    <3>3. [probe |-> "present"] = [probe |-> "absent"] BY <3>2
    <3>4. [probe |-> "present"].probe = [probe |-> "absent"].probe BY <3>3
    <3>5. QED BY <3>4
  <2>4. Reads(world) = Reads(w) BY <1>8, <2>3 DEF Reads
  <2>5. QED BY <1>3, <1>6, <2>4
<1>9. QED BY <1>7, <1>8

\* Nothing is frozen.
LEMMA EnvStarts == DepInit => EnvInv
<1> SUFFICES ASSUME DepInit PROVE EnvInv
  OBVIOUS
<1>1. world \in Worlds
  <2>1. /\ world.root = "none" /\ world.sys = Plain("none") /\ world.at = [p \in Paths |-> Plain("none")]
        /\ world = [root |-> "none", at |-> [p \in Paths |-> Plain("none")], sys |-> Plain("none")]
    BY DEF DepInit
  <2>2. \A p \in Paths : Plain("none") \in NodesAt(p) BY DEF NodesAt
  <2>3. world.at \in [Paths -> UNION {NodesAt(p) : p \in Paths}] BY <2>1, <2>2
  <2>4. <<"d">> \in Paths /\ <<"d", "x">> \in Paths BY DEF Paths
  <2>5. IsWorld(world) BY <2>1, <2>2, <2>4 DEF IsWorld, Plain
  <2>6. QED BY <2>1, <2>3, <2>5 DEF Worlds, Roots
<1>2. AsFrozen(told) BY DEF DepInit, NotAsked, AsFrozen
<1>3. QED BY <1>1, <1>2 DEF DepInit, EnvInv

\* Every step keeps it, whatever becomes of the world.
LEMMA EnvKeeps == EnvInv /\ [DepNext]_depVars => EnvInv'
<1> SUFFICES ASSUME EnvInv, [DepNext]_depVars PROVE EnvInv'
  OBVIOUS
<1>0. world \in Worlds /\ frozen \in Seq(Descriptor) /\ (\A a \in issued : AsFrozen(a)) /\ AsFrozen(told)
  BY DEF EnvInv
<1>1. ASSUME NEW cmd \in Commands, Discover(cmd) PROVE EnvInv'
  <2>1. frozen' = Append(frozen, Measured(cmd, world)) /\ UNCHANGED <<world, issued, told>>
    BY <1>1 DEF Discover, Measured
  <2>2. Measured(cmd, world) \in Descriptor BY <1>0 DEF Descriptor
  <2>3. frozen' \in Seq(Descriptor) BY <1>0, <2>1, <2>2
  <2>4. \A id \in DOMAIN frozen : id \in DOMAIN frozen' /\ frozen'[id] = frozen[id] BY <1>0, <2>1, <2>2
  <2>5. \A a : AsFrozen(a) => AsFrozen(a)' BY <2>4 DEF AsFrozen
  <2>6. QED BY <1>0, <2>1, <2>3, <2>5 DEF EnvInv
<1>2. ASSUME NEW id \in DOMAIN frozen, Check(id) PROVE EnvInv'
  <2>1. /\ told' = [id |-> id, ok |-> CheckNow(id), saw |-> Reads(world)] /\ UNCHANGED <<world, frozen, issued>>
    BY <1>2 DEF Check
  <2>2. AsFrozen(told)' BY <1>2, <2>1, OkIsAsFrozen DEF AsFrozen
  <2>3. QED BY <1>0, <2>1, <2>2 DEF EnvInv, AsFrozen
<1>3. ASSUME NEW id \in DOMAIN frozen, NEW cwd \in Cwds, Attest(id, cwd) PROVE EnvInv'
  <2> DEFINE a == [id |-> id, cwd |-> cwd, ok |-> CheckNow(id), saw |-> Reads(world)]
  <2>1. issued' = {a} /\ UNCHANGED <<world, frozen, told>> BY <1>3 DEF Attest
  <2>2. AsFrozen(a) BY OkIsAsFrozen DEF AsFrozen
  <2>3. \A b : AsFrozen(b)' <=> AsFrozen(b) BY <2>1 DEF AsFrozen
  <2>4. \A b \in issued' : AsFrozen(b)' BY <2>1, <2>2, <2>3
  <2>5. AsFrozen(told)' BY <1>0, <2>1 DEF AsFrozen
  <2>6. QED BY <1>0, <2>1, <2>4, <2>5 DEF EnvInv
<1>4. ASSUME NEW id \in DOMAIN frozen, NEW a \in issued, NEW cwd \in Cwds, Reuse(a, id, cwd) PROVE EnvInv'
  <2>1. /\ told' = [id |-> id, ok |-> IF Reusable(a, id, cwd) THEN a.ok ELSE CheckNow(id),
                    saw |-> IF Reusable(a, id, cwd) THEN a.saw ELSE Reads(world)]
        /\ UNCHANGED <<world, frozen, issued>>
    BY <1>4 DEF Reuse
  <2>2. AsFrozen(told)'
    <3>1. CASE Reusable(a, id, cwd)
      <4>1. a.id = id /\ AsFrozen(a) BY <1>0, <3>1 DEF Reusable
      <4>2. told'.id = id /\ told'.ok = a.ok /\ told'.saw = a.saw BY <2>1, <3>1
      <4>3. QED BY <2>1, <4>1, <4>2 DEF AsFrozen
    <3>2. CASE ~Reusable(a, id, cwd)
      <4>1. told'.id = id /\ told'.ok = CheckNow(id) /\ told'.saw = Reads(world) BY <2>1, <3>2
      <4>2. QED BY <2>1, <4>1, OkIsAsFrozen DEF AsFrozen
    <3>3. QED BY <3>1, <3>2
  <2>3. QED BY <1>0, <2>1, <2>2 DEF EnvInv, AsFrozen
<1>5. CASE Change
  <2>1. told' = NotAsked /\ UNCHANGED <<frozen, issued>> BY <1>5 DEF Change
  <2>2. world' \in Worlds
    <3>1. CASE world' \in Worlds BY <3>1
    <3>2. CASE world' \in OneThing
      <4> DEFINE W == [root : Roots, at : [Paths -> UNION {NodesAt(p) : p \in Paths}],
                       sys : {Holding(c) : c \in Bytes} \cup {Plain("none")}]
      <4>1. world \in W BY <1>0 DEF Worlds
      <4>2. IsWorld(world') BY <3>2 DEF OneThing
      <4>3. \/ \E p \in Paths, n \in UNION {NodesAt(q) : q \in Paths} : world' = [world EXCEPT !.at[p] = n]
            \/ \E r \in Roots : world' = [world EXCEPT !.root = r]
            \/ \E f \in {Holding(c) : c \in Bytes} \cup {Plain("none")} : world' = [world EXCEPT !.sys = f]
        BY <3>2 DEF OneThing
      <4>4. CASE \E p \in Paths, n \in UNION {NodesAt(q) : q \in Paths} : world' = [world EXCEPT !.at[p] = n]
        <5>1. world' \in W BY <4>1, <4>4
        <5>2. QED BY <4>2, <5>1 DEF Worlds
      <4>5. CASE \E r \in Roots : world' = [world EXCEPT !.root = r] BY <4>1, <4>2, <4>5 DEF Worlds
      <4>6. CASE \E f \in {Holding(c) : c \in Bytes} \cup {Plain("none")} : world' = [world EXCEPT !.sys = f]
        BY <4>1, <4>2, <4>6 DEF Worlds
      <4>7. QED BY <4>3, <4>4, <4>5, <4>6
    <3>3. QED BY <1>5, <3>1, <3>2 DEF Change
  <2>3. AsFrozen(told)' BY <2>1 DEF NotAsked, AsFrozen
  <2>4. \A a \in issued' : AsFrozen(a)' BY <1>0, <2>1 DEF AsFrozen
  <2>5. QED BY <1>0, <2>1, <2>2, <2>3, <2>4 DEF EnvInv
<1>6. CASE UNCHANGED depVars
  BY <1>0, <1>6 DEF depVars, EnvInv, AsFrozen
<1>7. QED BY <1>1, <1>2, <1>3, <1>4, <1>5, <1>6 DEF DepNext

\* An environment is told unchanged only if its command is bounded to it and every
\* name reads as it did when it was frozen: links out of the root, one directory
\* under two names and a root that moved included, and attestations reused.
\* (fingerprintRoot, checkDependencyEnvironment and
\* reuseDependencyEnvironmentAttestation of dependency-env.ts)
THEOREM EnvironmentIsSound == Spec => []EnvironmentSound
<1>1. Init => EnvInv BY EnvStarts DEF Init
<1>2. [Next]_all => [DepNext]_depVars BY DEF Next, all
<1>3. EnvInv /\ [Next]_all => EnvInv' BY <1>2, EnvKeeps
<1>4. EnvInv => EnvironmentSound BY DEF EnvInv, AsFrozen, EnvironmentSound, OkMeansAsFrozen, OkIsBounded
<1>5. QED BY <1>1, <1>3, <1>4, PTL DEF Spec

-----------------------------------------------------------------------------
(* Paths.                                                                   *)

Path == Seq(STRING)

\* A path at or below another begins with it.
LEMMA BelowBegins ==
    ASSUME NEW d \in Path, NEW p \in Path
    PROVE  Below(d, p) <=> Len(p) >= Len(d) /\ \A i \in 1 .. Len(d) : p[i] = d[i]
<1>0. Len(d) \in Nat /\ Len(p) \in Nat BY DEF Path
<1>1. ASSUME p = d PROVE Below(d, p) /\ Len(p) >= Len(d) /\ \A i \in 1 .. Len(d) : p[i] = d[i]
  BY <1>0, <1>1 DEF Below
<1>2. ASSUME Len(p) > Len(d) PROVE SubSeq(p, 1, Len(d)) = d <=> \A i \in 1 .. Len(d) : p[i] = d[i]
  <2>1. SubSeq(p, 1, Len(d)) \in Path /\ Len(SubSeq(p, 1, Len(d))) = Len(d)
        /\ \A i \in 1 .. Len(d) : SubSeq(p, 1, Len(d))[i] = p[i]
    BY <1>0, <1>2 DEF Path
  <2>2. (\A i \in 1 .. Len(d) : p[i] = d[i]) => SubSeq(p, 1, Len(d)) = d
    BY <1>0, <2>1 DEF Path
  <2>3. SubSeq(p, 1, Len(d)) = d => \A i \in 1 .. Len(d) : p[i] = d[i]
    BY <2>1
  <2>4. QED BY <2>2, <2>3
<1>3. ASSUME Len(p) = Len(d), \A i \in 1 .. Len(d) : p[i] = d[i] PROVE p = d
  BY <1>0, <1>3 DEF Path
<1>4. CASE Len(p) > Len(d) BY <1>0, <1>2, <1>4 DEF Below, Under
<1>5. CASE Len(p) = Len(d)
  <2>1. ~(Len(p) > Len(d)) BY <1>0, <1>5
  <2>2. QED BY <1>0, <1>1, <1>3, <1>5, <2>1 DEF Below, Under
<1>6. CASE Len(p) < Len(d)
  <2>1. p # d /\ ~(Len(p) > Len(d)) /\ ~(Len(p) >= Len(d)) BY <1>0, <1>6
  <2>2. QED BY <2>1 DEF Below, Under
<1>7. QED BY <1>0, <1>4, <1>5, <1>6

\* What a path begins with, so does what is appended to it; two of its beginnings
\* begin each other.
LEMMA BelowAppends ==
    ASSUME NEW d \in Path, NEW p \in Path, NEW t \in Path, Below(d, p)
    PROVE  Below(d, p \o t)
<1>1. p \o t \in Path /\ Len(p \o t) = Len(p) + Len(t) /\ \A i \in 1 .. Len(p) : (p \o t)[i] = p[i]
  BY DEF Path
<1>2. Len(d) \in Nat /\ Len(p) \in Nat /\ Len(t) \in Nat BY DEF Path
<1>3. Len(p) >= Len(d) /\ \A i \in 1 .. Len(d) : p[i] = d[i] BY BelowBegins
<1>4. Len(p \o t) >= Len(d) /\ \A i \in 1 .. Len(d) : (p \o t)[i] = d[i] BY <1>1, <1>2, <1>3
<1>5. QED BY <1>1, <1>4, BelowBegins

LEMMA BelowMeets ==
    ASSUME NEW d \in Path, NEW e \in Path, NEW p \in Path, Below(d, p), Below(e, p)
    PROVE  Below(d, e) \/ Below(e, d)
<1>1. /\ Len(p) >= Len(d) /\ \A i \in 1 .. Len(d) : p[i] = d[i]
      /\ Len(p) >= Len(e) /\ \A i \in 1 .. Len(e) : p[i] = e[i]
  BY BelowBegins
<1>2. Len(d) \in Nat /\ Len(e) \in Nat BY DEF Path
<1>3. CASE Len(d) <= Len(e)
  <2>1. \A i \in 1 .. Len(d) : e[i] = d[i] BY <1>1, <1>2, <1>3
  <2>2. QED BY <1>2, <1>3, <2>1, BelowBegins
<1>4. CASE Len(e) <= Len(d)
  <2>1. \A i \in 1 .. Len(e) : d[i] = e[i] BY <1>1, <1>2, <1>4
  <2>2. QED BY <1>2, <1>4, <2>1, BelowBegins
<1>5. QED BY <1>2, <1>3, <1>4

LEMMA PathsJoin ==
    \A p, q \in Path : /\ p \o q \in Path /\ Len(p \o q) = Len(p) + Len(q)
                        /\ \A r \in Path : (p \o q) \o r = p \o (q \o r)
BY DEF Path

\* The rest of a path below another, appended to and not.
Rest(d, p) == SubSeq(p, Len(d) + 1, Len(p))
LEMMA RestIs ==
    ASSUME NEW d \in Path, NEW p \in Path, Len(p) >= Len(d)
    PROVE  /\ Rest(d, p) \in Path /\ Len(Rest(d, p)) = Len(p) - Len(d)
           /\ \A i \in 1 .. (Len(p) - Len(d)) : Rest(d, p)[i] = p[Len(d) + i]
<1> DEFINE m == Len(d) + 1
           n == Len(p)
<1>0. m \in 1 .. (n + 1) /\ n \in Nat /\ Len(d) = m - 1 BY DEF Path
<1>1. \A i \in m .. n : p[i] \in STRING BY <1>0 DEF Path
<1> HIDE DEF m, n
<1>2. SubSeq(p, m, n) \in Path BY <1>0, <1>1 DEF Path
<1>3. Len(SubSeq(p, m, n)) = n - m + 1 BY <1>0
<1>4. \A i \in 1 .. (n - m + 1) : SubSeq(p, m, n)[i] = p[m + i - 1] BY <1>0
<1>5. Rest(d, p) = SubSeq(p, m, n) BY DEF Rest, m, n
<1>6. QED BY <1>0, <1>2, <1>3, <1>4, <1>5 DEF n

LEMMA RestAppends ==
    ASSUME NEW d \in Path, NEW p \in Path, NEW t \in Path, Len(p) >= Len(d)
    PROVE  Rest(d, p) \in Path /\ Rest(d, p \o t) = Rest(d, p) \o t
<1>0. Len(d) \in Nat /\ Len(p) \in Nat /\ Len(t) \in Nat BY DEF Path
<1>1. p \o t \in Path /\ Len(p \o t) = Len(p) + Len(t) BY DEF Path
<1>2. /\ Rest(d, p) \in Path /\ Len(Rest(d, p)) = Len(p) - Len(d)
      /\ \A i \in 1 .. (Len(p) - Len(d)) : Rest(d, p)[i] = p[Len(d) + i]
  BY <1>0, RestIs
<1>3. /\ Rest(d, p \o t) \in Path /\ Len(Rest(d, p \o t)) = Len(p) + Len(t) - Len(d)
      /\ \A i \in 1 .. (Len(p) + Len(t) - Len(d)) : Rest(d, p \o t)[i] = (p \o t)[Len(d) + i]
  <2>1. Len(p \o t) >= Len(d) BY <1>0, <1>1
  <2> DEFINE q == p \o t
  <2>2. q \in Path /\ Len(q) >= Len(d) /\ Len(q) = Len(p) + Len(t) BY <1>1, <2>1
  <2> HIDE DEF q
  <2>3. /\ Rest(d, q) \in Path /\ Len(Rest(d, q)) = Len(q) - Len(d)
        /\ \A i \in 1 .. (Len(q) - Len(d)) : Rest(d, q)[i] = q[Len(d) + i]
    BY <2>2, RestIs
  <2>4. /\ Rest(d, q) \in Path /\ Len(Rest(d, q)) = Len(p) + Len(t) - Len(d)
        /\ \A i \in 1 .. (Len(p) + Len(t) - Len(d)) : Rest(d, q)[i] = q[Len(d) + i]
    BY <2>2, <2>3
  <2>5. QED BY <2>4 DEF q
<1>4. /\ Rest(d, p) \o t \in Path /\ Len(Rest(d, p) \o t) = Len(p) - Len(d) + Len(t)
  <2> DEFINE q == Rest(d, p)
  <2>1. q \in Path /\ Len(q) = Len(p) - Len(d) BY <1>2
  <2> HIDE DEF q
  <2>2. q \o t \in Path /\ Len(q \o t) = Len(q) + Len(t) BY <2>1, PathsJoin
  <2>3. QED BY <2>1, <2>2 DEF q
<1>5. ASSUME NEW i \in 1 .. (Len(p) + Len(t) - Len(d)) PROVE Rest(d, p \o t)[i] = (Rest(d, p) \o t)[i]
  <2>1. Rest(d, p \o t)[i] = (p \o t)[Len(d) + i] BY <1>3, <1>5
  <2>2. CASE i <= Len(p) - Len(d)
    <3>1. i \in 1 .. (Len(p) - Len(d)) /\ Len(d) + i \in 1 .. Len(p) BY <1>0, <1>5, <2>2
    <3>2. (p \o t)[Len(d) + i] = p[Len(d) + i] BY <3>1 DEF Path
    <3>3. (Rest(d, p) \o t)[i] = Rest(d, p)[i] BY <1>2, <3>1 DEF Path
    <3>4. QED BY <1>2, <2>1, <3>1, <3>2, <3>3
  <2>3. CASE i > Len(p) - Len(d)
    <3> DEFINE j == i - (Len(p) - Len(d))
    <3>1. j \in 1 .. Len(t) /\ Len(d) + i = Len(p) + j /\ i = Len(Rest(d, p)) + j BY <1>0, <1>2, <1>5, <2>3
    <3> HIDE DEF j
    <3>2. (p \o t)[Len(p) + j] = t[j] BY <1>0, <3>1 DEF Path
    <3>3. (Rest(d, p) \o t)[Len(Rest(d, p)) + j] = t[j] BY <1>2, <3>1 DEF Path
    <3>4. QED BY <2>1, <3>1, <3>2, <3>3
  <2>4. QED BY <1>0, <1>2, <1>5, <2>2, <2>3
<1>6. Len(Rest(d, p \o t)) = Len(Rest(d, p) \o t) BY <1>0, <1>3, <1>4
<1>7. QED
  <2> DEFINE a == Rest(d, p \o t)
             b == Rest(d, p) \o t
  <2>1. a \in Path /\ b \in Path /\ Len(a) = Len(b) BY <1>3, <1>4, <1>6
  <2>2. \A i \in 1 .. Len(a) : a[i] = b[i] BY <1>3, <1>5
  <2> HIDE DEF a, b
  <2>3. a = b BY <2>1, <2>2 DEF Path
  <2>4. QED BY <1>2, <2>3 DEF a, b

\* The links as paths.
LEMMA LinksArePaths ==
    /\ \A l \in DOMAIN LinkTo : l \in Path /\ LinkTo[l] \in Path /\ LinkTo[l] \in Folders
    /\ {TracedRoot} \cup Folders \cup Files \cup RelativeText \cup AbsoluteText \subseteq Path
BY LinksAssumption, TraceAssumption DEF Path

\* A path is below one link at most, and what a link leads to is below none.
LEMMA OneLink ==
    ASSUME NEW p \in Path, NEW l \in DOMAIN LinkTo, NEW k \in DOMAIN LinkTo, Below(l, p), Below(k, p)
    PROVE  l = k
<1>1. Below(l, k) \/ Below(k, l) BY LinksArePaths, BelowMeets
<1>2. QED BY <1>1, LinksAssumption

LEMMA RealBelow ==
    ASSUME NEW p \in Path, NEW l \in DOMAIN LinkTo, Below(l, p)
    PROVE  Real(p) = LinkTo[l] \o Rest(l, p)
<1>1. \A k \in DOMAIN LinkTo : Below(k, p) => k = l BY OneLink
<1>2. (CHOOSE k \in DOMAIN LinkTo : Below(k, p)) = l BY <1>1
<1>3. QED BY <1>2 DEF Real, Rest

LEMMA NoLinkBelow ==
    ASSUME NEW l \in DOMAIN LinkTo, NEW t \in Path, NEW k \in DOMAIN LinkTo
    PROVE  ~Below(k, LinkTo[l] \o t)
<1> SUFFICES ASSUME Below(k, LinkTo[l] \o t) PROVE FALSE
  OBVIOUS
<1>1. k \in Path /\ LinkTo[l] \in Path /\ LinkTo[l] \in Folders BY LinksArePaths
<1>2. Below(LinkTo[l], LinkTo[l] \o t)
  <2>1. Below(LinkTo[l], LinkTo[l]) BY DEF Below
  <2>2. QED BY <1>1, <2>1, BelowAppends
<1>3. LinkTo[l] \o t \in Path BY <1>1 DEF Path
<1>4. Below(k, LinkTo[l]) \/ Below(LinkTo[l], k) BY <1>1, <1>2, <1>3, BelowMeets
<1>5. QED BY <1>1, <1>4, LinksAssumption

\* A path that no link is on is its own; and what is resolved once is resolved,
\* whatever is appended to it.
LEMMA RealOwn == ASSUME NEW p, \A l \in DOMAIN LinkTo : ~Below(l, p) PROVE Real(p) = p
BY DEF Real

LEMMA RealAppends ==
    ASSUME NEW p \in Path, NEW t \in Path
    PROVE  Real(p) \in Path /\ Real(Real(p) \o t) = Real(p \o t)
<1>1. CASE \A l \in DOMAIN LinkTo : ~Below(l, p) BY <1>1, RealOwn
<1>2. CASE \E l \in DOMAIN LinkTo : Below(l, p)
  <2>1. PICK l \in DOMAIN LinkTo : Below(l, p) BY <1>2
  <2>2. l \in Path /\ LinkTo[l] \in Path BY LinksArePaths
  <2>3. Real(p) = LinkTo[l] \o Rest(l, p) BY <2>1, RealBelow
  <2>4. p \o t \in Path /\ Below(l, p \o t) BY <2>1, <2>2, BelowAppends, PathsJoin
  <2>5. Real(p \o t) = LinkTo[l] \o Rest(l, p \o t) BY <2>4, RealBelow
  <2>6. Len(p) >= Len(l) BY <2>1, <2>2, BelowBegins
  <2>7. Rest(l, p) \in Path /\ Rest(l, p \o t) = Rest(l, p) \o t BY <2>2, <2>6, RestAppends
  <2>8. Rest(l, p) \o t \in Path BY <2>7, PathsJoin
  <2>9. Real(p) \o t = LinkTo[l] \o (Rest(l, p) \o t)
    <3> DEFINE to == LinkTo[l]
               rest == Rest(l, p)
    <3>1. to \in Path /\ rest \in Path BY <2>2, <2>7
    <3>2. Real(p) = to \o rest BY <2>3
    <3> HIDE DEF to, rest
    <3>3. (to \o rest) \o t = to \o (rest \o t) BY <3>1 DEF Path
    <3>4. Real(p) \o t = to \o (rest \o t) BY <3>2, <3>3
    <3>5. QED BY <3>4 DEF to, rest
  <2>10. Real(Real(p) \o t) = Real(p) \o t BY <2>8, <2>9, NoLinkBelow, RealOwn
  <2>11. Real(p) \in Path BY <2>2, <2>3, <2>7, PathsJoin
  <2>12. QED BY <2>5, <2>7, <2>9, <2>10, <2>11
<1>3. QED BY <1>1, <1>2

-----------------------------------------------------------------------------
(* The traced verifier: what the processes are, and what is made of them.   *)

TakenPlace == [cwd : Path, fds : [DirFd -> Path \cup {Unset}]]
Seeing == [path : Path, unresolved : BOOLEAN, access : {"exec", "read"}]
Touching == [run : Nat, call : PathCalls, really : Path, astray : BOOLEAN, shown : SUBSET Seeing]

ProcessesTyped ==
    /\ kernel \in [TracePid -> [live : BOOLEAN, cwd : Path, fds : [DirFd -> Path \cup {Unset}]]]
    /\ states \in [TracePid \cup {0} -> TakenPlace]
    /\ blocked \in [TracePid -> Syscall \cup {Unset}]
    /\ unfinished \in [(TracePid \cup {0}) \X Printed -> Syscall \cup {Unset}]

\* A process whose place is what its lines say is taken to be where it is, by a
\* name the kernel resolved; a descriptor it is taken to hold is closed, or is
\* of that directory.  One that does not live has said nothing.
InStep(p) ==
    /\ kernel[p].cwd = Real(states[p].cwd)
    /\ \A f \in DirFd : states[p].fds[f] # Unset =>
          kernel[p].fds[f] = Unset \/ kernel[p].fds[f] = Real(states[p].fds[f])
Followed ==
    \A p \in TracePid : IF kernel[p].live THEN p \notin moved => InStep(p) ELSE states[p] = Fresh

\* The half that is kept for a process inside a call is of that call.
Halves ==
    \A p \in TracePid : blocked[p] # Unset =>
        /\ kernel[p].live /\ blocked[p].name \in Printed
        /\ blocked[p].name \in Recognised => unfinished[<<p, blocked[p].name>>] = blocked[p]

ProcessInv == ProcessesTyped /\ Followed /\ Halves

LEMMA UnsetIsNoPath == Unset \notin Path BY TraceAssumption DEF Path

LEMMA CallIs ==
    ASSUME NEW c \in Syscall
    PROVE  /\ c.name \in {"exec", "open", "stat", "fstat", "chdir", "fchdir", "close", "dup", "fork"}
           /\ c.at \in DirFd \cup {AtCwd} /\ c.text \in Path
           /\ c.name \in {"chdir", "fork"} => c.at = AtCwd
           /\ c.name \in {"fchdir", "close", "dup"} => c.at \in DirFd
           /\ c.name \in PathCalls \cup {"chdir"} => c.text \in RelativeText \cup AbsoluteText
           /\ c.name = "dup" => c.to \in DirFd
           /\ c.name = "fork" => c.to \in TracePid
<1>1. RelativeText \cup AbsoluteText \subseteq Path /\ <<>> \in Path BY LinksArePaths DEF Path
<1> DEFINE T == RelativeText \cup AbsoluteText
           A == [name : PathCalls, at : DirFd \cup {AtCwd}, text : T, to : {Unset}]
           B == [name : {"chdir"}, at : {AtCwd}, text : T, to : {Unset}]
           C == [name : {"fchdir", "close"}, at : DirFd, text : {<<>>}, to : {Unset}]
           D == [name : {"dup"}, at : DirFd, text : {<<>>}, to : DirFd]
           E == [name : {"fork"}, at : {AtCwd}, text : {<<>>}, to : TracePid]
           Q == /\ c.name \in {"exec", "open", "stat", "fstat", "chdir", "fchdir", "close", "dup", "fork"}
                /\ c.at \in DirFd \cup {AtCwd} /\ c.text \in Path
                /\ c.name \in {"chdir", "fork"} => c.at = AtCwd
                /\ c.name \in {"fchdir", "close", "dup"} => c.at \in DirFd
                /\ c.name \in PathCalls \cup {"chdir"} => c.text \in RelativeText \cup AbsoluteText
                /\ c.name = "dup" => c.to \in DirFd
                /\ c.name = "fork" => c.to \in TracePid
<1>2. c \in A \/ c \in B \/ c \in C \/ c \in D \/ c \in E BY DEF Syscall
<1>3. CASE c \in A
  <2>1. c.name \in PathCalls /\ c.at \in DirFd \cup {AtCwd} /\ c.text \in T BY <1>3
  <2>2. QED BY <1>1, <2>1 DEF PathCalls
<1>4. CASE c \in B
  <2>1. c.name = "chdir" /\ c.at = AtCwd /\ c.text \in T BY <1>4
  <2>2. QED BY <1>1, <2>1 DEF PathCalls
<1>5. CASE c \in C
  <2>1. c.name \in {"fchdir", "close"} /\ c.at \in DirFd /\ c.text = <<>> BY <1>5
  <2>2. QED BY <1>1, <2>1 DEF PathCalls
<1>6. CASE c \in D
  <2>1. c.name = "dup" /\ c.at \in DirFd /\ c.text = <<>> /\ c.to \in DirFd BY <1>6
  <2>2. QED BY <1>1, <2>1 DEF PathCalls
<1>7. CASE c \in E
  <2>1. c.name = "fork" /\ c.at = AtCwd /\ c.text = <<>> /\ c.to \in TracePid BY <1>7
  <2>2. QED BY <1>1, <2>1 DEF PathCalls
<1>8. QED BY <1>2, <1>3, <1>4, <1>5, <1>6, <1>7

\* Where a call that succeeds finds its name, if it is one that takes a name.
LEMMA TargetIsPath ==
    ASSUME NEW p, NEW c, Succeeds(p, c), c.name \in PathCalls \cup {"chdir"}
    PROVE  Target(p, c) \in Path /\ (c.name \in PathCalls => Stands(p, c))
<1>1. Files \cup Folders \subseteq Path BY LinksArePaths
<1>2. CASE c.name = "chdir" BY <1>1, <1>2 DEF Succeeds, PathCalls
<1>3. CASE c.name \in PathCalls
  <2>1. c.name \notin {"chdir", "fchdir", "dup", "close", "fork"} BY <1>3 DEF PathCalls
  <2>2. Stands(p, c) /\ Target(p, c) \in Files \cup Folders BY <2>1 DEF Succeeds
  <2>3. QED BY <1>1, <2>2
<1>4. QED BY <1>2, <1>3

\* A name is resolved to a path, and for a process that is followed to the path
\* the kernel takes it to, or not at all.
LEMMA ResolvesTo ==
    ASSUME NEW st \in TakenPlace, NEW c \in Syscall
    PROVE  /\ ResolveTracePath(c, st) \in Path \cup {Unset}
           /\ c.at = AtCwd => ResolveTracePath(c, st) \in Path
<1>1. CASE c.text \in AbsoluteText BY <1>1, CallIs DEF ResolveTracePath
<1>2. CASE c.text \notin AbsoluteText
  <2> DEFINE dir == IF c.at = AtCwd THEN st.cwd ELSE st.fds[c.at]
  <2>1. c.text \in Path /\ c.at \in DirFd \cup {AtCwd} BY CallIs
  <2>2. dir \in Path \cup {Unset} /\ (c.at = AtCwd => dir \in Path) BY <2>1 DEF TakenPlace
  <2>3. ResolveTracePath(c, st) = IF dir = Unset THEN Unset ELSE dir \o c.text
    BY <1>2 DEF ResolveTracePath
  <2> HIDE DEF dir
  <2>4. dir \in Path => dir \o c.text \in Path BY <2>1, PathsJoin
  <2>5. QED BY <2>2, <2>3, <2>4, UnsetIsNoPath
<1>3. QED BY <1>1, <1>2

LEMMA ResolvesRight ==
    ASSUME ProcessesTyped, NEW p \in TracePid, InStep(p), NEW c \in Syscall,
           Stands(p, c), ResolveTracePath(c, states[p]) # Unset
    PROVE  Real(ResolveTracePath(c, states[p])) = Target(p, c)
<1>1. CASE c.text \in AbsoluteText BY <1>1 DEF ResolveTracePath, Target
<1>2. CASE c.text \notin AbsoluteText
  <2> DEFINE dir == IF c.at = AtCwd THEN states[p].cwd ELSE states[p].fds[c.at]
  <2>1. c.text \in Path /\ c.at \in DirFd \cup {AtCwd} BY CallIs
  <2>2. states[p] \in TakenPlace BY DEF ProcessesTyped
  <2>3. dir \in Path \cup {Unset} BY <2>1, <2>2 DEF TakenPlace
  <2>4. ResolveTracePath(c, states[p]) = IF dir = Unset THEN Unset ELSE dir \o c.text
    BY <1>2 DEF ResolveTracePath
  <2>5. Target(p, c) = Real(Place(p, c) \o c.text) BY <1>2 DEF Target
  <2>6. dir # Unset BY <2>4
  <2>7. Place(p, c) = Real(dir)
    <3>1. CASE c.at = AtCwd BY <3>1 DEF Place, InStep
    <3>2. CASE c.at # AtCwd
      <4>1. c.at \in DirFd BY <2>1, <3>2
      <4>2. kernel[p].fds[c.at] \in Folders BY <3>2 DEF Stands
      <4>3. kernel[p].fds[c.at] # Unset BY <4>2, LinksArePaths, UnsetIsNoPath
      <4>4. kernel[p].fds[c.at] = Real(states[p].fds[c.at]) BY <2>6, <3>2, <4>1, <4>3 DEF InStep
      <4>5. QED BY <3>2, <4>4 DEF Place
    <3>3. QED BY <3>1, <3>2
  <2> HIDE DEF dir
  <2>8. Real(Real(dir) \o c.text) = Real(dir \o c.text) BY <2>1, <2>3, <2>6, RealAppends
  <2>9. QED BY <2>4, <2>5, <2>6, <2>7, <2>8
<1>3. QED BY <1>1, <1>2

\* What a line says, by the name of its call.
LEMMA LineSays ==
    ASSUME NEW p, NEW c \in Syscall, c.name \in Printed
    PROVE  /\ c.name = "chdir" =>
                 Understood(p, c) = [states |-> [states EXCEPT ![p].cwd = ResolveTracePath(c, states[p])], adds |-> {}]
           /\ c.name \in {"exec", "stat", "fstat"} =>
                 Understood(p, c) = [states |-> states,
                                     adds |-> {Access(c, ResolveTracePath(c, states[Owner(p, c.name)]))}]
           /\ c.name = "open" =>
                 LET path == ResolveTracePath(c, states[p])
                 IN  Understood(p, c) = [states |-> IF path # Unset THEN [states EXCEPT ![p].fds[NewFd(p)] = path]
                                                    ELSE states,
                                         adds |-> {Access(c, path)}]
<1>1. CASE c.name = "chdir"
  <2>1. Owner(p, c.name) = p BY <1>1 DEF Owner, Recognised
  <2>2. QED BY <1>1, <2>1 DEF Understood
<1>2. CASE c.name \in {"exec", "stat", "fstat"}
  <2>1. c.name # "chdir" /\ c.name # "fchdir" /\ c.name # "close" /\ c.name # "dup" /\ c.name # "fork" /\ c.name # "open" BY <1>2
  <2>2. Understood(p, c) = [states |-> states,
                             adds |-> {Access(c, ResolveTracePath(c, states[Owner(p, c.name)]))}]
    BY <2>1 DEF Understood
  <2>3. QED BY <2>1, <2>2
<1>3. CASE c.name = "open"
  <2>1. Owner(p, c.name) = p BY <1>3 DEF Owner, Recognised
  <2>2. c.name # "chdir" /\ c.name # "fchdir" /\ c.name # "close" /\ c.name # "dup" /\ c.name # "fork" BY <1>3
  <2>3. QED BY <1>3, <2>1, <2>2 DEF Understood
<1>4. QED BY <1>1, <1>2, <1>3 DEF Printed

\* What the lines so far say of the processes, once a call's line is read.
Said(p, c) == IF c.name \in Printed /\ Succeeds(p, c) THEN Understood(p, c).states ELSE states

LEMMA CallKeepsPlaces ==
    ASSUME ProcessesTyped, Followed, NEW p \in TracePid, kernel[p].live, NEW c \in Syscall,
           Takes(p, c), Strays(p, c), states' = Said(p, c)
    PROVE  /\ kernel' \in [TracePid -> [live : BOOLEAN, cwd : Path, fds : [DirFd -> Path \cup {Unset}]]]
           /\ states' \in [TracePid \cup {0} -> TakenPlace]
           /\ Followed'
           /\ \A q \in TracePid : kernel[q].live => kernel'[q].live
<1> DEFINE KernelType == [TracePid -> [live : BOOLEAN, cwd : Path, fds : [DirFd -> Path \cup {Unset}]]]
           StatesType == [TracePid \cup {0} -> TakenPlace]
           Goal == kernel' \in KernelType /\ states' \in StatesType /\ Followed'
                   /\ \A q \in TracePid : kernel[q].live => kernel'[q].live
           path == ResolveTracePath(c, states[p])
<1>0. /\ kernel \in KernelType /\ states \in StatesType
      /\ kernel[p] \in [live : BOOLEAN, cwd : Path, fds : [DirFd -> Path \cup {Unset}]]
      /\ states[p] \in TakenPlace /\ kernel[p].live = TRUE
  BY DEF ProcessesTyped
<1>a. /\ c.name \in {"exec", "open", "stat", "fstat", "chdir", "fchdir", "close", "dup", "fork"}
      /\ c.at \in DirFd \cup {AtCwd} /\ c.text \in Path
      /\ c.name = "chdir" => c.at = AtCwd
      /\ c.name \in {"fchdir", "close", "dup"} => c.at \in DirFd
      /\ c.name = "dup" => c.to \in DirFd
      /\ c.name = "fork" => c.to \in TracePid
  BY CallIs
<1>b. path \in Path \cup {Unset} /\ (c.at = AtCwd => path \in Path) BY <1>0, ResolvesTo
<1>c. \A q \in TracePid : kernel[q].live => (q \notin moved => InStep(q)) BY DEF Followed
<1>d. \A q \in TracePid : ~kernel[q].live => states[q] = Fresh BY DEF Followed
<1>e. Files \cup Folders \cup {TracedRoot} \subseteq Path BY LinksArePaths
<1>1. ASSUME kernel' = kernel, moved \subseteq moved', states' = states PROVE Goal
  BY <1>0, <1>1, <1>c, <1>d DEF Followed, InStep
<1>2. CASE ~Succeeds(p, c)
  <2>1. kernel' = kernel /\ moved' = moved /\ states' = states BY <1>2 DEF Takes, Strays, Said
  <2>2. QED BY <1>1, <2>1
<1>3. CASE Succeeds(p, c) /\ c.name = "chdir"
  <2>1. kernel' = [kernel EXCEPT ![p].cwd = Target(p, c)] BY <1>3 DEF Takes
  <2>2. moved' = moved
    <3>1. ~Stale(p, c) BY <1>3 DEF Stale
    <3>2. QED BY <1>3, <3>1 DEF Strays
  <2>3. states' = [states EXCEPT ![p].cwd = path] BY <1>3, LineSays DEF Said, Printed
  <2>4. Target(p, c) \in Path BY <1>3, <1>e DEF Succeeds
  <2>5. c.at = AtCwd /\ path \in Path BY <1>3, <1>a, <1>b
  <2>6. p \notin moved => Real(path) = Target(p, c)
    <3>1. Stands(p, c) BY <2>5 DEF Stands
    <3>2. path # Unset BY <2>5, UnsetIsNoPath
    <3>3. QED BY <1>0, <1>c, <3>1, <3>2, ResolvesRight
  <2> HIDE DEF path
  <2>7. kernel' \in KernelType BY <1>0, <2>1, <2>4
  <2>8. states' \in StatesType BY <1>0, <2>3, <2>5 DEF TakenPlace
  <2>9. ASSUME NEW q \in TracePid
        PROVE  /\ kernel[q].live => kernel'[q].live
               /\ IF kernel'[q].live THEN q \notin moved' => InStep(q)' ELSE states'[q] = Fresh
    <3>1. CASE q = p
      <4>1. /\ kernel'[q].live = kernel[q].live /\ kernel'[q].cwd = Target(p, c) /\ kernel'[q].fds = kernel[q].fds
            /\ states'[q].cwd = path /\ states'[q].fds = states[q].fds
        BY <1>0, <2>1, <2>3, <3>1 DEF TakenPlace
      <4>2. q \notin moved => kernel'[q].cwd = Real(states'[q].cwd) BY <2>6, <3>1, <4>1
      <4>3. QED BY <1>0, <1>c, <2>2, <3>1, <4>1, <4>2 DEF InStep
    <3>2. CASE q # p
      <4>1. kernel'[q] = kernel[q] /\ states'[q] = states[q] BY <1>0, <2>1, <2>3, <3>2
      <4>2. QED BY <1>c, <1>d, <2>2, <4>1 DEF InStep
    <3>3. QED BY <3>1, <3>2
  <2>10. QED BY <2>7, <2>8, <2>9 DEF Followed
<1>4. CASE Succeeds(p, c) /\ c.name \in {"fchdir", "dup"}
  <2>1. moved' = moved \cup {p}
    <3>1. c.name # "fork" BY <1>4
    <3>2. QED BY <1>4, <3>1 DEF Strays
  <2>2. states' = states BY <1>4 DEF Said, Printed
  <2>3. /\ kernel' \in KernelType /\ kernel'[p].live = kernel[p].live
        /\ \A q \in TracePid \ {p} : kernel'[q] = kernel[q]
    <3>1. CASE c.name = "fchdir"
      <4>1. kernel' = [kernel EXCEPT ![p].cwd = kernel[p].fds[c.at]] BY <1>4, <3>1 DEF Takes
      <4>2. kernel[p].fds[c.at] \in Path BY <1>4, <3>1, <1>e DEF Succeeds
      <4>3. QED BY <1>0, <4>1, <4>2
    <3>2. CASE c.name = "dup"
      <4>1. kernel' = [kernel EXCEPT ![p].fds[c.to] = kernel[p].fds[c.at]] BY <1>4, <3>2 DEF Takes
      <4>2. c.at \in DirFd /\ c.to \in DirFd BY <1>a, <3>2
      <4>3. QED BY <1>0, <4>1, <4>2
    <3>3. QED BY <1>4, <3>1, <3>2
  <2>4. ASSUME NEW q \in TracePid
        PROVE  /\ kernel[q].live => kernel'[q].live
               /\ IF kernel'[q].live THEN q \notin moved' => InStep(q)' ELSE states'[q] = Fresh
    <3>1. CASE q = p BY <1>0, <2>1, <2>3, <3>1
    <3>2. CASE q # p BY <1>c, <1>d, <2>1, <2>2, <2>3, <3>2 DEF InStep
    <3>3. QED BY <3>1, <3>2
  <2>5. QED BY <1>0, <2>2, <2>3, <2>4 DEF Followed
<1>5. CASE Succeeds(p, c) /\ c.name = "close"
  <2>1. kernel' = [kernel EXCEPT ![p].fds[c.at] = Unset] BY <1>5 DEF Takes
  <2>2. states' = states BY <1>5 DEF Said, Printed
  <2>3. moved' = moved
    <3>1. ~Stale(p, c) BY <1>5 DEF Stale
    <3>2. QED BY <1>5, <3>1 DEF Strays
  <2>4. c.at \in DirFd BY <1>5, <1>a
  <2>5. /\ kernel' \in KernelType /\ kernel'[p].live = kernel[p].live /\ kernel'[p].cwd = kernel[p].cwd
        /\ \A f \in DirFd : kernel'[p].fds[f] = IF f = c.at THEN Unset ELSE kernel[p].fds[f]
        /\ \A q \in TracePid \ {p} : kernel'[q] = kernel[q]
    BY <1>0, <2>1, <2>4
  <2>6. ASSUME NEW q \in TracePid
        PROVE  /\ kernel[q].live => kernel'[q].live
               /\ IF kernel'[q].live THEN q \notin moved' => InStep(q)' ELSE states'[q] = Fresh
    <3>1. CASE q = p
      <4>1. ASSUME p \notin moved' PROVE InStep(p)'
        <5>1. InStep(p) BY <1>0, <1>c, <2>3, <4>1
        <5>2. kernel'[p].cwd = Real(states'[p].cwd) BY <2>2, <2>5, <5>1 DEF InStep
        <5>3. ASSUME NEW f \in DirFd, states'[p].fds[f] # Unset
              PROVE  kernel'[p].fds[f] = Unset \/ kernel'[p].fds[f] = Real(states'[p].fds[f])
          <6>1. CASE f = c.at BY <2>5, <6>1
          <6>2. CASE f # c.at
            <7>1. kernel'[p].fds[f] = kernel[p].fds[f] BY <2>5, <6>2
            <7>2. states[p].fds[f] # Unset BY <2>2, <5>3
            <7>3. kernel[p].fds[f] = Unset \/ kernel[p].fds[f] = Real(states[p].fds[f]) BY <5>1, <7>2 DEF InStep
            <7>4. QED BY <2>2, <7>1, <7>3
          <6>3. QED BY <6>1, <6>2
        <5>4. QED BY <5>2, <5>3 DEF InStep
      <4>2. QED BY <1>0, <2>5, <3>1, <4>1
    <3>2. CASE q # p BY <1>c, <1>d, <2>2, <2>3, <2>5, <3>2 DEF InStep
    <3>3. QED BY <3>1, <3>2
  <2>7. QED BY <1>0, <2>2, <2>5, <2>6 DEF Followed
<1>6. CASE Succeeds(p, c) /\ c.name = "open"
  <2> DEFINE new == NewFd(p)
             really == Target(p, c)
  <2>1. kernel' = [kernel EXCEPT ![p].fds[new] = really] BY <1>6 DEF Takes
  <2>2. states' = IF path # Unset THEN [states EXCEPT ![p].fds[new] = path] ELSE states
    BY <1>6, LineSays DEF Said, Printed
  <2>3. really \in Path /\ Stands(p, c) BY <1>6, TargetIsPath DEF PathCalls
  <2>4. p \notin moved /\ path # Unset => Real(path) = really BY <1>0, <1>c, <2>3, ResolvesRight
  <2>5. moved' = IF path = Unset /\ states[p].fds[new] # Unset THEN moved \cup {p} ELSE moved
    <3>1. Stale(p, c) <=> path = Unset /\ states[p].fds[new] # Unset BY <1>6 DEF Stale
    <3>2. moved' = IF Stale(p, c) THEN moved \cup {p} ELSE moved BY <1>6 DEF Strays
    <3>3. QED BY <3>1, <3>2
  <2> HIDE DEF new, really, path
  <2>6. /\ kernel' \in KernelType /\ kernel'[p].live = kernel[p].live /\ kernel'[p].cwd = kernel[p].cwd
        /\ \A f \in DirFd : kernel'[p].fds[f] = IF f = new THEN really ELSE kernel[p].fds[f]
        /\ \A q \in TracePid \ {p} : kernel'[q] = kernel[q]
    BY <1>0, <2>1, <2>3
  <2>7. /\ states' \in StatesType /\ states'[p].cwd = states[p].cwd
        /\ \A f \in DirFd : states'[p].fds[f] = IF f = new /\ path # Unset THEN path ELSE states[p].fds[f]
        /\ \A q \in TracePid \ {p} : states'[q] = states[q]
    <3>1. CASE path = Unset BY <1>0, <2>2, <3>1
    <3>2. CASE path # Unset
      <4>1. path \in Path BY <1>b, <3>2
      <4>2. states' = [states EXCEPT ![p].fds[new] = path] BY <2>2, <3>2
      <4>3. states' \in StatesType
        <5>1. [states[p].fds EXCEPT ![new] = path] \in [DirFd -> Path \cup {Unset}] BY <1>0, <4>1 DEF TakenPlace
        <5>2. [states[p] EXCEPT !.fds[new] = path] \in TakenPlace BY <1>0, <5>1 DEF TakenPlace
        <5>3. states' = [states EXCEPT ![p] = [states[p] EXCEPT !.fds[new] = path]] BY <1>0, <4>2
        <5>4. QED BY <1>0, <5>2, <5>3
      <4>4. /\ states'[p] = [states[p] EXCEPT !.fds[new] = path]
            /\ \A q \in TracePid \ {p} : states'[q] = states[q]
        BY <1>0, <4>2
      <4>5. /\ states'[p].cwd = states[p].cwd
            /\ \A f \in DirFd : states'[p].fds[f] = IF f = new THEN path ELSE states[p].fds[f]
        BY <1>0, <4>4 DEF TakenPlace
      <4>6. QED BY <3>2, <4>3, <4>4, <4>5
    <3>3. QED BY <3>1, <3>2
  <2>8. ASSUME NEW q \in TracePid
        PROVE  /\ kernel[q].live => kernel'[q].live
               /\ IF kernel'[q].live THEN q \notin moved' => InStep(q)' ELSE states'[q] = Fresh
    <3>1. CASE q = p
      <4>1. ASSUME p \notin moved' PROVE InStep(p)'
        <5>1. p \notin moved /\ ~(path = Unset /\ states[p].fds[new] # Unset) BY <2>5, <4>1
        <5>2. InStep(p) BY <1>0, <1>c, <5>1
        <5>3. kernel'[p].cwd = Real(states'[p].cwd) BY <2>6, <2>7, <5>2 DEF InStep
        <5>4. ASSUME NEW f \in DirFd, states'[p].fds[f] # Unset
              PROVE  kernel'[p].fds[f] = Unset \/ kernel'[p].fds[f] = Real(states'[p].fds[f])
          <6>1. CASE f = new
            <7>1. path # Unset BY <2>7, <5>1, <5>4, <6>1
            <7>2. QED BY <2>4, <2>6, <2>7, <5>1, <6>1, <7>1
          <6>2. CASE f # new
            <7>1. states'[p].fds[f] = states[p].fds[f] /\ kernel'[p].fds[f] = kernel[p].fds[f] BY <2>6, <2>7, <6>2
            <7>2. QED BY <5>2, <5>4, <7>1 DEF InStep
          <6>3. QED BY <6>1, <6>2
        <5>5. QED BY <5>3, <5>4 DEF InStep
      <4>2. QED BY <1>0, <2>6, <3>1, <4>1
    <3>2. CASE q # p
      <4>1. kernel'[q] = kernel[q] /\ states'[q] = states[q] BY <2>6, <2>7, <3>2
      <4>2. q \notin moved' => q \notin moved BY <2>5, <3>2
      <4>3. QED BY <1>c, <1>d, <4>1, <4>2 DEF InStep
    <3>3. QED BY <3>1, <3>2
  <2>9. QED BY <2>6, <2>7, <2>8 DEF Followed
<1>7. CASE Succeeds(p, c) /\ c.name = "fork"
  <2>1. kernel' = [kernel EXCEPT ![c.to] = kernel[p]] BY <1>7 DEF Takes
  <2>2. states' = states BY <1>7 DEF Said, Printed
  <2>3. c.to \in TracePid /\ ~kernel[c.to].live /\ c.to # p BY <1>0, <1>7, <1>a DEF Succeeds
  <2>4. moved' = IF p \in moved \/ kernel[p].cwd # TracedRoot THEN moved \cup {c.to} ELSE moved
    <3>1. ~Stale(p, c) /\ c.name \notin {"fchdir", "dup"} BY <1>7 DEF Stale
    <3>2. QED BY <1>7, <3>1 DEF Strays
  <2>5. kernel' \in KernelType /\ kernel'[c.to] = kernel[p] /\ \A q \in TracePid \ {c.to} : kernel'[q] = kernel[q]
    BY <1>0, <2>1, <2>3
  <2>6. states[c.to] = Fresh BY <1>d, <2>3
  <2>7. ASSUME NEW q \in TracePid
        PROVE  /\ kernel[q].live => kernel'[q].live
               /\ IF kernel'[q].live THEN q \notin moved' => InStep(q)' ELSE states'[q] = Fresh
    <3>1. CASE q = c.to
      <4>1. kernel'[q].live /\ ~kernel[q].live BY <1>0, <2>3, <2>5, <3>1
      <4>2. ASSUME q \notin moved' PROVE InStep(q)'
        <5>1. kernel[p].cwd = TracedRoot BY <2>4, <3>1, <4>2
        <5>2. states'[q].cwd = TracedRoot /\ \A f \in DirFd : states'[q].fds[f] = Unset
          BY <2>2, <2>6, <3>1 DEF Fresh, NoFds
        <5>3. Real(TracedRoot) = TracedRoot BY RealOwn, LinksAssumption
        <5>4. kernel'[q].cwd = TracedRoot BY <2>5, <3>1, <5>1
        <5>5. kernel'[q].cwd = Real(states'[q].cwd) BY <5>2, <5>3, <5>4
        <5>6. QED BY <5>2, <5>5 DEF InStep
      <4>3. QED BY <4>1, <4>2
    <3>2. CASE q # c.to
      <4>1. kernel'[q] = kernel[q] /\ states'[q] = states[q] BY <2>2, <2>5, <3>2
      <4>2. q \notin moved' => q \notin moved BY <2>4
      <4>3. QED BY <1>c, <1>d, <4>1, <4>2 DEF InStep
    <3>3. QED BY <3>1, <3>2
  <2>8. QED BY <1>0, <2>2, <2>5, <2>7 DEF Followed
<1>8. CASE Succeeds(p, c) /\ c.name \in {"exec", "stat", "fstat"}
  <2>1. c.name # "chdir" /\ c.name # "fchdir" /\ c.name # "close" /\ c.name # "dup" /\ c.name # "open" /\ c.name # "fork"
    BY <1>8
  <2>2. kernel' = kernel BY <1>8, <2>1 DEF Takes
  <2>3. moved' = moved
    <3>1. ~Stale(p, c) BY <2>1 DEF Stale
    <3>2. QED BY <1>8, <2>1, <3>1 DEF Strays
  <2>4. states' = states
    <3>1. c.name \in Printed BY <1>8 DEF Printed
    <3>2. QED BY <1>8, <3>1, LineSays DEF Said
  <2>5. QED BY <1>1, <2>2, <2>3, <2>4
<1>9. QED BY <1>2, <1>3, <1>4, <1>5, <1>6, <1>7, <1>8, <1>a

\* What a call touched, once its line is read: shown as it should be; and the
\* record grows by what the run's findings grow by.
ShownRight(t) ==
    /\ t \in Touching /\ IsFiniteSet(t.shown)
    /\ Readable(t) => \E a \in Seeing : t.shown = {a} /\ (a.unresolved \/ Real(a.path) = t.really)
Grows ==
    \/ UNCHANGED <<touched, found>>
    \/ \E t : /\ ShownRight(t) /\ t.run = Len(observed) + 1
              /\ touched' = touched \cup {t} /\ found' = found \cup t.shown

LEMMA AccessIs ==
    ASSUME NEW c \in Syscall, NEW path \in Path \cup {Unset}
    PROVE  /\ Access(c, path) \in Seeing
           /\ Access(c, path).unresolved \/ (path # Unset /\ Access(c, path).path = path)
<1>1. c.text \in Path BY CallIs
<1>2. QED BY <1>1, UnsetIsNoPath DEF Access, Seeing

LEMMA LineGrows ==
    ASSUME ProcessesTyped, Followed, NEW p \in TracePid, kernel[p].live, NEW c \in Syscall,
           Len(observed) \in Nat, ReadsLine(p, c)
    PROVE  Grows
<1> DEFINE line == IF c.name \in Printed /\ Succeeds(p, c) THEN Understood(p, c) ELSE Ignored
           t == [run |-> Len(observed) + 1, call |-> c.name, really |-> Target(p, c),
                 astray |-> p \in moved, shown |-> line.adds]
<1>1. /\ found' = found \cup line.adds
      /\ touched' = IF c.name \in PathCalls /\ Succeeds(p, c) THEN touched \cup {t} ELSE touched
  BY DEF ReadsLine
<1>2. CASE c.name \in PathCalls /\ Succeeds(p, c)
  <2> DEFINE path == ResolveTracePath(c, states[Owner(p, c.name)])
             a == Access(c, path)
  <2>1. c.name \in Printed BY <1>2 DEF PathCalls, Printed
  <2>2. Owner(p, c.name) \in TracePid \cup {0} /\ (c.name # "fstat" => Owner(p, c.name) = p)
    BY <1>2 DEF Owner, Recognised, PathCalls
  <2>3. states[Owner(p, c.name)] \in TakenPlace BY <2>2 DEF ProcessesTyped
  <2>4. path \in Path \cup {Unset} BY <2>3, ResolvesTo
  <2>5. a \in Seeing /\ (a.unresolved \/ (path # Unset /\ a.path = path)) BY <2>4, AccessIs
  <2>6. line.adds = {a}
    <3>1. line = Understood(p, c) BY <1>2, <2>1
    <3>2. Understood(p, c).adds = {a}
      <4>1. CASE c.name = "open"
        <5>1. path = ResolveTracePath(c, states[p]) BY <2>2, <4>1
        <5> HIDE DEF path
        <5>2. QED BY <2>1, <4>1, <5>1, LineSays
      <4>2. CASE c.name \in {"exec", "stat", "fstat"} BY <2>1, <4>2, LineSays
      <4>3. QED BY <1>2, <4>1, <4>2 DEF PathCalls
    <3>3. QED BY <3>1, <3>2
  <2>7. Target(p, c) \in Path /\ Stands(p, c) BY <1>2, TargetIsPath
  <2>8. c.name # "fstat" /\ p \notin moved => a.unresolved \/ Real(a.path) = Target(p, c)
    <3>1. SUFFICES ASSUME c.name # "fstat", p \notin moved, ~a.unresolved PROVE Real(a.path) = Target(p, c)
      OBVIOUS
    <3>2. path = ResolveTracePath(c, states[p]) /\ path # Unset /\ a.path = path BY <2>2, <2>5, <3>1
    <3>3. InStep(p) BY <3>1 DEF Followed
    <3>4. QED BY <2>7, <3>2, <3>3, ResolvesRight
  <2> HIDE DEF a, path, line
  <2>9. t \in Touching /\ t.run = Len(observed) + 1 /\ t.shown = {a}
    BY <1>2, <2>5, <2>6, <2>7 DEF Touching
  <2>10. IsFiniteSet(t.shown) BY <2>9, FS_Singleton
  <2>11. Readable(t) => a.unresolved \/ Real(a.path) = t.really BY <2>8 DEF Readable
  <2>12. ShownRight(t) BY <2>5, <2>9, <2>10, <2>11 DEF ShownRight
  <2>13. touched' = touched \cup {t} /\ found' = found \cup t.shown BY <1>1, <1>2
  <2> HIDE DEF t
  <2>14. QED BY <2>9, <2>12, <2>13 DEF Grows
<1>3. CASE ~(c.name \in PathCalls /\ Succeeds(p, c))
  <2>1. line.adds = {}
    <3>1. CASE c.name \in Printed /\ Succeeds(p, c)
      <4>1. c.name = "chdir" BY <1>3, <3>1 DEF Printed, PathCalls
      <4>2. Understood(p, c).adds = {} BY <3>1, <4>1, LineSays
      <4>3. QED BY <3>1, <4>2
    <3>2. CASE ~(c.name \in Printed /\ Succeeds(p, c)) BY <3>2 DEF Ignored
    <3>3. QED BY <3>1, <3>2
  <2>2. QED BY <1>1, <1>3, <2>1 DEF Grows
<1>4. QED BY <1>2, <1>3

-----------------------------------------------------------------------------
(* The runs.                                                                *)

Of(i) == UNION {t.shown : t \in {u \in touched : u.run = i}}
RunsInv ==
    /\ stageAt \in {"start", "traced", "told"}
    /\ observed \in Seq(SUBSET Seeing)
    /\ \A t \in touched : ShownRight(t)
    /\ \A i \in 1 .. Len(observed) :
          observed[i] = {Rewritten(a) : a \in Of(i)} /\ IsFiniteSet(observed[i])
    /\ stageAt = "start" => touched = {} /\ observed = <<>>
    /\ stageAt = "traced" =>
          /\ IsFiniteSet(found) /\ found = Of(Len(observed) + 1)
          /\ \A t \in touched : t.run \in 1 .. (Len(observed) + 1)
    /\ stageAt # "told" => report = NoReport(2) /\ Len(observed) < RunsWanted
    /\ stageAt = "told" =>
          \/ report = NoReport(2) /\ Len(observed) < RunsWanted
          \/ /\ Len(observed) = RunsWanted /\ \A t \in touched : t.run \in 1 .. RunsWanted
             /\ report = Summary(IF Complete(runExits, Summary(0, observed)) THEN 0 ELSE 1, observed)

TraceInv == ProcessInv /\ RunsInv

\* A call of a run under way.
LEMMA GrowsKeeps ==
    ASSUME RunsInv, stageAt = "traced", Grows, UNCHANGED <<observed, runExits, stageAt, report>>
    PROVE  RunsInv'
<1>1. CASE UNCHANGED <<touched, found>>
  BY <1>1 DEF RunsInv, Of
<1>2. CASE ~UNCHANGED <<touched, found>>
  <2>1. PICK t : /\ ShownRight(t) /\ t.run = Len(observed) + 1
                 /\ touched' = touched \cup {t} /\ found' = found \cup t.shown
    BY <1>2 DEF Grows
  <2>2. Len(observed) \in Nat BY DEF RunsInv
  <2>3. \A i \in 1 .. Len(observed) : Of(i)' = Of(i) BY <2>1, <2>2 DEF Of
  <2>4. Of(Len(observed) + 1)' = Of(Len(observed) + 1) \cup t.shown
    <3>1. {u \in touched' : u.run = Len(observed) + 1} = {u \in touched : u.run = Len(observed) + 1} \cup {t}
      BY <2>1
    <3>2. QED BY <3>1 DEF Of
  <2>5. IsFiniteSet(found') /\ found' = Of(Len(observed) + 1)'
    <3>1. IsFiniteSet(found) /\ IsFiniteSet(t.shown) /\ found = Of(Len(observed) + 1)
      BY <2>1 DEF RunsInv, ShownRight
    <3>2. IsFiniteSet(found \cup t.shown) BY <3>1, FS_Union
    <3>3. QED BY <2>1, <2>4, <3>1, <3>2
  <2>6. \A u \in touched' : ShownRight(u) /\ u.run \in 1 .. (Len(observed) + 1)
    BY <2>1, <2>2 DEF RunsInv
  <2>7. \A i \in 1 .. Len(observed) :
           observed[i] = {Rewritten(a) : a \in Of(i)'} /\ IsFiniteSet(observed[i])
    BY <2>3 DEF RunsInv
  <2>8. observed \in Seq(SUBSET Seeing) /\ report = NoReport(2) /\ Len(observed) < RunsWanted BY DEF RunsInv
  <2>9. QED BY <2>5, <2>6, <2>7, <2>8 DEF RunsInv, Rewritten, ShownRight
<1>3. QED BY <1>1, <1>2

LEMMA TraceStarted == TraceInit => TraceInv
<1> SUFFICES ASSUME TraceInit PROVE TraceInv
  OBVIOUS
<1>1. TracedRoot \in Path /\ NoFds \in [DirFd -> Path \cup {Unset}] BY LinksArePaths DEF NoFds
<1>2. ProcessesTyped BY <1>1 DEF TraceInit, ProcessesTyped, Unborn, Born, Fresh, TakenPlace
<1>3. Followed BY <1>1 DEF TraceInit, Followed, Unborn, Born
<1>4. Halves BY DEF TraceInit, Halves
<1>5. RunsInv
  <2>1. observed = <<>> /\ Len(observed) = 0 /\ touched = {} /\ stageAt = "start" /\ report = NoReport(2)
    BY DEF TraceInit
  <2>2. RunsWanted \in Nat /\ 0 < RunsWanted BY TraceAssumption
  <2>3. observed \in Seq(SUBSET Seeing) BY <2>1
  <2>4. \A i \in 1 .. Len(observed) : FALSE BY <2>1
  <2>5. QED BY <2>1, <2>2, <2>3, <2>4 DEF RunsInv
<1>6. QED BY <1>2, <1>3, <1>4, <1>5 DEF TraceInv, ProcessInv

\* New processes, of a new run.
LEMMA NewlyKeeps == ASSUME Newly PROVE ProcessInv'
<1>1. TracedRoot \in Path /\ NoFds \in [DirFd -> Path \cup {Unset}] BY LinksArePaths DEF NoFds
<1>2. ProcessesTyped' BY <1>1 DEF Newly, ProcessesTyped, Unborn, Born, Fresh, TakenPlace
<1>3. Followed'
  <2>1. SUFFICES ASSUME NEW p \in TracePid
                 PROVE  IF kernel'[p].live THEN p \notin moved' => InStep(p)' ELSE states'[p] = Fresh
    BY DEF Followed
  <2>2. states'[p] = Fresh BY DEF Newly
  <2>3. CASE p = FirstPid
    <3>1. kernel'[p] = Born BY <2>3 DEF Newly
    <3>2. kernel'[p].cwd = TracedRoot /\ states'[p].cwd = TracedRoot BY <2>2, <3>1 DEF Born, Fresh
    <3>3. Real(TracedRoot) = TracedRoot BY RealOwn, LinksAssumption
    <3>4. \A f \in DirFd : states'[p].fds[f] = Unset BY <2>2 DEF Fresh, NoFds
    <3>5. kernel'[p].cwd = Real(states'[p].cwd) BY <3>2, <3>3
    <3>6. InStep(p)' BY <3>4, <3>5 DEF InStep
    <3>7. QED BY <2>2, <3>6
  <2>4. CASE p # FirstPid
    <3>1. kernel'[p] = Unborn BY <2>4 DEF Newly
    <3>2. ~kernel'[p].live BY <3>1 DEF Unborn, Born
    <3>3. QED BY <2>2, <3>2
  <2>5. QED BY <2>3, <2>4
<1>4. Halves' BY DEF Newly, Halves
<1>5. QED BY <1>2, <1>3, <1>4 DEF ProcessInv

LEMMA WholeKeeps ==
    ASSUME TraceInv, NEW p \in TracePid, CallWhole(p)
    PROVE  TraceInv'
<1>1. PICK c \in Syscall :
        /\ May(p) /\ blocked[p] = Unset /\ Takes(p, c) /\ Strays(p, c) /\ ReadsLine(p, c)
        /\ UNCHANGED <<blocked, unfinished, observed, runExits, stageAt, report>>
  BY DEF CallWhole
<1>2. ProcessesTyped /\ Followed /\ Halves /\ RunsInv BY DEF TraceInv, ProcessInv
<1>3. kernel[p].live /\ stageAt = "traced" BY <1>1 DEF May
<1>4. states' = Said(p, c) BY <1>1 DEF ReadsLine, Said, Ignored
<1>5. /\ kernel' \in [TracePid -> [live : BOOLEAN, cwd : Path, fds : [DirFd -> Path \cup {Unset}]]]
      /\ states' \in [TracePid \cup {0} -> TakenPlace]
      /\ Followed'
      /\ \A q \in TracePid : kernel[q].live => kernel'[q].live
  BY <1>1, <1>2, <1>3, <1>4, CallKeepsPlaces
<1>6. ProcessesTyped' BY <1>1, <1>2, <1>5 DEF ProcessesTyped
<1>7. Halves' BY <1>1, <1>2, <1>5 DEF Halves
<1>8. RunsInv'
  <2>1. Len(observed) \in Nat BY <1>2 DEF RunsInv
  <2>2. Grows BY <1>1, <1>2, <1>3, <2>1, LineGrows
  <2>3. QED BY <1>1, <1>2, <1>3, <2>2, GrowsKeeps
<1>9. QED BY <1>5, <1>6, <1>7, <1>8 DEF TraceInv, ProcessInv

LEMMA UnfinishedKeeps ==
    ASSUME TraceInv, NEW p \in TracePid, CallUnfinished(p)
    PROVE  TraceInv'
<1>1. PICK c \in Syscall :
        /\ May(p) /\ blocked[p] = Unset /\ c.name \in Printed
        /\ blocked' = [blocked EXCEPT ![p] = c]
        /\ unfinished' = [unfinished EXCEPT ![<<Owner(p, c.name), c.name>>] = c]
        /\ UNCHANGED <<kernel, moved, states, found, touched, observed, runExits, stageAt, report>>
  BY DEF CallUnfinished
<1>2. ProcessesTyped /\ Followed /\ Halves /\ RunsInv BY DEF TraceInv, ProcessInv
<1>3. kernel[p].live /\ stageAt = "traced" BY <1>1 DEF May
<1>4. Owner(p, c.name) \in TracePid \cup {0} /\ (c.name \in Recognised => Owner(p, c.name) = p) BY DEF Owner
<1>5. ProcessesTyped'
  <2>1. blocked' \in [TracePid -> Syscall \cup {Unset}] BY <1>1, <1>2 DEF ProcessesTyped
  <2>2. unfinished' \in [(TracePid \cup {0}) \X Printed -> Syscall \cup {Unset}]
    BY <1>1, <1>2 DEF ProcessesTyped
  <2>3. QED BY <1>1, <1>2, <2>1, <2>2 DEF ProcessesTyped
<1>6. Followed' BY <1>1, <1>2 DEF Followed, InStep
<1>7. Halves'
  <2>1. SUFFICES ASSUME NEW q \in TracePid, blocked'[q] # Unset
                 PROVE  /\ kernel'[q].live /\ blocked'[q].name \in Printed
                        /\ blocked'[q].name \in Recognised => unfinished'[<<q, blocked'[q].name>>] = blocked'[q]
    BY DEF Halves
  <2> DEFINE key == <<Owner(p, c.name), c.name>>
  <2>2. key \in (TracePid \cup {0}) \X Printed BY <1>1, <1>4
  <2>3. CASE q = p
    <3>1. blocked'[q] = c BY <1>1, <1>2, <2>3 DEF ProcessesTyped
    <3>2. c.name \in Recognised => key = <<q, c.name>> BY <1>4, <2>3
    <3>3. unfinished'[key] = c BY <1>1, <1>2, <2>2 DEF ProcessesTyped
    <3>4. QED BY <1>1, <1>3, <2>3, <3>1, <3>2, <3>3
  <2>4. CASE q # p
    <3>1. blocked'[q] = blocked[q] BY <1>1, <1>2, <2>4 DEF ProcessesTyped
    <3>2. /\ kernel[q].live /\ blocked[q].name \in Printed
          /\ blocked[q].name \in Recognised => unfinished[<<q, blocked[q].name>>] = blocked[q]
      BY <1>2, <2>1, <3>1 DEF Halves
    <3>3. Owner(p, c.name) # q
      <4>1. q # 0 BY TraceAssumption
      <4>2. QED BY <2>4, <4>1 DEF Owner
    <3>4. \A n \in Printed : unfinished'[<<q, n>>] = unfinished[<<q, n>>]
      <4>1. \A n \in Printed : <<q, n>> # key /\ <<q, n>> \in (TracePid \cup {0}) \X Printed BY <3>3
      <4> HIDE DEF key
      <4>2. unfinished' = [unfinished EXCEPT ![key] = c] BY <1>1 DEF key
      <4>3. QED BY <1>2, <4>1, <4>2 DEF ProcessesTyped
    <3>5. QED BY <1>1, <3>1, <3>2, <3>4
  <2>5. QED BY <2>3, <2>4
<1>8. RunsInv' BY <1>1, <1>2, <1>3, GrowsKeeps DEF Grows
<1>9. QED BY <1>5, <1>6, <1>7, <1>8 DEF TraceInv, ProcessInv

LEMMA ResumedKeeps ==
    ASSUME TraceInv, NEW p \in TracePid, CallResumed(p)
    PROVE  TraceInv'
<1> DEFINE c == blocked[p]
           key == <<Owner(p, c.name), c.name>>
<1>1. /\ stageAt = "traced" /\ c # Unset /\ Takes(p, c) /\ Strays(p, c)
      /\ IF c.name \in Recognised
         THEN ReadsLine(p, unfinished[key]) /\ unfinished' = [unfinished EXCEPT ![key] = Unset]
         ELSE /\ UNCHANGED <<states, found, unfinished>>
              /\ touched' = IF Succeeds(p, c)
                            THEN touched \cup {[run |-> Len(observed) + 1, call |-> c.name, really |-> Target(p, c),
                                                astray |-> p \in moved, shown |-> {}]}
                            ELSE touched
      /\ blocked' = [blocked EXCEPT ![p] = Unset]
      /\ UNCHANGED <<observed, runExits, stageAt, report>>
  BY DEF CallResumed
<1>2. ProcessesTyped /\ Followed /\ Halves /\ RunsInv BY DEF TraceInv, ProcessInv
<1>3. /\ kernel[p].live /\ c \in Syscall /\ c.name \in Printed
      /\ c.name \in Recognised => unfinished[<<p, c.name>>] = c
  BY <1>1, <1>2 DEF Halves, ProcessesTyped
<1>4. c.name \in Recognised => key = <<p, c.name>> BY DEF Owner
<1>5. c.name \in Recognised => ReadsLine(p, c) BY <1>1, <1>3, <1>4
<1>6. c.name \notin Recognised => c.name = "fstat" BY <1>3 DEF Printed, Recognised
<1>7. Len(observed) \in Nat BY <1>2 DEF RunsInv
<1>8. unfinished' \in [(TracePid \cup {0}) \X Printed -> Syscall \cup {Unset}]
  <2>1. CASE c.name \in Recognised
    <3> HIDE DEF key
    <3>1. unfinished' = [unfinished EXCEPT ![key] = Unset] BY <1>1, <2>1
    <3>2. QED BY <1>2, <3>1 DEF ProcessesTyped
  <2>2. CASE c.name \notin Recognised BY <1>1, <1>2, <2>2 DEF ProcessesTyped
  <2>3. QED BY <2>1, <2>2
<1>9. \A q \in TracePid \ {p}, n \in Printed : unfinished'[<<q, n>>] = unfinished[<<q, n>>]
  <2>1. CASE c.name \in Recognised
    <3>1. \A q \in TracePid \ {p}, n \in Printed : <<q, n>> # key /\ <<q, n>> \in (TracePid \cup {0}) \X Printed
      BY <1>4, <2>1
    <3>2. unfinished' = [unfinished EXCEPT ![key] = Unset] BY <1>1, <2>1
    <3> HIDE DEF key
    <3>3. QED BY <1>2, <3>1, <3>2 DEF ProcessesTyped
  <2>2. CASE c.name \notin Recognised BY <1>1, <2>2
  <2>3. QED BY <2>1, <2>2
<1>10. blocked' = [blocked EXCEPT ![p] = Unset] /\ UNCHANGED <<observed, runExits, stageAt, report>> BY <1>1
<1>11. Takes(p, c) /\ Strays(p, c) /\ stageAt = "traced" BY <1>1
<1>12. states' = Said(p, c)
  <2>1. CASE c.name \in Recognised
    <3>1. ReadsLine(p, c) BY <1>5, <2>1
    <3>2. QED BY <3>1 DEF ReadsLine, Said, Ignored
  <2>2. CASE c.name \notin Recognised
    <3>1. states' = states BY <1>1, <2>2
    <3>2. Understood(p, c).states = states BY <1>3, <1>6, <2>2, LineSays
    <3>3. QED BY <3>1, <3>2 DEF Said
  <2>3. QED BY <2>1, <2>2
<1>13. Grows
  <2>1. CASE c.name \in Recognised
    <3>1. ReadsLine(p, c) BY <1>5, <2>1
    <3> HIDE DEF c
    <3>2. QED BY <1>2, <1>3, <1>7, <3>1, LineGrows
  <2>2. CASE c.name \notin Recognised /\ Succeeds(p, c)
    <3> DEFINE t == [run |-> Len(observed) + 1, call |-> c.name, really |-> Target(p, c),
                     astray |-> p \in moved, shown |-> {}]
    <3>1. touched' = touched \cup {t} /\ found' = found BY <1>1, <2>2
    <3>2. Target(p, c) \in Path BY <1>6, <2>2, TargetIsPath DEF PathCalls
    <3>3. t \in Touching /\ t.call = "fstat" /\ t.shown = {} /\ t.run = Len(observed) + 1
      BY <1>6, <1>7, <2>2, <3>2 DEF Touching, PathCalls
    <3>4. ~Readable(t) /\ IsFiniteSet(t.shown) BY <3>3, FS_EmptySet DEF Readable
    <3>5. ShownRight(t) BY <3>3, <3>4 DEF ShownRight
    <3> HIDE DEF t
    <3>6. found' = found \cup t.shown BY <3>1, <3>3
    <3>7. QED BY <3>1, <3>3, <3>5, <3>6 DEF Grows
  <2>3. CASE c.name \notin Recognised /\ ~Succeeds(p, c)
    <3>1. touched' = touched /\ found' = found BY <1>1, <2>3
    <3>2. QED BY <3>1 DEF Grows
  <2>4. QED BY <2>1, <2>2, <2>3
<1> HIDE DEF c, key
<1>14. /\ kernel' \in [TracePid -> [live : BOOLEAN, cwd : Path, fds : [DirFd -> Path \cup {Unset}]]]
       /\ states' \in [TracePid \cup {0} -> TakenPlace]
       /\ Followed'
       /\ \A q \in TracePid : kernel[q].live => kernel'[q].live
  BY <1>2, <1>3, <1>11, <1>12, CallKeepsPlaces
<1>15. ProcessesTyped'
  <2>1. blocked' \in [TracePid -> Syscall \cup {Unset}] BY <1>2, <1>10 DEF ProcessesTyped
  <2>2. QED BY <1>8, <1>14, <2>1 DEF ProcessesTyped
<1>16. Halves'
  <2>1. SUFFICES ASSUME NEW q \in TracePid, blocked'[q] # Unset
                 PROVE  /\ kernel'[q].live /\ blocked'[q].name \in Printed
                        /\ blocked'[q].name \in Recognised => unfinished'[<<q, blocked'[q].name>>] = blocked'[q]
    BY DEF Halves
  <2>2. q # p /\ blocked'[q] = blocked[q] BY <1>2, <1>10, <2>1 DEF ProcessesTyped
  <2>3. /\ kernel[q].live /\ blocked[q].name \in Printed
        /\ blocked[q].name \in Recognised => unfinished[<<q, blocked[q].name>>] = blocked[q]
    BY <1>2, <2>1, <2>2 DEF Halves
  <2>4. unfinished'[<<q, blocked[q].name>>] = unfinished[<<q, blocked[q].name>>] BY <1>9, <2>2, <2>3
  <2>5. QED BY <1>14, <2>2, <2>3, <2>4
<1>17. RunsInv' BY <1>2, <1>10, <1>11, <1>13, GrowsKeeps
<1>18. QED BY <1>14, <1>15, <1>16, <1>17 DEF TraceInv, ProcessInv

LEMMA RewrittenIs ==
    ASSUME NEW a \in Seeing
    PROVE  /\ Rewritten(a) \in Seeing /\ Rewritten(a).unresolved = a.unresolved
           /\ Rewritten(a).path = a.path \/ (Rewritten(a).path = Real(a.path) /\ ~Under(TracedRoot, Real(a.path)))
<1>1. a.path \in Path /\ <<>> \in Path BY DEF Seeing, Path
<1>2. Real(a.path) \in Path BY <1>1, RealAppends
<1>3. CASE a.unresolved \/ ~Under(TracedRoot, a.path) \/ Under(TracedRoot, Real(a.path))
  BY <1>3 DEF Rewritten
<1>4. CASE ~(a.unresolved \/ ~Under(TracedRoot, a.path) \/ Under(TracedRoot, Real(a.path)))
  <2> DEFINE real == Real(a.path)
  <2>1. Rewritten(a) = [a EXCEPT !.path = real] BY <1>4 DEF Rewritten
  <2>2. real \in Path /\ ~Under(TracedRoot, real) BY <1>2, <1>4
  <2> HIDE DEF real
  <2>3. Rewritten(a) \in Seeing /\ Rewritten(a).unresolved = a.unresolved /\ Rewritten(a).path = real
    BY <2>1, <2>2 DEF Seeing
  <2>4. QED BY <2>2, <2>3 DEF real
<1>5. QED BY <1>3, <1>4

LEMMA OfIsSeeing == ASSUME RunsInv, NEW i PROVE Of(i) \subseteq Seeing
BY DEF RunsInv, ShownRight, Touching, Of

LEMMA StartsKeeps == ASSUME TraceInv, TraceStarts PROVE TraceInv'
<1>1. Newly /\ stageAt = "start" /\ stageAt' = "traced" /\ UNCHANGED <<touched, observed, runExits, report>>
  BY DEF TraceStarts
<1>2. ProcessInv' BY <1>1, NewlyKeeps
<1>3. RunsInv BY DEF TraceInv
<1>4. touched = {} /\ observed = <<>> /\ report = NoReport(2) /\ Len(observed) < RunsWanted
  BY <1>1, <1>3 DEF RunsInv
<1>5. found' = {} BY <1>1 DEF Newly
<1>6. RunsInv'
  <2>1. Of(Len(observed) + 1)' = {} BY <1>1, <1>4 DEF Of
  <2>2. \A i \in 1 .. Len(observed) : FALSE BY <1>4
  <2>3. IsFiniteSet(found') BY <1>5, FS_EmptySet
  <2>4. observed \in Seq(SUBSET Seeing) BY <1>3 DEF RunsInv
  <2>5. QED BY <1>1, <1>4, <1>5, <2>1, <2>2, <2>3, <2>4 DEF RunsInv
<1>7. QED BY <1>2, <1>6 DEF TraceInv

LEMMA RefusedKeeps == ASSUME TraceInv, TraceRefused PROVE TraceInv'
<1>1. /\ stageAt = "start" /\ stageAt' = "told" /\ report' = NoReport(2)
      /\ UNCHANGED <<kernel, moved, blocked, touched, syscalls, states, unfinished, found, observed, runExits>>
  BY DEF TraceRefused, tracedVars, parserVars
<1>2. ProcessInv' BY <1>1 DEF TraceInv, ProcessInv, ProcessesTyped, Followed, InStep, Halves
<1>3. RunsInv' BY <1>1 DEF TraceInv, RunsInv, Of
<1>4. QED BY <1>2, <1>3 DEF TraceInv

LEMMA EndsKeeps == ASSUME TraceInv, TraceEnds PROVE TraceInv'
<1>0. RunsInv /\ ProcessInv BY DEF TraceInv
<1>1. PICK exit \in {0, 1}, tracer \in {"ran", "failed"} :
        LET runs == Append(observed, {Rewritten(a) : a \in found})
            exits == Append(runExits, exit)
        IN  /\ stageAt = "traced"
            /\ IF tracer = "failed" \/ found = {}
               THEN /\ stageAt' = "told" /\ report' = NoReport(2)
                    /\ UNCHANGED <<kernel, moved, blocked, parserVars, observed, runExits>>
               ELSE /\ observed' = runs /\ runExits' = exits
                    /\ IF Len(runs) = RunsWanted
                       THEN /\ stageAt' = "told"
                            /\ report' = Summary(IF Complete(exits, Summary(0, runs)) THEN 0 ELSE 1, runs)
                            /\ UNCHANGED <<kernel, moved, blocked, parserVars>>
                       ELSE Newly /\ UNCHANGED <<stageAt, report>>
            /\ UNCHANGED <<touched, syscalls>>
  BY DEF TraceEnds
<1> DEFINE last == {Rewritten(a) : a \in found}
           runs == Append(observed, last)
           exits == Append(runExits, exit)
           given == Summary(IF Complete(exits, Summary(0, runs)) THEN 0 ELSE 1, runs)
<1>2. stageAt = "traced" /\ touched' = touched BY <1>1
<1>3. /\ observed \in Seq(SUBSET Seeing) /\ Len(observed) \in Nat /\ Len(observed) < RunsWanted
      /\ RunsWanted \in Nat /\ report = NoReport(2)
      /\ IsFiniteSet(found) /\ found = Of(Len(observed) + 1)
      /\ \A t \in touched : t.run \in 1 .. (Len(observed) + 1) /\ ShownRight(t)
      /\ \A i \in 1 .. Len(observed) :
            observed[i] = {Rewritten(a) : a \in Of(i)} /\ IsFiniteSet(observed[i])
  BY <1>0, <1>2, TraceAssumption DEF RunsInv
<1>4. \A i : Of(i)' = Of(i) BY <1>2 DEF Of
<1>5. CASE tracer = "failed" \/ found = {}
  <2>1. /\ stageAt' = "told" /\ report' = NoReport(2)
        /\ UNCHANGED <<kernel, moved, blocked, states, unfinished, found, observed, runExits, touched>>
    BY <1>1, <1>5 DEF parserVars
  <2>2. ProcessInv' BY <1>0, <2>1 DEF ProcessInv, ProcessesTyped, Followed, InStep, Halves
  <2>3. RunsInv' BY <1>3, <1>4, <2>1 DEF RunsInv
  <2>4. QED BY <2>2, <2>3 DEF TraceInv
<1>6. CASE ~(tracer = "failed" \/ found = {})
  <2>1. /\ observed' = runs /\ runExits' = exits
        /\ Len(runs) = RunsWanted =>
             /\ stageAt' = "told" /\ report' = given
             /\ UNCHANGED <<kernel, moved, blocked, states, unfinished, found>>
        /\ Len(runs) # RunsWanted => Newly /\ UNCHANGED <<stageAt, report>>
    BY <1>1, <1>6 DEF parserVars
  <2>2. last \in SUBSET Seeing /\ IsFiniteSet(last)
    <3>1. found \subseteq Seeing BY <1>0, <1>3, OfIsSeeing
    <3>2. last \subseteq Seeing BY <3>1, RewrittenIs
    <3>3. IsFiniteSet(last)
      <4> DEFINE rewrite == [a \in found |-> Rewritten(a)]
      <4>1. rewrite \in [found -> last] /\ \A t \in last : \E a \in found : rewrite[a] = t OBVIOUS
      <4> HIDE DEF rewrite, last
      <4>2. rewrite \in Surjection(found, last) BY <4>1 DEF Surjection
      <4>3. QED BY <1>3, <4>2, FS_Surjection
    <3>4. QED BY <3>2, <3>3
  <2>3. last = {Rewritten(a) : a \in Of(Len(observed) + 1)} BY <1>3
  <2> HIDE DEF last
  <2>4. /\ runs \in Seq(SUBSET Seeing) /\ Len(runs) = Len(observed) + 1
        /\ runs[Len(observed) + 1] = last /\ \A i \in 1 .. Len(observed) : runs[i] = observed[i]
    BY <1>3, <2>2
  <2> HIDE DEF runs
  <2>5. \A i \in 1 .. Len(runs) : runs[i] = {Rewritten(a) : a \in Of(i)'} /\ IsFiniteSet(runs[i])
    <3>1. SUFFICES ASSUME NEW i \in 1 .. Len(runs)
                   PROVE  runs[i] = {Rewritten(a) : a \in Of(i)} /\ IsFiniteSet(runs[i])
      BY <1>4
    <3>2. CASE i = Len(observed) + 1 BY <2>2, <2>3, <2>4, <3>2
    <3>3. CASE i # Len(observed) + 1
      <4>1. i \in 1 .. Len(observed) BY <1>3, <2>4, <3>3
      <4>2. QED BY <1>3, <2>4, <4>1
    <3>4. QED BY <3>2, <3>3
  <2>6. \A t \in touched' : ShownRight(t) /\ t.run \in 1 .. Len(runs) BY <1>2, <1>3, <2>4
  <2>7. CASE Len(runs) = RunsWanted
    <3>1. ProcessInv' BY <1>0, <2>1, <2>7 DEF ProcessInv, ProcessesTyped, Followed, InStep, Halves
    <3>2. report' = Summary(IF Complete(runExits', Summary(0, observed')) THEN 0 ELSE 1, observed')
      BY <2>1, <2>7
    <3>3. observed' = runs /\ stageAt' = "told" BY <2>1, <2>7
    <3>4. RunsInv' BY <2>4, <2>5, <2>6, <2>7, <3>2, <3>3 DEF RunsInv
    <3>5. QED BY <3>1, <3>4 DEF TraceInv
  <2>8. CASE Len(runs) # RunsWanted
    <3>1. Newly /\ stageAt' = "traced" /\ report' = NoReport(2) /\ observed' = runs BY <1>2, <1>3, <2>1, <2>8
    <3>2. ProcessInv' BY <3>1, NewlyKeeps
    <3>3. found' = {} /\ IsFiniteSet(found') BY <3>1, FS_EmptySet DEF Newly
    <3>4. Of(Len(observed) + 1)' = {}
      <4>1. \A t \in touched' : t.run # Len(runs) + 1 BY <2>4, <2>6, <1>3
      <4>2. {u \in touched' : u.run = Len(observed') + 1} = {} BY <3>1, <4>1
      <4>3. QED BY <4>2 DEF Of
    <3>5. Len(runs) < RunsWanted BY <1>3, <2>4, <2>8
    <3>6. \A t \in touched' : t.run \in 1 .. (Len(runs) + 1) BY <1>3, <2>4, <2>6
    <3>7. RunsInv' BY <2>4, <2>5, <2>6, <3>1, <3>3, <3>4, <3>5, <3>6 DEF RunsInv
    <3>8. QED BY <3>2, <3>7 DEF TraceInv
  <2>9. QED BY <2>7, <2>8
<1>7. QED BY <1>5, <1>6

\* A tracked file is in a run's accesses by its own name when a call of that run
\* was shown so.
LEMMA NamedIs ==
    ASSUME RunsInv, NEW i \in 1 .. Len(observed), NEW q \in TrackedAtBase
    PROVE  (\E a \in observed[i] : ~a.unresolved /\ a.path = q) <=> (\E u \in touched : u.run = i /\ ByName(u, q))
<1>1. observed[i] = {Rewritten(a) : a \in Of(i)} /\ Of(i) \subseteq Seeing BY OfIsSeeing DEF RunsInv
<1>2. Under(TracedRoot, q) /\ Real(q) = q
  <2>1. q \in Files BY TraceAssumption
  <2>2. QED BY <2>1, RealOwn, LinksAssumption
<1>3. \A a \in Seeing : ~Rewritten(a).unresolved /\ Rewritten(a).path = q <=> ~a.unresolved /\ a.path = q
  <2>1. SUFFICES ASSUME NEW a \in Seeing
                 PROVE  ~Rewritten(a).unresolved /\ Rewritten(a).path = q <=> ~a.unresolved /\ a.path = q
    OBVIOUS
  <2>2. ASSUME a.path = q PROVE Rewritten(a) = a BY <1>2, <2>2 DEF Rewritten
  <2>3. ASSUME Rewritten(a).path = q PROVE a.path = q BY <1>2, <2>3, RewrittenIs
  <2>4. Rewritten(a).unresolved = a.unresolved BY RewrittenIs
  <2>5. QED BY <2>2, <2>3, <2>4
<1>4. (\E a \in observed[i] : ~a.unresolved /\ a.path = q) <=> (\E a \in Of(i) : ~a.unresolved /\ a.path = q)
  BY <1>1, <1>3
<1>5. (\E a \in Of(i) : ~a.unresolved /\ a.path = q) <=> (\E u \in touched : u.run = i /\ ByName(u, q))
  BY DEF Of, ByName
<1>6. QED BY <1>4, <1>5

\* What a summary of the runs says of a tracked file, and of the doubts.
LEMMA SummaryIs ==
    ASSUME RunsInv, Len(observed) = RunsWanted, NEW code,
           \A t \in touched : t.run \in 1 .. RunsWanted
    PROVE  LET summed == Summary(code, observed)
           IN  /\ summed.code = code
               /\ summed.unresolved = 0 => \A t \in touched : \A a \in t.shown : ~a.unresolved
               /\ \A e \in summed.repository :
                     e.path \in TrackedAtBase /\ \E u \in touched : ByName(u, e.path)
               /\ \A q \in TrackedAtBase : (\E u \in touched : ByName(u, q)) =>
                     \E e \in summed.repository :
                        /\ e.path = q
                        /\ e.dynamic <=> \E i \in 1 .. RunsWanted : ~\E u \in touched : u.run = i /\ ByName(u, q)
<1> DEFINE runs == observed
           paths == {a.path : a \in {b \in UNION {runs[i] : i \in DOMAIN runs} : ~b.unresolved}}
           doubts == UNION {{<<i, a>> : a \in {b \in runs[i] : b.unresolved}} : i \in DOMAIN runs}
           repo == {q \in paths : q \in TrackedAtBase /\ Under(TracedRoot, q)}
           outside == {TraceEntry(runs, q) : q \in {r \in paths : ~Under(TracedRoot, r)}}
           N == RunsWanted
<1>0. /\ observed \in Seq(SUBSET Seeing) /\ DOMAIN runs = 1 .. N /\ N \in Nat /\ Len(runs) = N
      /\ \A i \in 1 .. N : observed[i] = {Rewritten(a) : a \in Of(i)} /\ IsFiniteSet(observed[i])
  BY TraceAssumption DEF RunsInv
<1>1. Summary(code, observed) = Report(code, {TraceEntry(runs, q) : q \in repo}, outside, Cardinality(doubts))
  BY DEF Summary
<1>2. \A q \in TrackedAtBase : q \in repo <=> \E u \in touched : ByName(u, q)
  <2>1. SUFFICES ASSUME NEW q \in TrackedAtBase PROVE q \in repo <=> \E u \in touched : ByName(u, q)
    OBVIOUS
  <2>2. Under(TracedRoot, q) BY LinksAssumption
  <2>3. q \in repo <=> \E i \in 1 .. N : \E a \in observed[i] : ~a.unresolved /\ a.path = q
    BY <1>0, <2>2
  <2>4. \A i \in 1 .. N : (\E a \in observed[i] : ~a.unresolved /\ a.path = q)
                             <=> (\E u \in touched : u.run = i /\ ByName(u, q))
    BY NamedIs
  <2> HIDE DEF repo
  <2>5. QED BY <2>3, <2>4
<1>3. Cardinality(doubts) = 0 => \A t \in touched : \A a \in t.shown : ~a.unresolved
  <2>1. IsFiniteSet(doubts)
    <3> DEFINE sets == {runs[i] : i \in 1 .. N}
               every == UNION sets
               nth == [i \in 1 .. N |-> runs[i]]
    <3>1. IsFiniteSet(1 .. N) BY <1>0, FS_Interval
    <3>2. nth \in [1 .. N -> sets] /\ \A s \in sets : \E i \in 1 .. N : nth[i] = s OBVIOUS
    <3>3. IsFiniteSet(sets)
      <4> HIDE DEF nth, sets, runs, N
      <4>1. nth \in Surjection(1 .. N, sets) BY <3>2 DEF Surjection
      <4>2. QED BY <3>1, <4>1, FS_Surjection
    <3>4. \A s \in sets : IsFiniteSet(s) BY <1>0
    <3>5. IsFiniteSet(every)
      <4> HIDE DEF sets
      <4>1. QED BY <3>3, <3>4, FS_UNION
    <3>6. doubts \subseteq (1 .. N) \X every BY <1>0
    <3> HIDE DEF doubts, every, runs, N
    <3>7. IsFiniteSet((1 .. N) \X every) BY <3>1, <3>5, FS_Product
    <3>8. QED BY <3>6, <3>7, FS_Subset
  <2>2. SUFFICES ASSUME Cardinality(doubts) = 0, NEW t \in touched, NEW a \in t.shown PROVE ~a.unresolved
    OBVIOUS
  <2>3. doubts = {}
    <3> HIDE DEF doubts
    <3>1. QED BY <2>1, <2>2, FS_EmptySet
  <2>4. t.run \in 1 .. N /\ a \in Of(t.run) BY DEF Of
  <2>5. Rewritten(a) \in observed[t.run] BY <1>0, <2>4
  <2>6. ~Rewritten(a).unresolved
    <3> DEFINE x == Rewritten(a)
    <3>1. x \in runs[t.run] /\ t.run \in DOMAIN runs BY <1>0, <2>4, <2>5
    <3> HIDE DEF x, runs
    <3>2. x.unresolved => <<t.run, x>> \in doubts BY <3>1
    <3> HIDE DEF doubts
    <3>3. ~x.unresolved BY <2>3, <3>2
    <3>4. QED BY <3>3 DEF x
  <2>7. a \in Seeing BY <2>4, OfIsSeeing
  <2>8. QED BY <2>6, <2>7, RewrittenIs
<1>4. \A q \in TrackedAtBase : TraceEntry(runs, q).path = q /\
         (TraceEntry(runs, q).dynamic <=> \E i \in 1 .. N : ~\E u \in touched : u.run = i /\ ByName(u, q))
  <2>1. SUFFICES ASSUME NEW q \in TrackedAtBase
                 PROVE  (Cardinality(Seen(runs, q)) < N)
                           <=> \E i \in 1 .. N : ~\E u \in touched : u.run = i /\ ByName(u, q)
    BY <1>0 DEF TraceEntry
  <2>2. Seen(runs, q) = {i \in 1 .. N : \E u \in touched : u.run = i /\ ByName(u, q)}
    <3>1. \A i \in 1 .. N : (\E a \in observed[i] : ~a.unresolved /\ a.path = q)
                               <=> (\E u \in touched : u.run = i /\ ByName(u, q))
      BY NamedIs
    <3>2. Seen(runs, q) = {i \in 1 .. N : \E a \in observed[i] : ~a.unresolved /\ a.path = q} BY <1>0 DEF Seen
    <3>3. QED BY <3>1, <3>2
  <2> DEFINE some == Seen(runs, q)
  <2>3. some \subseteq 1 .. N BY <2>2
  <2>4. IsFiniteSet(1 .. N) /\ Cardinality(1 .. N) = N
    <3> HIDE DEF N
    <3>1. 1 \in Int /\ N \in Int /\ N \in Nat BY <1>0
    <3>2. QED BY <3>1, FS_Interval
  <2> HIDE DEF some
  <2>5. IsFiniteSet(some) /\ Cardinality(some) <= N /\ (Cardinality(some) = N => some = 1 .. N)
    <3> HIDE DEF N
    <3>1. IsFiniteSet(some) /\ Cardinality(some) <= Cardinality(1 .. N)
          /\ (Cardinality(1 .. N) = Cardinality(some) => 1 .. N = some)
      BY <2>3, <2>4, FS_Subset
    <3>2. QED BY <2>4, <3>1
  <2>6. Cardinality(some) \in Nat BY <2>5, FS_CardinalityType
  <2>7. Cardinality(some) < N <=> some # 1 .. N BY <1>0, <2>4, <2>5, <2>6
  <2>8. some = {i \in 1 .. N : \E u \in touched : u.run = i /\ ByName(u, q)} BY <2>2 DEF some
  <2>9. some # 1 .. N <=> \E i \in 1 .. N : ~\E u \in touched : u.run = i /\ ByName(u, q) BY <2>8
  <2>10. QED BY <2>7, <2>9 DEF some
<1> HIDE DEF doubts, paths, outside, runs, repo
<1>5. repo \subseteq TrackedAtBase BY DEF repo
<1>6. QED
  <2> DEFINE summed == Summary(code, observed)
  <2>1. summed.code = code /\ summed.unresolved = Cardinality(doubts)
        /\ summed.repository = {TraceEntry(runs, q) : q \in repo}
    BY <1>1 DEF Report
  <2> HIDE DEF summed
  <2>2. \A e \in summed.repository : e.path \in TrackedAtBase /\ \E u \in touched : ByName(u, e.path)
    BY <1>2, <1>4, <1>5, <2>1
  <2>3. \A q \in TrackedAtBase : (\E u \in touched : ByName(u, q)) => TraceEntry(runs, q) \in summed.repository
    BY <1>2, <2>1
  <2>4. summed.unresolved = 0 => \A t \in touched : \A a \in t.shown : ~a.unresolved BY <1>3, <2>1
  <2>5. \A q \in TrackedAtBase : (\E u \in touched : ByName(u, q)) =>
            \E e \in summed.repository :
               /\ e.path = q
               /\ e.dynamic <=> \E i \in 1 .. RunsWanted : ~\E u \in touched : u.run = i /\ ByName(u, q)
    BY <1>4, <2>3
  <2>6. QED BY <2>1, <2>2, <2>4, <2>5 DEF summed

LEMMA TraceHolds == ASSUME TraceInv PROVE TraceSound
<1>1. RunsInv BY DEF TraceInv
<1>2. NeverAnother
  <2>1. SUFFICES ASSUME NEW t \in touched, Readable(t)
                 PROVE  Cardinality(t.shown) = 1 /\ \A a \in t.shown : a.unresolved \/ Real(a.path) = t.really
    BY DEF NeverAnother
  <2>2. PICK a \in Seeing : t.shown = {a} /\ (a.unresolved \/ Real(a.path) = t.really)
    BY <1>1, <2>1 DEF RunsInv, ShownRight
  <2>3. Cardinality({a}) = 1 BY FS_Singleton
  <2>4. QED BY <2>2, <2>3
<1> DEFINE code == IF Complete(runExits, Summary(0, observed)) THEN 0 ELSE 1
<1>3. CASE report = NoReport(2) /\ Len(observed) < RunsWanted
  <2>1. report.code = 2 /\ report.repository = {} BY <1>3 DEF NoReport, Report
  <2>2. Len(observed) # RunsWanted
    <3>1. Len(observed) \in Nat /\ RunsWanted \in Nat BY <1>1, TraceAssumption DEF RunsInv
    <3>2. QED BY <1>3, <3>1
  <2>3. SuccessIsComplete BY <2>1, <2>2 DEF SuccessIsComplete
  <2>4. SuggestionsStand BY <2>1 DEF SuggestionsStand, Suggested
  <2>5. QED BY <1>2, <2>3, <2>4 DEF TraceSound
<1>4. CASE /\ stageAt = "told" /\ Len(observed) = RunsWanted /\ \A t \in touched : t.run \in 1 .. RunsWanted
           /\ report = Summary(code, observed)
  <2>1. /\ report.code = code
        /\ report.unresolved = 0 => \A t \in touched : \A a \in t.shown : ~a.unresolved
        /\ \A e \in report.repository : e.path \in TrackedAtBase /\ \E u \in touched : ByName(u, e.path)
        /\ \A q \in TrackedAtBase : (\E u \in touched : ByName(u, q)) =>
              \E e \in report.repository :
                 /\ e.path = q
                 /\ e.dynamic <=> \E i \in 1 .. RunsWanted : ~\E u \in touched : u.run = i /\ ByName(u, q)
    <3> HIDE DEF code
    <3>1. QED BY <1>1, <1>4, SummaryIs
  <2>2. SuccessIsComplete
    <3>1. report.code # 2 BY <2>1
    <3>2. ASSUME report.code = 0
          PROVE  (\A i \in DOMAIN runExits : runExits[i] = 0) /\ \A t \in touched : \A a \in t.shown : ~a.unresolved
      <4>1. Complete(runExits, Summary(0, observed)) BY <2>1, <3>2
      <4>2. Summary(0, observed).unresolved = 0 /\ \A i \in DOMAIN runExits : runExits[i] = 0
        BY <4>1 DEF Complete
      <4>3. \A t \in touched : \A a \in t.shown : ~a.unresolved BY <1>1, <1>4, <4>2, SummaryIs
      <4>4. QED BY <4>2, <4>3
    <3>3. ASSUME NEW t \in touched, ByName(t, t.really), t.really \in TrackedAtBase
          PROVE  /\ t.really \in Suggested \cup CoveredByVerifier
                 /\ \E e \in report.repository : e.path = t.really /\
                       (e.dynamic <=> \E i \in 1 .. RunsWanted : ~\E u \in touched : u.run = i /\ ByName(u, t.really))
      <4>1. PICK e \in report.repository :
              /\ e.path = t.really
              /\ e.dynamic <=> \E i \in 1 .. RunsWanted : ~\E u \in touched : u.run = i /\ ByName(u, t.really)
        BY <2>1, <3>3
      <4>2. t.really \in {r.path : r \in report.repository} BY <4>1
      <4>3. QED BY <4>1, <4>2 DEF Suggested
    <3>4. QED BY <1>4, <3>1, <3>2, <3>3 DEF SuccessIsComplete
  <2>3. SuggestionsStand
    <3>1. SUFFICES ASSUME NEW q \in Suggested
                   PROVE  /\ q \in TrackedAtBase \ CoveredByVerifier
                          /\ \E u \in touched : \E a \in u.shown : ~a.unresolved /\ Real(a.path) = q
      BY DEF SuggestionsStand
    <3>2. PICK e \in report.repository : q = e.path BY <3>1 DEF Suggested
    <3>3. q \in TrackedAtBase /\ q \notin CoveredByVerifier BY <2>1, <3>1, <3>2 DEF Suggested
    <3>4. PICK u \in touched : ByName(u, q) BY <2>1, <3>2
    <3>5. PICK a \in u.shown : a.path = q /\ ~a.unresolved BY <3>4 DEF ByName
    <3>6. Real(q) = q
      <4>1. q \in Files BY <3>3, TraceAssumption
      <4>2. QED BY <4>1, RealOwn, LinksAssumption
    <3>7. QED BY <3>3, <3>5, <3>6
  <2>4. QED BY <1>2, <2>2, <2>3 DEF TraceSound
<1>5. QED BY <1>1, <1>3, <1>4 DEF RunsInv

\* A readable call is shown once, as what it touched or as unresolved; a report is
\* of all the runs asked for, and success means that each was healthy, that
\* nothing was left unresolved, and that every tracked file a call touched by its
\* own name is in it; suggestions are tracked files that were touched.
\* (trace-verify.ts)
THEOREM TraceIsSound == Spec => []TraceSound
<1>1. Init => TraceInv BY TraceStarted DEF Init
<1>2. [Next]_all => [TraceNext]_traceVars BY DEF Next, all
<1>3. TraceInv /\ [TraceNext]_traceVars => TraceInv'
  <2>1. SUFFICES ASSUME TraceInv, [TraceNext]_traceVars PROVE TraceInv'
    OBVIOUS
  <2>2. CASE UNCHANGED traceVars
    BY <2>1, <2>2 DEF traceVars, tracedVars, parserVars, TraceInv, ProcessInv, ProcessesTyped, Followed, InStep, Halves,
       RunsInv, Of
  <2>3. CASE TraceNext
    <3>1. CASE TraceRefused BY <2>1, <3>1, RefusedKeeps
    <3>2. CASE TraceStarts BY <2>1, <3>2, StartsKeeps
    <3>3. CASE TraceEnds BY <2>1, <3>3, EndsKeeps
    <3>4. ASSUME NEW p \in TracePid, CallWhole(p) \/ CallUnfinished(p) \/ CallResumed(p) PROVE TraceInv'
      BY <2>1, <3>4, WholeKeeps, UnfinishedKeeps, ResumedKeeps
    <3>5. QED BY <2>3, <3>1, <3>2, <3>3, <3>4 DEF TraceNext
  <2>4. QED BY <2>1, <2>2, <2>3
<1>4. TraceInv => TraceSound BY TraceHolds
<1>5. QED BY <1>1, <1>2, <1>3, <1>4, PTL DEF Spec

-----------------------------------------------------------------------------
(* The disk and the container together.                                     *)

\* A refused container never runs, an exit is that of a box that ended by itself,
\* and an ended stage leaves no box while there is an engine to remove it; content
\* and descriptors are of regular files that stood at the path, "absent" of a path
\* that was empty, and an append reaches only a file that stood there with one
\* name, whatever is put at the path between two calls. (verifier-backend.ts,
\* disk.ts)
THEOREM OutsideIsSound == Spec => OutsideSound
<1> DEFINE OutsideInv == DiskInv /\ ContainerInv
<1>1. Init => OutsideInv BY DiskStarts, ContainerStarts DEF Init
<1>2. [Next]_all => [DiskNext]_diskVars /\ [ContainerNext]_containerVars BY DEF Next, all
<1>3. OutsideInv /\ [Next]_all => OutsideInv' BY <1>2, DiskKeeps, ContainerKeeps
<1>4. OutsideInv => ContainerTypeOK /\ DiskTypeOK /\ RefusedNeverRuns /\ ReadsWhatStood
  <2>1. DiskInv => DiskTypeOK /\ ReadsWhatStood
    <3> SUFFICES ASSUME DiskInv PROVE DiskTypeOK /\ ReadsWhatStood
      OBVIOUS
    <3>2. call.pc \in {"idle", "lstat", "open", "again", "fstat", "transfer"} BY DEF DiskInv
    <3>3. QED BY <3>2 DEF DiskInv, DiskTypeOK
  <2>2. QED BY <2>1, ContainerSound
<1>5. OutsideInv /\ [Next]_all =>
        /\ [\A s \in Stage : verdict'[s].exit # verdict[s].exit =>
                    /\ box[s].status = "exited" /\ ~box[s].oom /\ ~box[s].error
                    /\ box[s].code = verdict'[s].exit]_containerVars
        /\ [(stage.pc # "idle" /\ stage'.pc = "idle" /\ EngineStable /\ daemon)
                    => box'[stage.n].status = "none"]_containerVars
        /\ [\A i \in Inode : i \in written' \ written => Regular(i) /\ <<i, 1>> \in stood]_diskVars
  BY <1>2, ContainerKeeps, AppendIsHome
<1>6. QED BY <1>1, <1>3, <1>4, <1>5, PTL DEF Spec, OutsideSound, ExitIsBoxes, LeavesNoBox, AppendsAtHome
=============================================================================
