------------------------------ MODULE TraceVerify ------------------------------
(***************************************************************************)
(* tamperward trace-verify (src/cli/trace-verify.ts): the trusted base's    *)
(* verifier runs a few times under strace, the lines are read back into the *)
(* files it consulted, and a maintainer is told which tracked ones are not  *)
(* yet protected.                                                           *)
(*                                                                          *)
(* Beside the command stand the processes it traces, as the kernel runs     *)
(* them: each has a working directory and descriptors, and gets both from   *)
(* the one that forked it.  A system call is printed whole, or in two       *)
(* halves with other processes' lines between them.  strace runs with       *)
(* trace=%file: calls that take no file name print nothing.                 *)
(*                                                                          *)
(* A path is a sequence of names from the traced root or from outside it.   *)
(* Not modelled: "..", threads sharing one directory.                       *)
(***************************************************************************)
EXTENDS Integers, FiniteSets, Sequences

CONSTANTS TracePid,        \* processes of the verifier; one of them is the first
          FirstPid,
          DirFd,           \* descriptor numbers
          TracedRoot,      \* the materialised base, a path
          Folders, Files,  \* the directories and the files there are, by their own path
          LinkTo,          \* symbolic links to directories, by their path
          RelativeText, AbsoluteText,   \* names the processes pass
          TrackedAtBase, CoveredByVerifier,
          RunsWanted,
          Unset,           \* nothing there
          MaxSyscalls      \* bound: system calls over all runs

VARIABLES kernel,          \* what each process is, in the kernel
          moved,           \* history: processes whose place changed with nothing printed
          states,          \* parseStraceFileAccess: what it takes each process to be
          blocked,         \* processes inside a call printed as unfinished
          unfinished,      \* parseStraceFileAccess: the first halves it keeps
          found,           \* the accesses of this run
          touched,         \* history: what was really touched, and what was made of it
          observed, runExits, stageAt, report, syscalls

tracedVars == <<kernel, moved, blocked, touched, syscalls>>
parserVars == <<states, unfinished, found>>
traceVars == <<tracedVars, parserVars, observed, runExits, stageAt, report>>

ASSUME TraceAssumption ==
    /\ FirstPid \in TracePid /\ 0 \notin TracePid
    /\ DirFd \subseteq Nat \ {0} /\ RunsWanted \in Nat \ {0} /\ MaxSyscalls \in Nat
    /\ TrackedAtBase \subseteq Files
    /\ {TracedRoot} \cup Folders \cup Files \cup RelativeText \cup AbsoluteText \subseteq Seq(STRING)
    /\ Unset \notin Seq(STRING)

-----------------------------------------------------------------------------
(* System calls.  "fstat" is newfstatat, fstatat and lstat; "stat" is stat, *)
(* statx, access and readlink.                                              *)

Printed == {"exec", "open", "stat", "fstat", "chdir"}        \* trace=%file
Recognised == {"exec", "open", "stat", "chdir", "fork"}      \* by traceLineProcess, behind a pid
PathCalls == {"exec", "open", "stat", "fstat"}
AtCwd == 0
Syscall ==
    [name : PathCalls, at : DirFd \cup {AtCwd}, text : RelativeText \cup AbsoluteText, to : {Unset}]
    \cup [name : {"chdir"}, at : {AtCwd}, text : RelativeText \cup AbsoluteText, to : {Unset}]
    \cup [name : {"fchdir", "close"}, at : DirFd, text : {<<>>}, to : {Unset}]
    \cup [name : {"dup"}, at : DirFd, text : {<<>>}, to : DirFd]
    \cup [name : {"fork"}, at : {AtCwd}, text : {<<>>}, to : TracePid]

Under(dir, path) == Len(path) > Len(dir) /\ SubSeq(path, 1, Len(dir)) = dir
Below(dir, path) == path = dir \/ Under(dir, path)

\* What has a path of its own is not reached through a link; a link leads to a
\* directory with no link above it and none below; a tracked file is of the base.
ASSUME LinksAssumption ==
    /\ DOMAIN LinkTo \subseteq Seq(STRING) /\ LinkTo \in [DOMAIN LinkTo -> Folders]
    /\ \A l \in DOMAIN LinkTo :
          /\ \A p \in {TracedRoot} \cup Folders \cup Files : ~Below(l, p)
          /\ \A k \in DOMAIN LinkTo : ~Below(LinkTo[k], l) /\ (Below(l, k) => l = k)
    /\ \A q \in TrackedAtBase : Under(TracedRoot, q)

\* realpath: a link of LinkTo on the way is followed.
Real(path) ==
    IF \E l \in DOMAIN LinkTo : Below(l, path)
    THEN LET l == CHOOSE l \in DOMAIN LinkTo : Below(l, path)
         IN  LinkTo[l] \o SubSeq(path, Len(l) + 1, Len(path))
    ELSE path

NoFds == [f \in DirFd |-> Unset]
Fresh == [cwd |-> TracedRoot, fds |-> NoFds]     \* stateFor
Born == [live |-> TRUE, cwd |-> TracedRoot, fds |-> NoFds]
Unborn == [Born EXCEPT !.live = FALSE]

\* Where the kernel takes a call's name, and whether something is there.
Place(p, c) == IF c.at = AtCwd THEN kernel[p].cwd ELSE kernel[p].fds[c.at]
Target(p, c) == Real(IF c.text \in AbsoluteText THEN c.text ELSE Place(p, c) \o c.text)
Stands(p, c) == c.at = AtCwd \/ kernel[p].fds[c.at] \in Folders
FreeFd(p) == {f \in DirFd : kernel[p].fds[f] = Unset}
NewFd(p) == CHOOSE f \in FreeFd(p) : \A g \in FreeFd(p) : f <= g
Succeeds(p, c) ==
    CASE c.name = "chdir" -> Target(p, c) \in Folders
      [] c.name = "fchdir" -> kernel[p].fds[c.at] \in Folders
      [] c.name \in {"dup", "close"} -> kernel[p].fds[c.at] # Unset
      [] c.name = "fork" -> ~kernel[c.to].live
      [] OTHER -> Stands(p, c) /\ Target(p, c) \in Files \cup Folders /\ (c.name = "open" => FreeFd(p) # {})

Takes(p, c) ==
    kernel' = IF ~Succeeds(p, c) THEN kernel
              ELSE CASE c.name = "chdir" -> [kernel EXCEPT ![p].cwd = Target(p, c)]
                     [] c.name = "fchdir" -> [kernel EXCEPT ![p].cwd = kernel[p].fds[c.at]]
                     [] c.name = "close" -> [kernel EXCEPT ![p].fds[c.at] = Unset]
                     [] c.name = "dup" -> [kernel EXCEPT ![p].fds[c.to] = kernel[p].fds[c.at]]
                     [] c.name = "open" -> [kernel EXCEPT ![p].fds[NewFd(p)] = Target(p, c)]
                     [] c.name = "fork" -> [kernel EXCEPT ![c.to] = kernel[p]]
                     [] OTHER -> kernel
-----------------------------------------------------------------------------
(* parseStraceFileAccess: a fold over the lines.                            *)

Owner(p, name) == IF name \in Recognised THEN p ELSE 0      \* traceLineProcess

\* Mutant: a descriptor nobody knows is taken for the working directory.
ResolveGuessing(c, st) ==
    IF c.text \in AbsoluteText THEN c.text
    ELSE LET dir == IF c.at = AtCwd \/ st.fds[c.at] = Unset THEN st.cwd ELSE st.fds[c.at]
         IN  dir \o c.text

\* resolveTracePath.
ResolveTracePath(c, st) ==
    IF c.text \in AbsoluteText THEN c.text
    ELSE LET dir == IF c.at = AtCwd THEN st.cwd ELSE st.fds[c.at]
         IN  IF dir = Unset THEN Unset ELSE dir \o c.text

\* An unprinted call that leaves a process elsewhere than a reader of the lines
\* takes it to be; or a descriptor, closed unseen and opened again by a name the
\* reader cannot place, that it still takes for the older directory.
Stale(p, c) ==
    /\ c.name = "open" /\ ResolveTracePath(c, states[p]) = Unset
    /\ states[p].fds[NewFd(p)] # Unset
Strays(p, c) ==
    moved' = IF ~Succeeds(p, c) THEN moved
             ELSE CASE c.name \in {"fchdir", "dup"} \/ Stale(p, c) -> moved \cup {p}
                    [] c.name = "fork" /\ (p \in moved \/ kernel[p].cwd # TracedRoot) -> moved \cup {c.to}
                    [] OTHER -> moved

Access(c, path) ==
    [path |-> IF path = Unset THEN c.text ELSE path, unresolved |-> path = Unset,
     access |-> IF c.name = "exec" THEN "exec" ELSE "read"]

\* One finished line of process p; what it adds to states and to out.
Understood(p, c) ==
    LET me == Owner(p, c.name)
        st == states[me]
        path == ResolveTracePath(c, st)
        known == st.fds[c.at]
    IN  CASE c.name = "chdir" -> [states |-> [states EXCEPT ![me].cwd = path], adds |-> {}]
          [] c.name = "fchdir" ->
               [states |-> IF known = Unset THEN states ELSE [states EXCEPT ![me].cwd = known], adds |-> {}]
          [] c.name = "close" -> [states |-> [states EXCEPT ![me].fds[c.at] = Unset], adds |-> {}]
          [] c.name = "dup" ->
               [states |-> IF known = Unset THEN states ELSE [states EXCEPT ![me].fds[c.to] = known], adds |-> {}]
          [] c.name = "fork" -> [states |-> [states EXCEPT ![c.to] = st], adds |-> {}]
          [] OTHER ->
               [states |-> IF c.name = "open" /\ path # Unset
                           THEN [states EXCEPT ![me].fds[NewFd(p)] = path] ELSE states,
                adds |-> {Access(c, path)}]
Ignored == [states |-> states, adds |-> {}]

\* A failed call is skipped, and so is one that prints nothing.
ReadsLine(p, c) ==
    LET line == IF c.name \in Printed /\ Succeeds(p, c) THEN Understood(p, c) ELSE Ignored
    IN  /\ states' = line.states
        /\ found' = found \cup line.adds
        /\ touched' = IF c.name \in PathCalls /\ Succeeds(p, c)
                      THEN touched \cup {[run |-> Len(observed) + 1, call |-> c.name, really |-> Target(p, c),
                                          astray |-> p \in moved, shown |-> line.adds]}
                      ELSE touched

-----------------------------------------------------------------------------
(* The processes of one run.                                                *)

May(p) == stageAt = "traced" /\ kernel[p].live /\ syscalls < MaxSyscalls

\* A call printed on one line.
CallWhole(p) ==
    \E c \in Syscall :
        /\ May(p) /\ blocked[p] = Unset /\ Takes(p, c) /\ Strays(p, c) /\ ReadsLine(p, c)
        /\ syscalls' = syscalls + 1
        /\ UNCHANGED <<blocked, unfinished, observed, runExits, stageAt, report>>

\* A call another process's line comes into the middle of.
CallUnfinished(p) ==
    \E c \in Syscall :
        /\ May(p) /\ blocked[p] = Unset /\ c.name \in Printed
        /\ blocked' = [blocked EXCEPT ![p] = c]
        /\ unfinished' = [unfinished EXCEPT ![<<Owner(p, c.name), c.name>>] = c]
        /\ syscalls' = syscalls + 1
        /\ UNCHANGED <<kernel, moved, states, found, touched, observed, runExits, stageAt, report>>

\* The second half, joined to the first that is kept for the process and the
\* call.  A line whose call is not recognised behind a pid is nobody's second half.
CallResumed(p) ==
    LET c == blocked[p]
        key == <<Owner(p, c.name), c.name>>
    IN  /\ stageAt = "traced" /\ c # Unset
        /\ Takes(p, c) /\ Strays(p, c)
        /\ IF c.name \in Recognised
           THEN ReadsLine(p, unfinished[key]) /\ unfinished' = [unfinished EXCEPT ![key] = Unset]
           ELSE /\ UNCHANGED <<states, found, unfinished>>
                /\ touched' = IF Succeeds(p, c)
                              THEN touched \cup {[run |-> Len(observed) + 1, call |-> c.name, really |-> Target(p, c),
                                                  astray |-> p \in moved, shown |-> {}]}
                              ELSE touched
        /\ blocked' = [blocked EXCEPT ![p] = Unset]
        /\ UNCHANGED <<syscalls, observed, runExits, stageAt, report>>

-----------------------------------------------------------------------------
(* runTraceVerify.                                                          *)

Report(code, repo, outside, doubts) ==
    [code |-> code, repository |-> repo, external |-> outside, unresolved |-> doubts]
NoReport(code) == Report(code, {}, {}, 0)

\* The platform, the tools, --runs, the base, its policy, the command or the
\* budget are refused, or the no-op cannot be traced (tracerPreflight).
TraceRefused ==
    /\ stageAt = "start"
    /\ stageAt' = "told" /\ report' = NoReport(2)
    /\ UNCHANGED <<tracedVars, parserVars, observed, runExits>>

\* runOneTrace: a new materialisation, new processes, a new log.
Newly ==
    /\ kernel' = [p \in TracePid |-> IF p = FirstPid THEN Born ELSE Unborn]
    /\ moved' = {} /\ blocked' = [p \in TracePid |-> Unset]
    /\ states' = [p \in TracePid \cup {0} |-> Fresh]
    /\ unfinished' = [k \in (TracePid \cup {0}) \X Printed |-> Unset]
    /\ found' = {}
TraceStarts ==
    /\ stageAt = "start"
    /\ stageAt' = "traced" /\ Newly
    /\ UNCHANGED <<touched, syscalls, observed, runExits, report>>

\* rewriteTraceRoot: what a link leads outside is outside; the rest keeps its name.
Rewritten(item) ==
    IF item.unresolved \/ ~Under(TracedRoot, item.path) \/ Under(TracedRoot, Real(item.path)) THEN item
    ELSE [item EXCEPT !.path = Real(item.path)]

\* summarizeTraceRuns.
Seen(runs, path) == {i \in DOMAIN runs : \E a \in runs[i] : ~a.unresolved /\ a.path = path}
TraceEntry(runs, path) ==
    [path |-> path, runs |-> Cardinality(Seen(runs, path)), dynamic |-> Cardinality(Seen(runs, path)) < Len(runs),
     accesses |-> {a.access : a \in {b \in UNION {runs[i] : i \in DOMAIN runs} : ~b.unresolved /\ b.path = path}}]
Summary(code, runs) ==
    LET paths == {a.path : a \in {b \in UNION {runs[i] : i \in DOMAIN runs} : ~b.unresolved}}
        doubts == UNION {{<<i, a>> : a \in {b \in runs[i] : b.unresolved}} : i \in DOMAIN runs}
        repo == {q \in paths : q \in TrackedAtBase /\ Under(TracedRoot, q)}
    IN  Report(code, {TraceEntry(runs, q) : q \in repo},
               {TraceEntry(runs, q) : q \in {r \in paths : ~Under(TracedRoot, r)}}, Cardinality(doubts))
Suggested == {e.path : e \in report.repository} \ CoveredByVerifier

Complete(exits, summary) == (\A i \in DOMAIN exits : exits[i] = 0) /\ summary.unresolved = 0

\* A run ends: classifyTraceRun tells a tracer that failed, or saw nothing, from
\* a verifier that did.  The last run's end gives the report.
TraceEnds ==
    \E exit \in {0, 1}, tracer \in {"ran", "failed"} :
        LET runs == Append(observed, {Rewritten(a) : a \in found})
            exits == Append(runExits, exit)
        IN  /\ stageAt = "traced"
            /\ IF tracer = "failed" \/ found = {}
               THEN /\ stageAt' = "told" /\ report' = NoReport(2)
                    /\ UNCHANGED <<kernel, moved, blocked, parserVars, observed, runExits>>
               ELSE /\ observed' = runs /\ runExits' = exits
                    /\ IF Len(runs) = RunsWanted
                       THEN /\ stageAt' = "told"
                            /\ report' = Summary(IF Complete(exits, Summary(0, runs)) THEN 0 ELSE 1, runs)
                            /\ UNCHANGED <<kernel, moved, blocked, parserVars>>
                       ELSE Newly /\ UNCHANGED <<stageAt, report>>
            /\ UNCHANGED <<touched, syscalls>>

-----------------------------------------------------------------------------
TraceInit ==
    /\ kernel = [p \in TracePid |-> Unborn] /\ moved = {} /\ blocked = [p \in TracePid |-> Unset]
    /\ states = [p \in TracePid \cup {0} |-> Fresh]
    /\ unfinished = [k \in (TracePid \cup {0}) \X Printed |-> Unset]
    /\ found = {} /\ touched = {} /\ observed = <<>> /\ runExits = <<>>
    /\ stageAt = "start" /\ report = NoReport(2) /\ syscalls = 0
TraceNext ==
    \/ TraceRefused \/ TraceStarts \/ TraceEnds
    \/ \E p \in TracePid : CallWhole(p) \/ CallUnfinished(p) \/ CallResumed(p)
TraceSpec == TraceInit /\ [][TraceNext]_traceVars

-----------------------------------------------------------------------------
(* Properties.                                                              *)

\* A call whose line is read for the process that made it, by a process whose
\* place is what its lines say.
Readable(t) == ~t.astray /\ t.call # "fstat"

\* Such a call is shown once, as a reading or an execution of what the kernel
\* opened, or as unresolved: never as another file.
NeverAnother ==
    \A t \in touched : Readable(t) =>
        /\ Cardinality(t.shown) = 1
        /\ \A a \in t.shown : a.unresolved \/ Real(a.path) = t.really

\* "Relative paths that cannot be resolved from that state are returned as
\* unresolved evidence instead of being guessed against the repository root".
NothingGuessed == \A t \in touched : \A a \in t.shown : a.unresolved \/ Real(a.path) = t.really

\* A report is made of all the runs asked for, and success means that each was
\* healthy and that no access was left unresolved.  Then every tracked file a
\* readable call touched by its own name is reported, as dynamic unless every
\* run touched it so, and suggested unless covered.  (A file reached through a
\* link that stays in the base keeps the link's name, which is not tracked.)
ByName(t, file) == \E a \in t.shown : a.path = file /\ ~a.unresolved
SuccessIsComplete ==
    stageAt = "told" =>
        /\ report.code # 2 <=> Len(observed) = RunsWanted
        /\ report.code = 0 =>
              /\ \A i \in DOMAIN runExits : runExits[i] = 0
              /\ \A t \in touched : \A a \in t.shown : ~a.unresolved
              /\ \A t \in touched : Readable(t) /\ ByName(t, t.really) /\ t.really \in TrackedAtBase =>
                    /\ t.really \in Suggested \cup CoveredByVerifier
                    /\ \E e \in report.repository : e.path = t.really /\
                          (e.dynamic <=> \E i \in 1 .. RunsWanted : ~\E u \in touched : u.run = i /\ ByName(u, t.really))

\* Only tracked files that are not covered are suggested, and nothing on the
\* strength of an unresolved name.
SuggestionsStand ==
    Suggested \subseteq {t \in TrackedAtBase \ CoveredByVerifier :
                            \E u \in touched : \E a \in u.shown : ~a.unresolved /\ Real(a.path) = t}
=============================================================================
