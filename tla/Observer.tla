------------------------------ MODULE Observer ------------------------------
(***************************************************************************)
(* The transient observer: the watcher daemon (src/cli/watch.ts), the log  *)
(* it appends to, and the two readers of that log: the Stop sweep, which   *)
(* keeps a byte cursor (src/cli/hook.ts, turnTransientBlocks), and the     *)
(* end of a supervised run, which reads a log of its own from its start    *)
(* (src/cli/run.ts, collectObserverFindings).  Both drain it in bounded    *)
(* positioned reads (src/detectors/fs-events.ts) while the watcher, and    *)
(* whoever else can write under .git, goes on.                             *)
(*                                                                         *)
(* Bytes are cells: a line is a body and a newline, an event's body is one *)
(* cell.  A path's state is its content and mode.  Left out: a disabled    *)
(* rule, the audit entries of the warnings, and directories below those a  *)
(* watch of the root announces.                                            *)
(***************************************************************************)
EXTENDS Naturals, Sequences, FiniteSets

CONSTANTS Path, Hash, Mode, NoHash,
          Absent,         \* no such file
          Dir, DirOf,     \* directories of the protected paths, below the root
          Junk, NL, Malformed,
          ReadCap,        \* MAX_EVENT_READ_BYTES
          SweepCap,       \* MAX_EVENT_SWEEP_BYTES
          Use,            \* readers: "stop", "run"
          Recursive,      \* whether the platform has recursive watches
          Strict,         \* TAMPERWARD_TRANSIENT=block
          Fault,          \* "append", "torn", "health", "error", "crash", "commit", "diff"
          LogMay,         \* what else happens to the log: "malformed", "oversized", "replace"
          MaxMoves, MaxCells, MaxOdds \* bounds: changes to files, cells, faults and odd events

VARIABLES use,                        \* which reader this behaviour has
          disk, base, dirs,           \* protected paths now, and at the baseline; directories
          watcher, watched, pending,  \* the daemon, its watches, its undelivered callbacks
          last, line,                 \* its dedupe keys; what it has still to write
          health, healthFile,         \* its record, in memory and as persisted
          log, cursor,                \* the files
          reader, view, seen,         \* where the reader is; net changes and tree it judges
          at, size, got, events, drained, \* its drain
          verdict, accounted,         \* its answer; the paths reported or in the net diff
          moves, odds,                \* bounded counters
          lost, unsaved,              \* history: coverage lost, a record not saved
          gen, cursorGen, atGen       \* history: which log is there, and which a position is of

tree    == <<disk, base, dirs>>
daemon  == <<watcher, watched, pending, last, line, health, healthFile>>
files   == <<log, cursor>>
drain   == <<at, size, got, events, drained>>
sweep   == <<view, seen, verdict, accounted>>
loss    == <<lost, unsaved>>
gens    == <<gen, cursorGen, atGen>>
vars    == <<use, tree, daemon, files, reader, drain, sweep, moves, odds, loss, gens>>

State == [hash : Hash, mode : Mode]
Gone  == [hash |-> NoHash, mode |-> NoHash]
Event == {[path |-> p, hash |-> s.hash, mode |-> s.mode] : p \in Path, s \in State \union {Gone}}
Record(s, n) == [state |-> s, dropped |-> n]

ASSUME ObserverAssumption ==
    /\ NoHash \notin Hash \union Mode
    /\ DirOf \in [Path -> Dir] /\ Path \intersect Dir = {}
    /\ Junk \notin Event /\ NL \notin Event /\ Junk # NL /\ Malformed \notin Event
    /\ ReadCap \in Nat \ {0} /\ SweepCap \in Nat \ {0}
    /\ Use \subseteq {"stop", "run"}
    /\ Recursive \in BOOLEAN /\ Strict \in BOOLEAN
    /\ {MaxMoves, MaxCells, MaxOdds} \subseteq Nat

TypeOK ==
    /\ use \in Use /\ dirs \subseteq Dir
    /\ {disk, base, seen} \subseteq [Path -> State \union {Gone}]
    /\ watcher \in {"off", "up"} /\ watched \subseteq Dir /\ pending \subseteq Path \union Dir
    /\ last \in [Path -> State \union {Gone, Absent}]
    /\ line \in Seq(Event \union {NL})
    /\ {health, healthFile} \subseteq
         [state : {"none", "healthy", "degraded", "stopped"}, dropped : Nat]
    /\ log \in Seq(Event \union {Junk, NL}) \union {Absent}
    /\ {cursor, at, size, got} \subseteq Nat
    /\ reader \in {"idle", "stopping", "drain", "read", "judge", "commit", "done"}
    /\ view \subseteq Path /\ accounted \subseteq Path /\ events \subseteq Event
    /\ drained \in {"absent", "complete", "malformed-record", "oversized-record",
                    "incomplete-record", "aggregate-limit", "read-stalled"}
    /\ verdict \in {"none", "pass", "block"}
    /\ moves \in 0 .. MaxMoves /\ odds \in 0 .. MaxOdds
    /\ lost \in BOOLEAN /\ unsaved \in BOOLEAN
    /\ {gen, cursorGen, atGen} \subseteq Nat

-----------------------------------------------------------------------------
(* Reading the log.                                                        *)

LastNewline(c) == LET N == {i \in 1 .. Len(c) : c[i] = NL}
                  IN  IF N = {} THEN 0 ELSE CHOOSE i \in N : \A j \in N : j <= i

\* fsEventFrom: where a line of c that is an event begins.
EventAt(c, i) == c[i] \in Event /\ c[i + 1] = NL /\ (i > 1 => c[i - 1] = NL)
Events(c) == {c[i] : i \in {j \in 1 .. LastNewline(c) - 1 : EventAt(c, j)}}
BadLines(c) == \E i \in 1 .. LastNewline(c) - 1 : c[i] # NL /\ ~EventAt(c, i)

Least(a, b) == IF a <= b THEN a ELSE b
Distinct(a, b) == NoHash \notin {a, b} /\ a # b

\* transientFindings: paths with two contents, the final one among them, or two
\* modes.  A path with a net change is left to the turn's rules.
Transient(E, net) ==
    {p \in Path \ net : \E e, f \in E :
        /\ e.path = p /\ f.path = p
        /\ \/ Distinct(e.hash, f.hash) \/ Distinct(e.hash, disk[p].hash)
           \/ Distinct(e.mode, f.mode)}

-----------------------------------------------------------------------------
Init ==
    /\ use \in Use
    /\ dirs \in SUBSET Dir
    /\ \E s \in State : disk = [p \in Path |-> IF DirOf[p] \in dirs THEN s ELSE Gone]
    /\ base = disk
    /\ watcher = "off" /\ watched = {} /\ pending = {}
    /\ last = [p \in Path |-> Absent] /\ line = <<>>
    /\ health = Record("none", 0) /\ healthFile = health
    /\ log = Absent /\ cursor = 0
    /\ reader = "idle" /\ view = {} /\ seen = disk /\ at = 0 /\ size = 0 /\ got = 0
    /\ events = {} /\ drained = "absent" /\ verdict = "none" /\ accounted = {}
    /\ moves = 0 /\ odds = 0
    /\ lost = FALSE /\ unsaved = FALSE /\ gen = 0 /\ cursorGen = 0 /\ atGen = 0

Cells == IF log = Absent THEN <<>> ELSE log

\* A replaced log may grow back past a position of the old one, and what lies
\* before the position is then never read: a known limit, left out here.
Behind(position, of, n) == of = gen \/ position = 0 \/ Len(Cells) + n < position
MayGrow(n) ==
    /\ Len(Cells) + n <= MaxCells
    /\ Behind(cursor, cursorGen, n) /\ Behind(at, atGen, n)

Happens(f) == f \in Fault /\ odds < MaxOdds

-----------------------------------------------------------------------------
(* The protected tree, and what others do to the log.                      *)

Move(p) ==
    /\ reader # "done" /\ moves < MaxMoves
    /\ DirOf[p] \in dirs
    /\ \E s \in (State \union {Gone}) \ {disk[p]} : disk' = [disk EXCEPT ![p] = s]
    /\ pending' = pending \union (IF DirOf[p] \in watched THEN {p} ELSE {})
    /\ moves' = moves + 1
    /\ UNCHANGED <<use, base, dirs, watcher, watched, last, line, health, healthFile,
                   files, reader, drain, sweep, odds, loss, gens>>

MakeDir(d) ==
    /\ reader # "done" /\ d \notin dirs
    /\ dirs' = dirs \union {d}
    /\ pending' = pending \union (IF watcher = "up" THEN {d} ELSE {})
    /\ UNCHANGED <<use, disk, base, watcher, watched, last, line, health, healthFile,
                   files, reader, drain, sweep, moves, odds, loss, gens>>

\* Whoever can write under .git: the agent, until its processes are gone.
Others ==
    /\ use = "stop" \/ reader = "idle"
    /\ odds < MaxOdds /\ odds' = odds + 1
    /\ \/ \E l \in (IF "malformed" \in LogMay THEN {<<Junk, NL>>} ELSE {}) \union
                   (IF "oversized" \in LogMay THEN {[i \in 1 .. ReadCap |-> Junk] \o <<NL>>} ELSE {}) :
             MayGrow(Len(l)) /\ log' = Cells \o l /\ UNCHANGED gen
       \/ /\ "replace" \in LogMay /\ log \notin {Absent, <<>>}
          /\ log' \in {Absent, <<>>} /\ gen' = gen + 1
    /\ UNCHANGED <<use, tree, daemon, cursor, reader, drain, sweep, moves, loss, cursorGen, atGen>>

-----------------------------------------------------------------------------
(* The watcher.                                                            *)

\* persistHealth: the record is replaced whole, or stays what it was.  n faults
\* have already happened in this step.
Persist(record, n) ==
    /\ health' = record
    /\ \/ healthFile' = record /\ unsaved' = FALSE /\ odds' = odds + n
       \/ /\ "health" \in Fault /\ odds + n < MaxOdds
          /\ odds' = odds + n + 1 /\ unsaved' = TRUE /\ UNCHANGED healthFile
NothingPersisted == UNCHANGED <<health, healthFile, unsaved, odds>>

\* degrade
Degrade(dropped) == Persist(Record("degraded", health.dropped + dropped), 1) /\ lost' = TRUE

\* startWatcher replaces the record of the watcher before it.
StartWatcher ==
    /\ watcher = "off" /\ reader = "idle"
    /\ watcher' = "up"
    /\ pending' = {} /\ last' = [p \in Path |-> Absent]
    /\ \/ /\ watched' = IF Recursive THEN Dir ELSE dirs
          /\ Persist(Record("healthy", 0), 0) /\ lost' = FALSE
       \/ /\ ~Recursive /\ Happens("error")
          /\ \E d \in dirs : watched' = dirs \ {d}
          /\ Persist(Record("degraded", 0), 1) /\ lost' = TRUE
    /\ UNCHANGED <<use, tree, line, files, reader, drain, sweep, moves, gens>>

\* Mutant: a failed append is not counted.
NoticeQuietly(p) ==
    /\ watcher = "up" /\ line = <<>> /\ p \in pending
    /\ pending' = pending \ {p}
    /\ last' = [last EXCEPT ![p] = disk[p]]
    /\ \/ MayGrow(2) /\ last[p] # disk[p]
          /\ line' = <<[path |-> p, hash |-> disk[p].hash, mode |-> disk[p].mode], NL>>
          /\ NothingPersisted /\ UNCHANGED lost
       \/ Happens("append") /\ lost' = TRUE /\ odds' = odds + 1
          /\ UNCHANGED <<line, health, healthFile, unsaved>>
    /\ UNCHANGED <<use, tree, watcher, watched, files, reader, drain, sweep, moves, gens>>

\* The callback of watchTree: the state is read when the callback runs, and one
\* already recorded is not recorded again.
Notice(p) ==
    /\ watcher = "up" /\ line = <<>> /\ p \in pending
    /\ pending' = pending \ {p}
    /\ last' = [last EXCEPT ![p] = disk[p]]
    /\ \/ last[p] = disk[p] /\ NothingPersisted /\ UNCHANGED <<line, lost>>
       \/ /\ last[p] # disk[p] /\ MayGrow(2)
          /\ line' = <<[path |-> p, hash |-> disk[p].hash, mode |-> disk[p].mode], NL>>
          /\ NothingPersisted /\ UNCHANGED lost
       \/ last[p] # disk[p] /\ Happens("append") /\ Degrade(1) /\ UNCHANGED line
    /\ UNCHANGED <<use, tree, watcher, watched, files, reader, drain, sweep, moves, gens>>

\* A directory appears: without recursive watches it gets one, or coverage is lost.
NoticeDir(d) ==
    /\ watcher = "up" /\ line = <<>> /\ d \in pending
    /\ pending' = pending \ {d}
    /\ \/ /\ watched' = watched \union {d} /\ UNCHANGED lost
          /\ IF Recursive THEN NothingPersisted ELSE Persist(health, 0)
       \/ ~Recursive /\ Happens("error") /\ Degrade(0) /\ UNCHANGED watched
    /\ UNCHANGED <<use, tree, watcher, last, line, files, reader, drain, sweep, moves, gens>>

\* A watch reports an error: it is closed, and coverage is lost.
WatchError ==
    /\ watcher = "up" /\ line = <<>> /\ watched # {}
    /\ Happens("error")
    /\ IF Recursive THEN watched' = {} ELSE \E d \in watched : watched' = watched \ {d}
    /\ Degrade(0)
    /\ UNCHANGED <<use, tree, watcher, pending, last, line, files, reader, drain, sweep, moves, gens>>

\* appendRegular: the bytes of a line need not land at once, nor all of them.
WriteCell ==
    /\ watcher = "up" /\ line # <<>>
    /\ \/ /\ log' = Append(Cells, Head(line)) /\ line' = Tail(line)
          /\ IF line' = <<>> THEN Persist(health, 0) ELSE NothingPersisted
          /\ UNCHANGED lost
       \/ Happens("torn") /\ line' = <<>> /\ Degrade(1) /\ UNCHANGED log
    /\ UNCHANGED <<use, tree, watcher, watched, pending, last, cursor, reader, drain, sweep,
                   moves, gens>>

WatcherEnds(record) ==
    /\ watcher' = "off" /\ watched' = {} /\ pending' = {} /\ line' = <<>>
    /\ healthFile' = record
    /\ UNCHANGED <<use, tree, last, health, files, reader, drain, sweep, moves, loss, gens>>

\* SIGTERM, handled between two callbacks: close, then exit.
CloseWatcher ==
    /\ watcher = "up" /\ line = <<>>
    /\ use = "run" => reader = "stopping"
    /\ WatcherEnds(Record("stopped", health.dropped))
    /\ UNCHANGED odds

CrashWatcher ==
    /\ watcher = "up" /\ Happens("crash") /\ odds' = odds + 1
    /\ WatcherEnds(healthFile)

\* watcherTelemetry
Telemetry ==
    IF watcher = "off" \/ healthFile.state \in {"none", "stopped"} THEN "unavailable"
    ELSE healthFile.state

-----------------------------------------------------------------------------
(* The two readers.                                                        *)

Net == {p \in Path : disk[p] # base[p]}

BeginDrain(position, of) ==
    /\ reader' = "drain"
    /\ at' = position /\ atGen' = of /\ got' = 0 /\ events' = {}
    /\ UNCHANGED <<size, drained>>

\* turnTransientBlocks, after the view stopVerdict judges was taken.
BeginStop ==
    /\ use = "stop" /\ reader = "idle"
    /\ view' = Net /\ seen' = disk
    /\ \/ log # Absent /\ BeginDrain(cursor, cursorGen)
       \/ /\ log = Absent
          /\ reader' = "judge" /\ drained' = "absent" /\ events' = {}
          /\ UNCHANGED <<at, size, got, atGen>>
    /\ UNCHANGED <<use, tree, daemon, files, verdict, accounted, moves, odds, loss, gen, cursorGen>>

\* stopObserverProcess asks the watcher to end ...
StopObserver ==
    /\ use = "run" /\ reader = "idle"
    /\ reader' = "stopping"
    /\ UNCHANGED <<use, tree, daemon, files, drain, sweep, moves, odds, loss, gens>>

\* ... and kills it two seconds later.
KillObserver ==
    /\ reader = "stopping" /\ watcher = "up"
    /\ WatcherEnds(healthFile)
    /\ UNCHANGED odds

\* Mutant: the log is read while the watcher still ends.
CollectEarly ==
    /\ reader = "stopping" /\ BeginDrain(0, gen)
    /\ UNCHANGED <<use, tree, daemon, files, sweep, moves, odds, loss, gen, cursorGen>>

\* collectObserverFindings, once the process is gone.
BeginCollect ==
    /\ reader = "stopping" /\ watcher = "off" /\ BeginDrain(0, gen)
    /\ UNCHANGED <<use, tree, daemon, files, sweep, moves, odds, loss, gen, cursorGen>>

\* readEvents: the size is taken first.  A position beyond it is not one of this log.
From(total) == IF at > total THEN 0 ELSE at

Stat ==
    /\ reader = "drain"
    /\ size' = Len(Cells)
    /\ \/ From(size') < size' /\ reader' = "read" /\ UNCHANGED drained
       \/ From(size') = size' /\ reader' = "judge" /\ drained' = "complete"
    /\ UNCHANGED <<use, tree, daemon, files, at, got, events, sweep, moves, odds, loss, gens>>

\* What readEvents gets of the bytes it asks for.
Chunk ==
    LET asked == Least(size - From(size), Least(ReadCap, SweepCap - got))
    IN  SubSeq(log, From(size) + 1, Least(From(size) + asked, Len(log)))

\* Mutant: a malformed line is skipped.
OutcomeSkipping(chunk) ==
    LET limited == From(size) + Len(chunk) < size
    IN  IF chunk = <<>> THEN "read-stalled"
        ELSE IF limited /\ LastNewline(chunk) = 0 THEN "oversized-record"
        ELSE IF ~limited /\ LastNewline(chunk) < Len(chunk) THEN "incomplete-record"
        ELSE IF ~limited THEN "complete"
        ELSE IF got + Len(chunk) >= SweepCap THEN "aggregate-limit" ELSE "more"

\* What drainEvents makes of a batch: a reason to stop, or "more".
Outcome(chunk) ==
    LET next    == From(size) + LastNewline(chunk)
        limited == From(size) + Len(chunk) < size
    IN  IF BadLines(chunk) THEN "malformed-record"
        ELSE IF chunk = <<>> THEN "read-stalled"
        ELSE IF limited /\ next = at THEN "oversized-record"
        ELSE IF ~limited THEN IF LastNewline(chunk) < Len(chunk) THEN "incomplete-record" ELSE "complete"
        ELSE IF got + Len(chunk) >= SweepCap THEN "aggregate-limit"
        ELSE "more"

\* One batch of drainEvents.
Read ==
    /\ reader = "read" /\ log # Absent
    /\ events' = events \union Events(Chunk)
    /\ got' = got + Len(Chunk)
    /\ LET outcome == Outcome(Chunk)
       IN  /\ IF outcome = "more" THEN reader' = "drain" /\ UNCHANGED drained
              ELSE reader' = "judge" /\ drained' = outcome
           /\ IF outcome \in {"more", "complete", "aggregate-limit"}
              THEN at' = From(size) + LastNewline(Chunk) /\ atGen' = gen
              ELSE UNCHANGED <<at, atGen>>
    /\ UNCHANGED <<use, tree, daemon, files, size, sweep, moves, odds, loss, gen, cursorGen>>

\* The log is gone between the size and the read: the error ends the sweep, or the run.
ReadGone ==
    /\ reader = "read" /\ log = Absent
    /\ reader' = IF use = "stop" THEN "idle" ELSE "done"
    /\ verdict' = "block"
    /\ UNCHANGED <<use, tree, daemon, files, drain, view, seen, accounted, moves, odds, loss, gens>>

\* The verdict of the sweep; the turn's other rules may block what the view shows.
JudgeStop ==
    /\ use = "stop" /\ reader = "judge"
    /\ LET unread   == drained \notin {"absent", "complete"}
           findings == IF unread THEN {} ELSE Transient(events, view)
       IN  /\ accounted' = IF unread THEN accounted ELSE findings \union view
           /\ \E ordinary \in {FALSE} \union {view # {}} :
                verdict' = IF unread \/ ordinary \/ (Strict /\ findings # {}) THEN "block" ELSE "pass"
           /\ base' = IF verdict' = "pass" THEN seen ELSE base
           /\ reader' = IF verdict' = "pass" /\ drained = "complete" THEN "commit" ELSE "idle"
    /\ UNCHANGED <<use, disk, dirs, daemon, files, drain, view, seen, moves, odds, loss, gens>>

\* commitCursor: best effort.
Commit ==
    /\ reader = "commit" /\ reader' = "idle"
    /\ \/ cursor' = at /\ cursorGen' = atGen /\ UNCHANGED odds
       \/ Happens("commit") /\ odds' = odds + 1 /\ UNCHANGED <<cursor, cursorGen>>
    /\ UNCHANGED <<use, tree, daemon, log, drain, sweep, moves, loss, gen, atGen>>

\* The end of a run: only a strict policy makes anything of what it finds.
JudgeRun ==
    /\ use = "run" /\ reader = "judge" /\ reader' = "done"
    /\ view' = Net /\ accounted' = Transient(events, Net) \union Net
    /\ \E failed \in {FALSE} \union {Happens("diff") /\ events # {}} :
         LET unread == drained \notin {"absent", "complete"}
         IN  verdict' = IF Strict /\ (unread \/ failed \/ Transient(events, Net) # {})
                        THEN "block" ELSE "pass"
    /\ UNCHANGED <<use, tree, daemon, files, drain, seen, moves, odds, loss, gens>>

ReaderStep ==
    \/ BeginStop \/ StopObserver \/ KillObserver \/ BeginCollect
    \/ Stat \/ Read \/ ReadGone \/ JudgeStop \/ Commit \/ JudgeRun

Next ==
    \/ \E p \in Path : Move(p) \/ Notice(p)
    \/ \E d \in Dir : MakeDir(d) \/ NoticeDir(d)
    \/ StartWatcher \/ WriteCell \/ WatchError \/ CloseWatcher \/ CrashWatcher
    \/ Others \/ ReaderStep

Spec == Init /\ [][Next]_vars

\* A reader that has begun is one synchronous program: it goes on.
ReaderFairness == WF_vars(KillObserver \/ BeginCollect \/ Stat \/ Read \/ ReadGone
                          \/ JudgeStop \/ Commit \/ JudgeRun)
FairSpec == Spec /\ ReaderFairness

-----------------------------------------------------------------------------
(* Properties.                                                             *)

\* The lines of a log, in order; an empty one is none.
LineEnds(c) == {i \in 2 .. Len(c) : c[i] = NL /\ c[i - 1] # NL}
LinesOf(c) ==
    LET upTo[n \in 0 .. Len(c)] ==
          IF n = 0 THEN <<>>
          ELSE IF n \notin LineEnds(c) THEN upTo[n - 1]
          ELSE Append(upTo[n - 1], IF EventAt(c, n - 1) THEN c[n - 1] ELSE Malformed)
    IN  upTo[Len(c)]

Passed == IF cursorGen = gen THEN Cardinality({i \in LineEnds(Cells) : i <= cursor}) ELSE 0

Ledger == INSTANCE ObserverLedger WITH recorded <- LinesOf(Cells), passed <- Passed

\* The cursor over the log and the sweeps that move it keep the observer's
\* promise (turnTransientBlocks, drainEvents, transientFindings): whatever the
\* watcher, a rotation or a torn, malformed or oversized record does meanwhile,
\* no sweep passes a line it did not classify, or a churned path in silence.
KeepsLedger == Ledger!Spec

\* Consumers may believe a record that says healthy (watcherTelemetry): since this
\* watcher began it lost no event and no directory, unless its record could not
\* be saved.
HealthyIsComplete == Telemetry = "healthy" /\ lost => unsaved

\* A strict run that ends without a block has classified every byte its observer
\* wrote, the last torn write of a killed one included, and nothing in it churned
\* unaccounted (collectObserverFindings, stopObserverProcess).
StrictRunClassifiesAll ==
    use = "run" /\ reader = "done" /\ Strict /\ verdict = "pass" =>
        /\ LastNewline(Cells) = Len(Cells) /\ ~BadLines(Cells)
        /\ Transient(Events(Cells), accounted) = {}

=============================================================================
