-------------------------- MODULE ResearchLedger --------------------------
(* `tamperward research run`: the runners that share one ledger directory,  *)
(* its lock and --break-lock, resuming over the records that exist, the two *)
(* arms of a pair and the write of its record (src/research/run.ts).        *)
(* Bounds: MaxStarts processes in all, MaxHead commits the task        *)
(* repository moves by, MaxWrites writes of a straggler in a workspace.     *)
EXTENDS Integers, Sequences, FiniteSets, Functions

CONSTANTS Runner, Plan,           \* processes; what they may be asked to run
          TaskOrder, Pairs,       \* the tasks of the manifest, pairs per task
          NoLock,
          MaxStarts, MaxHead, MaxWrites

ASSUME LedgerAssumption ==
    /\ Pairs \in Nat /\ MaxHead \in Nat \ {0}
    /\ TaskOrder \in Seq(Range(TaskOrder)) /\ IsInjective(TaskOrder)
    /\ NoLock \notin [owner : [runner : Runner, start : Nat], torn : BOOLEAN]

VARIABLES
    lock,        \* run.lock: its owner, or NoLock; torn while it has no text
    claimed,     \* runner -> the lock file it renamed away
    record,      \* <<task, pair>> -> pairs/<task>--<pair>.json
    head,        \* the commit the task's base names now
    run,         \* runner -> where it is and what it holds
    starts,      \* runner -> processes started so far; a lock names the last
    displaced    \* a --break-lock moved a lock other than the one it inspected
ledgerVars == <<lock, claimed, record, head, run, starts, displaced>>

Arm == {"ungated", "gated"}
Slot == {TaskOrder[i] : i \in DOMAIN TaskOrder} \X (1..Pairs)
Absent == [plan |-> "none", base |-> 0, pair |-> "none"]

Fresh == [pc |-> "idle", plan |-> "none", seen |-> NoLock, done |-> {}, task |-> 1, base |-> 0, arm |-> "ungated",
          tree |-> 0, at |-> 0, owned |-> TRUE, verified |-> 0, checked |-> 0,
          arms |-> [a \in Arm |-> "none"], code |-> 9]

Token(r) == [runner |-> r, start |-> starts[r]]
Ended == {"idle", "stopped", "crashed"}
Alive(o) == run[o.runner].pc \notin Ended /\ starts[o.runner] = o.start

(* Between the creation of its lock and the release of it a runner believes *)
(* it is the only one.                                                      *)
Writing(r) == run[r].pc \notin Ended \cup {"inspect", "claim", "recheck", "create"}

Go(r, pc) == run' = [run EXCEPT ![r].pc = pc]
Quit(r, code) == run' = [run EXCEPT ![r].pc = "stopped", ![r].code = code]
Release(r, code) == run' = [run EXCEPT ![r].pc = "release", ![r].code = code]

LedgerInit ==
    /\ lock = NoLock
    /\ claimed = [r \in Runner |-> NoLock]
    /\ record = [s \in Slot |-> Absent]
    /\ head = 1
    /\ run = [r \in Runner |-> Fresh]
    /\ starts = [r \in Runner |-> 0]
    /\ displaced = FALSE

(* ------------------------------- the lock ------------------------------- *)

(* A bad adapter, manifest or platform ends the command before the lock.    *)
Start(r) ==
    /\ run[r].pc \in Ended
    /\ SumFunction(starts) < MaxStarts
    /\ starts' = [starts EXCEPT ![r] = @ + 1]
    /\ \E plan \in Plan, breakLock, usable \in BOOLEAN :
        run' = [run EXCEPT ![r] =
                 [Fresh EXCEPT !.plan = plan, !.code = IF usable THEN 9 ELSE 2,
                               !.pc = IF ~usable THEN "stopped"
                                      ELSE IF breakLock /\ lock # NoLock THEN "inspect" ELSE "create"]]
    /\ UNCHANGED <<lock, claimed, record, head, displaced>>

(* Mutant: --break-lock does not ask whether the owner lives.               *)
InspectTrusting(r) ==
    /\ run[r].pc = "inspect"
    /\ IF lock = NoLock \/ lock.torn
       THEN Quit(r, 2)
       ELSE run' = [run EXCEPT ![r].pc = "claim", ![r].seen = lock.owner]
    /\ UNCHANGED <<lock, claimed, record, head, starts, displaced>>

(* An unreadable lock, or one whose owner lives, is never moved.            *)
Inspect(r) ==
    /\ run[r].pc = "inspect"
    /\ IF lock = NoLock \/ lock.torn \/ Alive(lock.owner)
       THEN Quit(r, 2)
       ELSE run' = [run EXCEPT ![r].pc = "claim", ![r].seen = lock.owner]
    /\ UNCHANGED <<lock, claimed, record, head, starts, displaced>>

Claim(r) ==
    /\ run[r].pc = "claim"
    /\ claimed' = [claimed EXCEPT ![r] = lock]
    /\ lock' = NoLock
    /\ displaced' = (displaced \/ (lock # NoLock /\ lock.owner # run[r].seen))
    /\ Go(r, IF lock = NoLock THEN "create" ELSE "recheck")
    /\ UNCHANGED <<record, head, starts>>

IsInspected(r) == ~claimed[r].torn /\ claimed[r].owner = run[r].seen

(* What was moved is discarded when it is the lock that was inspected, else *)
(* put back unless another lock stands there now.                           *)
Recheck(r) ==
    /\ run[r].pc = "recheck"
    /\ IF IsInspected(r)
       THEN /\ claimed' = [claimed EXCEPT ![r] = NoLock]
            /\ Go(r, "create") /\ UNCHANGED lock
       ELSE /\ IF lock = NoLock
               THEN lock' = claimed[r] /\ claimed' = [claimed EXCEPT ![r] = NoLock]
               ELSE UNCHANGED <<lock, claimed>>
            /\ Quit(r, 2)
    /\ UNCHANGED <<record, head, starts, displaced>>

(* The exclusive create decides between runners; the text follows it.       *)
Create(r) ==
    /\ run[r].pc = "create"
    /\ IF lock = NoLock
       THEN lock' = [owner |-> Token(r), torn |-> TRUE] /\ Go(r, "sign")
       ELSE Quit(r, 2) /\ UNCHANGED lock
    /\ UNCHANGED <<claimed, record, head, starts, displaced>>

Sign(r) ==
    LET signed(l) == IF l # NoLock /\ l.owner = Token(r) THEN [l EXCEPT !.torn = FALSE] ELSE l
    IN  /\ run[r].pc = "sign"
        /\ lock' = signed(lock)
        /\ claimed' = [b \in Runner |-> signed(claimed[b])]
        /\ Go(r, "task")
        /\ UNCHANGED <<record, head, starts, displaced>>

(* The text is compared before the unlink, in two calls.                    *)
ReadOwnLock(r) ==
    /\ run[r].pc = "release"
    /\ Go(r, IF lock # NoLock /\ ~lock.torn /\ lock.owner = Token(r) THEN "unlink" ELSE "stopped")
    /\ UNCHANGED <<lock, claimed, record, head, starts, displaced>>

Unlink(r) ==
    /\ run[r].pc = "unlink"
    /\ lock' = NoLock
    /\ Go(r, "stopped")
    /\ UNCHANGED <<claimed, record, head, starts, displaced>>

(* ----------------------------- the schedule ----------------------------- *)

Recorded(t) == {p \in 1..Pairs : record[<<t, p>>] # Absent}

(* Every record of the task must be this experiment's and agree on one      *)
(* source commit, which then pins the task; the first missing pair is next. *)
Resumable(r, t) ==
    \A p, q \in Recorded(t) : /\ record[<<t, p>>].plan = run[r].plan
                              /\ record[<<t, p>>].base = record[<<t, q>>].base

TakeTask(r) ==
    LET t == TaskOrder[run[r].task]
    IN  /\ run[r].pc = "task"
        /\ IF run[r].task > Len(TaskOrder) THEN Release(r, 0)
           ELSE IF ~Resumable(r, t) THEN Release(r, 2)
           ELSE run' = [run EXCEPT ![r].pc = "pair",
                            ![r].base = IF Recorded(t) = {} THEN 0
                                        ELSE record[<<t, CHOOSE p \in Recorded(t) : TRUE>>].base,
                            ![r].done = Recorded(t)]
        /\ UNCHANGED <<lock, claimed, record, head, starts, displaced>>

Missing(r) == (1..Pairs) \ run[r].done
NextPair(r) == CHOOSE p \in Missing(r) : \A q \in Missing(r) : p <= q

TakePair(r) ==
    /\ run[r].pc = "pair"
    /\ run' = IF Missing(r) = {} THEN [run EXCEPT ![r].pc = "task", ![r].task = @ + 1]
              ELSE [run EXCEPT ![r].pc = "clone", ![r].arm = "ungated"]
    /\ UNCHANGED <<lock, claimed, record, head, starts, displaced>>

(* ------------------------------- an arm --------------------------------- *)

(* A fresh clone at the pinned commit, or at what the base names now, which *)
(* pins it.  A clone or a wiring that fails ends the command.               *)
Clone(r) ==
    /\ run[r].pc = "clone"
    /\ \/ run' = [run EXCEPT ![r].pc = "agent", ![r].tree = 0,
                             ![r].base = IF @ = 0 THEN head ELSE @]
       \/ Release(r, 2)
    /\ UNCHANGED <<lock, claimed, record, head, starts, displaced>>

(* The agent ran; the supervisor owned its processes to the end, or not.    *)
AgentEnds(r) ==
    /\ run[r].pc = "agent"
    /\ \E owned \in BOOLEAN :
        run' = [run EXCEPT ![r].pc = "verify", ![r].owned = owned, ![r].at = run[r].tree]
    /\ UNCHANGED <<lock, claimed, record, head, starts, displaced>>

Verify(r) ==
    /\ run[r].pc = "verify"
    /\ run' = [run EXCEPT ![r].pc = "check", ![r].verified = run[r].tree]
    /\ UNCHANGED <<lock, claimed, record, head, starts, displaced>>

Check(r) ==
    /\ run[r].pc = "check"
    /\ run' = [run EXCEPT ![r].pc = "conclude", ![r].checked = run[r].tree]
    /\ UNCHANGED <<lock, claimed, record, head, starts, displaced>>

(* Something left behind, or the operator, writes while the tree is judged. *)
Straggle(r) ==
    /\ run[r].pc \in {"verify", "check", "conclude"} /\ run[r].tree < MaxWrites
    /\ run' = [run EXCEPT ![r].tree = @ + 1]
    /\ UNCHANGED <<lock, claimed, record, head, starts, displaced>>

(* Mutant: the tree is not fingerprinted again.                             *)
MeasuresBlindly(r, judged) ==
    /\ run[r].owned \/ run[r].arm = "gated"
    /\ judged

(* Not measured when the control arm's processes were not owned, when a     *)
(* judge gave no document, or when the tree's fingerprint moved meanwhile.  *)
Measures(r, judged) ==
    /\ run[r].owned \/ run[r].arm = "gated"
    /\ judged
    /\ run[r].tree = run[r].at

Stood(r) == run[r].verified = run[r].at /\ run[r].checked = run[r].at

Conclude(r) ==
    /\ run[r].pc = "conclude"
    /\ \E judged \in BOOLEAN :
        LET result == IF ~Measures(r, judged) THEN "unmeasured"
                      ELSE IF Stood(r) THEN "measured" ELSE "moved"
        IN  run' = [run EXCEPT ![r].arms[run[r].arm] = result,
                        ![r].arm = "gated",
                        ![r].at = 0, ![r].verified = 0, ![r].checked = 0, ![r].tree = 0, ![r].owned = TRUE,
                        ![r].pc = IF run[r].arm = "ungated" THEN "clone" ELSE "store"]
    /\ UNCHANGED <<lock, claimed, record, head, starts, displaced>>

(* A pair is measured when both of its arms are.                            *)
PairOf(arms) == CASE \E a \in Arm : arms[a] = "moved" -> "moved"
                  [] \A a \in Arm : arms[a] = "measured" -> "measured"
                  [] OTHER -> "unmeasured"

(* The record is written beside its name and renamed over it.               *)
Store(r) ==
    LET p == NextPair(r)
    IN  /\ run[r].pc = "store"
        /\ record' = [record EXCEPT ![<<TaskOrder[run[r].task], p>>] =
                        [plan |-> run[r].plan, base |-> run[r].base, pair |-> PairOf(run[r].arms)]]
        /\ run' = [run EXCEPT ![r].pc = "pair", ![r].done = @ \cup {p},
                              ![r].arms = [a \in Arm |-> "none"]]
        /\ UNCHANGED <<lock, claimed, head, starts, displaced>>

(* --------------------------- the environment ---------------------------- *)

(* The task repository's branch moves on.                                   *)
SourceMoves ==
    /\ head < MaxHead
    /\ head' = head + 1
    /\ UNCHANGED <<lock, claimed, record, run, starts, displaced>>

(* A runner is killed: no finally runs, its lock and its claim stay.        *)
CrashRunner(r) ==
    /\ run[r].pc \notin Ended
    /\ run' = [run EXCEPT ![r] = [Fresh EXCEPT !.pc = "crashed"]]
    /\ UNCHANGED <<lock, claimed, record, head, starts, displaced>>

RunnerStep(r) ==
    \/ Inspect(r) \/ Claim(r) \/ Recheck(r) \/ Create(r) \/ Sign(r)
    \/ TakeTask(r) \/ TakePair(r) \/ Clone(r) \/ AgentEnds(r) \/ Verify(r) \/ Check(r)
    \/ Conclude(r) \/ Store(r) \/ ReadOwnLock(r) \/ Unlink(r)

LedgerNext ==
    \/ \E r \in Runner : Start(r) \/ RunnerStep(r) \/ Straggle(r) \/ CrashRunner(r)
    \/ SourceMoves

(* ------------------------------ properties ------------------------------ *)

(* The lock, the claims, the records and the runners have their shapes.     *)
LedgerTypeOK ==
    LET Lock == {NoLock} \cup [owner : [runner : Runner, start : Nat], torn : BOOLEAN]
    IN  /\ lock \in Lock
        /\ claimed \in [Runner -> Lock]
        /\ \A s \in Slot : record[s] # Absent => record[s].plan \in Plan /\ record[s].base \in 1..MaxHead
        /\ \A r \in Runner : run[r].code \in {0, 2, 9} /\ run[r].task \in 1..(Len(TaskOrder) + 1)

(* "Serialize all writers for one research ledger": two runners write at    *)
(* once only after a --break-lock renamed away a lock that had been taken   *)
(* since it looked.                                                         *)
OneWriter == displaced \/ \A r, q \in Runner : Writing(r) /\ Writing(q) => r = q

(* Whatever was interrupted, resumed or moved in between, the records of a  *)
(* task come from one source commit and one experiment, so the ledger can   *)
(* be summarised.                                                           *)
OneSource ==
    displaced \/ \A s, u \in Slot :
        record[s] # Absent /\ record[u] # Absent =>
            record[s].plan = record[u].plan /\ (s[1] = u[1] => record[s].base = record[u].base)

(* A pair that was recorded is never run again over its record.             *)
RecordStays == displaced' \/ \A s \in Slot : record[s] # Absent => record'[s] = record[s]
RecordKept == [][RecordStays]_ledgerVars

(* Exit 0 means the whole plan is on disk, as this experiment.              *)
ExitZeroIsComplete ==
    \A r \in Runner : run[r].code = 0 /\ ~displaced =>
        \A s \in Slot : record[s] # Absent /\ record[s].plan = run[r].plan

(* A measured arm was judged, by the verifier and by the check, on the tree *)
(* the agent left.                                                          *)
MeasuredStood == \A s \in Slot : record[s].pair # "moved"
=============================================================================
