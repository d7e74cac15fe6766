-------------------------- MODULE ContainerStage --------------------------
(* The isolated verifier backend: container authority is prepared once,     *)
(* then each stage runs one container, asks the daemon how it ended and     *)
(* removes it (src/verifier-backend.ts).  Bounds: MaxStages stages.         *)
EXTENDS Integers, FiniteSets

CONSTANTS MaxStages
ASSUME StagesAssumption == MaxStages \in Nat

VARIABLES
    engine,      \* the docker executable: its bytes, and whether the caller could replace it
    daemon,      \* the daemon answers
    backend,     \* what prepareVerifierBackend resolved, frozen for the run
    box,         \* the containers: stage -> state the daemon keeps
    stage,       \* the stage in progress
    verdict      \* stage -> what was reported
containerVars == <<engine, daemon, backend, box, stage, verdict>>

Stage == 1..MaxStages
Code2 == {"zero", "nonzero"}

(* There: kept by the daemon.  `by` says which engine bytes created it.     *)
NoBox == [status |-> "none", code |-> "null", oom |-> FALSE, error |-> FALSE, by |-> "none"]
NoVerdict == [exit |-> "null", failure |-> "none"]

ContainerInit ==
    /\ engine \in [bytes : {"genuine", "other"}, replaceable : BOOLEAN]
    /\ engine.bytes = "genuine"
    /\ daemon = TRUE
    /\ backend = [available |-> FALSE, prepared |-> FALSE, sha |-> "none"]
    /\ box = [s \in Stage |-> NoBox]
    /\ stage = [n |-> 0, pc |-> "idle"]
    /\ verdict = [s \in Stage |-> NoVerdict]

(* A digest-pinned image on the daemon of the fixed socket, declaring no    *)
(* volumes, through an executable the caller cannot replace; nothing else   *)
(* makes container authority, and nothing falls back to the local backend.  *)
Prepare(pinned, forcedOther, found, inspected, volumes) ==
    /\ ~backend.prepared
    /\ backend' = [prepared |-> TRUE, sha |-> engine.bytes,
                   available |-> /\ pinned /\ ~forcedOther
                                 /\ found /\ ~engine.replaceable
                                 /\ daemon /\ inspected /\ ~volumes]
    /\ UNCHANGED <<engine, daemon, box, stage, verdict>>

EngineStable == ~engine.replaceable /\ engine.bytes = backend.sha

(* containerStateResult: only the daemon's account of an exited container   *)
(* is an exit; memory exhaustion is what it says it is.                     *)
StateResult(seen) ==
    CASE seen.oom -> [exit |-> "null", failure |-> "resource"]
      [] ~seen.oom /\ (seen.status # "exited" \/ seen.error) -> [exit |-> "null", failure |-> "backend"]
      [] OTHER -> [exit |-> seen.code, failure |-> "none"]

Fails(why) == /\ verdict' = [verdict EXCEPT ![stage.n] = [exit |-> "null", failure |-> why]]
              /\ stage' = [stage EXCEPT !.pc = "idle"]

Enter ==
    /\ backend.prepared /\ stage.pc = "idle" /\ stage.n < MaxStages
    /\ LET n == stage.n + 1
       IN  IF ~backend.available \/ ~EngineStable
           THEN /\ stage' = [n |-> n, pc |-> "idle"]
                /\ verdict' = [verdict EXCEPT ![n] = [exit |-> "null", failure |-> "backend"]]
           ELSE stage' = [n |-> n, pc |-> "run"] /\ UNCHANGED verdict
    /\ UNCHANGED <<engine, daemon, backend, box>>

(* docker run: the client starts a container, or fails before it has one.   *)
RunClient ==
    /\ stage.pc = "run"
    /\ \/ /\ daemon
          /\ box' = [box EXCEPT ![stage.n] = [NoBox EXCEPT !.status = "running", !.by = engine.bytes]]
       \/ UNCHANGED box
    /\ stage' = [stage EXCEPT !.pc = "wait"]
    /\ UNCHANGED <<engine, daemon, backend, verdict>>

(* rm -f, by the engine that was prepared or not at all; best effort.       *)
Cleanup ==
    LET n == stage.n
    IN  \/ /\ EngineStable /\ daemon
           /\ box' = [box EXCEPT ![n] = NoBox]
        \/ /\ ~(EngineStable /\ daemon)
           /\ UNCHANGED box

(* Mutant: a client over budget is killed and its container forgotten.      *)
ClientFailsLeaving(why) ==
    /\ stage.pc = "wait"
    /\ UNCHANGED box /\ Fails(why)
    /\ UNCHANGED <<engine, daemon, backend>>

(* The client's process: over budget, an error or a signal, or a status,    *)
(* which is not taken for the suite's.                                      *)
ClientFails(why) ==
    /\ stage.pc = "wait"
    /\ Cleanup /\ Fails(why)
    /\ UNCHANGED <<engine, daemon, backend>>

ClientReturns ==
    /\ stage.pc = "wait" /\ box[stage.n].status # "running"
    /\ stage' = [stage EXCEPT !.pc = "inspect"]
    /\ UNCHANGED <<engine, daemon, backend, box, verdict>>

(* The client leaves although the container runs on (a lost connection).    *)
ClientLeaves ==
    /\ stage.pc = "wait" /\ box[stage.n].status = "running"
    /\ stage' = [stage EXCEPT !.pc = "inspect"]
    /\ UNCHANGED <<engine, daemon, backend, box, verdict>>

Inspect ==
    /\ stage.pc = "inspect"
    /\ IF ~EngineStable
       THEN Fails("backend") /\ UNCHANGED <<box>>
       ELSE /\ verdict' = [verdict EXCEPT ![stage.n] = StateResult(IF daemon THEN box[stage.n] ELSE NoBox)]
            /\ stage' = [stage EXCEPT !.pc = "idle"]
            /\ Cleanup
    /\ UNCHANGED <<engine, daemon, backend>>

(* ------------------------- engine, daemon, suite ------------------------ *)

BoxEnds(n, ending) ==
    /\ box[n].status = "running"
    /\ box' = [box EXCEPT ![n] = [ending EXCEPT !.by = box[n].by]]
    /\ UNCHANGED <<engine, daemon, backend, stage, verdict>>

Endings == {[NoBox EXCEPT !.status = "exited", !.code = c] : c \in Code2}
              \cup {[NoBox EXCEPT !.status = "exited", !.code = "nonzero", !.oom = TRUE],
                    [NoBox EXCEPT !.status = "exited", !.code = "nonzero", !.error = TRUE],
                    [NoBox EXCEPT !.status = "dead"]}

EngineReplaced ==
    /\ \/ engine' = [engine EXCEPT !.bytes = IF @ = "genuine" THEN "other" ELSE "genuine"]
       \/ engine' = [engine EXCEPT !.replaceable = ~@]
    /\ UNCHANGED <<daemon, backend, box, stage, verdict>>

DaemonFlips ==
    /\ daemon' = ~daemon
    /\ UNCHANGED <<engine, backend, box, stage, verdict>>

ContainerNext ==
    \/ \E pinned, forcedOther, found, inspected, volumes \in BOOLEAN :
          Prepare(pinned, forcedOther, found, inspected, volumes)
    \/ Enter \/ RunClient \/ ClientReturns \/ ClientLeaves \/ Inspect
    \/ \E why \in {"budget", "backend"} : ClientFails(why)
    \/ \E n \in Stage, e \in Endings : BoxEnds(n, e)
    \/ EngineReplaced \/ DaemonFlips

(* ------------------------------ properties ------------------------------ *)

(* TypeOK part.                                                             *)
ContainerTypeOK ==
    /\ stage.n \in 0..MaxStages /\ stage.pc \in {"idle", "run", "wait", "inspect"}
    /\ \A s \in Stage : verdict[s].exit # "null" => verdict[s].failure = "none"

(* An exit a stage reports is one the suite came to: the daemon kept a      *)
(* container that exited by itself with it, neither out of memory nor on a  *)
(* runtime error, whatever status the client returned with (#390).          *)
ExitIsBoxes == [][\A s \in Stage : verdict'[s].exit # verdict[s].exit =>
                    /\ box[s].status = "exited" /\ ~box[s].oom /\ ~box[s].error
                    /\ box[s].code = verdict'[s].exit]_containerVars

(* A stage that ends, however its client ended, leaves no container behind  *)
(* while the prepared engine and the daemon are there to remove it.         *)
LeavesNoBox == [][(stage.pc # "idle" /\ stage'.pc = "idle" /\ EngineStable /\ daemon)
                    => box'[stage.n].status = "none"]_containerVars

(* Only prepared, unchanged authority reports an exit: a stage whose        *)
(* preparation was refused never does.                                      *)
RefusedNeverRuns == ~backend.available => \A s \in Stage : verdict[s].exit = "null" /\ box[s].status = "none"
=============================================================================
