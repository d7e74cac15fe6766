---------------------------- MODULE MCBackground ----------------------------
(* What runs beside the hooks, for TLC: the observer and the readers of its *)
(* log, the hook service and its clients, the snapshot cache; and the       *)
(* qualification of a runtime, hosted or probed.  None reads another's      *)
(* state: a behaviour moves one of them.                                    *)
EXTENDS Observer, HookService, SnapshotCache, HostedSession, RuntimeProbe, TLC

VARIABLE side
all == <<vars, serviceVars, cacheVars, hostedVars, probeVars, side>>

InitAll == /\ Init /\ ServiceInit /\ CacheInit /\ HostedInit /\ ProbeInit
           /\ side \in {"watch", "service", "cache", "hosted", "probe"}
           /\ side # "hosted" => scenario = "stop"
           /\ side # "probe" => flavour = "codex" /\ ready.self /\ ready.gate
           /\ side # "watch" => dirs = {} /\ use = "stop"
           /\ side # "cache" => file = CHOOSE c \in Content : TRUE
NextAll == /\ UNCHANGED side
           /\ \/ side = "watch" /\ Next /\ UNCHANGED <<serviceVars, cacheVars, hostedVars, probeVars>>
              \/ side = "service" /\ ServiceNext /\ UNCHANGED <<vars, cacheVars, hostedVars, probeVars>>
              \/ side = "cache" /\ CacheNext /\ UNCHANGED <<vars, serviceVars, hostedVars, probeVars>>
              \/ side = "hosted" /\ HostedNext /\ UNCHANGED <<vars, serviceVars, cacheVars, probeVars>>
              \/ side = "probe" /\ ProbeNext /\ UNCHANGED <<vars, serviceVars, cacheVars, hostedVars>>
SpecAll == InitAll /\ [][NextAll]_all /\ ServiceFairness

ProbedMutations == <<{"a", "b"}>>
ProbedTransports == <<"crash">>
(* What a case of a probe left standing is a failure, a pass is earned, and *)
(* only codex can be FULL (codex-probe.mjs, copilot-probe.mjs).             *)
ProbeSound == LandedIsFailure /\ PassIsEarned

MCDirOf == [p \in Path |-> CHOOSE d \in Dir : TRUE]

\* Whatever the service does with a request, at most one evaluator answers it,
\* no allow comes from nobody's verdict, and nothing is evaluated for a client
\* that left (hook-client.ts, hook-service.ts).
ServedOnce == ServiceTypeOK /\ CacheTypeOK /\ OneEvaluation /\ AllowIsVerdict /\ NobodyServedLate
(* What the other scenarios of a qualification ended as, and what a session  *)
(* may propose.                                                              *)
Proposal(k, b, j) == [kind |-> k, bind |-> b, judged |-> j]
Proposals ==
    [s \in Scenario |->
        CASE s = "shell" -> {Proposal("shell", "target", "block"), Proposal("shell", "heuristic", "block"),
                             Proposal("write", "target", "block"), Proposal("shell", "none", "allow")}
          [] s = "write" -> {Proposal("write", "target", "block"), Proposal("write", "target", "unavailable"),
                             Proposal("write", "target", "unsupported"), Proposal("shell", "target", "block")}
          [] OTHER -> {Proposal("shell", "target", "block"), Proposal("shell", "none", "allow")}]
Ended(semantic, met) == [semantic |-> semantic, met |-> met]
AllGood == [s \in Scenario |->
               IF s \in {"shell", "write", "stop"} THEN Ended("PROVEN", TRUE)
               ELSE IF s = "timeout" THEN Ended("INCONCLUSIVE", TRUE) ELSE Ended("FAIL-CLOSED", TRUE)]
Companies ==
    {AllGood, [AllGood EXCEPT !["timeout"] = Ended("INCONCLUSIVE", FALSE)],
     [AllGood EXCEPT !["callback"] = Ended("FAIL-OPEN", TRUE), !["timeout"] = Ended("absent", FALSE)],
     [AllGood EXCEPT !["identity"] = Ended("absent", FALSE), !["callback"] = Ended("absent", FALSE)]}
AllMeasured == [versions |-> TRUE, model |-> "exact", tools |-> "configured", integrity |-> TRUE, tree |-> "clean",
                network |-> "measured", knob |-> FALSE]
Measurements == {AllMeasured, [AllMeasured EXCEPT !.network = "declared"]}
=============================================================================
