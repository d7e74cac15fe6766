---------------------------- MODULE Onboarding ----------------------------
(* `tamperward onboard` over the wiring: what it may write, what doctor then *)
(* says of the repository, and what is claimed from that                     *)
(* (cli/onboard.ts, cli/doctor.ts, cli/status.ts, capability-readiness.ts).  *)
EXTENDS Wiring

VARIABLES
    ob,        \* the onboarding run
    consented, \* history: commands a person accepted or named
    guarded    \* GitHub holds the branch as doctor requires
onboardVars == <<ob, consented, guarded>>
allOnboard == <<wiringVars, onboardVars>>

-----------------------------------------------------------------------------
(* doctor.                                                                   *)
WiringState(status, authority) ==
    CASE status = "ok" -> "OK"
      [] status = "skip" -> "WARN"
      [] status \in {"create", "update", "error"} -> IF authority THEN "BROKEN" ELSE "WARN"
PolicyAtRest == IF Stands(files["policy"]) THEN files["policy"].is ELSE BaselineFile
PolicyLoads == ~Refused(files["policy"]) /\ PolicyAtRest.loads
Has(i) == files[i].kind = "file"
PinsInFiles ==
    (IF Has("agent") /\ files["agent"].is.form # "broken"
     THEN {e.pin : e \in GateEntries(files["agent"].is.pre) \cup GateEntries(files["agent"].is.stop)} \ {0} ELSE {})
    \cup (IF Has("pre-commit") /\ FirstOf(files["pre-commit"].is, {"now"}) # 0 THEN {Current} ELSE {})
    \cup (IF Has("pre-commit") /\ FirstOf(files["pre-commit"].is, {"old"}) # 0 THEN {Current - 1} ELSE {})
BinaryVersion ==
    IF \E p \in PinsInFiles : p < Current THEN "BROKEN"
    ELSE IF PinsInFiles = {Current} THEN "OK" ELSE "WARN"
WorkflowPermissions == IF Has("ci") /\ ~files["ci"].is.body.grants THEN "OK" ELSE "BROKEN"
VerifierState ==
    IF PolicyAtRest.command = None THEN "BROKEN"
    ELSE IF PolicyAtRest.backend = "container" THEN "OK" ELSE "WARN"
LifecyclePlatform == IF repo.linux THEN "OK" ELSE "BROKEN"
LocalPosture ==
    LET rows == PlanInit(FALSE)
        container == VerifierState # "BROKEN" /\ PolicyAtRest.backend = "container" IN
    [id \in {"policy", "claude-hooks", "pre-commit", "ci-wiring", "codeowners", "workflow-permissions",
             "binary-version", "verifier", "platform"} \cup (IF container THEN {"container-preflight"} ELSE {}) |->
        CASE id = "policy" -> "OK"
          [] id = "claude-hooks" -> WiringState(rows["agent"].status, TRUE)
          [] id = "pre-commit" -> WiringState(rows["pre-commit"].status, FALSE)
          [] id = "ci-wiring" -> WiringState(rows["ci"].status, TRUE)
          [] id = "codeowners" -> WiringState(rows["codeowners"].status, TRUE)
          [] id = "workflow-permissions" -> WorkflowPermissions
          [] id = "binary-version" -> BinaryVersion
          [] id = "verifier" -> VerifierState
          [] id = "platform" -> LifecyclePlatform
          [] id = "container-preflight" -> IF repo.docker THEN "OK" ELSE "BROKEN"]

With(checks, id, state) == [i \in DOMAIN checks \cup {id} |-> IF i = id THEN state ELSE checks[i]]
Failed(id, checks) == [failed |-> id, checks |-> With(checks, id, "BROKEN")]
VerifyJobFits == files["ci"].is.body.verify /\ files["ci"].is.body.minutes >= PolicyAtRest.minutes
Diagnose(github) ==
    IF ~PolicyLoads THEN Failed("policy", << >>)
    ELSE IF PolicyAtRest.command = None THEN Failed("verifier", LocalPosture)
    ELSE IF ~Has("ci") \/ ~VerifyJobFits THEN Failed("ci-verifier", LocalPosture)
    ELSE IF github /\ ~guarded THEN Failed("github-authority", LocalPosture)
    ELSE LET found == With(With(LocalPosture, "ci-verifier", "OK"), "observer", IF repo.watched THEN "OK" ELSE "WARN") IN
         [failed |-> None, checks |-> IF github THEN With(found, "github-authority", "OK") ELSE found]

Says(checks, id, state) == id \in DOMAIN checks /\ checks[id] = state
SaysAny(checks, ids, state) == \E id \in ids : Says(checks, id, state)
PostureOf(d) ==
    IF d.failed # None THEN "INCOMPLETE"
    ELSE IF SaysAny(d.checks, DOMAIN d.checks \ {"platform"}, "BROKEN") THEN "BROKEN"
    ELSE IF SaysAny(d.checks, DOMAIN d.checks, "WARN") \/ Says(d.checks, "platform", "BROKEN") THEN "READY WITH WARNINGS"
    ELSE "READY"

(* What the checks make available (capability-readiness.ts) and the lanes    *)
(* status shows (cli/status.ts).                                             *)
CiChecks == {"ci-verifier", "ci-wiring", "codeowners", "workflow-permissions", "github-authority"}
Capability(checks, name) ==
    LET blocked == SaysAny(checks, {"policy", "doctor", "policy-floor"}, "BROKEN")
        configured == "verifier" \in DOMAIN checks /\ ~Says(checks, "verifier", "BROKEN")
        grade(no, yes) == IF no THEN "BLOCKED" ELSE IF yes THEN "AVAILABLE" ELSE "UNVERIFIED" IN
    CASE name = "static-check" -> grade(blocked, Says(checks, "policy", "OK"))
      [] name = "local-verify" ->
           grade(blocked \/ Says(checks, "verifier", "BROKEN"), configured /\ PolicyAtRest.backend = "local")
      [] name = "container-verify" ->
           grade(blocked \/ SaysAny(checks, {"verifier", "container-preflight"}, "BROKEN"),
                 configured /\ PolicyAtRest.backend = "container" /\ Says(checks, "container-preflight", "OK"))
      [] name = "run-lifecycle" -> grade(~repo.linux \/ Says(checks, "platform", "BROKEN"), Says(checks, "platform", "OK"))
      [] name = "protected-ci" ->
           grade(blocked \/ SaysAny(checks, CiChecks, "BROKEN"), \A id \in CiChecks : Says(checks, id, "OK"))
AuthorityLane(checks) ==
    IF SaysAny(checks, DOMAIN checks, "BROKEN") THEN "BROKEN"
    ELSE IF SaysAny(checks, DOMAIN checks, "WARN") THEN "PARTIAL" ELSE "ACTIVE"
InterventionLane(checks) ==
    CASE Says(checks, "claude-hooks", "OK") -> "ACTIVE"
      [] Says(checks, "claude-hooks", "WARN") -> "PARTIAL"
      [] Says(checks, "claude-hooks", "BROKEN") -> "INACTIVE"
      [] "claude-hooks" \notin DOMAIN checks -> "UNKNOWN"
RuntimeAgent(checks) == IF InterventionLane(checks) \in {"ACTIVE", "PARTIAL"} THEN "claude-code" ELSE "none"

-----------------------------------------------------------------------------
(* onboard.                                                                  *)
Asks == {"environment", "local", "choosing", "verifying", "github"}
OnboardInit ==
    /\ WiringInit
    /\ ob \in [at : {"start"}, mode : {"asks", "scripted", "deaf"}, flag : Command \cup {None},
               command : {None}, before : {Nothing}, declined : {FALSE}, verdict : {None},
               github : {FALSE}, report : {None}, code : {None}, fresh : {TRUE}]
    /\ consented = {} /\ guarded \in BOOLEAN

Moves(at) == ob' = [ob EXCEPT !.at = at]
Ends(code) == ob' = [ob EXCEPT !.at = "ended", !.code = code]
Scripted == ob.mode = "scripted"

(* Only a terminal or --yes, and only at the repository's root.              *)
EnterOnboarding ==
    /\ ob.at = "start"
    /\ IF ob.mode = "deaf" \/ ~repo.root THEN Ends(2) ELSE Moves("environment")
    /\ UNCHANGED <<wiringVars, consented, guarded>>
Environment ==
    /\ ob.at = "environment"
    /\ \/ Moves("local")
       \/ repo.head /\ repo.dirty /\ ~Scripted /\ Ends(2)
    /\ UNCHANGED <<wiringVars, consented, guarded>>
(* init, when there is something to apply and nobody says no.                *)
ApplySetup ==
    /\ ob.at = "local" /\ \E i \in Planned : PlanInit(FALSE)[i].writes # None
    /\ RunInit(FALSE) /\ Moves("applying") /\ UNCHANGED <<consented, guarded>>
LeaveSetup ==
    /\ ob.at = "local"
    /\ LET pending == \E i \in Planned : PlanInit(FALSE)[i].writes # None IN
       /\ ~pending \/ ~Scripted
       /\ ob' = [ob EXCEPT !.at = "configured", !.declined = pending]
    /\ UNCHANGED <<wiringVars, consented, guarded>>
SetupApplied == ob.at = "applying" /\ ~Applying /\ Moves("configured") /\ UNCHANGED <<wiringVars, consented, guarded>>
Configured ==
    /\ ob.at = "configured"
    /\ ob' = IF PolicyLoads /\ PolicyAtRest.command # None
             THEN [ob EXCEPT !.at = "verifying", !.command = PolicyAtRest.command]
             ELSE [ob EXCEPT !.at = IF ob.declined THEN "verifying" ELSE "choosing"]
    /\ UNCHANGED <<wiringVars, consented, guarded>>

(* A person accepts a detected command or types one; a script names its own. *)
CommandChoices == IF Scripted THEN {ob.flag} ELSE Command \cup {None}
ChooseCommand(c) ==
    /\ ob.at = "choosing" /\ c \in CommandChoices
    /\ consented' = IF c = ob.flag \/ ~Scripted THEN consented \cup {c} ELSE consented
    /\ ob' = IF c = None THEN [ob EXCEPT !.at = "verifying"] ELSE [ob EXCEPT !.at = "writing", !.command = c]
    /\ UNCHANGED <<wiringVars, guarded>>
(* The command goes into the policy that stands there; a link or a document  *)
(* that does not parse is refused.                                           *)
WriteVerifyCommand ==
    /\ ob.at = "writing"
    /\ IF Refused(files["policy"]) THEN ob' = [ob EXCEPT !.at = "verifying", !.command = None] /\ UNCHANGED files
       ELSE /\ files' = [files EXCEPT !["policy"] = File([PolicyAtRest EXCEPT !.command = ob.command])]
            /\ ob' = [ob EXCEPT !.at = "written", !.before = files["policy"]]
    /\ UNCHANGED <<repo, plan, todo, force, seen, moved, outside, changes, consented, guarded>>
(* What does not load is put back as it was.                                 *)
LoadBack ==
    /\ ob.at = "written"
    /\ IF PolicyLoads /\ PolicyAtRest.command = ob.command
       THEN Moves("verifying") /\ UNCHANGED files
       ELSE files' = [files EXCEPT !["policy"] = ob.before] /\ ob' = [ob EXCEPT !.at = "verifying", !.command = None]
    /\ UNCHANGED <<repo, plan, todo, force, seen, moved, outside, changes, consented, guarded>>
FirstVerification(verdict) ==
    /\ ob.at = "verifying"
    /\ verdict # None => ob.command # None /\ repo.head
    /\ ob' = [ob EXCEPT !.at = "github", !.verdict = verdict]
    /\ UNCHANGED <<wiringVars, consented, guarded>>
AskGithub(checked) ==
    /\ ob.at = "github" /\ (checked => repo.origin)
    /\ ob' = [ob EXCEPT !.at = "summary", !.github = checked]
    /\ UNCHANGED <<wiringVars, consented, guarded>>
Summarise ==
    /\ ob.at = "summary"
    /\ LET d == Diagnose(ob.github) IN
       ob' = [ob EXCEPT !.at = "ended", !.report = d,
                        !.code = IF PostureOf(d) \in {"READY", "READY WITH WARNINGS"} THEN 0 ELSE 1]
    /\ UNCHANGED <<wiringVars, consented, guarded>>
(* The input closes while a question is open.                                *)
Cancelled == ob.at \in Asks /\ ob.mode = "asks" /\ Ends(2) /\ UNCHANGED <<wiringVars, consented, guarded>>

ApplyRow == ob.at = "applying" /\ Apply /\ UNCHANGED onboardVars
Disturb(i, f) == ob.at # "written" /\ ob.at # "start" /\ Change(i, f) /\ ob' = [ob EXCEPT !.fresh = ob.at # "ended"] /\ UNCHANGED <<consented, guarded>>

OnboardNext ==
    \/ EnterOnboarding \/ Environment \/ ApplySetup \/ LeaveSetup \/ SetupApplied \/ Configured
    \/ \E c \in Command \cup {None} : ChooseCommand(c)
    \/ WriteVerifyCommand \/ LoadBack
    \/ \E verdict \in {None, "VERIFIED", "SUITE_RED", "CANNOT_VERIFY"} : FirstVerification(verdict)
    \/ \E checked \in BOOLEAN : AskGithub(checked)
    \/ Summarise \/ Cancelled \/ ApplyRow
    \/ \E i \in Item : \E f \in Edits[i] : Disturb(i, f)

-----------------------------------------------------------------------------
(* Exit 0 and the words of the report are about a repository that is wired:  *)
(* the hooks would run, CI would verify with the named command, owners stand *)
(* on the gate's own files, and GitHub was asked when it is named.           *)
ReadyIsWired ==
    ob.report # None /\ ob.fresh =>
        LET checks == ob.report.checks  at(i) == Has(i) /\ InForce(i, files[i]) IN
        /\ ob.code = 0 => /\ at("agent") /\ at("codeowners") /\ PolicyLoads /\ PolicyAtRest.command # None
                           /\ Has("ci") /\ VerifyJobFits /\ ~files["ci"].is.body.grants
        /\ RuntimeAgent(checks) = "claude-code" => at("agent")
        /\ AuthorityLane(checks) = "ACTIVE" => at("pre-commit") /\ repo.linux
        /\ Capability(checks, "protected-ci") = "AVAILABLE" =>
              guarded /\ ob.github /\ VerifyJobFits /\ ~files["ci"].is.body.grants /\ at("codeowners")
        /\ Capability(checks, "container-verify") = "AVAILABLE" => repo.docker
        /\ Capability(checks, "local-verify") = "AVAILABLE" => PolicyLoads /\ PolicyAtRest.command # None
        /\ \A c \in {"static-check", "local-verify", "container-verify", "protected-ci"} :
              ~PolicyLoads => Capability(checks, c) # "AVAILABLE"

(* A suite command reaches the policy only if a person accepted it or named  *)
(* it, and a policy that would not load is put back (onboard.ts: "never      *)
(* under --yes").                                                            *)
CommandNamed == (ob'.at # ob.at /\ files'["policy"] # files["policy"] /\ Has("policy")') =>
    \/ files'["policy"].is.command \in consented
    \/ files'["policy"] = ob.before
===========================================================================
