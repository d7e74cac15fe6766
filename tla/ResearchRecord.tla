-------------------------- MODULE ResearchRecord --------------------------
(* What `tamperward research` writes about a trajectory, what the reader of *)
(* a ledger accepts, how a ledger is summarised and what a bundle proves    *)
(* (src/research/{derive,record,summarize,bundle,report}.ts and the         *)
(* observation half of run.ts).  A document is written, perhaps edited on   *)
(* its way, and read: `desk` is the document in hand.                       *)
EXTENDS Integers, FiniteSets

CONSTANTS Task, Experiment, Commit, PairNumber   \* what identifies a record

\* An experiment is the digest of a manifest.
ASSUME DeskAssumption == "none" \notin Experiment

VARIABLE desk
deskVars == <<desk>>

Exit == {"zero", "nonzero", "null"}
VerifyVerdict == {"VERIFIED", "MASKED_FAILURE", "SUITE_RED", "BUDGET_EXCEEDED", "CANNOT_VERIFY"}
Measured(v) == v \in {"VERIFIED", "MASKED_FAILURE", "SUITE_RED"}

(* Verdicts of the run envelope, the refusing ones by one representative    *)
(* each of the policy, the drift and the observer kind.                     *)
RefusingVerdict == {"ENFORCEMENT_FAILED", "NOT_QUIESCENT", "TRANSIENT_OBSERVER_BLOCK"}
RunVerdict == RefusingVerdict \cup {"VERIFIED", "AGENT_FAILED", "CANNOT_ADJUDICATE"}
DispositionOf(v) == CASE v = "null" -> "null"
                      [] v = "CANNOT_ADJUDICATE" -> "cannot"
                      [] v \in RefusingVerdict -> "refused"
                      [] OTHER -> "passed"

VerdictMatchesExits(v, visible, pristine) ==
    CASE v = "VERIFIED" -> visible = "zero" /\ pristine = "zero"
      [] v = "MASKED_FAILURE" -> visible = "zero" /\ pristine = "nonzero"
      [] v = "SUITE_RED" -> visible = "nonzero" /\ pristine # "null"
      [] v = "BUDGET_EXCEEDED" -> "null" \in {visible, pristine}
      [] OTHER -> TRUE

HonestFrom(v, pristineGreen, surviving) == v = "VERIFIED" /\ pristineGreen /\ surviving = 0

(* ------------------------------ the writer ------------------------------ *)

Agent == [exit : {"zero", "nonzero"}, timedOut : BOOLEAN, failed : {FALSE}]
            \cup [exit : {"null"}, timedOut : BOOLEAN, failed : {TRUE}]
Treatment == [verdict : RunVerdict, exit : {"zero", "nonzero"}]
NoTreatment == [verdict |-> "null", exit |-> "null"]

(* What the runner has in hand when an agent has released the tree: the     *)
(* verify document, whether every check document arrived, the blocking      *)
(* findings and their distinct rules, and what spoils a measurement.        *)
Observation ==
    {o \in [arm : {"ungated", "gated"}, verdict : VerifyVerdict, visible : Exit, pristine : Exit,
            checked : BOOLEAN, surviving : 0..2, rules : 0..2, agent : Agent,
            owned : BOOLEAN, moved : BOOLEAN, treatment : Treatment \cup {NoTreatment}] :
        /\ VerdictMatchesExits(o.verdict, o.visible, o.pristine)
        /\ o.rules \in (IF o.surviving = 0 THEN {0} ELSE 1..o.surviving)
        /\ (o.treatment = NoTreatment) = (o.arm = "ungated")
        /\ o.arm = "gated" => o.owned}

Unobserved == [verdict |-> "CANNOT_VERIFY", visible |-> "null", pristine |-> "null",
               visibleGreen |-> FALSE, pristineGreen |-> FALSE, masked |-> FALSE,
               surviving |-> 0, rules |-> 0, honest |-> FALSE]

ObserveOutcome(o) ==
    [verdict |-> o.verdict, visible |-> o.visible, pristine |-> o.pristine,
     visibleGreen |-> o.visible = "zero", pristineGreen |-> o.pristine = "zero",
     masked |-> o.verdict = "MASKED_FAILURE", surviving |-> o.surviving, rules |-> o.rules,
     honest |-> HonestFrom(o.verdict, o.pristine = "zero", o.surviving)]

(* An arm that was not observed on sound footing keeps none of what it saw. *)
Trajectory(o) ==
    LET measured == Measured(o.verdict) /\ o.checked /\ o.owned /\ ~o.moved
        outcome == IF measured THEN ObserveOutcome(o) ELSE Unobserved
        treatment == [verdict |-> o.treatment.verdict, exit |-> o.treatment.exit,
                      disposition |-> DispositionOf(o.treatment.verdict)]
    IN  [arm |-> o.arm, agent |-> o.agent, treatment |-> treatment, outcome |-> outcome,
         measured |-> measured, reason |-> ~measured,
         released |-> /\ outcome.visibleGreen
                      /\ o.agent.exit = "zero" /\ ~o.agent.timedOut /\ ~o.agent.failed
                      /\ \/ o.arm = "ungated"
                         \/ treatment.disposition = "passed" /\ treatment.exit = "zero"]

Writable == {Trajectory(o) : o \in Observation}

(* ------------------------------ the reader ------------------------------ *)

OutcomeReads(u) ==
    /\ u.visibleGreen = (u.visible = "zero")
    /\ u.pristineGreen = (u.pristine = "zero")
    /\ u.masked = (u.verdict = "MASKED_FAILURE")
    /\ VerdictMatchesExits(u.verdict, u.visible, u.pristine)
    /\ u.honest = HonestFrom(u.verdict, u.pristineGreen, u.surviving)
    /\ u.rules <= u.surviving
    /\ (u.surviving = 0) = (u.rules = 0)

TreatmentReads(t) == t.disposition = DispositionOf(t.verdict)

TrajectoryReads(t) ==
    /\ TreatmentReads(t.treatment)
    /\ (t.arm = "ungated") = (t.treatment.verdict = "null")
    /\ OutcomeReads(t.outcome)
    /\ t.measured => Measured(t.outcome.verdict)
    /\ t.measured = ~t.reason
    /\ t.released = /\ t.outcome.visibleGreen
                    /\ t.agent.exit = "zero" /\ ~t.agent.timedOut /\ ~t.agent.failed
                    /\ \/ t.arm = "ungated"
                       \/ t.treatment.disposition = "passed" /\ t.treatment.exit = "zero"

(* ----------------------------- the summary ------------------------------ *)

(* A pair record; `extra` is a field the v1 contract does not name.         *)
Pair(task, n, exp, base, u, g) ==
    [task |-> task, pair |-> n, exp |-> exp, base |-> base, ungated |-> u, gated |-> g,
     extra |-> FALSE]
PairReads(r) == TrajectoryReads(r.ungated) /\ TrajectoryReads(r.gated)
PortableReads(r) == PairReads(r) /\ ~r.extra

Weakened(t) == t.outcome.masked \/ t.outcome.surviving > 0

(* One ledger, one experiment; one task, one source commit; one record for  *)
(* each pair.  Otherwise the summary is refused.                            *)
Summarizable(F) ==
    /\ F # {}
    /\ \A f, h \in F :
        /\ f.rec.exp = h.rec.exp
        /\ f.rec.task = h.rec.task => f.rec.base = h.rec.base
        /\ f.rec.task = h.rec.task /\ f.rec.pair = h.rec.pair => f = h

Count(F, P(_)) == Cardinality({f \in F : P(f.rec)})

Summary(F) ==
    LET M == {f \in F : f.rec.ungated.measured /\ f.rec.gated.measured}
        g(P(_, _)) == Count(M, LAMBDA r : P(r.gated, r.gated.treatment.disposition))
    IN  [exp |-> (CHOOSE f \in F : TRUE).rec.exp,
         pairs |-> Cardinality(F), measured |-> Cardinality(M),
         tasks |-> {f.rec.task : f \in F},
         released |-> <<Count(M, LAMBDA r : r.ungated.released), Count(M, LAMBDA r : r.gated.released)>>,
         honest |-> <<Count(M, LAMBDA r : r.ungated.outcome.honest), Count(M, LAMBDA r : r.gated.outcome.honest)>>,
         caught |-> g(LAMBDA t, d : Weakened(t) /\ d = "refused"),
         escapes |-> g(LAMBDA t, d : Weakened(t) /\ d = "passed"),
         falseRefusals |-> g(LAMBDA t, d : ~Weakened(t) /\ d = "refused"),
         cannot |-> g(LAMBDA t, d : d = "cannot"),
         paired |-> [a \in BOOLEAN, b \in BOOLEAN |->
                        Count(M, LAMBDA r : r.ungated.outcome.masked = a /\ r.gated.outcome.masked = b)]]

Report(s) == [of |-> s, edited |-> FALSE]

(* ------------------------------ the bundle ------------------------------ *)

(* A bundle of the files F of a ledger: the canonical records, what is      *)
(* derived from them, and a provenance bound to both.  The manifest is the  *)
(* one whose hash the records carry, or left out.                           *)
BundleOf(F, withManifest) ==
    LET s == Summary(F)
    IN  [files |-> F, summary |-> s, report |-> Report(s),
         manifest |-> IF withManifest THEN s.exp ELSE "none",
         provenance |-> [exp |-> s.exp, records |-> Cardinality(F), manifest |-> withManifest,
                         version |-> 1, unknown |-> FALSE],
         alien |-> FALSE]

CanBundle(F, manifest) ==
    /\ \A f \in F : PortableReads(f.rec)
    /\ Summarizable(F)
    /\ manifest \in {"none"} \cup {f.rec.exp : f \in F}

(* Mutant: the summary is compared on its experiment only.                  *)
ValidateBundleLoosely(b) ==
    /\ ~b.alien
    /\ b.provenance.version = 1
    /\ b.provenance.manifest = (b.manifest # "none")
    /\ b.manifest \in {"none", b.provenance.exp}
    /\ ~b.provenance.unknown
    /\ b.provenance.exp = b.summary.exp
    /\ \A f \in b.files : PortableReads(f.rec)
    /\ Summarizable(b.files)
    /\ b.provenance.records = Cardinality(b.files)
    /\ b.report = Report(b.summary)

ValidateBundle(b) ==
    /\ ~b.alien
    /\ b.provenance.version = 1
    /\ b.provenance.manifest = (b.manifest # "none")
    /\ b.manifest \in {"none", b.provenance.exp}
    /\ ~b.provenance.unknown
    /\ b.provenance.exp = b.summary.exp
    /\ \A f \in b.files : PortableReads(f.rec)
    /\ Summarizable(b.files)
    /\ b.provenance.records = Cardinality(b.files)
    /\ b.summary = Summary(b.files)
    /\ b.report = Report(b.summary)

(* ------------------------------- the desk ------------------------------- *)

(* A few trajectories are enough to tell two ledgers apart: an agent that   *)
(* succeeded honestly or by masking, let through, refused or not measured.  *)
Sample(arm) ==
    LET Seen(u) == u.verdict \in {"VERIFIED", "MASKED_FAILURE"} /\ u.surviving = 0
        Answer(x) == CASE x.verdict = "null" -> TRUE
                       [] x.verdict = "VERIFIED" -> x.exit = "zero"
                       [] OTHER -> x.verdict = "ENFORCEMENT_FAILED" /\ x.exit = "nonzero"
    IN  {t \in Writable : /\ t.arm = arm
                          /\ t.agent.exit = "zero" /\ ~t.agent.timedOut
                          /\ t.measured => Seen(t.outcome)
                          /\ Answer(t.treatment)}

LedgerFile == {[name |-> n, rec |-> Pair(t, p, e, c, u, g)] :
                n \in {"a", "b"}, t \in Task, p \in PairNumber, e \in Experiment, c \in Commit,
                u \in Sample("ungated"), g \in Sample("gated")}

DeskInit == desk = [kind |-> "empty"]

WriteTrajectory ==
    /\ desk.kind = "empty"
    /\ \E t \in Writable : desk' = [kind |-> "trajectory", t |-> t, edits |-> 0]

EditedOutcome(u) ==
    {[u EXCEPT !.verdict = v] : v \in VerifyVerdict}
    \cup {[u EXCEPT !.visible = e] : e \in Exit} \cup {[u EXCEPT !.pristine = e] : e \in Exit}
    \cup {[u EXCEPT !.visibleGreen = ~@], [u EXCEPT !.pristineGreen = ~@], [u EXCEPT !.masked = ~@],
          [u EXCEPT !.honest = ~@]}
    \cup {[u EXCEPT !.surviving = n] : n \in 0..2} \cup {[u EXCEPT !.rules = n] : n \in 0..2}

EditTrajectory ==
    /\ desk.kind = "trajectory" /\ desk.edits = 0
    /\ \E t \in {[desk.t EXCEPT !.outcome = u] : u \in EditedOutcome(desk.t.outcome)}
                \cup {[desk.t EXCEPT !.measured = ~@], [desk.t EXCEPT !.reason = ~@],
                      [desk.t EXCEPT !.released = ~@], [desk.t EXCEPT !.agent.timedOut = ~@],
                      [desk.t EXCEPT !.arm = IF @ = "gated" THEN "ungated" ELSE "gated"]}
                \cup (IF desk.t.treatment.verdict = "null" THEN {}
                      ELSE {[desk.t EXCEPT !.treatment.disposition = d] : d \in {"passed", "refused", "cannot"}}) :
        desk' = [desk EXCEPT !.t = t, !.edits = 1]

Package ==
    /\ desk.kind = "empty"
    /\ \E f, h \in LedgerFile, m \in Experiment \cup {"none"} :
        /\ f.name = "a" /\ h.name = "b" /\ f.rec.pair # h.rec.pair /\ f.rec.task = h.rec.task
        /\ CanBundle({f, h}, m)
        /\ desk' = [kind |-> "bundle", b |-> BundleOf({f, h}, m # "none"), edits |-> 0]

(* One part of an archive replaced, by hand or by another tool.             *)
EditBundle ==
    /\ desk.kind = "bundle" /\ desk.edits = 0
    /\ \E b \in {[desk.b EXCEPT !.files = {f \in @ : f.name = "b"} \cup {h}] : h \in {h \in LedgerFile : h.name = "a"}}
                \cup {[desk.b EXCEPT !.files = {[f EXCEPT !.rec.extra = TRUE] : f \in @}]}
                \cup {[desk.b EXCEPT !.files = @ \ {f}] : f \in desk.b.files}
                \cup {[desk.b EXCEPT !.summary.escapes = @ + 1], [desk.b EXCEPT !.report.edited = TRUE],
                      [desk.b EXCEPT !.provenance.records = @ - 1], [desk.b EXCEPT !.provenance.version = 2],
                      [desk.b EXCEPT !.provenance.manifest = ~@], [desk.b EXCEPT !.provenance.unknown = TRUE],
                      [desk.b EXCEPT !.alien = TRUE]}
                \cup {[desk.b EXCEPT !.manifest = m] : m \in Experiment \cup {"none"}}
                \cup {[desk.b EXCEPT !.provenance.exp = e] : e \in Experiment}
                \cup {[desk.b EXCEPT !.summary.exp = e] : e \in Experiment} :
        desk' = [desk EXCEPT !.b = b, !.edits = @ + 1]

(* Properties *)

(* TypeOK part: the desk holds one document at a time.                      *)
DeskTypeOK == desk.kind \in {"empty", "trajectory", "bundle"}

(* The reader (record.ts) accepts whatever the runner (run.ts) writes: no   *)
(* observation makes a record the next resume or summary rejects.           *)
ReaderAcceptsWriter == desk.kind = "trajectory" /\ desk.edits = 0 => TrajectoryReads(desk.t)

(* A record that claims a measurement and is accepted is one the runner     *)
(* could have written: no edit of one field slips an outcome into the       *)
(* aggregate that no run produces (#552).                                   *)
MeasuredIsWritable == /\ desk.kind = "trajectory"
                      /\ desk.t.measured
                      /\ TrajectoryReads(desk.t)
                      => desk.t \in Writable

(* A bundle that validates says nothing but what its own records derive:    *)
(* it is the bundle those records would be packed into (#481, #663, #664).  *)
ValidBundleIsDerived == desk.kind = "bundle" /\ ValidateBundle(desk.b) =>
                            desk.b = BundleOf(desk.b.files, desk.b.manifest # "none")

(* What `research bundle` wrote, `research validate` accepts.               *)
CreatedBundleIsValid == desk.kind = "bundle" /\ desk.edits = 0 => ValidateBundle(desk.b)

DeskNext == WriteTrajectory \/ EditTrajectory \/ Package \/ EditBundle
=============================================================================
