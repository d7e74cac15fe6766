-------------------------- MODULE RepositoryProofs --------------------------
(***************************************************************************)
(* What holds of the files Tamperward keeps and reads, in the composition  *)
(* that TLC checks and for every set of runners, plans, tasks and pairs:   *)
(* the research documents that are written are those the reader accepts, a *)
(* ledger has one writer, one source and, after exit 0, its whole plan     *)
(* (harness/research), and doctor --github answers from what was read      *)
(* (src/github-authority.ts, src/cli/doctor.ts).                           *)
(***************************************************************************)
EXTENDS MCRepository, FiniteSetTheorems, WellFoundedInduction, TLAPS

-----------------------------------------------------------------------------
(* Documents: what is written, edited and read.                            *)

\* The shape of a trajectory document, written or edited.
Saw == [verdict : VerifyVerdict, visible : Exit, pristine : Exit, visibleGreen : BOOLEAN, pristineGreen : BOOLEAN,
        masked : BOOLEAN, surviving : 0 .. 2, rules : 0 .. 2, honest : BOOLEAN]
Treated == [verdict : RunVerdict \cup {"null"}, exit : Exit, disposition : {"null", "cannot", "refused", "passed"}]
Shaped(t) ==
    /\ t \in [arm : {"ungated", "gated"}, agent : Agent, treatment : Treated, outcome : Saw,
              measured : BOOLEAN, reason : BOOLEAN, released : BOOLEAN]
    /\ [verdict |-> t.treatment.verdict, exit |-> t.treatment.exit] \in Treatment \cup {NoTreatment}

\* What an observation is made of.
LEMMA ObservationIs ==
    ASSUME NEW o \in Observation
    PROVE  /\ o.arm \in {"ungated", "gated"} /\ o.verdict \in VerifyVerdict /\ o.visible \in Exit /\ o.pristine \in Exit
           /\ o.checked \in BOOLEAN /\ o.surviving \in 0 .. 2 /\ o.rules \in 0 .. 2 /\ o.agent \in Agent
           /\ o.owned \in BOOLEAN /\ o.moved \in BOOLEAN /\ o.treatment \in Treatment \cup {NoTreatment}
           /\ VerdictMatchesExits(o.verdict, o.visible, o.pristine)
           /\ o.rules <= o.surviving /\ ((o.surviving = 0) <=> (o.rules = 0))
           /\ (o.treatment = NoTreatment) <=> (o.arm = "ungated")
BY DEF Observation

\* What is observed is an outcome the reader accepts.
LEMMA OutcomeIs ==
    ASSUME NEW o \in Observation
    PROVE  ObserveOutcome(o) \in Saw /\ OutcomeReads(ObserveOutcome(o))
<1>1. ObserveOutcome(o) \in Saw BY ObservationIs DEF ObserveOutcome, Saw, HonestFrom
<1>2. OutcomeReads(ObserveOutcome(o)) BY ObservationIs DEF ObserveOutcome, OutcomeReads
<1>3. QED BY <1>1, <1>2

\* What an arm keeps that was not observed is an outcome the reader accepts, too.
LEMMA UnobservedIs == Unobserved \in Saw /\ OutcomeReads(Unobserved)
<1>1. Unobserved \in Saw BY DEF Unobserved, Saw, VerifyVerdict, Exit
<1>2. VerdictMatchesExits("CANNOT_VERIFY", "null", "null") BY DEF VerdictMatchesExits
<1>3. HonestFrom("CANNOT_VERIFY", FALSE, 0) = FALSE BY DEF HonestFrom
<1>4. OutcomeReads(Unobserved)
  <2> DEFINE u == Unobserved
  <2>1. /\ u.verdict = "CANNOT_VERIFY" /\ u.visible = "null" /\ u.pristine = "null" /\ u.surviving = 0 /\ u.rules = 0
        /\ u.visibleGreen = FALSE /\ u.pristineGreen = FALSE /\ u.masked = FALSE /\ u.honest = FALSE
    BY DEF Unobserved
  <2> HIDE DEF u
  <2>4. HonestFrom(u.verdict, u.pristineGreen, u.surviving) = FALSE /\ VerdictMatchesExits(u.verdict, u.visible, u.pristine)
    BY <1>2, <1>3, <2>1
  <2>5. (u.visible = "zero") = FALSE /\ (u.pristine = "zero") = FALSE /\ (u.verdict = "MASKED_FAILURE") = FALSE
          /\ u.rules <= u.surviving /\ ((u.surviving = 0) = (u.rules = 0))
    BY <2>1
  <2>2. OutcomeReads(u) BY <2>1, <2>4, <2>5 DEF OutcomeReads
  <2>3. QED BY <2>2 DEF u
<1>5. QED BY <1>1, <1>4

\* How a document is put together.
Counts(o) == Measured(o.verdict) /\ o.checked /\ o.owned /\ ~o.moved
OutcomeOf(o) == IF Counts(o) THEN ObserveOutcome(o) ELSE Unobserved
TreatmentOf(o) == [verdict |-> o.treatment.verdict, exit |-> o.treatment.exit, disposition |-> DispositionOf(o.treatment.verdict)]
Released(arm, agent, treatment, outcome) ==
    /\ outcome.visibleGreen
    /\ agent.exit = "zero" /\ ~agent.timedOut /\ ~agent.failed
    /\ \/ arm = "ungated"
       \/ treatment.disposition = "passed" /\ treatment.exit = "zero"

\* A trajectory, by its parts.
LEMMA TrajectoryIs ==
    ASSUME NEW o
    PROVE  Trajectory(o) = [arm |-> o.arm, agent |-> o.agent, treatment |-> TreatmentOf(o), outcome |-> OutcomeOf(o),
                            measured |-> Counts(o), reason |-> ~Counts(o),
                            released |-> Released(o.arm, o.agent, TreatmentOf(o), OutcomeOf(o))]
BY DEF Trajectory, Counts, OutcomeOf, TreatmentOf, Released

\* The treatment of a trajectory: none in the control arm.
LEMMA TreatmentIs ==
    ASSUME NEW o \in Observation
    PROVE  /\ TreatmentOf(o) \in Treated
           /\ TreatmentOf(o).verdict = o.treatment.verdict /\ TreatmentOf(o).exit = o.treatment.exit
           /\ TreatmentOf(o).disposition = DispositionOf(o.treatment.verdict)
           /\ o.treatment = [verdict |-> o.treatment.verdict, exit |-> o.treatment.exit]
           /\ (o.arm = "ungated") <=> (o.treatment.verdict = "null")
<1>1. o.treatment \in Treatment \cup {NoTreatment} /\ ((o.treatment = NoTreatment) <=> (o.arm = "ungated")) BY ObservationIs
<1>2. CASE o.treatment = NoTreatment
  BY <1>1, <1>2 DEF NoTreatment, TreatmentOf, Treated, DispositionOf, Exit
<1>3. CASE o.treatment \in Treatment /\ o.treatment # NoTreatment
  <2>1. o.treatment.verdict \in RunVerdict /\ o.treatment.exit \in {"zero", "nonzero"} /\ o.treatment.verdict # "null"
    BY <1>3 DEF Treatment, RunVerdict, RefusingVerdict
  <2>2. DispositionOf(o.treatment.verdict) \in {"cannot", "refused", "passed"} BY <2>1 DEF DispositionOf
  <2>3. o.treatment = [verdict |-> o.treatment.verdict, exit |-> o.treatment.exit] BY <1>3 DEF Treatment
  <2>4. QED BY <1>1, <1>3, <2>1, <2>2, <2>3 DEF TreatmentOf, Treated, Exit
<1>4. QED BY <1>1, <1>2, <1>3

\* Whatever is written has the shape of a document.
LEMMA WrittenIsShaped == \A t \in Writable : Shaped(t)
<1> SUFFICES ASSUME NEW o \in Observation PROVE Shaped(Trajectory(o)) BY DEF Writable
<1>1. OutcomeOf(o) \in Saw BY OutcomeIs, UnobservedIs DEF OutcomeOf
<1>2. TreatmentOf(o) \in Treated BY TreatmentIs
<1>3. o.arm \in {"ungated", "gated"} /\ o.agent \in Agent /\ Counts(o) \in BOOLEAN
        /\ Released(o.arm, o.agent, TreatmentOf(o), OutcomeOf(o)) \in BOOLEAN
  <2>1. Counts(o) \in BOOLEAN BY DEF Counts, Measured
  <2>2. Released(o.arm, o.agent, TreatmentOf(o), OutcomeOf(o)) \in BOOLEAN BY DEF Released
  <2>3. QED BY <2>1, <2>2, ObservationIs
<1>4. Trajectory(o) \in [arm : {"ungated", "gated"}, agent : Agent, treatment : Treated, outcome : Saw,
                         measured : BOOLEAN, reason : BOOLEAN, released : BOOLEAN]
  BY <1>1, <1>2, <1>3, TrajectoryIs
<1>5. Trajectory(o).treatment = TreatmentOf(o) BY TrajectoryIs
<1>6. [verdict |-> Trajectory(o).treatment.verdict, exit |-> Trajectory(o).treatment.exit] = o.treatment
  BY <1>5, TreatmentIs
<1>7. QED BY <1>4, <1>6, ObservationIs DEF Shaped

\* The reader accepts whatever the runner writes. (run.ts against record.ts)
LEMMA WrittenIsRead == \A t \in Writable : TrajectoryReads(t)
<1> SUFFICES ASSUME NEW o \in Observation PROVE TrajectoryReads(Trajectory(o)) BY DEF Writable
<1> DEFINE t == Trajectory(o)
<1>1. /\ t.arm = o.arm /\ t.agent = o.agent /\ t.treatment = TreatmentOf(o) /\ t.outcome = OutcomeOf(o)
      /\ t.measured = Counts(o) /\ t.reason = ~Counts(o)
      /\ t.released = Released(o.arm, o.agent, TreatmentOf(o), OutcomeOf(o))
  BY TrajectoryIs
<1> HIDE DEF t
<1>2. OutcomeReads(t.outcome) BY <1>1, OutcomeIs, UnobservedIs DEF OutcomeOf
<1>3. TreatmentReads(t.treatment) BY <1>1, TreatmentIs DEF TreatmentReads
<1>4. t.measured => Measured(t.outcome.verdict)
  <2>1. Counts(o) => Measured(o.verdict) BY DEF Counts
  <2>2. ObserveOutcome(o).verdict = o.verdict BY DEF ObserveOutcome
  <2>3. Counts(o) => OutcomeOf(o) = ObserveOutcome(o) BY DEF OutcomeOf
  <2>4. QED BY <1>1, <2>1, <2>2, <2>3
<1>5. t.measured = ~t.reason
  <2>1. Counts(o) \in BOOLEAN BY DEF Counts, Measured
  <2>2. QED BY <1>1, <2>1
<1>6. (t.arm = "ungated") = (t.treatment.verdict = "null")
  <2>1. t.treatment.verdict = o.treatment.verdict BY <1>1, TreatmentIs
  <2>2. (o.arm = "ungated") <=> (o.treatment.verdict = "null") BY TreatmentIs
  <2>3. QED BY <1>1, <2>1, <2>2
<1>7. t.released = Released(t.arm, t.agent, t.treatment, t.outcome) BY <1>1
<1>8. TrajectoryReads(t) BY <1>2, <1>3, <1>4, <1>5, <1>6, <1>7 DEF TrajectoryReads, Released
<1>9. QED BY <1>8 DEF t

\* A document that claims a measurement and is accepted is of an observation.
LEMMA ReadIsWritable ==
    ASSUME NEW t, Shaped(t), t.measured, TrajectoryReads(t)
    PROVE  t \in Writable
<1> DEFINE u == t.outcome
           treatment == [verdict |-> t.treatment.verdict, exit |-> t.treatment.exit]
           o == [arm |-> t.arm, verdict |-> u.verdict, visible |-> u.visible, pristine |-> u.pristine,
                 checked |-> TRUE, surviving |-> u.surviving, rules |-> u.rules, agent |-> t.agent,
                 owned |-> TRUE, moved |-> FALSE, treatment |-> treatment]
<1>1. /\ t = [arm |-> t.arm, agent |-> t.agent, treatment |-> t.treatment, outcome |-> t.outcome,
              measured |-> t.measured, reason |-> t.reason, released |-> t.released]
      /\ t.arm \in {"ungated", "gated"} /\ t.agent \in Agent /\ t.treatment \in Treated /\ u \in Saw
      /\ t.measured = TRUE /\ t.reason = FALSE /\ t.released \in BOOLEAN
      /\ treatment \in Treatment \cup {NoTreatment}
  BY DEF Shaped, TrajectoryReads
<1>2. OutcomeReads(u) /\ Measured(u.verdict) BY DEF TrajectoryReads
<1>3. t.treatment = [verdict |-> t.treatment.verdict, exit |-> t.treatment.exit,
                     disposition |-> DispositionOf(t.treatment.verdict)]
  BY <1>1 DEF Treated, TrajectoryReads, TreatmentReads
<1>4. (treatment = NoTreatment) <=> (t.arm = "ungated")
  <2>1. (t.arm = "ungated") = (t.treatment.verdict = "null") BY DEF TrajectoryReads
  <2>2. treatment = NoTreatment => t.treatment.verdict = "null" BY DEF NoTreatment
  <2>3. treatment \in Treatment => t.treatment.verdict # "null"
    BY DEF Treatment, RunVerdict, RefusingVerdict
  <2>4. QED BY <1>1, <2>1, <2>2, <2>3
<1>5. u.verdict \in VerifyVerdict /\ u.visible \in Exit /\ u.pristine \in Exit /\ u.surviving \in 0 .. 2 /\ u.rules \in 0 .. 2
  BY <1>1 DEF Saw
<1>6. u.rules \in (IF u.surviving = 0 THEN {0} ELSE 1 .. u.surviving)
  BY <1>2, <1>5 DEF OutcomeReads
<1>7. VerdictMatchesExits(u.verdict, u.visible, u.pristine) BY <1>2 DEF OutcomeReads
<1>8. o \in Observation
  <2> HIDE DEF treatment
  <2>1. QED BY <1>1, <1>4, <1>5, <1>6, <1>7 DEF Observation
<1>9. /\ o.arm = t.arm /\ o.agent = t.agent /\ o.treatment = treatment /\ o.verdict = u.verdict /\ o.visible = u.visible
      /\ o.pristine = u.pristine /\ o.surviving = u.surviving /\ o.rules = u.rules /\ o.checked /\ o.owned /\ ~o.moved
  OBVIOUS
<1>10. TreatmentOf(o) = t.treatment BY <1>3, <1>9 DEF TreatmentOf
<1> HIDE DEF o, treatment
<1>11. Counts(o) = TRUE
  <2>1. Counts(o) \in BOOLEAN BY DEF Counts, Measured
  <2>2. QED BY <1>2, <1>9, <2>1 DEF Counts
<1>12. ObserveOutcome(o) = u
  <2>1. u = [verdict |-> u.verdict, visible |-> u.visible, pristine |-> u.pristine, visibleGreen |-> u.visibleGreen,
             pristineGreen |-> u.pristineGreen, masked |-> u.masked, surviving |-> u.surviving, rules |-> u.rules,
             honest |-> u.honest]
    BY <1>1 DEF Saw
  <2>2. /\ u.visibleGreen = (u.visible = "zero") /\ u.pristineGreen = (u.pristine = "zero")
        /\ u.masked = (u.verdict = "MASKED_FAILURE") /\ u.honest = HonestFrom(u.verdict, u.pristineGreen, u.surviving)
    BY <1>2 DEF OutcomeReads
  <2>3. QED BY <1>9, <2>1, <2>2 DEF ObserveOutcome
<1>13. OutcomeOf(o) = u BY <1>11, <1>12 DEF OutcomeOf
<1>14. t.released = Released(t.arm, t.agent, t.treatment, t.outcome) BY DEF TrajectoryReads, Released
<1>15. Trajectory(o) = t BY <1>1, <1>9, <1>10, <1>11, <1>13, <1>14, TrajectoryIs
<1>16. QED BY <1>8, <1>15 DEF Writable

-----------------------------------------------------------------------------
\* A bundle is its parts.
Parts(b) ==
    /\ b = [files |-> b.files, summary |-> b.summary, report |-> b.report, manifest |-> b.manifest,
            provenance |-> b.provenance, alien |-> b.alien]
    /\ b.provenance = [exp |-> b.provenance.exp, records |-> b.provenance.records, manifest |-> b.provenance.manifest,
                       version |-> b.provenance.version, unknown |-> b.provenance.unknown]
    /\ b.alien \in BOOLEAN /\ b.provenance.unknown \in BOOLEAN

\* What a step of the desk leaves in hand.
DeskInv ==
    /\ desk.kind \in {"empty", "trajectory", "bundle"}
    /\ desk.kind = "trajectory" => /\ desk = [kind |-> "trajectory", t |-> desk.t, edits |-> desk.edits]
                                   /\ Shaped(desk.t)
                                   /\ desk.edits = 0 => desk.t \in Writable
    /\ desk.kind = "bundle" => /\ desk = [kind |-> "bundle", b |-> desk.b, edits |-> desk.edits]
                               /\ desk.edits \in Nat
                               /\ Parts(desk.b)
                               /\ desk.edits = 0 => ValidateBundle(desk.b)

\* An empty desk.
LEMMA DeskStarts == DeskInit => DeskInv
BY DEF DeskInit, DeskInv

\* A summary names the experiment of one of its files.
LEMMA SummaryExp == \A F : Summary(F).exp = (CHOOSE f \in F : TRUE).rec.exp
BY DEF Summary, Count

\* A bundle of files that can be bundled validates.
LEMMA BundleIsValid ==
    ASSUME NEW F, NEW m, CanBundle(F, m), \A f \in F : f.rec.exp \in Experiment, m \in Experiment \cup {"none"}
    PROVE  /\ Parts(BundleOf(F, m # "none")) /\ ValidateBundle(BundleOf(F, m # "none"))
<1> DEFINE s == Summary(F)
           b == BundleOf(F, m # "none")
<1>1. s.exp \in Experiment /\ s.exp # "none"
  <2>1. F # {} BY DEF CanBundle, Summarizable
  <2>2. (CHOOSE f \in F : TRUE) \in F BY <2>1
  <2>3. QED BY <2>2, SummaryExp, DeskAssumption
<1>2. b = [files |-> F, summary |-> s, report |-> Report(s),
           manifest |-> IF m # "none" THEN s.exp ELSE "none",
           provenance |-> [exp |-> s.exp, records |-> Cardinality(F), manifest |-> m # "none", version |-> 1, unknown |-> FALSE],
           alien |-> FALSE]
  BY DEF BundleOf
<1> HIDE DEF s, b
<1>3. /\ b.files = F /\ b.summary = s /\ b.report = Report(s) /\ b.alien = FALSE
      /\ b.manifest = (IF m # "none" THEN s.exp ELSE "none")
      /\ b.provenance.exp = s.exp /\ b.provenance.records = Cardinality(F) /\ b.provenance.manifest = (m # "none")
      /\ b.provenance.version = 1 /\ b.provenance.unknown = FALSE
  BY <1>2
<1>4. Parts(b) BY <1>2, <1>3 DEF Parts
<1>5. (m # "none") = (b.manifest # "none") BY <1>1, <1>3
<1>6. (\A f \in F : PortableReads(f.rec)) /\ Summarizable(F) BY DEF CanBundle
<1>7. ValidateBundle(b) BY <1>1, <1>3, <1>5, <1>6 DEF ValidateBundle, s
<1>8. QED BY <1>4, <1>7 DEF b

\* An edit of one field leaves a document.
LEMMA EditIsShaped ==
    ASSUME NEW t, Shaped(t)
    PROVE  /\ \A u \in EditedOutcome(t.outcome) : Shaped([t EXCEPT !.outcome = u])
           /\ Shaped([t EXCEPT !.measured = ~@]) /\ Shaped([t EXCEPT !.reason = ~@]) /\ Shaped([t EXCEPT !.released = ~@])
           /\ Shaped([t EXCEPT !.agent.timedOut = ~@])
           /\ Shaped([t EXCEPT !.arm = IF @ = "gated" THEN "ungated" ELSE "gated"])
           /\ \A d \in {"passed", "refused", "cannot"} : Shaped([t EXCEPT !.treatment.disposition = d])
<1>0. /\ t \in [arm : {"ungated", "gated"}, agent : Agent, treatment : Treated, outcome : Saw,
                 measured : BOOLEAN, reason : BOOLEAN, released : BOOLEAN]
      /\ [verdict |-> t.treatment.verdict, exit |-> t.treatment.exit] \in Treatment \cup {NoTreatment}
  BY DEF Shaped
<1>1. EditedOutcome(t.outcome) \subseteq Saw
  <2>1. t.outcome \in Saw BY <1>0
  <2> DEFINE v == t.outcome
  <2> HIDE DEF v
  <2>2. /\ \A x \in VerifyVerdict : [v EXCEPT !.verdict = x] \in Saw
        /\ \A x \in Exit : [v EXCEPT !.visible = x] \in Saw /\ [v EXCEPT !.pristine = x] \in Saw
        /\ \A x \in 0 .. 2 : [v EXCEPT !.surviving = x] \in Saw /\ [v EXCEPT !.rules = x] \in Saw
    BY <2>1 DEF Saw, v
  <2>3. /\ [v EXCEPT !.visibleGreen = ~@] \in Saw /\ [v EXCEPT !.pristineGreen = ~@] \in Saw
        /\ [v EXCEPT !.masked = ~@] \in Saw /\ [v EXCEPT !.honest = ~@] \in Saw
    BY <2>1 DEF Saw, v
  <2>4. EditedOutcome(v) \subseteq Saw BY <2>2, <2>3 DEF EditedOutcome
  <2>5. QED BY <2>4 DEF v
<1>2. ASSUME NEW u \in Saw PROVE Shaped([t EXCEPT !.outcome = u]) BY <1>0 DEF Shaped
<1>3. Shaped([t EXCEPT !.measured = ~@]) /\ Shaped([t EXCEPT !.reason = ~@]) /\ Shaped([t EXCEPT !.released = ~@])
  BY <1>0 DEF Shaped
<1>4. Shaped([t EXCEPT !.agent.timedOut = ~@])
  <2>1. [t.agent EXCEPT !.timedOut = ~@] \in Agent BY <1>0 DEF Agent
  <2>2. QED BY <1>0, <2>1 DEF Shaped
<1>5. Shaped([t EXCEPT !.arm = IF @ = "gated" THEN "ungated" ELSE "gated"]) BY <1>0 DEF Shaped
<1>6. ASSUME NEW d \in {"passed", "refused", "cannot"} PROVE Shaped([t EXCEPT !.treatment.disposition = d])
  <2> DEFINE x == [t.treatment EXCEPT !.disposition = d]
  <2>1. x \in Treated /\ x.verdict = t.treatment.verdict /\ x.exit = t.treatment.exit BY <1>0 DEF Treated
  <2>2. [t EXCEPT !.treatment.disposition = d] = [t EXCEPT !.treatment = x] OBVIOUS
  <2> HIDE DEF x
  <2>3. [t EXCEPT !.treatment = x] \in [arm : {"ungated", "gated"}, agent : Agent, treatment : Treated, outcome : Saw,
                 measured : BOOLEAN, reason : BOOLEAN, released : BOOLEAN]
    BY <1>0, <2>1
  <2>4. [t EXCEPT !.treatment = x].treatment = x BY <1>0
  <2>5. QED BY <1>0, <2>1, <2>2, <2>3, <2>4 DEF Shaped
<1>7. QED BY <1>1, <1>2, <1>3, <1>4, <1>5, <1>6

\* Every step at the desk.
LEMMA DeskKeeps == DeskInv /\ [DeskNext]_deskVars => DeskInv'
<1> SUFFICES ASSUME DeskInv, [DeskNext]_deskVars PROVE DeskInv'
  OBVIOUS
<1>1. CASE WriteTrajectory
  <2>1. PICK t \in Writable : desk' = [kind |-> "trajectory", t |-> t, edits |-> 0] BY <1>1 DEF WriteTrajectory
  <2>2. QED BY <2>1, WrittenIsShaped DEF DeskInv
<1>2. CASE EditTrajectory
  <2>1. desk.kind = "trajectory" /\ Shaped(desk.t) /\ desk = [kind |-> "trajectory", t |-> desk.t, edits |-> desk.edits]
    BY <1>2 DEF EditTrajectory, DeskInv
  <2>2. PICK t : Shaped(t) /\ desk' = [desk EXCEPT !.t = t, !.edits = 1]
    <3>1. PICK t \in {[desk.t EXCEPT !.outcome = u] : u \in EditedOutcome(desk.t.outcome)}
                \cup {[desk.t EXCEPT !.measured = ~@], [desk.t EXCEPT !.reason = ~@],
                      [desk.t EXCEPT !.released = ~@], [desk.t EXCEPT !.agent.timedOut = ~@],
                      [desk.t EXCEPT !.arm = IF @ = "gated" THEN "ungated" ELSE "gated"]}
                \cup (IF desk.t.treatment.verdict = "null" THEN {}
                      ELSE {[desk.t EXCEPT !.treatment.disposition = d] : d \in {"passed", "refused", "cannot"}}) :
            desk' = [desk EXCEPT !.t = t, !.edits = 1]
      BY <1>2 DEF EditTrajectory
    <3>3. PICK old : old = desk.t OBVIOUS
    <3>4. Shaped(old) BY <2>1, <3>3
    <3>5. \/ t \in {[old EXCEPT !.outcome = u] : u \in EditedOutcome(old.outcome)}
          \/ t \in {[old EXCEPT !.measured = ~@], [old EXCEPT !.reason = ~@], [old EXCEPT !.released = ~@],
                    [old EXCEPT !.agent.timedOut = ~@], [old EXCEPT !.arm = IF @ = "gated" THEN "ungated" ELSE "gated"]}
          \/ t \in {[old EXCEPT !.treatment.disposition = d] : d \in {"passed", "refused", "cannot"}}
      BY <3>1, <3>3
    <3>10. /\ \A u \in EditedOutcome(old.outcome) : Shaped([old EXCEPT !.outcome = u])
           /\ Shaped([old EXCEPT !.measured = ~@]) /\ Shaped([old EXCEPT !.reason = ~@]) /\ Shaped([old EXCEPT !.released = ~@])
           /\ Shaped([old EXCEPT !.agent.timedOut = ~@])
           /\ Shaped([old EXCEPT !.arm = IF @ = "gated" THEN "ungated" ELSE "gated"])
           /\ \A d \in {"passed", "refused", "cannot"} : Shaped([old EXCEPT !.treatment.disposition = d])
      BY <3>4, EditIsShaped
    <3>2. Shaped(t)
      <4>1. CASE t \in {[old EXCEPT !.outcome = u] : u \in EditedOutcome(old.outcome)} BY <4>1, <3>10
      <4>2. CASE t \in {[old EXCEPT !.measured = ~@], [old EXCEPT !.reason = ~@], [old EXCEPT !.released = ~@],
                      [old EXCEPT !.agent.timedOut = ~@], [old EXCEPT !.arm = IF @ = "gated" THEN "ungated" ELSE "gated"]}
        BY <4>2, <3>10
      <4>3. CASE t \in {[old EXCEPT !.treatment.disposition = d] : d \in {"passed", "refused", "cannot"}}
        BY <4>3, <3>10
      <4>4. QED BY <3>5, <4>1, <4>2, <4>3
    <3>9. QED BY <3>1, <3>2
  <2>3. desk' = [kind |-> "trajectory", t |-> t, edits |-> 1] BY <2>1, <2>2
  <2>4. Shaped(t) BY <2>2
  <2>5. desk'.kind = "trajectory" /\ desk'.t = t /\ desk'.edits = 1 BY <2>3
  <2>6. QED BY <2>3, <2>4, <2>5 DEF DeskInv
<1>3. CASE Package
  <2>1. PICK f \in LedgerFile, h \in LedgerFile, m \in Experiment \cup {"none"} :
          /\ CanBundle({f, h}, m)
          /\ desk' = [kind |-> "bundle", b |-> BundleOf({f, h}, m # "none"), edits |-> 0]
    BY <1>3 DEF Package
  <2>2. \A x \in {f, h} : x.rec.exp \in Experiment BY DEF LedgerFile, Pair
  <2>3. Parts(BundleOf({f, h}, m # "none")) /\ ValidateBundle(BundleOf({f, h}, m # "none"))
    BY <2>1, <2>2, BundleIsValid
  <2>4. QED BY <2>1, <2>3 DEF DeskInv
<1>4. CASE EditBundle
  <2>1. desk.kind = "bundle" /\ desk = [kind |-> "bundle", b |-> desk.b, edits |-> desk.edits] /\ desk.edits = 0 /\ Parts(desk.b)
    BY <1>4 DEF EditBundle, DeskInv
  <2>2. PICK b \in {[desk.b EXCEPT !.files = {f \in @ : f.name = "b"} \cup {h}] : h \in {h \in LedgerFile : h.name = "a"}}
                \cup {[desk.b EXCEPT !.files = {[f EXCEPT !.rec.extra = TRUE] : f \in @}]}
                \cup {[desk.b EXCEPT !.files = @ \ {f}] : f \in desk.b.files}
                \cup {[desk.b EXCEPT !.summary.escapes = @ + 1], [desk.b EXCEPT !.report.edited = TRUE],
                      [desk.b EXCEPT !.provenance.records = @ - 1], [desk.b EXCEPT !.provenance.version = 2],
                      [desk.b EXCEPT !.provenance.manifest = ~@], [desk.b EXCEPT !.provenance.unknown = TRUE],
                      [desk.b EXCEPT !.alien = TRUE]}
                \cup {[desk.b EXCEPT !.manifest = m] : m \in Experiment \cup {"none"}}
                \cup {[desk.b EXCEPT !.provenance.exp = e] : e \in Experiment}
                \cup {[desk.b EXCEPT !.summary.exp = e] : e \in Experiment} :
          desk' = [desk EXCEPT !.b = b, !.edits = @ + 1]
    BY <1>4 DEF EditBundle
  <2>3. PICK old : old = desk.b OBVIOUS
  <2>0. Parts(old) BY <2>1, <2>3
  <2>7. ASSUME NEW x
        PROVE  /\ Parts([old EXCEPT !.files = x]) /\ Parts([old EXCEPT !.summary = x]) /\ Parts([old EXCEPT !.report = x])
               /\ Parts([old EXCEPT !.manifest = x])
    BY <2>0 DEF Parts
  <2>8. ASSUME NEW x
        PROVE  /\ Parts([old EXCEPT !.provenance.records = x]) /\ Parts([old EXCEPT !.provenance.version = x])
               /\ Parts([old EXCEPT !.provenance.manifest = x]) /\ Parts([old EXCEPT !.provenance.exp = x])
               /\ (x \in BOOLEAN => Parts([old EXCEPT !.provenance.unknown = x]))
    BY <2>0 DEF Parts
  <2>9. Parts([old EXCEPT !.alien = TRUE])
    <3>1. PICK b2 : b2 = [old EXCEPT !.alien = TRUE] OBVIOUS
    <3>2. b2 = [files |-> old.files, summary |-> old.summary, report |-> old.report, manifest |-> old.manifest,
                provenance |-> old.provenance, alien |-> TRUE]
      BY <2>0, <3>1 DEF Parts
    <3>3. Parts(b2) BY <2>0, <3>2 DEF Parts
    <3>4. QED BY <3>1, <3>3
  <2>10. \/ \E x : b \in {[old EXCEPT !.files = x], [old EXCEPT !.summary = x], [old EXCEPT !.report = x], [old EXCEPT !.manifest = x]}
         \/ \E x : b \in {[old EXCEPT !.provenance.records = x], [old EXCEPT !.provenance.version = x],
                          [old EXCEPT !.provenance.manifest = x], [old EXCEPT !.provenance.exp = x]}
         \/ b = [old EXCEPT !.provenance.unknown = TRUE] \/ b = [old EXCEPT !.alien = TRUE]
    BY <2>2, <2>3
  <2>4. Parts(b)
    <3>1. CASE \E x : b \in {[old EXCEPT !.files = x], [old EXCEPT !.summary = x], [old EXCEPT !.report = x], [old EXCEPT !.manifest = x]}
      <4>1. PICK x : b \in {[old EXCEPT !.files = x], [old EXCEPT !.summary = x], [old EXCEPT !.report = x], [old EXCEPT !.manifest = x]}
        BY <3>1
      <4>2. QED BY <2>7, <4>1
    <3>2. CASE \E x : b \in {[old EXCEPT !.provenance.records = x], [old EXCEPT !.provenance.version = x],
                             [old EXCEPT !.provenance.manifest = x], [old EXCEPT !.provenance.exp = x]}
      <4>1. PICK x : b \in {[old EXCEPT !.provenance.records = x], [old EXCEPT !.provenance.version = x],
                            [old EXCEPT !.provenance.manifest = x], [old EXCEPT !.provenance.exp = x]}
        BY <3>2
      <4>2. QED BY <2>8, <4>1
    <3>3. CASE b = [old EXCEPT !.provenance.unknown = TRUE] BY <2>8, <3>3
    <3>4. CASE b = [old EXCEPT !.alien = TRUE] BY <2>9, <3>4
    <3>5. QED BY <2>10, <3>1, <3>2, <3>3, <3>4
  <2>11. desk' = [desk EXCEPT !.b = b, !.edits = @ + 1] BY <2>2
  <2>5. desk' = [kind |-> "bundle", b |-> b, edits |-> 1]
    <3>1. PICK d : d = desk OBVIOUS
    <3>2. d = [kind |-> "bundle", b |-> old, edits |-> 0] BY <2>1, <2>3, <3>1
    <3>3. desk' = [d EXCEPT !.b = b, !.edits = d.edits + 1] BY <2>11, <3>1
    <3>4. d.edits + 1 = 1 BY <3>2
    <3>5. desk' = [d EXCEPT !.b = b, !.edits = 1] BY <3>3, <3>4
    <3>6. QED BY <3>2, <3>5
  <2>6. QED BY <2>4, <2>5 DEF DeskInv
<1>5. CASE UNCHANGED deskVars BY <1>5 DEF deskVars, DeskInv
<1>6. QED BY <1>1, <1>2, <1>3, <1>4, <1>5 DEF DeskNext

\* What the round trip of documents promises.
LEMMA DeskSound ==
    DeskInv => ReaderAcceptsWriter /\ MeasuredIsWritable /\ ValidBundleIsDerived /\ CreatedBundleIsValid /\ DeskTypeOK
<1> SUFFICES ASSUME DeskInv
             PROVE  ReaderAcceptsWriter /\ MeasuredIsWritable /\ ValidBundleIsDerived /\ CreatedBundleIsValid /\ DeskTypeOK
  OBVIOUS
<1>1. ReaderAcceptsWriter BY WrittenIsRead DEF ReaderAcceptsWriter, DeskInv
<1>2. MeasuredIsWritable BY ReadIsWritable DEF MeasuredIsWritable, DeskInv
<1>3. ValidBundleIsDerived
  <2> SUFFICES ASSUME desk.kind = "bundle", ValidateBundle(desk.b)
               PROVE  desk.b = BundleOf(desk.b.files, desk.b.manifest # "none")
    BY DEF ValidBundleIsDerived
  <2>1. PICK b : b = desk.b OBVIOUS
  <2>2. Parts(b) /\ ValidateBundle(b) BY <2>1 DEF DeskInv
  <2> DEFINE s == Summary(b.files)
  <2>3. BundleOf(b.files, b.manifest # "none") =
          [files |-> b.files, summary |-> s, report |-> Report(s),
           manifest |-> IF b.manifest # "none" THEN s.exp ELSE "none",
           provenance |-> [exp |-> s.exp, records |-> Cardinality(b.files), manifest |-> b.manifest # "none",
                           version |-> 1, unknown |-> FALSE],
           alien |-> FALSE]
    BY DEF BundleOf
  <2> HIDE DEF s
  <2>4. /\ b.alien = FALSE /\ b.provenance.version = 1 /\ b.provenance.manifest = (b.manifest # "none")
        /\ b.manifest \in {"none", b.provenance.exp} /\ b.provenance.unknown = FALSE /\ b.provenance.exp = b.summary.exp
        /\ b.provenance.records = Cardinality(b.files) /\ b.summary = s /\ b.report = Report(b.summary)
    BY <2>2 DEF Parts, ValidateBundle, s
  <2>5. b = BundleOf(b.files, b.manifest # "none") BY <2>2, <2>3, <2>4 DEF Parts
  <2>6. QED BY <2>1, <2>5
<1>4. CreatedBundleIsValid BY DEF CreatedBundleIsValid, DeskInv
<1>5. DeskTypeOK BY DEF DeskTypeOK, DeskInv
<1>6. QED BY <1>1, <1>2, <1>3, <1>4, <1>5

-----------------------------------------------------------------------------
(* The ledger: types first.  What a runner holds (Holds) depends on the    *)
(* step it is at.                                                          *)

Early == {"inspect", "claim", "recheck", "create", "sign"}
InPair == {"clone", "agent", "verify", "check", "conclude", "store"}
Step == Ended \cup Early \cup {"task", "pair"} \cup InPair \cup {"release", "unlink"}

Owner == [runner : Runner, start : Nat]
Lock == {NoLock} \cup [owner : Owner, torn : BOOLEAN]
Outcome == {"none", "measured", "unmeasured"}
Record == [plan : Plan \cup {"none"}, base : 0 .. MaxHead, pair : Outcome]
Notes == [pc : Step, plan : Plan \cup {"none"}, seen : {NoLock} \cup Owner, done : SUBSET (1 .. Pairs),
          task : 1 .. (Len(TaskOrder) + 1), base : 0 .. MaxHead, arm : Arm, tree : Nat, at : Nat, owned : BOOLEAN,
          verified : Nat, checked : Nat, arms : [Arm -> Outcome], code : {0, 2, 9}]

\* What a runner holds at the step it is at.
Holds(n) ==
    /\ n.pc \notin Ended => n.plan \in Plan
    /\ n.pc \in Early => n.task = 1
    /\ n.pc \in {"pair"} \cup InPair => n.task <= Len(TaskOrder)
    /\ n.pc \in InPair => n.done # 1 .. Pairs
    /\ n.pc \in InPair \ {"clone"} => n.base # 0
    /\ n.pc = "clone" /\ n.arm = "gated" => n.base # 0
    /\ n.pc = "verify" => n.at <= n.tree
    /\ n.pc = "check" => n.at <= n.verified /\ n.verified <= n.tree
    /\ n.pc = "conclude" => n.at <= n.verified /\ n.verified <= n.checked /\ n.checked <= n.tree

LedgerTyped ==
    /\ lock \in Lock /\ claimed \in [Runner -> Lock]
    /\ record \in [Slot -> Record]
    /\ \A s \in Slot : record[s] # Absent => record[s].plan \in Plan /\ record[s].base # 0
    /\ head \in 1 .. MaxHead
    /\ starts \in [Runner -> Nat]
    /\ displaced \in BOOLEAN
    /\ run \in [Runner -> Notes]
    /\ \A r \in Runner : Holds(run[r])

\* The tasks and their slots.
LEMMA TasksAre == Len(TaskOrder) \in Nat /\ DOMAIN TaskOrder = 1 .. Len(TaskOrder)
                  /\ \A i \in 1 .. Len(TaskOrder), p \in 1 .. Pairs : <<TaskOrder[i], p>> \in Slot
BY LedgerAssumption DEF Slot

\* A runner that has not begun.
LEMMA FreshIs == Fresh \in Notes /\ Holds(Fresh)
<1>1. Fresh \in Notes BY LedgerAssumption, TasksAre DEF Fresh, Notes, Step, Ended, Arm, Outcome
<1>2. Holds(Fresh) BY DEF Holds, Fresh, Early, InPair, Ended
<1>3. QED BY <1>1, <1>2

\* An empty ledger.
LEMMA LedgerTypedInit == LedgerInit => LedgerTyped
<1> SUFFICES ASSUME LedgerInit PROVE LedgerTyped OBVIOUS
<1> USE LedgerAssumption, TasksAre
<1>1. Fresh \in Notes BY FreshIs
<1>2. Absent \in Record BY DEF Absent, Record, Outcome
<1>3. Holds(Fresh) BY FreshIs
<1>4. Fresh.pc \in Ended /\ Fresh.code # 0 BY DEF Fresh, Ended
<1>5. \A r \in Runner : run[r] = Fresh BY DEF LedgerInit
<1>6. \A s \in Slot : record[s] = Absent BY DEF LedgerInit
<1>7. run \in [Runner -> Notes] /\ record \in [Slot -> Record] BY <1>1, <1>2 DEF LedgerInit
<1>8. /\ lock \in Lock /\ claimed \in [Runner -> Lock] /\ head \in 1 .. MaxHead
      /\ starts \in [Runner -> Nat] /\ displaced \in BOOLEAN
  <2>1. NoLock \in Lock BY DEF Lock
  <2>2. claimed = [r \in Runner |-> NoLock] /\ lock = NoLock /\ starts = [r \in Runner |-> 0] /\ displaced = FALSE /\ head = 1
    BY DEF LedgerInit
  <2>3. 1 \in 1 .. MaxHead BY LedgerAssumption
  <2> QED BY <2>1, <2>2, <2>3
<1>9. QED BY <1>3, <1>4, <1>5, <1>6, <1>7, <1>8 DEF LedgerTyped

\* The least of the pairs that are missing is one of them.
LEMMA NextPairIsMissing ==
    ASSUME NEW D \in SUBSET (1 .. Pairs), D # {}
    PROVE  \E p \in D : \A q \in D : p <= q
<1> USE LedgerAssumption
<1> DEFINE Below(i) == {j \in D : j < i}
           F == {Below(i) : i \in D}
<1>0. IsFiniteSet(1 .. Pairs) BY FS_Interval
<1>1. IsFiniteSet(D) BY <1>0, FS_Subset
<1>8. D \subseteq Int OBVIOUS
<1>9. F # {} OBVIOUS
<1>2. F \subseteq FiniteSubsetsOf(D) BY <1>1, FS_FiniteSubsetsOfFinite
<1>3. IsWellFoundedOn(StrictSubsetOrdering(D), FiniteSubsetsOf(D)) BY FS_StrictSubsetOrderingWellFounded
<1>4. PICK X \in F : \A Y \in F : ~(<<Y, X>> \in StrictSubsetOrdering(D))
  BY <1>2, <1>3, <1>9, WFMin
<1>5. PICK m \in D : X = Below(m) OBVIOUS
<1>6. ASSUME NEW k \in D, k < m PROVE FALSE
  <2>0. k \in Int /\ m \in Int /\ k < m BY <1>6, <1>8
  <2>4. k \in Below(m) /\ k \notin Below(k) BY <2>0
  <2>5. \A j \in D : j < k => j < m BY <2>0, <1>8
  <2>1. Below(k) \subseteq Below(m) /\ Below(k) # Below(m) BY <2>4, <2>5
  <2>2. Below(k) \in F /\ Below(k) \in SUBSET D /\ Below(m) \in SUBSET D OBVIOUS
  <2>3. <<Below(k), Below(m)>> \in StrictSubsetOrdering(D) BY <2>1, <2>2 DEF StrictSubsetOrdering
  <2>6. QED BY <1>4, <1>5, <2>2, <2>3
<1>7. QED BY <1>6, <1>8

\* There is a pair to store.
LEMMA NextPairIs ==
    ASSUME LedgerTyped, NEW r \in Runner, run[r].pc = "store"
    PROVE  NextPair(r) \in Missing(r) /\ Missing(r) \subseteq 1 .. Pairs
<1>1. run[r].done \in SUBSET (1 .. Pairs) BY DEF LedgerTyped, Notes
<1>3. run[r].done # 1 .. Pairs BY DEF LedgerTyped, Holds, InPair
<1>2. Missing(r) \in SUBSET (1 .. Pairs) /\ Missing(r) # {} BY <1>1, <1>3 DEF Missing
<1>4. \E p \in Missing(r) : \A q \in Missing(r) : p <= q BY <1>2, NextPairIsMissing
<1>5. QED BY <1>2, <1>4 DEF NextPair

\* A step of one runner: what it holds then is all there is to look at.
LEMMA OneRunnerMoves ==
    ASSUME LedgerTyped, NEW r \in Runner, NEW n \in Notes, run' = [run EXCEPT ![r] = n], Holds(n)
    PROVE  run' \in [Runner -> Notes] /\ \A q \in Runner : Holds(run'[q])
BY DEF LedgerTyped

\* What TakeTask and Conclude leave with the runner.
BaseOf(t) == IF Recorded(t) = {} THEN 0 ELSE record[<<t, CHOOSE p \in Recorded(t) : TRUE>>].base

\* What a task that is taken leaves with the runner.
LEMMA TakeTaskIs ==
    ASSUME LedgerTyped, NEW r \in Runner, TakeTask(r)
    PROVE  LET t == TaskOrder[run[r].task]
               n == run[r]
           IN  /\ n.pc = "task" /\ run'[r].pc \in {"release", "pair"} /\ UNCHANGED <<lock, claimed, record, head, starts, displaced>>
               /\ \/ n.task > Len(TaskOrder) /\ run' = [run EXCEPT ![r] = [n EXCEPT !.pc = "release", !.code = 0]]
                  \/ n.task <= Len(TaskOrder) /\ run' = [run EXCEPT ![r] = [n EXCEPT !.pc = "release", !.code = 2]]
                  \/ /\ n.task <= Len(TaskOrder) /\ Resumable(r, t)
                     /\ run' = [run EXCEPT ![r] = [n EXCEPT !.pc = "pair", !.base = BaseOf(t), !.done = Recorded(t)]]
<1>1. run[r].task \in 1 .. (Len(TaskOrder) + 1) BY DEF LedgerTyped, Notes
<1>0. run[r] \in Notes /\ run \in [Runner -> Notes] BY DEF LedgerTyped
<1>2. CASE run[r].task > Len(TaskOrder)
  <2>1. run' = [run EXCEPT ![r] = [run[r] EXCEPT !.pc = "release", !.code = 0]] BY <1>2 DEF TakeTask, Release
  <2>2. run'[r].pc = "release" BY <1>0, <2>1 DEF Notes
  <2>3. QED BY <1>2, <2>1, <2>2 DEF TakeTask
<1>3. CASE run[r].task <= Len(TaskOrder) /\ ~(run[r].task > Len(TaskOrder)) /\ ~Resumable(r, TaskOrder[run[r].task])
  <2>1. run' = [run EXCEPT ![r] = [run[r] EXCEPT !.pc = "release", !.code = 2]] BY <1>3 DEF TakeTask, Release
  <2>2. run'[r].pc = "release" BY <1>0, <2>1 DEF Notes
  <2>3. QED BY <1>3, <2>1, <2>2 DEF TakeTask
<1>5. CASE run[r].task <= Len(TaskOrder) /\ ~(run[r].task > Len(TaskOrder)) /\ Resumable(r, TaskOrder[run[r].task])
  <2> DEFINE t == TaskOrder[run[r].task]
  <2>1. run' = [run EXCEPT ![r] = [run[r] EXCEPT !.pc = "pair", !.base = BaseOf(t), !.done = Recorded(t)]]
    BY <1>5 DEF TakeTask, BaseOf
  <2>2. run'[r].pc = "pair" BY <1>0, <2>1 DEF Notes
  <2>3. QED BY <1>5, <2>1, <2>2 DEF TakeTask
<1>4. QED BY <1>1, <1>2, <1>3, <1>5, TasksAre

\* What an arm concludes with.
LEMMA ConcludeIs ==
    ASSUME LedgerTyped, NEW r \in Runner, Conclude(r)
    PROVE  /\ run[r].pc = "conclude" /\ run'[r].pc \in {"clone", "store"} /\ UNCHANGED <<lock, claimed, record, head, starts, displaced>>
           /\ \E judged \in BOOLEAN :
                run' = [run EXCEPT ![r] =
                  [run[r] EXCEPT !.arms[run[r].arm] = IF ~Measures(r, judged) THEN "unmeasured"
                                                      ELSE IF Stood(r) THEN "measured" ELSE "moved",
                        !.arm = "gated", !.at = 0, !.verified = 0, !.checked = 0, !.tree = 0, !.owned = TRUE,
                        !.pc = IF run[r].arm = "ungated" THEN "clone" ELSE "store"]]
<1>1. PICK judged \in BOOLEAN :
          run' = [run EXCEPT ![r].arms[run[r].arm] = IF ~Measures(r, judged) THEN "unmeasured"
                                                     ELSE IF Stood(r) THEN "measured" ELSE "moved",
                        ![r].arm = "gated",
                        ![r].at = 0, ![r].verified = 0, ![r].checked = 0, ![r].tree = 0, ![r].owned = TRUE,
                        ![r].pc = IF run[r].arm = "ungated" THEN "clone" ELSE "store"]
  BY DEF Conclude
<1> DEFINE result == IF ~Measures(r, judged) THEN "unmeasured" ELSE IF Stood(r) THEN "measured" ELSE "moved"
<1> HIDE DEF result
<1>2. run' = [run EXCEPT ![r] =
                  [run[r] EXCEPT !.arms[run[r].arm] = result,
                        !.arm = "gated", !.at = 0, !.verified = 0, !.checked = 0, !.tree = 0, !.owned = TRUE,
                        !.pc = IF run[r].arm = "ungated" THEN "clone" ELSE "store"]]
  BY <1>1 DEF result
<1>3. run[r].pc = "conclude" /\ UNCHANGED <<lock, claimed, record, head, starts, displaced>> BY DEF Conclude
<1>4. run'[r].pc \in {"clone", "store"}
  <2>1. run[r] \in Notes BY DEF LedgerTyped
  <2>2. run'[r] = [run[r] EXCEPT !.arms[run[r].arm] = result,
                        !.arm = "gated", !.at = 0, !.verified = 0, !.checked = 0, !.tree = 0, !.owned = TRUE,
                        !.pc = IF run[r].arm = "ungated" THEN "clone" ELSE "store"]
    BY <1>2 DEF LedgerTyped
  <2>3. QED BY <2>1, <2>2 DEF Notes
<1>5. QED BY <1>2, <1>3, <1>4 DEF result

\* Every step of a runner, of the operator and of the task repository.
LEMMA LedgerTypedKeeps == LedgerTyped /\ [LedgerNext]_ledgerVars => LedgerTyped'
<1> SUFFICES ASSUME LedgerTyped, [LedgerNext]_ledgerVars PROVE LedgerTyped'
  OBVIOUS
<1>0. \A r \in Runner : run[r] \in Notes /\ Holds(run[r]) BY DEF LedgerTyped
<1>1. ASSUME NEW r \in Runner, Start(r) PROVE LedgerTyped'
  <2>1. PICK chosen \in Plan, breakLock \in BOOLEAN, usable \in BOOLEAN :
          run' = [run EXCEPT ![r] =
                 [Fresh EXCEPT !.plan = chosen, !.code = IF usable THEN 9 ELSE 2,
                               !.pc = IF ~usable THEN "stopped"
                                      ELSE IF breakLock /\ lock # NoLock THEN "inspect" ELSE "create"]]
    BY <1>1 DEF Start
  <2> DEFINE n == [Fresh EXCEPT !.plan = chosen, !.code = IF usable THEN 9 ELSE 2,
                               !.pc = IF ~usable THEN "stopped"
                                      ELSE IF breakLock /\ lock # NoLock THEN "inspect" ELSE "create"]
  <2>a. PICK to \in {"stopped", "inspect", "create"}, code \in {2, 9} :
          n = [Fresh EXCEPT !.plan = chosen, !.code = code, !.pc = to]
    OBVIOUS
  <2>2. n \in Notes
    <3> HIDE DEF n
    <3>1. QED BY <2>a, FreshIs DEF Notes, Step, Ended, Early
  <2>3. Holds(n) BY DEF Holds, Fresh, Early, InPair, Ended
  <2>4. run' = [run EXCEPT ![r] = n] BY <2>1
  <2> HIDE DEF n
  <2>5. run' \in [Runner -> Notes] /\ \A q \in Runner : Holds(run'[q]) BY <2>2, <2>3, <2>4, OneRunnerMoves
  <2>6. starts' \in [Runner -> Nat] /\ UNCHANGED <<lock, claimed, record, head, displaced>>
    BY <1>1 DEF Start, LedgerTyped
  <2>7. QED BY <2>5, <2>6 DEF LedgerTyped
<1>2. ASSUME NEW r \in Runner, NEW n, run' = [run EXCEPT ![r] = n], n \in Notes, Holds(n),
             UNCHANGED <<record, head, starts>>, lock' \in Lock, claimed' \in [Runner -> Lock], displaced' \in BOOLEAN
      PROVE  LedgerTyped'
  BY <1>2, OneRunnerMoves DEF LedgerTyped
<1>3. /\ lock \in Lock /\ claimed \in [Runner -> Lock] /\ displaced \in BOOLEAN
      /\ \A r \in Runner : claimed[r] \in Lock
  BY DEF LedgerTyped
<1>4. ASSUME NEW r \in Runner, Inspect(r) PROVE LedgerTyped'
  <2> DEFINE stop == [run[r] EXCEPT !.pc = "stopped", !.code = 2]
             go == [run[r] EXCEPT !.pc = "claim", !.seen = lock.owner]
  <2>1. stop \in Notes /\ Holds(stop)
    <3>1. run[r] \in Notes /\ Holds(run[r]) BY <1>0
    <3>2. stop \in Notes BY <3>1 DEF Notes, Step, Ended, Early, InPair
    <3>3. Holds(stop) BY <3>1 DEF Notes, Holds, Step, Ended, Early, InPair
    <3>4. QED BY <3>2, <3>3
  <2>2. lock # NoLock => go \in Notes /\ Holds(go)
    <3>1. run[r] \in Notes /\ Holds(run[r]) BY <1>0
    <3>2. lock # NoLock => go \in Notes BY <3>1, <1>3, <1>4 DEF Notes, Step, Ended, Early, InPair, Lock, Inspect
    <3>3. lock # NoLock => Holds(go) BY <3>1, <1>3, <1>4 DEF Notes, Holds, Step, Ended, Early, InPair, Lock, Inspect
    <3>4. QED BY <3>2, <3>3
  <2>3. run' = [run EXCEPT ![r] = stop] \/ (lock # NoLock /\ run' = [run EXCEPT ![r] = go])
    BY <1>0, <1>4 DEF Inspect, Quit
  <2>4. UNCHANGED <<record, head, starts, lock, claimed, displaced>> BY <1>4 DEF Inspect
  <2> HIDE DEF stop, go
  <2>5. QED BY <1>2, <1>3, <2>1, <2>2, <2>3, <2>4
<1>5. ASSUME NEW r \in Runner, Claim(r) PROVE LedgerTyped'
  <2> DEFINE n == [run[r] EXCEPT !.pc = IF lock = NoLock THEN "create" ELSE "recheck"]
  <2>1. n \in Notes /\ Holds(n)
    <3>1. run[r] \in Notes /\ Holds(run[r]) BY <1>0
    <3>2. n \in Notes BY <3>1, <1>5 DEF Notes, Step, Ended, Early, InPair, Claim
    <3>3. Holds(n) BY <3>1, <1>5 DEF Notes, Holds, Step, Ended, Early, InPair, Claim
    <3>4. QED BY <3>2, <3>3
  <2>2. run' = [run EXCEPT ![r] = n] BY <1>5 DEF Claim, Go
  <2>3. UNCHANGED <<record, head, starts>> /\ lock' \in Lock /\ claimed' \in [Runner -> Lock] /\ displaced' \in BOOLEAN
    BY <1>3, <1>5 DEF Claim, Lock
  <2> HIDE DEF n
  <2>4. QED BY <1>2, <2>1, <2>2, <2>3
<1>6. ASSUME NEW r \in Runner, Recheck(r) PROVE LedgerTyped'
  <2> DEFINE stop == [run[r] EXCEPT !.pc = "stopped", !.code = 2]
             go == [run[r] EXCEPT !.pc = "create"]
  <2>1. stop \in Notes /\ Holds(stop)
    <3>1. run[r] \in Notes /\ Holds(run[r]) BY <1>0
    <3>2. stop \in Notes BY <3>1 DEF Notes, Step, Ended, Early, InPair
    <3>3. Holds(stop) BY <3>1 DEF Notes, Holds, Step, Ended, Early, InPair
    <3>4. QED BY <3>2, <3>3
  <2>2. go \in Notes /\ Holds(go)
    <3>1. run[r] \in Notes /\ Holds(run[r]) BY <1>0
    <3>2. go \in Notes BY <3>1, <1>6 DEF Notes, Step, Ended, Early, InPair, Recheck
    <3>3. Holds(go) BY <3>1, <1>6 DEF Notes, Holds, Step, Ended, Early, InPair, Recheck
    <3>4. QED BY <3>2, <3>3
  <2>3. run' = [run EXCEPT ![r] = stop] \/ run' = [run EXCEPT ![r] = go] BY <1>6 DEF Recheck, Go, Quit
  <2>4. UNCHANGED <<record, head, starts>> /\ lock' \in Lock /\ claimed' \in [Runner -> Lock] /\ displaced' \in BOOLEAN
    BY <1>3, <1>6 DEF Recheck, Lock
  <2> HIDE DEF stop, go
  <2>5. QED BY <1>2, <2>1, <2>2, <2>3, <2>4
<1>7. ASSUME NEW r \in Runner, Create(r) PROVE LedgerTyped'
  <2> DEFINE stop == [run[r] EXCEPT !.pc = "stopped", !.code = 2]
             go == [run[r] EXCEPT !.pc = "sign"]
  <2>1. stop \in Notes /\ Holds(stop)
    <3>1. run[r] \in Notes /\ Holds(run[r]) BY <1>0
    <3>2. stop \in Notes BY <3>1 DEF Notes, Step, Ended, Early, InPair
    <3>3. Holds(stop) BY <3>1 DEF Notes, Holds, Step, Ended, Early, InPair
    <3>4. QED BY <3>2, <3>3
  <2>2. go \in Notes /\ Holds(go)
    <3>1. run[r] \in Notes /\ Holds(run[r]) BY <1>0
    <3>2. go \in Notes BY <3>1, <1>7 DEF Notes, Step, Ended, Early, InPair, Create
    <3>3. Holds(go) BY <3>1, <1>7 DEF Notes, Holds, Step, Ended, Early, InPair, Create
    <3>4. QED BY <3>2, <3>3
  <2>3. run' = [run EXCEPT ![r] = stop] \/ run' = [run EXCEPT ![r] = go] BY <1>7 DEF Create, Go, Quit
  <2>5. Token(r) \in Owner BY DEF Token, Owner, LedgerTyped
  <2>7. [owner |-> Token(r), torn |-> TRUE] \in Lock BY <2>5 DEF Lock
  <2>4. UNCHANGED <<record, head, starts, claimed, displaced>> /\ lock' \in Lock
    BY <1>3, <1>7, <2>7 DEF Create
  <2> HIDE DEF stop, go
  <2>6. QED BY <1>2, <1>3, <2>1, <2>2, <2>3, <2>4
<1>8. ASSUME NEW r \in Runner, Sign(r) PROVE LedgerTyped'
  <2> DEFINE go == [run[r] EXCEPT !.pc = "task"]
  <2>2. go \in Notes /\ Holds(go)
    <3>1. run[r] \in Notes /\ Holds(run[r]) BY <1>0
    <3>2. go \in Notes BY <3>1, <1>8 DEF Notes, Step, Ended, Early, InPair, Sign
    <3>3. Holds(go) BY <3>1, <1>8 DEF Notes, Holds, Step, Ended, Early, InPair, Sign
    <3>4. QED BY <3>2, <3>3
  <2>3. run' = [run EXCEPT ![r] = go] BY <1>8 DEF Sign, Go
  <2>4. UNCHANGED <<record, head, starts, displaced>> BY <1>8 DEF Sign
  <2>5. lock' \in Lock BY <1>3, <1>8 DEF Sign, Lock
  <2>6. claimed' \in [Runner -> Lock] BY <1>3, <1>8 DEF Sign, Lock
  <2> HIDE DEF go
  <2>7. QED BY <1>2, <1>3, <2>2, <2>3, <2>4, <2>5, <2>6
<1>9. ASSUME NEW r \in Runner, TakeTask(r) PROVE LedgerTyped'
  <2> DEFINE t == TaskOrder[run[r].task]
             base == IF Recorded(t) = {} THEN 0 ELSE record[<<t, CHOOSE p \in Recorded(t) : TRUE>>].base
             end == [run[r] EXCEPT !.pc = "release", !.code = 0]
             stop == [run[r] EXCEPT !.pc = "release", !.code = 2]
             go == [run[r] EXCEPT !.pc = "pair", !.base = base, !.done = Recorded(t)]
  <2>1. end \in Notes /\ Holds(end) /\ stop \in Notes /\ Holds(stop)
    <3>1. run[r] \in Notes /\ Holds(run[r]) BY <1>0
    <3>2. end \in Notes BY <3>1, <1>9 DEF Notes, Step, Ended, Early, InPair, TakeTask
    <3>3. Holds(end) BY <3>1, <1>9 DEF Notes, Holds, Step, Ended, Early, InPair, TakeTask
    <3>4. stop \in Notes BY <3>1, <1>9 DEF Notes, Step, Ended, Early, InPair, TakeTask
    <3>5. Holds(stop) BY <3>1, <1>9 DEF Notes, Holds, Step, Ended, Early, InPair, TakeTask
    <3>6. QED BY <3>2, <3>3, <3>4, <3>5
  <2>2. run[r].task \in 1 .. (Len(TaskOrder) + 1) BY <1>0 DEF Notes
  <2>3. run[r].task <= Len(TaskOrder) => base \in 0 .. MaxHead
    <3>1. CASE Recorded(t) = {} BY <3>1, LedgerAssumption
    <3>2. CASE Recorded(t) # {} /\ run[r].task <= Len(TaskOrder)
      <4>1. PICK p : p = (CHOOSE q \in Recorded(t) : TRUE) OBVIOUS
      <4>2. p \in Recorded(t) BY <3>2, <4>1
      <4>3. p \in 1 .. Pairs BY <4>2 DEF Recorded
      <4>4. run[r].task \in 1 .. Len(TaskOrder) BY <2>2, <3>2, TasksAre
      <4>5. <<t, p>> \in Slot BY <4>3, <4>4, TasksAre
      <4>6. record[<<t, p>>] \in Record BY <4>5 DEF LedgerTyped
      <4>7. QED BY <3>2, <4>1, <4>6 DEF Record
    <3>3. QED BY <3>1, <3>2
  <2>4. Recorded(t) \in SUBSET (1 .. Pairs) BY DEF Recorded
  <2>5. run' = [run EXCEPT ![r] = end] \/ run' = [run EXCEPT ![r] = stop]
          \/ (run[r].task <= Len(TaskOrder) /\ run' = [run EXCEPT ![r] = go])
    BY <1>9, TakeTaskIs DEF BaseOf
  <2>6. UNCHANGED <<record, head, starts, lock, claimed, displaced>> BY <1>9 DEF TakeTask
  <2> HIDE DEF base
  <2>7. run[r].task <= Len(TaskOrder) => go \in Notes /\ Holds(go)
    <3>1. run[r] \in Notes /\ Holds(run[r]) BY <1>0
    <3>2. run[r].task <= Len(TaskOrder) => go \in Notes BY <3>1, <1>9, <2>3, <2>4 DEF Notes, Step, Ended, Early, InPair, TakeTask
    <3>3. run[r].task <= Len(TaskOrder) => Holds(go) BY <3>1, <1>9, <2>3, <2>4 DEF Notes, Holds, Step, Ended, Early, InPair, TakeTask
    <3>4. QED BY <3>2, <3>3
  <2> HIDE DEF end, stop, go
  <2>8. QED BY <1>2, <1>3, <2>1, <2>5, <2>6, <2>7
<1>10. ASSUME NEW r \in Runner, TakePair(r) PROVE LedgerTyped'
  <2> DEFINE next == [run[r] EXCEPT !.pc = "task", !.task = @ + 1]
             go == [run[r] EXCEPT !.pc = "clone", !.arm = "ungated"]
  <2>1. next \in Notes /\ Holds(next)
    <3>1. run[r] \in Notes /\ Holds(run[r]) BY <1>0
    <3>5. run[r].task \in 1 .. (Len(TaskOrder) + 1) /\ run[r].task <= Len(TaskOrder)
      BY <3>1, <1>10 DEF Notes, Holds, TakePair
    <3>6. run[r].task + 1 \in 1 .. (Len(TaskOrder) + 1) BY <3>5, TasksAre
    <3>2. next \in Notes BY <3>1, <3>6 DEF Notes, Step
    <3>3. Holds(next) BY <3>1, <1>10 DEF Notes, Holds, Step, Ended, Early, InPair, TakePair
    <3>4. QED BY <3>2, <3>3
  <2>2. Missing(r) # {} => run[r].done # 1 .. Pairs BY DEF Missing
  <2>3. Missing(r) # {} => go \in Notes /\ Holds(go)
    <3>1. run[r] \in Notes /\ Holds(run[r]) BY <1>0
    <3>2. Missing(r) # {} => go \in Notes BY <3>1, <1>10, <2>2 DEF Notes, Step, Ended, Early, InPair, TakePair, Arm
    <3>3. Missing(r) # {} => Holds(go) BY <3>1, <1>10, <2>2 DEF Notes, Holds, Step, Ended, Early, InPair, TakePair, Arm
    <3>4. QED BY <3>2, <3>3
  <2>4. run' = [run EXCEPT ![r] = next] \/ (Missing(r) # {} /\ run' = [run EXCEPT ![r] = go])
    BY <1>10 DEF TakePair
  <2>6. UNCHANGED <<record, head, starts, lock, claimed, displaced>> BY <1>10 DEF TakePair
  <2> HIDE DEF next, go
  <2>7. QED BY <1>2, <1>3, <2>1, <2>3, <2>4, <2>6
<1>11. ASSUME NEW r \in Runner, Clone(r) PROVE LedgerTyped'
  <2> DEFINE go == [run[r] EXCEPT !.pc = "agent", !.tree = 0, !.base = IF @ = 0 THEN head ELSE @]
             stop == [run[r] EXCEPT !.pc = "release", !.code = 2]
  <2>0. head \in 1 .. MaxHead BY DEF LedgerTyped
  <2>1. go \in Notes /\ Holds(go)
    <3>1. run[r] \in Notes /\ Holds(run[r]) BY <1>0
    <3>5. (IF run[r].base = 0 THEN head ELSE run[r].base) \in 0 .. MaxHead BY <3>1, <2>0, LedgerAssumption DEF Notes
    <3>2. go \in Notes BY <3>1, <3>5 DEF Notes, Step, InPair
    <3>3. Holds(go) BY <3>1, <1>11, <2>0 DEF Notes, Holds, Step, Ended, Early, InPair, Clone
    <3>4. QED BY <3>2, <3>3
  <2>2. stop \in Notes /\ Holds(stop)
    <3>1. run[r] \in Notes /\ Holds(run[r]) BY <1>0
    <3>2. stop \in Notes BY <3>1, <1>11 DEF Notes, Step, Ended, Early, InPair, Clone
    <3>3. Holds(stop) BY <3>1, <1>11 DEF Notes, Holds, Step, Ended, Early, InPair, Clone
    <3>4. QED BY <3>2, <3>3
  <2>4. run' = [run EXCEPT ![r] = go] \/ run' = [run EXCEPT ![r] = stop] BY <1>11 DEF Clone, Release
  <2>6. UNCHANGED <<record, head, starts, lock, claimed, displaced>> BY <1>11 DEF Clone
  <2> HIDE DEF go, stop
  <2>7. QED BY <1>2, <1>3, <2>1, <2>2, <2>4, <2>6
<1>12. ASSUME NEW r \in Runner, AgentEnds(r) PROVE LedgerTyped'
  <2>1. PICK owned \in BOOLEAN :
          run' = [run EXCEPT ![r].pc = "verify", ![r].owned = owned, ![r].at = run[r].tree]
    BY <1>12 DEF AgentEnds
  <2> DEFINE go == [run[r] EXCEPT !.pc = "verify", !.owned = owned, !.at = run[r].tree]
  <2>2. go \in Notes /\ Holds(go)
    <3>1. run[r] \in Notes /\ Holds(run[r]) BY <1>0
    <3>2. go \in Notes BY <3>1, <1>12 DEF Notes, Step, Ended, Early, InPair, AgentEnds
    <3>3. Holds(go) BY <3>1, <1>12 DEF Notes, Holds, Step, Ended, Early, InPair, AgentEnds
    <3>4. QED BY <3>2, <3>3
  <2>3. run' = [run EXCEPT ![r] = go] BY <2>1
  <2>6. UNCHANGED <<record, head, starts, lock, claimed, displaced>> BY <1>12 DEF AgentEnds
  <2> HIDE DEF go
  <2>7. QED BY <1>2, <1>3, <2>2, <2>3, <2>6
<1>13. ASSUME NEW r \in Runner, Verify(r) \/ Check(r) \/ Straggle(r) PROVE LedgerTyped'
  <2> DEFINE v == [run[r] EXCEPT !.pc = "check", !.verified = run[r].tree]
             c == [run[r] EXCEPT !.pc = "conclude", !.checked = run[r].tree]
             s == [run[r] EXCEPT !.tree = @ + 1]
  <2>1. Verify(r) => v \in Notes /\ Holds(v)
    <3>1. run[r] \in Notes /\ Holds(run[r]) BY <1>0
    <3>2. Verify(r) => v \in Notes BY <3>1 DEF Notes, Step, Ended, Early, InPair, Verify
    <3>3. Verify(r) => Holds(v) BY <3>1 DEF Notes, Holds, Step, Ended, Early, InPair, Verify
    <3>4. QED BY <3>2, <3>3
  <2>2. Check(r) => c \in Notes /\ Holds(c)
    <3>1. run[r] \in Notes /\ Holds(run[r]) BY <1>0
    <3>2. Check(r) => c \in Notes BY <3>1 DEF Notes, Step, Ended, Early, InPair, Check
    <3>3. Check(r) => Holds(c) BY <3>1 DEF Notes, Holds, Step, Ended, Early, InPair, Check
    <3>4. QED BY <3>2, <3>3
  <2>3. Straggle(r) => s \in Notes /\ Holds(s)
    <3>1. run[r] \in Notes /\ Holds(run[r]) BY <1>0
    <3>2. Straggle(r) => s \in Notes BY <3>1 DEF Notes, Step, Ended, Early, InPair, Straggle
    <3>3. Straggle(r) => Holds(s) BY <3>1 DEF Notes, Holds, Step, Ended, Early, InPair, Straggle
    <3>4. QED BY <3>2, <3>3
  <2>4. \/ Verify(r) /\ run' = [run EXCEPT ![r] = v]
        \/ Check(r) /\ run' = [run EXCEPT ![r] = c]
        \/ Straggle(r) /\ run' = [run EXCEPT ![r] = s]
    BY <1>13 DEF Verify, Check, Straggle
  <2>6. UNCHANGED <<record, head, starts, lock, claimed, displaced>> BY <1>13 DEF Verify, Check, Straggle
  <2> HIDE DEF v, c, s
  <2>7. QED BY <1>2, <1>3, <2>1, <2>2, <2>3, <2>4, <2>6
<1>14. ASSUME NEW r \in Runner, Conclude(r) PROVE LedgerTyped'
  <2>1. PICK judged \in BOOLEAN :
          run' = [run EXCEPT ![r] =
                  [run[r] EXCEPT !.arms[run[r].arm] = IF ~Measures(r, judged) THEN "unmeasured"
                                                      ELSE IF Stood(r) THEN "measured" ELSE "moved",
                        !.arm = "gated", !.at = 0, !.verified = 0, !.checked = 0, !.tree = 0, !.owned = TRUE,
                        !.pc = IF run[r].arm = "ungated" THEN "clone" ELSE "store"]]
    BY <1>14, ConcludeIs
  <2> DEFINE result == IF ~Measures(r, judged) THEN "unmeasured" ELSE IF Stood(r) THEN "measured" ELSE "moved"
             go == [run[r] EXCEPT !.arms[run[r].arm] = result, !.arm = "gated",
                        !.at = 0, !.verified = 0, !.checked = 0, !.tree = 0, !.owned = TRUE,
                        !.pc = IF run[r].arm = "ungated" THEN "clone" ELSE "store"]
  <2>2. run[r].pc = "conclude" BY <1>14 DEF Conclude
  <2>3. run[r].at = run[r].tree => Stood(r)
    BY <1>0, <2>2 DEF Holds, Notes, Stood
  <2>4. result \in Outcome BY <2>3 DEF Outcome, Measures
  <2> HIDE DEF result
  <2>5. go \in Notes /\ Holds(go)
    <3>1. run[r] \in Notes /\ Holds(run[r]) BY <1>0
    <3>2. go \in Notes BY <3>1, <2>2, <2>4 DEF Notes, Step, Ended, Early, InPair, Arm
    <3>3. Holds(go) BY <3>1, <2>2, <2>4 DEF Notes, Holds, Step, Ended, Early, InPair, Arm
    <3>4. QED BY <3>2, <3>3
  <2>6. run' = [run EXCEPT ![r] = go] BY <2>1 DEF result
  <2>7. UNCHANGED <<record, head, starts, lock, claimed, displaced>> BY <1>14 DEF Conclude
  <2> HIDE DEF go
  <2>8. QED BY <1>2, <1>3, <2>5, <2>6, <2>7
<1>15. ASSUME NEW r \in Runner, Store(r) PROVE LedgerTyped'
  <2> DEFINE p == NextPair(r)
             new == [plan |-> run[r].plan, base |-> run[r].base, pair |-> PairOf(run[r].arms)]
             go == [run[r] EXCEPT !.pc = "pair", !.done = @ \cup {p}, !.arms = [a \in Arm |-> "none"]]
  <2>1. run[r].pc = "store" BY <1>15 DEF Store
  <2>2. p \in 1 .. Pairs BY <2>1, NextPairIs
  <2>3. go \in Notes /\ Holds(go)
    <3>1. run[r] \in Notes /\ Holds(run[r]) BY <1>0
    <3> HIDE DEF p
    <3>2. go \in Notes BY <3>1, <2>2 DEF Notes, Step, Outcome
    <3>3. Holds(go) BY <3>1, <2>1 DEF Notes, Holds, Step, Ended, Early, InPair
    <3>4. QED BY <3>2, <3>3
  <2>4. run[r].arms \in [Arm -> Outcome] BY <1>0 DEF Notes
  <2>5. PairOf(run[r].arms) \in Outcome BY <2>4 DEF PairOf, Outcome
  <2>6. run[r].plan \in Plan /\ run[r].base \in 0 .. MaxHead /\ run[r].base # 0
    BY <1>0, <2>1 DEF Notes, Holds, Ended, InPair
  <2>7. new \in Record BY <2>5, <2>6 DEF Record
  <2>8. record' = [record EXCEPT ![<<TaskOrder[run[r].task], p>>] = new] /\ run' = [run EXCEPT ![r] = go]
    BY <1>15 DEF Store
  <2>9. UNCHANGED <<lock, claimed, head, starts, displaced>> BY <1>15 DEF Store
  <2>10. new.plan \in Plan /\ new.base # 0 BY <2>6
  <2> HIDE DEF new, go, p
  <2>11. run' \in [Runner -> Notes] /\ \A q \in Runner : Holds(run'[q]) BY <2>3, <2>8, OneRunnerMoves
  <2>12. record' \in [Slot -> Record] /\ \A s \in Slot : record'[s] \in {record[s], new}
    BY <2>7, <2>8 DEF LedgerTyped
  <2>13. \A s \in Slot : record'[s] # Absent => record'[s].plan \in Plan /\ record'[s].base # 0
    BY <2>10, <2>12 DEF LedgerTyped
  <2>14. QED BY <2>9, <2>11, <2>12, <2>13 DEF LedgerTyped
<1>16. ASSUME NEW r \in Runner, ReadOwnLock(r) \/ Unlink(r) PROVE LedgerTyped'
  <2> DEFINE u == [run[r] EXCEPT !.pc = "unlink"]
             s == [run[r] EXCEPT !.pc = "stopped"]
  <2>1. u \in Notes /\ Holds(u) /\ s \in Notes /\ Holds(s)
    <3>1. run[r] \in Notes /\ Holds(run[r]) BY <1>0
    <3>2. u \in Notes BY <3>1, <1>16 DEF Notes, Step, Ended, Early, InPair, ReadOwnLock, Unlink
    <3>3. Holds(u) BY <3>1, <1>16 DEF Notes, Holds, Step, Ended, Early, InPair, ReadOwnLock, Unlink
    <3>4. s \in Notes BY <3>1, <1>16 DEF Notes, Step, Ended, Early, InPair, ReadOwnLock, Unlink
    <3>5. Holds(s) BY <3>1, <1>16 DEF Notes, Holds, Step, Ended, Early, InPair, ReadOwnLock, Unlink
    <3>6. QED BY <3>2, <3>3, <3>4, <3>5
  <2>2. run' = [run EXCEPT ![r] = u] \/ run' = [run EXCEPT ![r] = s] BY <1>16 DEF ReadOwnLock, Unlink, Go
  <2>3. UNCHANGED <<record, head, starts, claimed, displaced>> /\ lock' \in Lock
    BY <1>3, <1>16 DEF ReadOwnLock, Unlink, Lock
  <2> HIDE DEF u, s
  <2>4. QED BY <1>2, <1>3, <2>1, <2>2, <2>3
<1>17. CASE SourceMoves 
  <2>1. head' \in 1 .. MaxHead BY <1>17, LedgerAssumption DEF SourceMoves, LedgerTyped
  <2>2. UNCHANGED <<lock, claimed, record, run, starts, displaced>> BY <1>17 DEF SourceMoves
  <2>3. QED BY <2>1, <2>2 DEF LedgerTyped
<1>18. ASSUME NEW r \in Runner, CrashRunner(r) PROVE LedgerTyped'
  <2> DEFINE n == [Fresh EXCEPT !.pc = "crashed"]
  <2>1. n \in Notes BY FreshIs DEF Notes, Step, Ended
  <2>2. Holds(n) BY DEF Holds, Fresh, Early, InPair, Ended
  <2>3. run' = [run EXCEPT ![r] = n] /\ UNCHANGED <<lock, claimed, record, head, starts, displaced>>
    BY <1>18 DEF CrashRunner
  <2> HIDE DEF n
  <2>4. QED BY <1>2, <1>3, <2>1, <2>2, <2>3
<1>19. CASE UNCHANGED ledgerVars BY <1>19 DEF ledgerVars, LedgerTyped
<1>20. QED
  BY <1>1, <1>4, <1>5, <1>6, <1>7, <1>8, <1>9, <1>10, <1>11, <1>12, <1>13, <1>14, <1>15, <1>16, <1>17, <1>18, <1>19
     DEF LedgerNext, RunnerStep

-----------------------------------------------------------------------------
\* The lock.

Past(o) == o.start <= starts[o.runner]
Dead(o) == o \in Owner /\ Past(o) /\ ~Alive(o)

\* Whoever writes is named by the lock, and what a --break-lock is about to move was left by
\* a process that has ended: a start is never started twice.
LockInv ==
    /\ lock # NoLock => Past(lock.owner)
    /\ \A r \in Runner : claimed[r] # NoLock => Past(claimed[r].owner)
    /\ \A r \in Runner : run[r].pc \in {"claim", "recheck"} => Dead(run[r].seen)
    /\ ~displaced => \A r \in Runner : Writing(r) => lock # NoLock /\ lock.owner = Token(r)

\* Nobody holds a lock.
LEMMA LockInvInit == LedgerInit => LockInv
BY DEF LedgerInit, LockInv, Fresh, Writing, Ended

\* Who has ended stays so while nothing is started.
LEMMA DeadStay ==
    ASSUME LedgerTyped, LedgerTyped', UNCHANGED starts,
           \A q \in Runner : run[q].pc \in Ended => run'[q].pc \in Ended
    PROVE  \A o \in Owner : Dead(o) => Dead(o)'
BY DEF Dead, Past, Alive, Owner, LedgerTyped

\* Who was found dead is dead still.
LEMMA SeenStays ==
    ASSUME LedgerTyped, LockInv, \A o \in Owner : Dead(o) => Dead(o)',
           NEW q \in Runner, run[q].pc \in {"claim", "recheck"}, run'[q].seen = run[q].seen
    PROVE  Dead(run[q].seen)'
<1>1. Dead(run[q].seen) /\ run[q].seen \in Owner BY DEF LockInv, Dead
<1>2. \A o \in Owner : o = run[q].seen => Dead(o)' BY <1>1
<1>3. QED BY <1>1, <1>2 DEF Dead, Past, Alive

\* Who was found dead is dead still, whoever looked.
LEMMA SeenKept ==
    ASSUME LedgerTyped, LockInv, \A o \in Owner : Dead(o) => Dead(o)',
           \A q \in Runner : run'[q].pc \in {"claim", "recheck"} =>
                              run[q].pc \in {"claim", "recheck"} /\ run'[q].seen = run[q].seen
    PROVE  \A q \in Runner : run'[q].pc \in {"claim", "recheck"} => Dead(run[q].seen)'
BY SeenStays

\* A step that does not touch the lock.
LEMMA LockQuiet ==
    ASSUME LedgerTyped, LedgerTyped', LockInv, NEW r \in Runner,
           UNCHANGED <<lock, claimed, starts, displaced>>,
           \A q \in Runner \ {r} : run'[q] = run[q],
           run[r].pc \in Ended => run'[r].pc \in Ended,
           run'[r].pc \notin {"claim", "recheck"}, Writing(r)' => Writing(r)
    PROVE  LockInv'
<1>1. \A o \in Owner : Dead(o) => Dead(o)' BY DeadStay
<1>2. lock # NoLock => Past(lock.owner)' BY DEF LockInv, Past
<1>3. \A q \in Runner : claimed'[q] # NoLock => Past(claimed[q].owner)' BY DEF LockInv, Past
<1>4. \A q \in Runner : run'[q].pc \in {"claim", "recheck"} => Dead(run[q].seen)' BY <1>1, SeenKept
<1>5. ~displaced' => \A q \in Runner : Writing(q)' => lock' # NoLock /\ lock'.owner = Token(q)'
  BY DEF LockInv, Writing, Token
<1>6. QED BY <1>2, <1>3, <1>4, <1>5 DEF LockInv

\* Every step that may touch the lock.
LEMMA LockInvKeeps == LedgerTyped /\ LedgerTyped' /\ LockInv /\ [LedgerNext]_ledgerVars => LockInv'
<1> SUFFICES ASSUME LedgerTyped, LedgerTyped', LockInv, [LedgerNext]_ledgerVars PROVE LockInv'
  OBVIOUS
<1>0. /\ run \in [Runner -> Notes] /\ run' \in [Runner -> Notes] /\ claimed \in [Runner -> Lock] /\ lock \in Lock
      /\ starts \in [Runner -> Nat]
  BY DEF LedgerTyped
<1>1. ASSUME NEW r \in Runner, Start(r) PROVE LockInv'
  <2>1. run[r].pc \in Ended /\ starts' = [starts EXCEPT ![r] = @ + 1] /\ UNCHANGED <<lock, claimed, displaced>>
    BY <1>1 DEF Start
  <2>2. \A q \in Runner \ {r} : run'[q] = run[q] /\ starts'[q] = starts[q]
    BY <1>0, <1>1 DEF Start
  <2>3. run'[r].pc \in {"stopped", "inspect", "create"} BY <1>0, <1>1 DEF Start, Fresh
  <2>4. starts'[r] > starts[r] /\ starts' \in [Runner -> Nat] BY <1>0, <2>1
  <2>5. \A o \in Owner : Past(o) => Past(o)'
    BY <1>0, <2>2, <2>4 DEF Past, Owner
  <2>6. \A o \in Owner : Dead(o) => Dead(o)'
    <3> SUFFICES ASSUME NEW o \in Owner, Dead(o) PROVE Dead(o)' OBVIOUS
    <3>1. Past(o) /\ Past(o)' BY <2>5 DEF Dead
    <3>2. CASE o.runner = r BY <1>0, <2>4, <3>1, <3>2 DEF Dead, Past, Alive, Owner
    <3>3. CASE o.runner # r BY <2>2, <3>1, <3>3 DEF Dead, Alive, Owner
    <3>4. QED BY <3>2, <3>3
  <2>7. lock # NoLock => Past(lock.owner)' BY <1>0, <2>1, <2>5 DEF LockInv, Lock, Past
  <2>8. \A q \in Runner : claimed[q] # NoLock => Past(claimed[q].owner)' BY <1>0, <2>1, <2>5 DEF LockInv, Lock, Past
  <2>9. \A q \in Runner : run'[q].pc \in {"claim", "recheck"} => Dead(run[q].seen)'
    BY <2>2, <2>3, <2>6, SeenKept
  <2>10. ~displaced => \A q \in Runner : Writing(q)' => lock # NoLock /\ lock.owner = Token(q)'
    <3>1. ~Writing(r)' BY <2>3 DEF Writing, Ended
    <3>2. \A q \in Runner \ {r} : Writing(q)' => Writing(q) /\ Token(q)' = Token(q) BY <2>2 DEF Writing, Token
    <3>3. QED BY <3>1, <3>2 DEF LockInv
  <2>11. QED BY <2>1, <2>7, <2>8, <2>9, <2>10 DEF LockInv
<1>2. ASSUME NEW r \in Runner, Inspect(r) PROVE LockInv'
  <2>0. UNCHANGED <<lock, claimed, starts, displaced>> /\ run[r].pc = "inspect" BY <1>2 DEF Inspect
  <2>1. \A q \in Runner \ {r} : run'[q] = run[q] BY <1>0, <1>2 DEF Inspect, Quit
  <2>2. CASE run'[r].pc = "stopped"
    BY <2>0, <2>1, <2>2, LockQuiet DEF Writing, Ended
  <2>3. CASE run'[r].pc # "stopped"
    <3>1. /\ lock # NoLock /\ ~Alive(lock.owner)
          /\ run' = [run EXCEPT ![r].pc = "claim", ![r].seen = lock.owner]
      BY <1>0, <1>2, <2>3 DEF Inspect, Quit, Notes
    <3>2. run'[r].pc = "claim" /\ run'[r].seen = lock.owner /\ lock.owner \in Owner
      BY <1>0, <3>1 DEF Notes, Lock
    <3>3. \A o \in Owner : Dead(o) => Dead(o)'
      BY <2>0, <2>1, <3>2, DeadStay DEF Ended
    <3>4. Dead(lock.owner) BY <3>1, <3>2 DEF Dead, LockInv
    <3>5. Dead(lock.owner)'
      <4>1. \A o \in Owner : o = lock.owner => Dead(o)' BY <3>2, <3>3, <3>4
      <4>2. QED BY <2>0, <3>2, <4>1 DEF Dead, Past, Alive
    <3>6. \A q \in Runner : run'[q].pc \in {"claim", "recheck"} => Dead(run[q].seen)'
      <4> SUFFICES ASSUME NEW q \in Runner, run'[q].pc \in {"claim", "recheck"} PROVE Dead(run[q].seen)' OBVIOUS
      <4>1. CASE q = r BY <2>0, <3>2, <3>5, <4>1 DEF Dead, Past, Alive
      <4>2. CASE q # r BY <2>1, <3>3, <4>2, SeenStays
      <4>3. QED BY <4>1, <4>2
    <3>7. ~displaced => \A q \in Runner : Writing(q)' => lock # NoLock /\ lock.owner = Token(q)'
      BY <2>0, <2>1, <3>2 DEF LockInv, Writing, Token
    <3>8. QED BY <2>0, <3>6, <3>7 DEF LockInv, Past
  <2>4. QED BY <2>2, <2>3
<1>3. ASSUME NEW r \in Runner, Claim(r) PROVE LockInv'
  <2>0. run[r].pc = "claim" /\ lock' = NoLock /\ claimed' = [claimed EXCEPT ![r] = lock] /\ UNCHANGED starts
        /\ displaced' = (displaced \/ (lock # NoLock /\ lock.owner # run[r].seen))
    BY <1>3 DEF Claim
  <2>1. \A q \in Runner \ {r} : run'[q] = run[q] BY <1>0, <1>3 DEF Claim, Go
  <2>2. run'[r] = [run[r] EXCEPT !.pc = run'[r].pc] /\ run'[r].pc \in {"create", "recheck"}
    BY <1>0, <1>3 DEF Claim, Go, Notes
  <2>3. run'[r].seen = run[r].seen BY <1>0, <2>2 DEF Notes
  <2>4. \A o \in Owner : Dead(o) => Dead(o)' BY <2>0, <2>1, <2>2, DeadStay DEF Ended
  <2>5. \A q \in Runner : run'[q].pc \in {"claim", "recheck"} => Dead(run[q].seen)'
    BY <2>0, <2>1, <2>3, <2>4, SeenKept
  <2>6. ~displaced' => \A q \in Runner : ~Writing(q)
    <3> SUFFICES ASSUME ~displaced', NEW q \in Runner, Writing(q) PROVE FALSE OBVIOUS
    <3>1. lock # NoLock /\ lock.owner = Token(q) BY <2>0 DEF LockInv
    <3>2. lock.owner = run[r].seen BY <2>0, <3>1
    <3>3. ~Alive(lock.owner) BY <2>0, <3>2 DEF LockInv, Dead
    <3>4. Alive(Token(q)) BY DEF Alive, Token, Writing
    <3>5. QED BY <3>1, <3>3, <3>4
  <2>7. \A q \in Runner : Writing(q)' => Writing(q) BY <2>1, <2>2 DEF Writing
  <2>8. \A q \in Runner : claimed'[q] # NoLock => Past(claimed[q].owner)'
    BY <1>0, <2>0 DEF LockInv, Past
  <2>9. QED BY <2>0, <2>5, <2>6, <2>7, <2>8 DEF LockInv
<1>4. ASSUME NEW r \in Runner, Recheck(r) PROVE LockInv'
  <2>0. run[r].pc = "recheck" /\ UNCHANGED <<starts, displaced>> BY <1>4 DEF Recheck
  <2>1. \A q \in Runner \ {r} : run'[q] = run[q] BY <1>0, <1>4 DEF Recheck, Go, Quit
  <2>2. run'[r].pc \in {"stopped", "create"} BY <1>0, <1>4 DEF Recheck, Go, Quit, Notes
  <2>3. \A o \in Owner : Dead(o) => Dead(o)' BY <2>0, <2>1, <2>2, DeadStay DEF Ended
  <2>4. \A q \in Runner : run'[q].pc \in {"claim", "recheck"} => Dead(run[q].seen)'
    BY <2>1, <2>2, <2>3, SeenKept
  <2>5. \A q \in Runner : Writing(q)' => Writing(q) BY <2>1, <2>2 DEF Writing, Ended
  <2>6. lock' = lock \/ (lock = NoLock /\ lock' = claimed[r]) BY <1>4 DEF Recheck
  <2>7. \A q \in Runner : claimed'[q] \in {claimed[q], NoLock} BY <1>0, <1>4 DEF Recheck
  <2>8. ~displaced' => \A q \in Runner : Writing(q)' => lock' # NoLock /\ lock'.owner = Token(q)'
    BY <2>0, <2>5, <2>6 DEF LockInv, Token
  <2>9. lock' # NoLock => Past(lock.owner)' BY <2>0, <2>6 DEF LockInv, Past
  <2>10. \A q \in Runner : claimed'[q] # NoLock => Past(claimed[q].owner)' BY <2>0, <2>7 DEF LockInv, Past
  <2>11. QED BY <2>4, <2>8, <2>9, <2>10 DEF LockInv
<1>5. ASSUME NEW r \in Runner, Create(r) PROVE LockInv'
  <2>0. run[r].pc = "create" /\ UNCHANGED <<claimed, starts, displaced>> BY <1>5 DEF Create
  <2>1. \A q \in Runner \ {r} : run'[q] = run[q] BY <1>0, <1>5 DEF Create, Go, Quit
  <2>2. CASE lock # NoLock
    <3>1. lock' = lock /\ run'[r].pc = "stopped" BY <1>0, <1>5, <2>2 DEF Create, Quit, Notes
    <3>2. QED BY <2>0, <2>1, <3>1, LockQuiet DEF Writing, Ended
  <2>3. CASE lock = NoLock
    <3>1. lock' = [owner |-> Token(r), torn |-> TRUE] /\ run'[r].pc = "sign"
      BY <1>0, <1>5, <2>3 DEF Create, Go, Notes
    <3>2. Token(r) \in Owner /\ Token(r)' = Token(r) BY <1>0, <2>0 DEF Token, Owner
    <3>3. lock' # NoLock
      <4>1. lock' \in [owner : Owner, torn : BOOLEAN] BY <3>1, <3>2
      <4>2. NoLock \notin [owner : Owner, torn : BOOLEAN] BY LedgerAssumption DEF Owner
      <4>3. QED BY <4>1, <4>2
    <3>4. \A o \in Owner : Dead(o) => Dead(o)' BY <2>0, <2>1, <3>1, DeadStay DEF Ended
    <3>5. \A q \in Runner : run'[q].pc \in {"claim", "recheck"} => Dead(run[q].seen)'
      BY <2>1, <3>1, <3>4, SeenKept
    <3>6. ~displaced' => \A q \in Runner : Writing(q)' => q = r
      BY <2>0, <2>1, <2>3 DEF LockInv, Writing
    <3>7. Past(lock.owner)' BY <1>0, <2>0, <3>1, <3>2 DEF Past, Token
    <3>8. QED BY <2>0, <3>1, <3>2, <3>3, <3>5, <3>6, <3>7 DEF LockInv, Past
  <2>4. QED BY <2>2, <2>3
<1>6. ASSUME NEW r \in Runner, Sign(r) PROVE LockInv'
  <2>0. run[r].pc = "sign" /\ UNCHANGED <<starts, displaced>> BY <1>6 DEF Sign
  <2>1. \A q \in Runner \ {r} : run'[q] = run[q] BY <1>0, <1>6 DEF Sign, Go
  <2>2. run'[r].pc = "task" BY <1>0, <1>6 DEF Sign, Go, Notes
  <2>3. (lock' = NoLock) = (lock = NoLock) /\ (lock # NoLock => lock'.owner = lock.owner)
    BY <1>0, <1>6, LedgerAssumption DEF Sign, Lock, Owner
  <2>4. \A q \in Runner : /\ (claimed'[q] = NoLock) = (claimed[q] = NoLock)
                          /\ claimed[q] # NoLock => claimed'[q].owner = claimed[q].owner
    BY <1>0, <1>6, LedgerAssumption DEF Sign, Lock, Owner
  <2>5. \A o \in Owner : Dead(o) => Dead(o)' BY <2>0, <2>1, <2>2, DeadStay DEF Ended
  <2>6. \A q \in Runner : run'[q].pc \in {"claim", "recheck"} => Dead(run[q].seen)'
    BY <2>1, <2>2, <2>5, SeenKept
  <2>7. \A q \in Runner : Writing(q)' => Writing(q) BY <2>0, <2>1 DEF Writing, Ended
  <2>8. ~displaced' => \A q \in Runner : Writing(q)' => lock' # NoLock /\ lock'.owner = Token(q)'
    BY <2>0, <2>3, <2>7 DEF LockInv, Token
  <2>9. lock' # NoLock => Past(lock.owner)' BY <2>0, <2>3 DEF LockInv, Past
  <2>10. \A q \in Runner : claimed'[q] # NoLock => Past(claimed[q].owner)' BY <2>0, <2>4 DEF LockInv, Past
  <2>11. QED BY <2>6, <2>8, <2>9, <2>10 DEF LockInv
<1>7. ASSUME NEW r \in Runner, Unlink(r) PROVE LockInv'
  <2>0. run[r].pc = "unlink" /\ lock' = NoLock /\ UNCHANGED <<claimed, starts, displaced>> BY <1>7 DEF Unlink
  <2>1. \A q \in Runner \ {r} : run'[q] = run[q] BY <1>0, <1>7 DEF Unlink, Go
  <2>2. run'[r].pc = "stopped" BY <1>0, <1>7 DEF Unlink, Go, Notes
  <2>3. \A o \in Owner : Dead(o) => Dead(o)' BY <2>0, <2>1, <2>2, DeadStay DEF Ended
  <2>4. \A q \in Runner : run'[q].pc \in {"claim", "recheck"} => Dead(run[q].seen)'
    BY <2>1, <2>2, <2>3, SeenKept
  <2>5. Writing(r) BY <2>0 DEF Writing, Ended
  <2>6. ~displaced' => \A q \in Runner : ~Writing(q)'
    <3> SUFFICES ASSUME ~displaced', NEW q \in Runner, Writing(q)' PROVE FALSE OBVIOUS
    <3>1. q # r /\ Writing(q) BY <2>1, <2>2 DEF Writing, Ended
    <3>2. Token(q) = Token(r) BY <2>0, <2>5, <3>1 DEF LockInv
    <3>3. QED BY <3>1, <3>2 DEF Token
  <2>7. QED BY <2>0, <2>4, <2>6 DEF LockInv, Past
<1>8. ASSUME NEW r \in Runner,
             \/ TakeTask(r) \/ TakePair(r) \/ Clone(r) \/ AgentEnds(r) \/ Verify(r) \/ Check(r)
             \/ Conclude(r) \/ Store(r) \/ ReadOwnLock(r) \/ Straggle(r) \/ CrashRunner(r)
      PROVE LockInv'
  <2>1. UNCHANGED <<lock, claimed, starts, displaced>>
    BY <1>8 DEF TakeTask, TakePair, Clone, AgentEnds, Verify, Check, Conclude, Store, ReadOwnLock, Straggle, CrashRunner
  <2>2. \A q \in Runner \ {r} : run'[q] = run[q]
    <3>1. CASE TakeTask(r) \/ TakePair(r) BY <1>0, <3>1 DEF TakeTask, TakePair, Release
    <3>2. CASE Clone(r) \/ AgentEnds(r) \/ Verify(r) \/ Check(r) BY <1>0, <3>2 DEF Clone, AgentEnds, Verify, Check, Release
    <3>3. CASE Store(r) BY <1>0, <3>3 DEF Store
    <3>6. CASE Conclude(r) BY <1>0, <3>6, ConcludeIs
    <3>4. CASE ReadOwnLock(r) \/ Straggle(r) \/ CrashRunner(r) BY <1>0, <3>4 DEF ReadOwnLock, Straggle, CrashRunner, Go
    <3>5. QED BY <1>8, <3>1, <3>2, <3>3, <3>4, <3>6
  <2>3. /\ run[r].pc \notin Ended
        /\ run'[r].pc = "crashed" \/ (Writing(r) /\ run'[r].pc \notin {"claim", "recheck"})
    <3>1. CASE CrashRunner(r) BY <1>0, <3>1 DEF CrashRunner, Fresh, Notes
    <3>2. CASE TakeTask(r) BY <3>2, TakeTaskIs DEF Writing, Ended
    <3>9. CASE TakePair(r) BY <1>0, <3>9 DEF TakePair, Writing, Ended, Notes
    <3>10. CASE Clone(r) BY <1>0, <3>10 DEF Clone, Release, Writing, Ended, Notes
    <3>3. CASE AgentEnds(r) BY <1>0, <3>3 DEF AgentEnds, Writing, Ended, Notes
    <3>11. CASE Verify(r) \/ Check(r) BY <1>0, <3>11 DEF Verify, Check, Writing, Ended, Notes
    <3>4. CASE Conclude(r) BY <3>4, ConcludeIs DEF Writing, Ended
    <3>5. CASE Store(r) BY <1>0, <3>5 DEF Store, Writing, Ended, Notes
    <3>6. CASE ReadOwnLock(r) BY <1>0, <3>6 DEF ReadOwnLock, Go, Writing, Ended, Notes
    <3>7. CASE Straggle(r) BY <1>0, <3>7 DEF Straggle, Writing, Ended, Notes
    <3>8. QED BY <1>8, <3>1, <3>2, <3>3, <3>4, <3>5, <3>6, <3>7, <3>9, <3>10, <3>11
  <2>4. QED BY <2>1, <2>2, <2>3, LockQuiet DEF Writing, Ended
<1>9. CASE SourceMoves BY <1>9 DEF SourceMoves, LockInv, Past, Dead, Alive, Writing, Token
<1>10. CASE UNCHANGED ledgerVars BY <1>10 DEF ledgerVars, LockInv, Past, Dead, Alive, Writing, Token
<1>11. QED
  BY <1>1, <1>2, <1>3, <1>4, <1>5, <1>6, <1>7, <1>8, <1>9, <1>10 DEF LedgerNext, RunnerStep

\* Two writers would be named by the same lock.
LEMMA OneWriterHolds == LockInv => OneWriter
<1>1. \A r, q \in Runner : Token(r) = Token(q) => r = q BY DEF Token
<1>2. QED BY <1>1 DEF LockInv, OneWriter

-----------------------------------------------------------------------------
\* The schedule.

Entered(i, p) == record[<<TaskOrder[i], p>>]
Tasks == 1 .. Len(TaskOrder)
Complete(i, chosen) == \A p \in 1 .. Pairs : Entered(i, p) # Absent /\ Entered(i, p).plan = chosen

\* What the one writer has behind it: every earlier task is complete, and what it skips in this
\* one is its own experiment's, of the commit it is pinned to.
Scheduled(n) ==
    /\ n.pc \in {"task", "pair"} \cup InPair => \A i \in 1 .. (n.task - 1) : Complete(i, n.plan)
    /\ n.pc \in {"pair"} \cup InPair =>
         \A p \in 1 .. Pairs : /\ p \in n.done <=> Entered(n.task, p) # Absent
                               /\ p \in n.done => Entered(n.task, p).plan = n.plan /\ Entered(n.task, p).base = n.base
    /\ n.code = 0 => \A i \in Tasks : Complete(i, n.plan)

\* A task is begun when the ones before it are complete.
InOrder == \A i, j \in Tasks, p, q \in 1 .. Pairs : i < j /\ Entered(j, p) # Absent => Entered(i, q) # Absent

ScheduleInv ==
    ~displaced => /\ \A r \in Runner : Scheduled(run[r])
                  /\ InOrder
                  /\ OneSource

\* A slot is a task of the order and a pair.
LEMMA SlotIsRow == \A s \in Slot : \E i \in Tasks, p \in 1 .. Pairs : s = <<TaskOrder[i], p>> /\ record[s] = Entered(i, p)
BY TasksAre DEF Slot, Tasks, Entered

\* Nothing is recorded.
LEMMA ScheduleInvInit == LedgerInit => ScheduleInv
<1> SUFFICES ASSUME LedgerInit PROVE ScheduleInv OBVIOUS
<1>1. \A s \in Slot : record[s] = Absent BY DEF LedgerInit
<1>2. \A i \in Tasks, p \in 1 .. Pairs : Entered(i, p) = Absent BY <1>1, TasksAre DEF Entered, Tasks
<1>3. \A r \in Runner : Scheduled(run[r]) BY DEF LedgerInit, Fresh, Scheduled, InPair
<1>4. QED BY <1>1, <1>2, <1>3 DEF ScheduleInv, InOrder, OneSource

\* Nothing is recorded, and one runner moves.
LEMMA ScheduleQuiet ==
    ASSUME ScheduleInv, UNCHANGED record, displaced => displaced',
           NEW r \in Runner, \A q \in Runner \ {r} : run'[q] = run[q], ~displaced => Scheduled(run'[r])
    PROVE  ScheduleInv'
<1> SUFFICES ASSUME ~displaced' PROVE ScheduleInv' BY DEF ScheduleInv
<1>1. \A q \in Runner : Scheduled(run'[q])
  BY DEF ScheduleInv
<1>2. \A q \in Runner : Scheduled(run[q])'
  BY <1>1 DEF Scheduled, Complete, Entered
<1>3. InOrder' /\ OneSource' BY DEF ScheduleInv, InOrder, OneSource, Entered
<1>4. QED BY <1>2, <1>3 DEF ScheduleInv

\* The one writer adds a record where there was none.
LEMMA StoreIs ==
    ASSUME LedgerTyped, ScheduleInv, NEW r \in Runner, Store(r)
    PROVE  /\ run[r].pc = "store" /\ UNCHANGED <<lock, claimed, head, starts, displaced>>
           /\ run[r].task \in Tasks
           /\ \E p \in 1 .. Pairs, pair \in Outcome :
                /\ p \notin run[r].done
                /\ ~displaced => Entered(run[r].task, p) = Absent
                /\ record' = [record EXCEPT ![<<TaskOrder[run[r].task], p>>] =
                                 [plan |-> run[r].plan, base |-> run[r].base, pair |-> pair]]
                /\ run' = [run EXCEPT ![r] = [run[r] EXCEPT !.pc = "pair", !.done = @ \cup {p}, !.arms = [a \in Arm |-> "none"]]]
<1>1. run[r].pc = "store" /\ UNCHANGED <<lock, claimed, head, starts, displaced>> BY DEF Store
<1>2. run[r].task \in Tasks
  <2>1. run[r].task \in 1 .. (Len(TaskOrder) + 1) /\ run[r].task <= Len(TaskOrder)
    BY <1>1 DEF LedgerTyped, Notes, Holds, InPair
  <2>2. QED BY <2>1, TasksAre DEF Tasks
<1> DEFINE p == NextPair(r)
           pair == PairOf(run[r].arms)
<1>3. p \in 1 .. Pairs /\ p \notin run[r].done BY <1>1, NextPairIs DEF Missing
<1>4. ~displaced => Entered(run[r].task, p) = Absent
  <2> HIDE DEF p
  <2>1. QED BY <1>1, <1>3 DEF ScheduleInv, Scheduled, InPair
<1>5. pair \in Outcome
  <2>1. run[r].arms \in [Arm -> Outcome] BY DEF LedgerTyped, Notes
  <2>2. QED BY <2>1 DEF PairOf, Outcome
<1>6. /\ record' = [record EXCEPT ![<<TaskOrder[run[r].task], p>>] =
                       [plan |-> run[r].plan, base |-> run[r].base, pair |-> pair]]
      /\ run' = [run EXCEPT ![r] = [run[r] EXCEPT !.pc = "pair", !.done = @ \cup {p}, !.arms = [a \in Arm |-> "none"]]]
  BY DEF Store
<1> HIDE DEF p, pair
<1>7. QED BY <1>1, <1>2, <1>3, <1>4, <1>5, <1>6

\* The record of the least missing pair of the task keeps the order.
LEMMA StoreKeeps ==
    ASSUME LedgerTyped, LockInv, ScheduleInv, NEW r \in Runner, Store(r)
    PROVE  ScheduleInv'
<1>0. PICK k : k = run[r].task OBVIOUS
<1>1. run[r].pc = "store" /\ UNCHANGED displaced /\ k \in Tasks BY <1>0, StoreIs
<1>2. PICK p \in 1 .. Pairs, pair \in Outcome :
        /\ p \notin run[r].done
        /\ ~displaced => Entered(k, p) = Absent
        /\ record' = [record EXCEPT ![<<TaskOrder[k], p>>] = [plan |-> run[r].plan, base |-> run[r].base, pair |-> pair]]
        /\ run' = [run EXCEPT ![r] = [run[r] EXCEPT !.pc = "pair", !.done = @ \cup {p}, !.arms = [a \in Arm |-> "none"]]]
  BY <1>0, StoreIs
<1> SUFFICES ASSUME ~displaced PROVE ScheduleInv' BY <1>1 DEF ScheduleInv
<1> DEFINE new == [plan |-> run[r].plan, base |-> run[r].base, pair |-> pair]
<1>3. /\ run \in [Runner -> Notes] /\ run[r] \in Notes /\ run[r].base # 0 /\ run[r].plan \in Plan
      /\ record \in [Slot -> Record]
  BY <1>1 DEF LedgerTyped, Holds, InPair, Ended
<1>4. new # Absent /\ new.plan = run[r].plan /\ new.base = run[r].base BY <1>3 DEF Absent
<1>5. \A i \in Tasks, q \in 1 .. Pairs : <<TaskOrder[i], q>> \in Slot BY TasksAre DEF Tasks
<1>6. \A i \in Tasks : TaskOrder[i] = TaskOrder[k] => i = k BY <1>1, TasksAre, LedgerAssumption DEF Tasks, IsInjective
<1> HIDE DEF new
<1>7. record' = [record EXCEPT ![<<TaskOrder[k], p>>] = new] BY <1>2 DEF new
<1>8. \A i \in Tasks, q \in 1 .. Pairs : Entered(i, q)' = IF i = k /\ q = p THEN new ELSE Entered(i, q)
  BY <1>1, <1>3, <1>5, <1>6, <1>7 DEF Entered
<1>9. \A s \in Slot : s = <<TaskOrder[k], p>> \/ record'[s] = record[s] BY <1>3, <1>7
<1>10. Entered(k, p) = Absent BY <1>2
<1>11. \A i \in Tasks, q \in 1 .. Pairs : Entered(i, q) # Absent => Entered(i, q)' = Entered(i, q) BY <1>8, <1>10
<1>12. /\ \A i \in 1 .. (k - 1) : Complete(i, run[r].plan)
       /\ \A q \in 1 .. Pairs : /\ q \in run[r].done <=> Entered(k, q) # Absent
                                /\ q \in run[r].done => Entered(k, q).plan = run[r].plan /\ Entered(k, q).base = run[r].base
  BY <1>0, <1>1 DEF ScheduleInv, Scheduled, InPair
<1>13. \A i \in Tasks, q \in 1 .. Pairs : Entered(i, q) # Absent =>
          Entered(i, q).plan = run[r].plan /\ (i = k => Entered(i, q).base = run[r].base)
  <2> SUFFICES ASSUME NEW i \in Tasks, NEW q \in 1 .. Pairs, Entered(i, q) # Absent
               PROVE  Entered(i, q).plan = run[r].plan /\ (i = k => Entered(i, q).base = run[r].base)
    OBVIOUS
  <2>1. k \in Int /\ i \in Int /\ i >= 1 BY <1>1, TasksAre DEF Tasks
  <2>2. CASE i < k
    <3>1. i \in 1 .. (k - 1) BY <2>1, <2>2
    <3>2. QED BY <1>12, <2>1, <2>2, <3>1 DEF Complete
  <2>3. CASE i = k
    <3>1. Entered(k, q) # Absent BY <2>3
    <3>2. Entered(k, q).plan = run[r].plan /\ Entered(k, q).base = run[r].base BY <1>12, <3>1
    <3>3. QED BY <2>3, <3>2
  <2>4. CASE i > k
    <3>1. Entered(k, p) # Absent BY <1>1, <2>1, <2>4 DEF ScheduleInv, InOrder
    <3>2. QED BY <1>10, <3>1
  <2>5. QED BY <2>1, <2>2, <2>3, <2>4
<1>14. \A i \in Tasks : \A x : Complete(i, x) => Complete(i, x)'
  <2> SUFFICES ASSUME NEW i \in Tasks, NEW x, Complete(i, x) PROVE Complete(i, x)' OBVIOUS
  <2>1. \A q \in 1 .. Pairs : Entered(i, q)' = Entered(i, q) BY <1>11 DEF Complete
  <2>2. QED BY <2>1 DEF Complete
<1>15. OneSource'
  <2> SUFFICES ASSUME NEW s \in Slot, NEW u \in Slot, record'[s] # Absent, record'[u] # Absent
               PROVE  record'[s].plan = record'[u].plan /\ (s[1] = u[1] => record'[s].base = record'[u].base)
    BY DEF OneSource
  <2>1. ASSUME NEW v \in Slot, record'[v] # Absent
        PROVE  record'[v].plan = run[r].plan /\ (v[1] = TaskOrder[k] => record'[v].base = run[r].base)
    <3>1. PICK i \in Tasks, q \in 1 .. Pairs : v = <<TaskOrder[i], q>> BY SlotIsRow
    <3>2. record'[v] = Entered(i, q)' BY <3>1 DEF Entered
    <3>3. v[1] = TaskOrder[i] BY <3>1
    <3>4. QED BY <1>4, <1>6, <1>8, <1>13, <2>1, <3>2, <3>3
  <2>2. CASE s[1] # TaskOrder[k] /\ u[1] # TaskOrder[k]
    <3>1. record'[s] = record[s] /\ record'[u] = record[u] BY <1>9, <2>2
    <3>2. QED BY <3>1 DEF ScheduleInv, OneSource
  <2>3. CASE s[1] = TaskOrder[k] \/ u[1] = TaskOrder[k] BY <2>1, <2>3
  <2>4. QED BY <2>2, <2>3
<1>16. InOrder'
  <2> SUFFICES ASSUME NEW i \in Tasks, NEW j \in Tasks, NEW x \in 1 .. Pairs, NEW y \in 1 .. Pairs, i < j, Entered(j, x)' # Absent
               PROVE  Entered(i, y)' # Absent
    BY DEF InOrder
  <2>1. CASE Entered(j, x) # Absent
    <3>1. Entered(i, y) # Absent BY <2>1 DEF ScheduleInv, InOrder
    <3>2. QED BY <1>11, <3>1
  <2>2. CASE Entered(j, x) = Absent
    <3>1. j = k BY <1>8, <2>2
    <3>2. i \in 1 .. (k - 1) BY <1>1, <3>1, TasksAre DEF Tasks
    <3>3. Entered(i, y) # Absent BY <1>12, <3>2 DEF Complete
    <3>4. QED BY <1>11, <3>3
  <2>3. QED BY <2>1, <2>2
<1>17. \A q \in Runner \ {r} : run'[q] = run[q] /\ run[q].pc \notin {"task", "pair"} \cup InPair
  <2>1. \A q \in Runner \ {r} : ~Writing(q)
    BY <1>1, OneWriterHolds DEF OneWriter, Writing, Ended
  <2>2. QED BY <1>2, <1>3, <2>1 DEF Writing, Ended, InPair
<1>18. ASSUME NEW q \in Runner \ {r} PROVE Scheduled(run[q])'
  <2>1. Scheduled(run[q]) BY DEF ScheduleInv
  <2>2. run'[q] = run[q] /\ run[q].pc \notin {"task", "pair"} \cup InPair BY <1>17
  <2>3. run[q].code = 0 => \A i \in Tasks : Complete(i, run[q].plan) BY <2>1 DEF Scheduled
  <2>5. run[q].code = 0 => \A i \in Tasks, x \in 1 .. Pairs : Entered(i, x)' # Absent /\ Entered(i, x)'.plan = run[q].plan
    BY <1>11, <2>3 DEF Complete
  <2>6. QED BY <2>2, <2>5 DEF Scheduled, Complete
<1>19. Scheduled(run[r])'
  <2>1. /\ run'[r].pc = "pair" /\ run'[r].task = k /\ run'[r].plan = run[r].plan /\ run'[r].base = run[r].base
        /\ run'[r].code = run[r].code /\ run'[r].done = run[r].done \cup {p}
    BY <1>0, <1>2, <1>3 DEF Notes
  <2>2. ASSUME NEW i \in 1 .. (k - 1), NEW q \in 1 .. Pairs PROVE Entered(i, q)' # Absent /\ Entered(i, q)'.plan = run[r].plan
    <3>1. i \in Tasks BY <1>1, TasksAre DEF Tasks
    <3>2. Entered(i, q) # Absent /\ Entered(i, q).plan = run[r].plan BY <1>12 DEF Complete
    <3>3. QED BY <1>11, <3>1, <3>2
  <2>3. ASSUME NEW q \in 1 .. Pairs
        PROVE  /\ q \in run'[r].done <=> Entered(k, q)' # Absent
               /\ q \in run'[r].done => Entered(k, q)'.plan = run[r].plan /\ Entered(k, q)'.base = run[r].base
    <3>0. k \in Tasks BY <1>1
    <3>1. CASE q = p
      <4>1. Entered(k, q)' = new BY <1>8, <3>0, <3>1
      <4>2. q \in run'[r].done BY <2>1, <3>1
      <4>3. QED BY <1>4, <4>1, <4>2
    <3>2. CASE q # p
      <4>1. Entered(k, q)' = Entered(k, q) BY <1>8, <3>0, <3>2
      <4>2. q \in run'[r].done <=> q \in run[r].done BY <2>1, <3>2
      <4>3. QED BY <1>12, <4>1, <4>2
    <3>3. QED BY <3>1, <3>2
  <2>4. ASSUME run[r].code = 0, NEW i \in Tasks, NEW q \in 1 .. Pairs PROVE Entered(i, q)' # Absent /\ Entered(i, q)'.plan = run[r].plan
    <3>1. Complete(i, run[r].plan) BY <2>4 DEF ScheduleInv, Scheduled
    <3>2. QED BY <1>11, <3>1 DEF Complete
  <2>6. QED BY <1>1, <2>1, <2>2, <2>3, <2>4 DEF Scheduled, Complete
<1>20. QED BY <1>1, <1>15, <1>16, <1>18, <1>19 DEF ScheduleInv

\* Every other step records nothing.
LEMMA ScheduleKeeps ==
    LedgerTyped /\ LockInv /\ ScheduleInv /\ [LedgerNext]_ledgerVars => ScheduleInv'
<1> SUFFICES ASSUME LedgerTyped, LockInv, ScheduleInv, [LedgerNext]_ledgerVars PROVE ScheduleInv'
  OBVIOUS
<1>0. run \in [Runner -> Notes] /\ \A r \in Runner : run[r] \in Notes /\ Holds(run[r]) BY DEF LedgerTyped
<1>a. ~displaced => \A r \in Runner : Scheduled(run[r]) BY DEF ScheduleInv
<1>1. ASSUME NEW r \in Runner, NEW n, run' = [run EXCEPT ![r] = n], UNCHANGED record, displaced => displaced',
             ~displaced => Scheduled(n)
      PROVE  ScheduleInv'
  <2>1. run'[r] = n /\ \A q \in Runner \ {r} : run'[q] = run[q] BY <1>0, <1>1
  <2>2. ~displaced => Scheduled(run'[r]) BY <1>1, <2>1
  <2>3. QED BY <1>1, <2>1, <2>2, ScheduleQuiet
<1>3. ASSUME NEW r \in Runner, NEW n, run' = [run EXCEPT ![r] = n], UNCHANGED record, displaced => displaced',
             n.pc \notin {"task", "pair"} \cup InPair, n.code # 0 \/ (n.code = run[r].code /\ n.plan = run[r].plan)
      PROVE  ScheduleInv'
  <2>1. ~displaced => Scheduled(n) BY <1>a, <1>3 DEF Scheduled
  <2>2. QED BY <1>1, <1>3, <2>1
<1>2. ASSUME NEW r \in Runner, Start(r) PROVE ScheduleInv'
  <2>1. PICK chosen \in Plan, breakLock \in BOOLEAN, usable \in BOOLEAN :
          run' = [run EXCEPT ![r] =
                 [Fresh EXCEPT !.plan = chosen, !.code = IF usable THEN 9 ELSE 2,
                               !.pc = IF ~usable THEN "stopped"
                                      ELSE IF breakLock /\ lock # NoLock THEN "inspect" ELSE "create"]]
    BY <1>2 DEF Start
  <2> DEFINE n == [Fresh EXCEPT !.plan = chosen, !.code = IF usable THEN 9 ELSE 2,
                               !.pc = IF ~usable THEN "stopped"
                                      ELSE IF breakLock /\ lock # NoLock THEN "inspect" ELSE "create"]
  <2>2. n.pc \in {"stopped", "inspect", "create"} /\ n.code # 0 BY DEF Fresh
  <2>3. run' = [run EXCEPT ![r] = n] BY <2>1
  <2> HIDE DEF n
  <2>4. UNCHANGED <<record, displaced>> BY <1>2 DEF Start
  <2>5. QED BY <1>3, <2>2, <2>3, <2>4 DEF InPair
<1>4. ASSUME NEW r \in Runner,
             Inspect(r) \/ Claim(r) \/ Recheck(r) \/ Create(r) \/ ReadOwnLock(r) \/ Unlink(r) \/ CrashRunner(r)
      PROVE ScheduleInv'
  <2>0. run[r] \in Notes BY <1>0
  <2>1. UNCHANGED record /\ (displaced => displaced')
    <3>1. CASE Claim(r) BY <3>1 DEF Claim
    <3>2. CASE ~Claim(r) BY <1>4, <3>2 DEF Inspect, Recheck, Create, ReadOwnLock, Unlink, CrashRunner
    <3>3. QED BY <3>1, <3>2
  <2>2. ASSUME NEW pc \in {"stopped", "claim", "create", "recheck", "sign", "unlink"}, NEW x,
               run' = [run EXCEPT ![r] = [run[r] EXCEPT !.pc = pc, !.seen = x]]
        PROVE  ScheduleInv'
    <3> DEFINE n == [run[r] EXCEPT !.pc = pc, !.seen = x]
    <3>1. n.pc = pc /\ n.code = run[r].code /\ n.plan = run[r].plan BY <2>0 DEF Notes
    <3>2. run' = [run EXCEPT ![r] = n] BY <2>2
    <3> HIDE DEF n
    <3>3. n.pc \notin {"task", "pair"} \cup InPair /\ (n.code # 0 \/ (n.code = run[r].code /\ n.plan = run[r].plan))
      BY <3>1 DEF InPair
    <3>4. QED BY <1>3, <2>1, <3>2, <3>3
  <2>3. ASSUME NEW pc \in {"stopped", "claim", "create", "recheck", "sign", "unlink"},
               run' = [run EXCEPT ![r] = [run[r] EXCEPT !.pc = pc]]
        PROVE  ScheduleInv'
    <3>1. [run[r] EXCEPT !.pc = pc] = [run[r] EXCEPT !.pc = pc, !.seen = run[r].seen] BY <2>0 DEF Notes
    <3>2. QED BY <2>2, <2>3, <3>1
  <2>4. ASSUME run' = [run EXCEPT ![r] = [run[r] EXCEPT !.pc = "stopped", !.code = 2]]
        PROVE  ScheduleInv'
    <3> DEFINE n == [run[r] EXCEPT !.pc = "stopped", !.code = 2]
    <3>1. n.pc = "stopped" /\ n.code = 2 BY <2>0 DEF Notes
    <3>2. run' = [run EXCEPT ![r] = n] BY <2>4
    <3> HIDE DEF n
    <3>3. n.pc \notin {"task", "pair"} \cup InPair /\ (n.code # 0 \/ (n.code = run[r].code /\ n.plan = run[r].plan))
      BY <3>1 DEF InPair
    <3>4. QED BY <1>3, <2>1, <3>2, <3>3
  <2>5. CASE Inspect(r)
    <3>1. run' = [run EXCEPT ![r] = [run[r] EXCEPT !.pc = "stopped", !.code = 2]]
            \/ run' = [run EXCEPT ![r] = [run[r] EXCEPT !.pc = "claim", !.seen = lock.owner]]
      BY <2>5 DEF Inspect, Quit
    <3>2. QED BY <2>2, <2>4, <3>1
  <2>6. CASE Claim(r) \/ Recheck(r) \/ Create(r)
    <3>1. PICK pc \in {"create", "recheck", "sign"} :
            run' = [run EXCEPT ![r] = [run[r] EXCEPT !.pc = "stopped", !.code = 2]]
            \/ run' = [run EXCEPT ![r] = [run[r] EXCEPT !.pc = pc]]
      BY <2>6 DEF Claim, Recheck, Create, Quit, Go
    <3>2. QED BY <2>3, <2>4, <3>1
  <2>7. CASE ReadOwnLock(r) \/ Unlink(r)
    <3>1. PICK pc \in {"unlink", "stopped"} : run' = [run EXCEPT ![r] = [run[r] EXCEPT !.pc = pc]]
      BY <2>7 DEF ReadOwnLock, Unlink, Go
    <3>2. QED BY <2>3, <3>1
  <2>8. CASE CrashRunner(r)
    <3> DEFINE n == [Fresh EXCEPT !.pc = "crashed"]
    <3>1. n.pc = "crashed" /\ n.code = 9 BY DEF Fresh
    <3>2. run' = [run EXCEPT ![r] = n] BY <2>8 DEF CrashRunner
    <3> HIDE DEF n
    <3>3. n.pc \notin {"task", "pair"} \cup InPair /\ (n.code # 0 \/ (n.code = run[r].code /\ n.plan = run[r].plan))
      BY <3>1 DEF InPair
    <3>4. QED BY <1>3, <2>1, <3>2, <3>3
  <2>9. QED BY <1>4, <2>5, <2>6, <2>7, <2>8
<1>5. ASSUME NEW r \in Runner, Sign(r) PROVE ScheduleInv'
  <2>1. run' = [run EXCEPT ![r] = [run[r] EXCEPT !.pc = "task"]] /\ UNCHANGED <<record, displaced>> /\ run[r].pc = "sign"
    BY <1>5 DEF Sign, Go
  <2>2. run[r] \in Notes /\ run[r].task = 1 BY <1>0, <2>1 DEF Holds, Early
  <2> DEFINE n == [run[r] EXCEPT !.pc = "task"]
  <2>3. n.pc = "task" /\ n.task = 1 /\ n.code = run[r].code /\ n.plan = run[r].plan BY <2>2 DEF Notes
  <2>4. run' = [run EXCEPT ![r] = n] BY <2>1
  <2> HIDE DEF n
  <2>5. ~displaced => Scheduled(n) BY <1>a, <2>3 DEF Scheduled, InPair
  <2>6. QED BY <1>1, <2>1, <2>4, <2>5
<1>6. ASSUME NEW r \in Runner, TakeTask(r) PROVE ScheduleInv'
  <2> DEFINE t == TaskOrder[run[r].task]
             end == [run[r] EXCEPT !.pc = "release", !.code = 0]
             stop == [run[r] EXCEPT !.pc = "release", !.code = 2]
             go == [run[r] EXCEPT !.pc = "pair", !.base = BaseOf(t), !.done = Recorded(t)]
  <2>1. run[r].pc = "task" /\ UNCHANGED <<record, displaced>> BY <1>6, TakeTaskIs
  <2>2. run[r].task \in 1 .. (Len(TaskOrder) + 1) BY <1>0 DEF Notes
  <2>3. \/ run[r].task > Len(TaskOrder) /\ run' = [run EXCEPT ![r] = end]
        \/ run' = [run EXCEPT ![r] = stop]
        \/ run[r].task <= Len(TaskOrder) /\ Resumable(r, t) /\ run' = [run EXCEPT ![r] = go]
    BY <1>6, TakeTaskIs
  <2>4. CASE run[r].task > Len(TaskOrder) /\ run' = [run EXCEPT ![r] = end]
    <3>1. end.pc = "release" /\ end.plan = run[r].plan BY <1>0 DEF Notes
    <3> HIDE DEF end
    <3>2. ~displaced => \A i \in Tasks : Complete(i, run[r].plan)
      BY <1>a, <2>1, <2>2, <2>4, TasksAre DEF Scheduled, Tasks
    <3>3. ~displaced => Scheduled(end) BY <3>1, <3>2 DEF Scheduled, InPair
    <3>4. QED BY <1>1, <2>1, <2>4, <3>3
  <2>5. CASE run' = [run EXCEPT ![r] = stop]
    <3>1. stop.pc = "release" /\ stop.code = 2 BY <1>0 DEF Notes
    <3> HIDE DEF stop
    <3>2. stop.pc \notin {"task", "pair"} \cup InPair /\ stop.code # 0 BY <3>1 DEF InPair
    <3>3. QED BY <1>3, <2>1, <2>5, <3>2
  <2>6. CASE run[r].task <= Len(TaskOrder) /\ Resumable(r, t) /\ run' = [run EXCEPT ![r] = go]
    <3>1. /\ go.pc = "pair" /\ go.plan = run[r].plan /\ go.code = run[r].code /\ go.task = run[r].task
          /\ go.done = Recorded(t) /\ go.base = BaseOf(t)
      BY <1>0 DEF Notes
    <3> HIDE DEF go
    <3>2. ASSUME NEW p \in 1 .. Pairs
          PROVE  /\ p \in Recorded(t) <=> Entered(run[r].task, p) # Absent
                 /\ p \in Recorded(t) => Entered(run[r].task, p).plan = run[r].plan /\ Entered(run[r].task, p).base = BaseOf(t)
      <4>1. p \in Recorded(t) <=> Entered(run[r].task, p) # Absent BY DEF Recorded, Entered
      <4>2. ASSUME p \in Recorded(t)
            PROVE  Entered(run[r].task, p).plan = run[r].plan /\ Entered(run[r].task, p).base = BaseOf(t)
        <5>1. PICK k : k = (CHOOSE q \in Recorded(t) : TRUE) OBVIOUS
        <5>2. k \in Recorded(t) BY <4>2, <5>1
        <5>3. BaseOf(t) = record[<<t, k>>].base BY <4>2, <5>1 DEF BaseOf
        <5>4. QED BY <2>6, <4>2, <5>2, <5>3 DEF Resumable, Entered
      <4>3. QED BY <4>1, <4>2
    <3>3. ~displaced => Scheduled(go) BY <1>a, <2>1, <3>1, <3>2 DEF Scheduled
    <3>4. QED BY <1>1, <2>1, <2>6, <3>3
  <2>7. QED BY <2>3, <2>4, <2>5, <2>6
<1>7. ASSUME NEW r \in Runner, TakePair(r) PROVE ScheduleInv'
  <2> DEFINE next == [run[r] EXCEPT !.pc = "task", !.task = @ + 1]
             go == [run[r] EXCEPT !.pc = "clone", !.arm = "ungated"]
  <2>1. run[r].pc = "pair" /\ UNCHANGED <<record, displaced>> BY <1>7 DEF TakePair
  <2>2. run[r].task \in 1 .. (Len(TaskOrder) + 1) /\ run[r].done \in SUBSET (1 .. Pairs) BY <1>0 DEF Notes
  <2>3. CASE Missing(r) = {}
    <3>1. run' = [run EXCEPT ![r] = next] BY <1>7, <2>3 DEF TakePair
    <3>2. next.pc = "task" /\ next.task = run[r].task + 1 /\ next.plan = run[r].plan /\ next.code = run[r].code
      BY <1>0 DEF Notes
    <3> HIDE DEF next
    <3>3. \A p \in 1 .. Pairs : p \in run[r].done BY <2>3 DEF Missing
    <3>4. ~displaced => Complete(run[r].task, run[r].plan)
      BY <1>a, <2>1, <3>3 DEF Scheduled, Complete
    <3>5. ~displaced => \A i \in 1 .. (next.task - 1) : Complete(i, next.plan)
      <4>1. \A i \in 1 .. (next.task - 1) : i \in 1 .. (run[r].task - 1) \/ i = run[r].task
        BY <2>2, <3>2, TasksAre
      <4>2. QED BY <1>a, <2>1, <3>2, <3>4, <4>1 DEF Scheduled
    <3>6. ~displaced => Scheduled(next) BY <1>a, <3>2, <3>5 DEF Scheduled, InPair
    <3>7. QED BY <1>1, <2>1, <3>1, <3>6
  <2>4. CASE Missing(r) # {}
    <3>1. run' = [run EXCEPT ![r] = go] BY <1>7, <2>4 DEF TakePair
    <3>2. go.pc = "clone" /\ go.task = run[r].task /\ go.plan = run[r].plan /\ go.code = run[r].code
            /\ go.done = run[r].done /\ go.base = run[r].base
      BY <1>0 DEF Notes
    <3> HIDE DEF go
    <3>3. ~displaced => Scheduled(go) BY <1>a, <2>1, <3>2 DEF Scheduled
    <3>4. QED BY <1>1, <2>1, <3>1, <3>3
  <2>5. QED BY <2>3, <2>4
<1>8. ASSUME NEW r \in Runner, Clone(r) PROVE ScheduleInv'
  <2> DEFINE go == [run[r] EXCEPT !.pc = "agent", !.tree = 0, !.base = IF @ = 0 THEN head ELSE @]
             stop == [run[r] EXCEPT !.pc = "release", !.code = 2]
  <2>1. run[r].pc = "clone" /\ UNCHANGED <<record, displaced>> BY <1>8 DEF Clone
  <2>2. run' = [run EXCEPT ![r] = go] \/ run' = [run EXCEPT ![r] = stop] BY <1>8 DEF Clone, Release
  <2>3. CASE run' = [run EXCEPT ![r] = stop]
    <3>1. stop.pc = "release" /\ stop.code = 2 BY <1>0 DEF Notes
    <3> HIDE DEF stop
    <3>2. stop.pc \notin {"task", "pair"} \cup InPair /\ stop.code # 0 BY <3>1 DEF InPair
    <3>3. QED BY <1>3, <2>1, <2>3, <3>2
  <2>4. CASE run' = [run EXCEPT ![r] = go]
    <3>1. go.pc = "agent" /\ go.task = run[r].task /\ go.plan = run[r].plan /\ go.code = run[r].code
            /\ go.done = run[r].done /\ go.base = (IF run[r].base = 0 THEN head ELSE run[r].base)
      BY <1>0 DEF Notes
    <3> HIDE DEF go
    <3>2. run[r].task \in 1 .. (Len(TaskOrder) + 1) /\ run[r].task <= Len(TaskOrder)
      BY <1>0, <2>1 DEF Notes, Holds, InPair
    <3>3. \A p \in 1 .. Pairs : Entered(run[r].task, p) # Absent => Entered(run[r].task, p).base # 0
      BY <3>2, TasksAre DEF Entered, LedgerTyped
    <3>4. ~displaced => \A p \in 1 .. Pairs : p \in run[r].done => run[r].base # 0
      BY <1>a, <2>1, <3>3 DEF Scheduled, InPair
    <3>5. ~displaced => Scheduled(go) BY <1>a, <2>1, <3>1, <3>4 DEF Scheduled, InPair
    <3>6. QED BY <1>1, <2>1, <2>4, <3>5
  <2>5. QED BY <2>2, <2>3, <2>4
<1>9. ASSUME NEW r \in Runner, AgentEnds(r) \/ Verify(r) \/ Check(r) \/ Conclude(r) \/ Straggle(r) PROVE ScheduleInv'
  <2>1. run[r].pc \in InPair /\ UNCHANGED <<record, displaced>>
    BY <1>9 DEF AgentEnds, Verify, Check, Conclude, Straggle, InPair
  <2>0. run[r] \in Notes BY <1>0
  <2>2. ASSUME NEW n, run' = [run EXCEPT ![r] = n], n.pc \in InPair, n.task = run[r].task, n.plan = run[r].plan,
               n.code = run[r].code, n.done = run[r].done, n.base = run[r].base
        PROVE  ScheduleInv'
    <3>1. ~displaced => Scheduled(n) BY <1>a, <2>1, <2>2 DEF Scheduled
    <3>2. QED BY <1>1, <2>1, <2>2, <3>1
  <2>3. CASE AgentEnds(r)
    <3>1. PICK owned : run' = [run EXCEPT ![r] = [run[r] EXCEPT !.pc = "verify", !.owned = owned, !.at = run[r].tree]]
      BY <2>3 DEF AgentEnds
    <3> DEFINE n == [run[r] EXCEPT !.pc = "verify", !.owned = owned, !.at = run[r].tree]
    <3>2. n.pc \in InPair /\ n.task = run[r].task /\ n.plan = run[r].plan /\ n.code = run[r].code
            /\ n.done = run[r].done /\ n.base = run[r].base
      BY <2>0, <2>1 DEF Notes, InPair
    <3>3. run' = [run EXCEPT ![r] = n] BY <3>1
    <3> HIDE DEF n
    <3>4. QED BY <2>2, <3>2, <3>3
  <2>4. CASE Verify(r)
    <3> DEFINE n == [run[r] EXCEPT !.pc = "check", !.verified = run[r].tree]
    <3>1. run' = [run EXCEPT ![r] = n] BY <2>4 DEF Verify
    <3>2. n.pc \in InPair /\ n.task = run[r].task /\ n.plan = run[r].plan /\ n.code = run[r].code
            /\ n.done = run[r].done /\ n.base = run[r].base
      BY <2>0, <2>1 DEF Notes, InPair
    <3>3. run' = [run EXCEPT ![r] = n] BY <3>1
    <3> HIDE DEF n
    <3>4. QED BY <2>2, <3>2, <3>3
  <2>5. CASE Check(r)
    <3> DEFINE n == [run[r] EXCEPT !.pc = "conclude", !.checked = run[r].tree]
    <3>1. run' = [run EXCEPT ![r] = n] BY <2>5 DEF Check
    <3>2. n.pc \in InPair /\ n.task = run[r].task /\ n.plan = run[r].plan /\ n.code = run[r].code
            /\ n.done = run[r].done /\ n.base = run[r].base
      BY <2>0, <2>1 DEF Notes, InPair
    <3>3. run' = [run EXCEPT ![r] = n] BY <3>1
    <3> HIDE DEF n
    <3>4. QED BY <2>2, <3>2, <3>3
  <2>6. CASE Straggle(r)
    <3> DEFINE n == [run[r] EXCEPT !.tree = @ + 1]
    <3>1. run' = [run EXCEPT ![r] = n] BY <2>6 DEF Straggle
    <3>2. n.pc \in InPair /\ n.task = run[r].task /\ n.plan = run[r].plan /\ n.code = run[r].code
            /\ n.done = run[r].done /\ n.base = run[r].base
      BY <2>0, <2>1 DEF Notes, InPair
    <3>3. run' = [run EXCEPT ![r] = n] BY <3>1
    <3> HIDE DEF n
    <3>4. QED BY <2>2, <3>2, <3>3
  <2>7. CASE Conclude(r)
    <3>0. PICK result :
            run' = [run EXCEPT ![r] =
                [run[r] EXCEPT !.arms[run[r].arm] = result,
                      !.arm = "gated", !.at = 0, !.verified = 0, !.checked = 0, !.tree = 0, !.owned = TRUE,
                      !.pc = IF run[r].arm = "ungated" THEN "clone" ELSE "store"]]
      BY <2>7, ConcludeIs
    <3> DEFINE n == [run[r] EXCEPT !.arms[run[r].arm] = result,
                      !.arm = "gated", !.at = 0, !.verified = 0, !.checked = 0, !.tree = 0, !.owned = TRUE,
                      !.pc = IF run[r].arm = "ungated" THEN "clone" ELSE "store"]
    <3>1. run' = [run EXCEPT ![r] = n] BY <3>0
    <3>2. n.pc \in InPair /\ n.task = run[r].task /\ n.plan = run[r].plan /\ n.code = run[r].code
            /\ n.done = run[r].done /\ n.base = run[r].base
      BY <2>0, <2>1 DEF Notes, InPair
    <3>3. run' = [run EXCEPT ![r] = n] BY <3>1
    <3> HIDE DEF n
    <3>4. QED BY <2>2, <3>2, <3>3
  <2>8. QED BY <1>9, <2>3, <2>4, <2>5, <2>6, <2>7
<1>10. ASSUME NEW r \in Runner, Store(r) PROVE ScheduleInv'
  BY <1>10, StoreKeeps
<1>11. CASE SourceMoves \/ UNCHANGED ledgerVars
  BY <1>11 DEF SourceMoves, ledgerVars, ScheduleInv, Scheduled, Complete, Entered, InOrder, OneSource
<1>12. QED
  BY <1>2, <1>4, <1>5, <1>6, <1>7, <1>8, <1>9, <1>10, <1>11 DEF LedgerNext, RunnerStep

-----------------------------------------------------------------------------
\* What the ledger is found to be.

LedgerInv == LedgerTyped /\ LockInv /\ ScheduleInv

\* An empty ledger.
LEMMA LedgerStarts == LedgerInit => LedgerInv
BY LedgerTypedInit, LockInvInit, ScheduleInvInit DEF LedgerInv

\* The invariant of the ledger is inductive.
LEMMA LedgerKeeps == LedgerInv /\ [LedgerNext]_ledgerVars => LedgerInv'
BY LedgerTypedKeeps, LockInvKeeps, ScheduleKeeps DEF LedgerInv

\* The shapes of the ledger.
LEMMA LedgerTypeHolds == LedgerInv => LedgerTypeOK
<1> SUFFICES ASSUME LedgerInv PROVE LedgerTypeOK OBVIOUS
<1>1. lock \in Lock /\ claimed \in [Runner -> Lock] BY DEF LedgerInv, LedgerTyped
<1>2. \A s \in Slot : record[s] # Absent => record[s].plan \in Plan /\ record[s].base \in 1 .. MaxHead
  <2>1. ASSUME NEW s \in Slot, record[s] # Absent PROVE record[s].plan \in Plan /\ record[s].base \in 1 .. MaxHead
    <3>1. record[s] \in Record /\ record[s].plan \in Plan /\ record[s].base # 0 BY <2>1 DEF LedgerInv, LedgerTyped
    <3>2. QED BY <3>1, LedgerAssumption DEF Record
  <2>2. QED BY <2>1
<1>3. \A r \in Runner : run[r].code \in {0, 2, 9} /\ run[r].task \in 1 .. (Len(TaskOrder) + 1)
  BY DEF LedgerInv, LedgerTyped, Notes
<1>4. QED BY <1>1, <1>2, <1>3 DEF LedgerTypeOK, Lock, Owner

\* Who exits 0 has every task behind it.
LEMMA ExitZeroHolds == LedgerInv => ExitZeroIsComplete
<1> SUFFICES ASSUME LedgerInv, NEW r \in Runner, run[r].code = 0, ~displaced, NEW s \in Slot
             PROVE  record[s] # Absent /\ record[s].plan = run[r].plan
  BY DEF ExitZeroIsComplete
<1>1. \A i \in Tasks : Complete(i, run[r].plan) BY DEF LedgerInv, ScheduleInv, Scheduled
<1>2. QED BY <1>1, SlotIsRow DEF Complete

\* No arm is recorded that moved.
LEMMA MeasuredHolds == LedgerInv => MeasuredStood
BY DEF LedgerInv, LedgerTyped, MeasuredStood, Record, Outcome

\* What the ledger promises.
LEMMA LedgerSound == LedgerInv => LedgerTypeOK /\ OneWriter /\ OneSource /\ ExitZeroIsComplete /\ MeasuredStood
<1>1. LedgerInv => OneWriter BY OneWriterHolds DEF LedgerInv
<1>2. LedgerInv => OneSource BY DEF LedgerInv, ScheduleInv, OneSource
<1>3. QED BY <1>1, <1>2, LedgerTypeHolds, ExitZeroHolds, MeasuredHolds

\* The one step that records finds no record at its slot.
LEMMA RecordIsKept ==
    LedgerInv /\ [LedgerNext]_ledgerVars =>
        displaced' \/ \A s \in Slot : record[s] # Absent => record'[s] = record[s]
<1> SUFFICES ASSUME LedgerInv, [LedgerNext]_ledgerVars, ~displaced', NEW s \in Slot, record[s] # Absent
             PROVE  record'[s] = record[s]
  OBVIOUS
<1>1. ASSUME NEW r \in Runner, Store(r) PROVE record'[s] = record[s]
  <2>1. UNCHANGED displaced BY <1>1 DEF Store
  <2>2. PICK p \in 1 .. Pairs, pair \in Outcome :
          /\ Entered(run[r].task, p) = Absent
          /\ record' = [record EXCEPT ![<<TaskOrder[run[r].task], p>>] =
                           [plan |-> run[r].plan, base |-> run[r].base, pair |-> pair]]
    <3>1. LedgerTyped /\ ScheduleInv /\ ~displaced BY <2>1 DEF LedgerInv
    <3>2. PICK p \in 1 .. Pairs, pair \in Outcome :
            /\ p \notin run[r].done
            /\ ~displaced => Entered(run[r].task, p) = Absent
            /\ record' = [record EXCEPT ![<<TaskOrder[run[r].task], p>>] =
                             [plan |-> run[r].plan, base |-> run[r].base, pair |-> pair]]
            /\ run' = [run EXCEPT ![r] = [run[r] EXCEPT !.pc = "pair", !.done = @ \cup {p}, !.arms = [a \in Arm |-> "none"]]]
      BY <1>1, <3>1, StoreIs
    <3>3. QED BY <3>1, <3>2
  <2>3. s # <<TaskOrder[run[r].task], p>> BY <2>2 DEF Entered
  <2>4. record \in [Slot -> Record] BY DEF LedgerInv, LedgerTyped
  <2>5. QED BY <2>2, <2>3, <2>4
<1>2. CASE UNCHANGED record BY <1>2
<1>3. ASSUME NEW r \in Runner, Start(r) \/ Inspect(r) \/ Claim(r) \/ Recheck(r) \/ Create(r) \/ Sign(r) \/ TakeTask(r)
             \/ TakePair(r) \/ Clone(r) \/ AgentEnds(r) \/ Verify(r) \/ Check(r) \/ Conclude(r)
             \/ ReadOwnLock(r) \/ Unlink(r) \/ Straggle(r) \/ CrashRunner(r)
      PROVE  UNCHANGED record
  BY <1>3 DEF Start, Inspect, Claim, Recheck, Create, Sign, TakeTask, TakePair, Clone, AgentEnds, Verify, Check, Conclude,
              ReadOwnLock, Unlink, Straggle, CrashRunner
<1>4. SourceMoves \/ UNCHANGED ledgerVars => UNCHANGED record BY DEF SourceMoves, ledgerVars
<1>5. QED BY <1>1, <1>2, <1>3, <1>4 DEF LedgerNext, RunnerStep

(***************************************************************************)
(* doctor --github.                                                        *)
(***************************************************************************)
\* The rulesets whose details doctor asks for.
Known == {r \in pages : r.known}

\* A verdict is a function of what was read.
LEMMA VerdictStands ==
    ASSUME UNCHANGED <<bound, pages, lost, details>>
    PROVE  Verdict(legacy)' = Verdict(legacy')
<1>1. BypassActors(pages, details)' = BypassActors(pages, details) BY DEF BypassActors
<1>2. Sources(pages, legacy)' = Sources(pages, legacy') BY DEF Sources, Shown
<1>3. \A k \in RequiredCheck : Reported(Sources(pages, legacy), k)' = Reported(Sources(pages, legacy'), k)
  BY <1>2 DEF Reported
<1>4. Evaluate(pages, legacy, BypassActors(pages, details))' = Evaluate(pages, legacy', BypassActors(pages, details))
  BY <1>1, <1>2, <1>3 DEF Evaluate
<1>5. {<<"ruleset", "unverified">> : r \in {q \in DOMAIN details' : details'[q] = Unseen}}
        = {<<"ruleset", "unverified">> : r \in {q \in DOMAIN details : details[q] = Unseen}}
  OBVIOUS
<1>6. QED BY <1>4, <1>5 DEF Verdict

\* What has been read is of what stands; and no findings is a clean verdict
\* over the protection read.
GithubInv ==
    /\ guarding.rulesets \subseteq Rulesets
    /\ pages \subseteq guarding.rulesets
    /\ legacy \in {Unseen, guarding.classic}
    /\ stage # "ended" => legacy = Unseen
    /\ stage # "rules" /\ ~lost => pages = guarding.rulesets
    /\ DOMAIN details \subseteq Known
    /\ \A r \in DOMAIN details : details[r] \in {r.bypass, Unseen}
    /\ stage \in {"judge", "classic", "ended"} => DOMAIN details = Known
    /\ stage = "ended" /\ findings = {} => Verdict(legacy) = {}

\* Doctor starts with nothing read.
LEMMA GithubStarts == GithubInit => GithubInv
BY DEF GithubInit, GithubInv, Known

\* Every read keeps it, a page that fails and a detail that is refused among them.
LEMMA GithubKeeps == GithubInv /\ [GithubNext]_githubVars => GithubInv'
<1> SUFFICES ASSUME GithubInv, [GithubNext]_githubVars PROVE GithubInv'
  OBVIOUS
<1> USE DEF GithubInv
<1>1. ASSUME NEW r \in Rulesets, ReadPage(r) PROVE GithubInv'
  BY <1>1 DEF ReadPage, Known
<1>2. CASE RulesRead \/ PageFails BY <1>2 DEF RulesRead, PageFails, Known
<1>3. ASSUME NEW r \in Rulesets, NEW shown \in BOOLEAN, ReadDetail(r, shown) PROVE GithubInv'
  <2>1. /\ DOMAIN details' = DOMAIN details \cup {r} /\ r \in Known /\ stage = "details"
        /\ UNCHANGED <<guarding, bound, pages, lost, legacy, stage, findings>>
    BY <1>3 DEF ReadDetail, Known
  <2>2. \A q \in DOMAIN details' : details'[q] \in {q.bypass, Unseen}
    BY <1>3 DEF ReadDetail
  <2>3. QED BY <2>1, <2>2 DEF Known
<1>4. CASE DetailsRead BY <1>4 DEF DetailsRead, Known
<1>5. CASE JudgeRules
  <2>0. UNCHANGED <<guarding, bound, pages, lost, details>> BY <1>5 DEF JudgeRules
  <2>1. legacy' = legacy /\ stage = "judge" /\ stage' \in {"ended", "classic"} BY <1>5 DEF JudgeRules
  <2>2. Verdict(legacy)' = Verdict(legacy')
    BY <2>0, VerdictStands
  <2>3. Verdict(legacy') = Verdict(Unseen) BY <2>1
  <2>4. stage' = "ended" => Verdict(Unseen) = {} BY <1>5 DEF JudgeRules
  <2>5. QED BY <2>0, <2>1, <2>2, <2>3, <2>4 DEF Known
<1>6. ASSUME NEW b \in BOOLEAN, JudgeClassic(b) PROVE GithubInv'
  <2>1. UNCHANGED <<guarding, bound, pages, lost, details>> /\ stage = "classic" /\ stage' = "ended"
    BY <1>6 DEF JudgeClassic
  <2>2. legacy' \in {Unseen, guarding.classic} BY <1>6 DEF JudgeClassic
  <2>3. Verdict(legacy)' = Verdict(legacy')
    BY <2>1, VerdictStands
  <2>4. findings' = {} => Verdict(legacy') = {} BY <1>6 DEF JudgeClassic
  <2>5. QED BY <2>1, <2>2, <2>3, <2>4 DEF Known
<1>7. CASE UNCHANGED githubVars
  <2>1. UNCHANGED <<guarding, bound, pages, lost, details, legacy, stage, findings>> BY <1>7 DEF githubVars
  <2>2. Verdict(legacy)' = Verdict(legacy') BY <2>1, VerdictStands
  <2>3. Verdict(legacy') = Verdict(legacy) BY <2>1
  <2>4. QED BY <2>1, <2>2, <2>3 DEF Known
<1>8. QED BY <1>1, <1>2, <1>3, <1>4, <1>5, <1>6, <1>7 DEF GithubNext

\* A clean verdict over what was read holds of what stands.
LEMMA CleanIsHeld ==
    ASSUME GithubInv, stage = "ended", findings = {}
    PROVE  AuthorityHeld
<1> DEFINE sources == Sources(pages, legacy)
<1> USE DEF GithubInv
<1>1. Verdict(legacy) = {} OBVIOUS
<1>2. ~lost /\ pages = guarding.rulesets BY <1>1 DEF Verdict
<1>3. \A r \in pages : r.known BY <1>1 DEF Verdict
<1>4. DOMAIN details = pages BY <1>3 DEF Known
<1>5. \A r \in pages : details[r] # Unseen BY <1>1, <1>4 DEF Verdict
<1>6. \A r \in pages : details[r] = r.bypass BY <1>4, <1>5
<1>7. Evaluate(pages, legacy, BypassActors(pages, details)) = {} BY <1>1 DEF Verdict
<1>8. BypassActors(pages, details) = {} /\ BypassActors(pages, details) # Unseen BY <1>7 DEF Evaluate
<1>9. UNION {details[r] : r \in {q \in DOMAIN details : details[q] # Unseen}} = {}
  BY <1>8 DEF BypassActors
<1>10. \A r \in guarding.rulesets : r.bypass = {} BY <1>2, <1>4, <1>5, <1>6, <1>9
<1>11. sources \subseteq InForceNow
  BY <1>2 DEF Sources, Shown, InForceNow
<1>12. (\E s \in sources : s.owners) /\ (\E s \in sources : s.dismiss) BY <1>7 DEF Evaluate
<1>13. ASSUME NEW check \in RequiredCheck
       PROVE  \E s \in InForceNow : \E c \in s.checks : c.name = check /\ (bound => c.by = Trusted)
  <2>1. Reported(sources, check) # {}
    <3>1. {<<"require", k>> : k \in {j \in RequiredCheck : Reported(sources, j) = {}}} = {} BY <1>7 DEF Evaluate
    <3>2. QED BY <3>1
  <2>2. bound => Reported(sources, check) = {Trusted}
    <3>1. {<<"bind", k>> : k \in {j \in RequiredCheck : bound /\ Reported(sources, j) \notin {{}, {Trusted}}}} = {}
      BY <1>7 DEF Evaluate
    <3>2. QED BY <2>1, <3>1
  <2>3. PICK c \in UNION {s.checks : s \in sources} : c.name = check BY <2>1 DEF Reported
  <2>4. c.by \in Reported(sources, check) BY <2>3 DEF Reported
  <2>5. bound => c.by = Trusted BY <2>2, <2>4
  <2>6. PICK s \in sources : c \in s.checks BY <2>3
  <2>7. QED BY <1>11, <2>3, <2>5, <2>6
<1>14. QED BY <1>10, <1>11, <1>12, <1>13 DEF AuthorityHeld

\* No finding of doctor --github means that the branch is held, whatever rulesets and classic
\* protection it is under, whatever of them doctor is refused, and however the pages break off.
\* (githubAuthority, evaluateGithubAuthority)
THEOREM AuthorityIsHeld == GithubSpec => []AuthorityHeld
<1>1. GithubInv => AuthorityHeld BY CleanIsHeld DEF AuthorityHeld
<1>2. QED BY <1>1, GithubStarts, GithubKeeps, PTL DEF GithubSpec

-----------------------------------------------------------------------------
(* Research.                                                               *)

\* Beside its own side nothing moves the desk or the ledger.
ResearchInv == DeskInv /\ LedgerInv

\* An empty desk and an empty ledger.
LEMMA ResearchStarts == Init => ResearchInv
BY DeskStarts, LedgerStarts DEF Init, ResearchInv

\* A step of the desk, of the ledger, or of neither.
LEMMA ResearchKeeps == ResearchInv /\ [Next]_all => ResearchInv'
<1> SUFFICES ASSUME ResearchInv, [Next]_all PROVE ResearchInv'
  OBVIOUS
<1>1. [DeskNext]_deskVars BY DEF Next, all, kept
<1>2. [LedgerNext]_ledgerVars BY DEF Next, all, kept
<1>3. QED BY <1>1, <1>2, DeskKeeps, LedgerKeeps DEF ResearchInv

\* The invariant of both.
LEMMA ResearchSafe == Spec => []ResearchInv
BY ResearchStarts, ResearchKeeps, PTL DEF Spec

\* What a writer of research documents produces its reader accepts, and what a reader accepts
\* as measured is what some run could have measured; a valid bundle says what its records
\* derive; and a ledger has one writer at a time and one source a task, holds no arm that
\* moved while it was judged, and is whole when a runner exits 0. (trajectory, validateRecord,
\* createBundle, validateBundle, runLedger)
THEOREM ResearchIsSound == Spec => []ResearchSound
<1>1. ResearchInv => ResearchRoundTrips BY DeskSound DEF ResearchInv, ResearchRoundTrips
<1>2. ResearchInv => OneWriter /\ RunsComplete BY DeskSound, LedgerSound DEF ResearchInv, RunsComplete
<1>3. ResearchInv => ResearchSound BY <1>1, <1>2 DEF ResearchSound
<1>4. QED BY <1>3, ResearchSafe, PTL

\* A pair that was recorded is never run again over its record, whatever else goes on.
\* (the half of NothingLost that is the ledger's; runLedger)
THEOREM RecordsStay == Spec => RecordKept
<1>1. [Next]_all => [LedgerNext]_ledgerVars BY DEF Next, all, kept
<1>2. ResearchInv /\ [Next]_all =>
        [displaced' \/ \A s \in Slot : record[s] # Absent => record'[s] = record[s]]_ledgerVars
  BY <1>1, RecordIsKept DEF ResearchInv
<1>3. QED BY <1>2, ResearchSafe, PTL DEF Spec, RecordKept, RecordStays
=============================================================================
