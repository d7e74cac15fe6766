-------------------------- MODULE AuthorityProofs --------------------------
(***************************************************************************)
(* Who may let a tamper through, and what may be claimed elsewhere, for    *)
(* every repository, policy, reviewer and store: the organisation's floor, *)
(* sign-offs, receipts and statements, the oracle, and what is told of a   *)
(* runtime.                                                                *)
(***************************************************************************)
EXTENDS MCAuthority, FiniteSetTheorems, WellFoundedInduction, TLAPS

-----------------------------------------------------------------------------
(* Receipts and signed statements.                                         *)

Standing == [src : Source, level : Nat]
\* An adjudication that was made is remembered, wherever it was made.
Remembered(where, b, verdict) == Judged(where, b.tree, b.head, b.base, verdict)
MaskedIsApproved(verdict, h) == verdict = "MASKED_FAILURE" => h \in approved
\* What the job's verify document says, CI ran.
DocumentHolds ==
    /\ job # NoClaim /\ doc.base = job.main /\ doc.head = job.tip
    /\ doc.verdict \in Adjudged /\ doc.tree \in {NoClaim, doc.ran}
    /\ Judged("ci", doc.ran, doc.head, doc.base, doc.verdict)
    /\ doc.oob => doc.verdict = "MASKED_FAILURE" /\ doc.head \in approved
\* What is signed CI adjudicated, at the time of signing within the window.
StatementHolds ==
    /\ Judged("ci", signed.payload.tree, signed.payload.head, signed.payload.base, signed.payload.verdict)
    /\ MaskedIsApproved(signed.payload.verdict, signed.payload.head)
    /\ signed.issued \in Nat /\ signed.expires \in Nat /\ signed.at \in Nat
    /\ signed.issued <= signed.at /\ signed.expires - signed.issued <= Window
ReceiptTyped ==
    /\ main \in Nat /\ clock \in Nat
    /\ local \in [tree : Standing, head : Standing, on : Nat]
    /\ claim.kind \in {"absent", "schema", "receipt"}
    /\ job # NoClaim => job \in [tip : Standing, on : Nat, main : Nat]
    /\ \A j \in judged : j.tree \in Standing
ReceiptInv ==
    /\ ReceiptTyped
    /\ record # NoClaim => Remembered("local", record, "VERIFIED")
    /\ claim.kind = "receipt" => Remembered("local", claim.digest, "VERIFIED")
    /\ doc # NoClaim => DocumentHolds
    /\ signed # NoClaim => StatementHolds
    /\ admitted # {} => signed # NoClaim
    /\ AgreementHonest /\ AdmissionSound

\* Nothing recorded, nothing claimed.
LEMMA ReceiptStarts == ReceiptInit => ReceiptInv
<1> SUFFICES ASSUME ReceiptInit PROVE ReceiptInv
  OBVIOUS
<1>1. ReceiptTyped BY DEF ReceiptInit, ReceiptTyped, Standing
<1>2. AgreementHonest BY DEF ReceiptInit, AgreementHonest
<1>3. AdmissionSound BY DEF ReceiptInit, AdmissionSound
<1>4. QED BY <1>1, <1>2, <1>3 DEF ReceiptInit, ReceiptInv

\* What was adjudicated and approved stays so.
LEMMA Memory ==
    ASSUME judged \subseteq judged', approved \subseteq approved'
    PROVE  /\ \A where, t, h, b, v : Judged(where, t, h, b, v) => Judged(where, t, h, b, v)'
           /\ \A v, h : MaskedIsApproved(v, h) => MaskedIsApproved(v, h)'
BY DEF Judged, MaskedIsApproved

\* A step that only adds to what is remembered keeps what was said of it.
LEMMA RememberedStays ==
    ASSUME ReceiptInv, judged \subseteq judged', approved \subseteq approved',
           UNCHANGED <<report, signed, admitted>>
    PROVE  /\ AgreementHonest'
           /\ signed # NoClaim => StatementHolds'
           /\ AdmissionSound'
           /\ admitted # {} => signed # NoClaim
<1>1. AgreementHonest' BY Memory DEF ReceiptInv, AgreementHonest
<1>2. signed # NoClaim => StatementHolds' BY Memory DEF ReceiptInv, StatementHolds
<1>3. AdmissionSound' BY Memory DEF ReceiptInv, AdmissionSound
<1>4. QED BY <1>1, <1>2, <1>3 DEF ReceiptInv

\* The developer's machine: edits, main, verify and export.
LEMMA LocalKeeps ==
    ASSUME ReceiptInv, UNCHANGED <<job, doc, approved, report, signed, clock, admitted>>,
           judged \subseteq judged', main' \in Nat, local' \in [tree : Standing, head : Standing, on : Nat],
           \A j \in judged' : j.tree \in Standing,
           claim'.kind \in {"absent", "schema", "receipt"},
           record' # NoClaim => Remembered("local", record, "VERIFIED")',
           claim'.kind = "receipt" => Remembered("local", claim.digest, "VERIFIED")'
    PROVE  ReceiptInv'
<1>1. approved \subseteq approved' OBVIOUS
<1>2. AgreementHonest' /\ (signed' # NoClaim => StatementHolds') /\ AdmissionSound'
      /\ (admitted' # {} => signed' # NoClaim)
  BY <1>1, RememberedStays
<1>3. ReceiptTyped' BY DEF ReceiptInv, ReceiptTyped
<1>4. doc' # NoClaim => DocumentHolds'
  BY <1>1, Memory DEF ReceiptInv, DocumentHolds
<1>5. QED BY <1>2, <1>3, <1>4 DEF ReceiptInv

LEMMA LocalSteps ==
    ASSUME ReceiptInv,
           \/ \E s \in Source : EditSources(s)
           \/ CommitLocal \/ MainMoves
           \/ \E picked \in BOOLEAN : TakeMain(picked)
           \/ \E v \in {"VERIFIED", "SUITE_RED"} : VerifyLocal(v)
           \/ ExportAsks \/ ExportReads
           \/ \E c \in Transported(claim) : Transport(c)
    PROVE  ReceiptInv'
<1> USE DEF ReceiptInv, ReceiptTyped
<1>0. /\ ReceiptTyped
      /\ record # NoClaim => Remembered("local", record, "VERIFIED")
      /\ claim.kind = "receipt" => Remembered("local", claim.digest, "VERIFIED")
  OBVIOUS
<1>1. ASSUME NEW s \in Source, EditSources(s) PROVE ReceiptInv'
  <2>1. UNCHANGED <<main, record, exporting, claim, job, doc, approved, report, signed, clock, judged, admitted>>
    BY <1>1 DEF EditSources, ciSide
  <2>2. local' \in [tree : Standing, head : Standing, on : Nat]
    BY <1>0, <1>1 DEF EditSources, Standing
  <2>3. QED BY <1>0, <2>1, <2>2, LocalKeeps DEF Remembered, Judged
<1>2. CASE CommitLocal \/ MainMoves
  <2>1. UNCHANGED <<record, exporting, claim, job, doc, approved, report, signed, clock, judged, admitted>>
    BY <1>2 DEF CommitLocal, MainMoves, ciSide
  <2>2. main' \in Nat /\ local' \in [tree : Standing, head : Standing, on : Nat]
    BY <1>0, <1>2 DEF CommitLocal, MainMoves
  <2>3. QED BY <1>0, <2>1, <2>2, LocalKeeps DEF Remembered, Judged
<1>3. ASSUME NEW picked \in BOOLEAN, TakeMain(picked) PROVE ReceiptInv'
  <2>1. UNCHANGED <<main, record, exporting, claim, job, doc, approved, report, signed, clock, judged, admitted>>
    BY <1>3 DEF TakeMain, ciSide
  <2>2. local' \in [tree : Standing, head : Standing, on : Nat]
    <3> DEFINE tree == [local.tree EXCEPT !.level = main]
    <3>1. tree \in Standing BY <1>0 DEF Standing
    <3>2. local' = [tree |-> tree, head |-> tree, on |-> IF picked THEN local.on ELSE main] BY <1>3 DEF TakeMain
    <3> HIDE DEF tree
    <3>3. QED BY <1>0, <3>1, <3>2
  <2>3. QED BY <1>0, <2>1, <2>2, LocalKeeps DEF Remembered, Judged
<1>4. ASSUME NEW v \in {"VERIFIED", "SUITE_RED"}, VerifyLocal(v) PROVE ReceiptInv'
  <2>1. UNCHANGED <<main, local, exporting, claim, job, doc, approved, report, signed, clock, admitted>>
    BY <1>4 DEF VerifyLocal, ciSide
  <2>2. CASE v = "VERIFIED"
    <3>1. /\ record' = LocalBinding
          /\ judged' = judged \cup {[at |-> "local", tree |-> local.tree, head |-> local.head, base |-> local.on, verdict |-> v]}
      BY <1>4, <2>2 DEF VerifyLocal
    <3>2. Remembered("local", record, "VERIFIED")'
      BY <2>1, <2>2, <3>1 DEF Remembered, Judged, LocalBinding, Binding
    <3>3. \A j \in judged' : j.tree \in Standing BY <1>0, <3>1
    <3>4. claim.kind = "receipt" => Remembered("local", claim.digest, "VERIFIED")'
      BY <1>0, <2>1, <3>1 DEF Remembered, Judged
    <3>5. QED BY <1>0, <2>1, <3>1, <3>2, <3>3, <3>4, LocalKeeps
  <2>3. CASE v # "VERIFIED"
    <3>1. record' = NoClaim /\ judged' = judged BY <1>4, <2>3 DEF VerifyLocal
    <3>2. QED BY <1>0, <2>1, <3>1, LocalKeeps DEF Remembered, Judged
  <2>4. QED BY <2>2, <2>3
<1>5. CASE ExportAsks
  <2>1. UNCHANGED <<main, local, record, claim, job, doc, approved, report, signed, clock, judged, admitted>>
    BY <1>5 DEF ExportAsks, ciSide
  <2>2. QED BY <1>0, <2>1, LocalKeeps DEF Remembered, Judged
<1>6. CASE ExportReads
  <2>1. UNCHANGED <<main, local, record, job, doc, approved, report, signed, clock, judged, admitted>>
    BY <1>6 DEF ExportReads, ciSide
  <2>2. claim' = claim \/ (record # NoClaim /\ claim' = [kind |-> "receipt", binding |-> record, digest |-> record])
    BY <1>6 DEF ExportReads
  <2>3. claim'.kind \in {"absent", "schema", "receipt"} BY <1>0, <2>2
  <2>4. claim'.kind = "receipt" => Remembered("local", claim.digest, "VERIFIED")'
    BY <1>0, <2>1, <2>2 DEF Remembered, Judged
  <2>5. QED BY <1>0, <2>1, <2>3, <2>4, LocalKeeps DEF Remembered, Judged
<1>7. ASSUME NEW c \in Transported(claim), Transport(c) PROVE ReceiptInv'
  <2>1. UNCHANGED <<main, local, record, job, doc, approved, report, signed, clock, judged, admitted>>
    BY <1>7 DEF Transport, localSide, ciSide
  <2>2. claim' = c /\ claim.kind = "receipt" BY <1>7 DEF Transport
  <2>3. c.kind = "schema" \/ (c.kind = "receipt" /\ c.digest = claim.digest)
    <3>1. CASE c = [kind |-> "schema"] BY <3>1
    <3>2. CASE c # [kind |-> "schema"]
      <4>1. PICK s \in Source : c = [claim EXCEPT !.binding.tree.src = s] BY <3>2 DEF Transported
      <4>2. QED BY <2>2, <4>1
    <3>3. QED BY <3>1, <3>2
  <2>4. claim'.kind = "receipt" => Remembered("local", claim.digest, "VERIFIED")'
    BY <1>0, <2>1, <2>2, <2>3 DEF Remembered, Judged
  <2>5. QED BY <1>0, <2>1, <2>2, <2>3, <2>4, LocalKeeps DEF Remembered, Judged
<1>8. QED BY <1>1, <1>2, <1>3, <1>4, <1>5, <1>6, <1>7

\* What reconciliation finds applicable is the receipt's own tree, and CI's.
LEMMA ReconciledIs ==
    ASSUME NEW ci, NEW b, NEW ran, claim.kind \in {"absent", "schema", "receipt"}
    PROVE  LET r == Reconcile(ci, b, ran, claim)
           IN /\ r.result = ci /\ r.binding = b
              /\ r.agreement = "AGREE" => ci = "VERIFIED"
              /\ r.applicable => /\ claim.kind = "receipt" /\ ran = b.tree
                                 /\ claim.digest.tree = b.tree /\ claim.digest.head = b.head /\ claim.digest.base = b.base
<1> DEFINE r == Reconcile(ci, b, ran, claim)
<1>1. CASE Disposition(claim) = "ABSENT"
  <2>1. r.result = ci BY <1>1 DEF Reconcile
  <2>2. r.binding = b BY <1>1 DEF Reconcile
  <2>3. r.agreement = "NO_CLAIM" BY <1>1 DEF Reconcile
  <2>4. ~r.applicable BY <1>1 DEF Reconcile
  <2> HIDE DEF r
  <2>5. QED BY <2>1, <2>2, <2>3, <2>4 DEF r
<1>2. CASE Disposition(claim) \in {"MALFORMED", "UNKNOWN_SCHEMA"}
  <2>1. r.result = ci BY <1>2 DEF Reconcile
  <2>2. r.binding = b BY <1>2 DEF Reconcile
  <2>3. r.agreement = "NON_APPLICABLE" BY <1>2 DEF Reconcile
  <2>4. ~r.applicable BY <1>2 DEF Reconcile
  <2> HIDE DEF r
  <2>5. QED BY <2>1, <2>2, <2>3, <2>4 DEF r
<1>3. CASE Disposition(claim) \notin {"ABSENT", "MALFORMED", "UNKNOWN_SCHEMA"}
  <2>1. claim.kind = "receipt" /\ claim.digest = claim.binding BY <1>3 DEF Disposition
  <2>2. r.result = ci BY <1>3 DEF Reconcile
  <2>3. r.binding = b BY <1>3 DEF Reconcile
  <2>4. r.agreement = "AGREE" => ci = "VERIFIED" BY <1>3 DEF Reconcile
  <2>5. r.applicable => CandidateMatches(claim.binding, b) /\ ran = claim.binding.tree
    <3> SUFFICES ASSUME ~(CandidateMatches(claim.binding, b) /\ ran = claim.binding.tree) PROVE ~r.applicable
      OBVIOUS
    <3>1. QED BY <1>3 DEF Reconcile
  <2> HIDE DEF r
  <2>6. r.applicable => ran = b.tree /\ claim.digest.tree = b.tree /\ claim.digest.head = b.head /\ claim.digest.base = b.base
    BY <2>1, <2>5 DEF CandidateMatches
  <2>7. QED BY <2>1, <2>2, <2>3, <2>4, <2>6 DEF r
<1>4. QED BY <1>1, <1>2, <1>3

Verdicts(where, t, h, b, v) == [at |-> where, tree |-> t, head |-> h, base |-> b, verdict |-> v]
\* A report about what CI ran of this job is honest.
LEMMA ReportIsHonest ==
    ASSUME ReceiptInv, job # NoClaim, approved' = approved, NEW ci \in Adjudged, NEW ran, NEW on,
           report' = [outcome |-> Reconcile(ci, CiBinding, ran, claim),
                      exit |-> VerdictExit(ci, ci = "MASKED_FAILURE" /\ job.tip \in approved), main |-> on, head |-> job.tip],
           judged \subseteq judged',
           ran = job.tip => Verdicts("ci", job.tip, job.tip, on, ci) \in judged',
           \E t : Verdicts("ci", t, job.tip, on, ci) \in judged'
    PROVE  AgreementHonest'
<1> DEFINE r == Reconcile(ci, CiBinding, ran, claim)
<1>1. claim.kind \in {"absent", "schema", "receipt"} BY DEF ReceiptInv, ReceiptTyped
<1>2. /\ r.result = ci /\ r.binding = CiBinding
      /\ r.agreement = "AGREE" => ci = "VERIFIED"
      /\ r.applicable => /\ claim.kind = "receipt" /\ ran = CiBinding.tree
                         /\ claim.digest.tree = CiBinding.tree /\ claim.digest.head = CiBinding.head
                         /\ claim.digest.base = CiBinding.base
  BY <1>1, ReconciledIs
<1>3. CiBinding.tree = job.tip /\ CiBinding.head = job.tip BY DEF CiBinding, Binding
<1> HIDE DEF r
<1>4. r.applicable => Verdicts("local", r.binding.tree, r.binding.head, r.binding.base, "VERIFIED") \in judged'
  BY <1>2 DEF ReceiptInv, Remembered, Judged, Verdicts
<1>5. r.applicable => Verdicts("ci", r.binding.tree, r.binding.head, on, r.result) \in judged' BY <1>2, <1>3
<1>6. VerdictExit(ci, ci = "MASKED_FAILURE" /\ job.tip \in approved) = 0 =>
        ci = "VERIFIED" \/ (ci = "MASKED_FAILURE" /\ job.tip \in approved)
  BY DEF VerdictExit, Adjudged
<1>7. PICK t : Verdicts("ci", t, job.tip, on, ci) \in judged' OBVIOUS
<1>8. report'.outcome = r /\ report'.main = on /\ report'.head = job.tip BY DEF r
<1>9. report'.exit = 0 =>
        \E j \in judged' : /\ j.at = "ci" /\ j.head = report'.head /\ j.base = report'.main /\ j.verdict = r.result
                           /\ j.verdict = "VERIFIED" \/ (j.verdict = "MASKED_FAILURE" /\ j.head \in approved')
  <2> SUFFICES ASSUME report'.exit = 0
               PROVE  \E j \in judged' : /\ j.at = "ci" /\ j.head = job.tip /\ j.base = on /\ j.verdict = ci
                                         /\ j.verdict = "VERIFIED" \/ (j.verdict = "MASKED_FAILURE" /\ j.head \in approved)
    BY <1>2, <1>8
  <2> DEFINE k == Verdicts("ci", t, job.tip, on, ci)
  <2>1. k \in judged' BY <1>7
  <2>2. ci = "VERIFIED" \/ (ci = "MASKED_FAILURE" /\ job.tip \in approved) BY <1>6
  <2>3. k.at = "ci" /\ k.head = job.tip /\ k.base = on /\ k.verdict = ci BY DEF Verdicts
  <2>4. QED BY <2>1, <2>2, <2>3
<1>10. QED BY <1>2, <1>4, <1>5, <1>8, <1>9 DEF AgreementHonest, Judged, Verdicts

\* CI: its jobs, its verify, its reviewer, and the reconciliation.
LEMMA JobKeeps == ASSUME ReceiptInv, OpenJob \/ LabelVerify PROVE ReceiptInv'
<1> USE DEF ReceiptTyped
<1>0. ReceiptTyped BY DEF ReceiptInv
<1>1. judged' = judged /\ approved \subseteq approved' /\ UNCHANGED <<main, local, record, exporting, claim, report, signed, clock, admitted>>
  BY DEF OpenJob, LabelVerify, localSide
<1>2. /\ AgreementHonest' /\ (signed' # NoClaim => StatementHolds') /\ AdmissionSound'
      /\ (admitted' # {} => signed' # NoClaim)
  BY <1>1, RememberedStays
<1>3. CASE OpenJob
  <2>1. job' \in [tip : Standing, on : Nat, main : Nat] /\ doc' = NoClaim BY <1>0, <1>3 DEF OpenJob
  <2>2. QED BY <1>0, <1>1, <1>2, <2>1 DEF ReceiptInv, Remembered, Judged
<1>4. CASE LabelVerify
  <2>1. job' = job /\ doc' = doc BY <1>4 DEF LabelVerify
  <2>2. doc' # NoClaim => DocumentHolds' BY <1>1, <2>1, Memory DEF ReceiptInv, DocumentHolds
  <2>3. QED BY <1>0, <1>1, <1>2, <2>1, <2>2 DEF ReceiptInv, Remembered, Judged
<1>5. QED BY <1>3, <1>4

LEMMA VerifyKeeps ==
    ASSUME ReceiptInv, NEW v \in Adjudged, NEW names \in BOOLEAN, VerifyMerge(v, names)
    PROVE  ReceiptInv'
<1> DEFINE t == MergeTree
           made == [at |-> "ci", tree |-> t, head |-> job.tip, base |-> job.main, verdict |-> v]
           oob == v = "MASKED_FAILURE" /\ job.tip \in approved
<1>0. ReceiptTyped /\ job # NoClaim BY DEF ReceiptInv, VerifyMerge
<1>1. /\ judged' = judged \cup {made} /\ UNCHANGED <<main, local, record, exporting, claim, job, approved, report, signed, clock, admitted>>
      /\ doc' = [verdict |-> v, base |-> job.main, head |-> job.tip, ran |-> t, tree |-> IF names THEN t ELSE NoClaim, oob |-> oob]
  BY DEF VerifyMerge, localSide
<1>2. t \in Standing BY <1>0 DEF MergeTree, Bigger, Standing, ReceiptTyped
<1> HIDE DEF t
<1>3. made \in judged' BY <1>1
<1>4. /\ AgreementHonest' /\ (signed' # NoClaim => StatementHolds') /\ AdmissionSound'
      /\ (admitted' # {} => signed' # NoClaim)
  BY <1>1, RememberedStays
<1>5. DocumentHolds'
  <2>1. job' # NoClaim /\ doc'.base = job'.main /\ doc'.head = job'.tip BY <1>0, <1>1
  <2>2. doc'.verdict \in Adjudged /\ doc'.tree \in {NoClaim, doc'.ran} BY <1>1
  <2>3. Judged("ci", doc.ran, doc.head, doc.base, doc.verdict)' BY <1>1, <1>3 DEF Judged
  <2>4. doc'.oob => doc'.verdict = "MASKED_FAILURE" /\ doc'.head \in approved' BY <1>1
  <2>5. QED BY <2>1, <2>2, <2>3, <2>4 DEF DocumentHolds
<1>6. \A j \in judged' : j.tree \in Standing BY <1>0, <1>1, <1>2 DEF ReceiptTyped
<1>7. ReceiptTyped' BY <1>0, <1>1, <1>6 DEF ReceiptTyped
<1>8. /\ record' # NoClaim => Remembered("local", record, "VERIFIED")'
      /\ claim'.kind = "receipt" => Remembered("local", claim.digest, "VERIFIED")'
  BY <1>1 DEF ReceiptInv, Remembered, Judged
<1>9. QED BY <1>4, <1>5, <1>7, <1>8 DEF ReceiptInv

\* A step that writes a report and perhaps adjudicates, and nothing else.
LEMMA ReportKeeps ==
    ASSUME ReceiptInv, AgreementHonest', judged \subseteq judged', \A j \in judged' : j.tree \in Standing,
           UNCHANGED <<main, local, record, exporting, claim, job, doc, approved, signed, clock, admitted>>
    PROVE  ReceiptInv'
<1>1. ReceiptTyped' BY DEF ReceiptInv, ReceiptTyped
<1>2. approved \subseteq approved' OBVIOUS
<1>3. doc' # NoClaim => DocumentHolds' BY <1>2, Memory DEF ReceiptInv, DocumentHolds
<1>4. signed' # NoClaim => StatementHolds' BY <1>2, Memory DEF ReceiptInv, StatementHolds
<1>5. AdmissionSound' BY <1>2, Memory DEF ReceiptInv, AdmissionSound
<1>6. /\ record' # NoClaim => Remembered("local", record, "VERIFIED")'
      /\ claim'.kind = "receipt" => Remembered("local", claim.digest, "VERIFIED")'
  BY DEF ReceiptInv, Remembered, Judged
<1>7. QED BY <1>1, <1>3, <1>4, <1>5, <1>6 DEF ReceiptInv

LEMMA ReconcileKeeps ==
    ASSUME ReceiptInv, ReconcileDocument \/ \E v \in Adjudged : ReconcileSelf(v)
    PROVE  ReceiptInv'
<1>1. CASE ReconcileDocument
  <2>1. doc # NoClaim /\ DocumentHolds BY <1>1 DEF ReconcileDocument, ReceiptInv
  <2>2. UNCHANGED <<main, local, record, exporting, claim, job, doc, approved, signed, clock, judged, admitted>>
    BY <1>1 DEF ReconcileDocument, localSide, ciSide
  <2>3. doc.verdict \in Adjudged /\ job # NoClaim BY <2>1 DEF DocumentHolds
  <2>4. ReadCiVerify(doc, CiBinding) = doc.verdict
    BY <2>1 DEF DocumentHolds, ReadCiVerify, Adjudged, Verdict
  <2>5. report' = [outcome |-> Reconcile(doc.verdict, CiBinding, doc.tree, claim),
                   exit |-> VerdictExit(doc.verdict, doc.verdict = "MASKED_FAILURE" /\ job.tip \in approved),
                   main |-> job.main, head |-> job.tip]
    BY <1>1, <2>4 DEF ReconcileDocument
  <2>6. job.tip \in Standing BY <2>3 DEF ReceiptInv, ReceiptTyped
  <2>7. job.tip # NoClaim BY <2>6, ReceiptAssumption DEF Standing
  <2>8. Verdicts("ci", doc.ran, job.tip, job.main, doc.verdict) \in judged' BY <2>1, <2>2 DEF DocumentHolds, Judged, Verdicts
  <2>9. doc.tree = job.tip => doc.ran = job.tip BY <2>1, <2>7 DEF DocumentHolds
  <2>10. doc.tree = job.tip => Verdicts("ci", job.tip, job.tip, job.main, doc.verdict) \in judged' BY <2>8, <2>9
  <2>11. \E t : Verdicts("ci", t, job.tip, job.main, doc.verdict) \in judged' BY <2>8
  <2>12. approved' = approved /\ judged \subseteq judged' BY <2>2
  <2>13. AgreementHonest' BY <2>3, <2>5, <2>10, <2>11, <2>12, ReportIsHonest
  <2>14. \A j \in judged' : j.tree \in Standing BY <2>2 DEF ReceiptInv, ReceiptTyped
  <2>15. QED BY <2>2, <2>12, <2>13, <2>14, ReportKeeps
<1>2. ASSUME NEW v \in Adjudged, ReconcileSelf(v) PROVE ReceiptInv'
  <2> DEFINE made == [at |-> "ci", tree |-> job.tip, head |-> job.tip, base |-> job.on, verdict |-> v]
  <2>1. /\ job # NoClaim /\ judged' = judged \cup {made}
        /\ UNCHANGED <<main, local, record, exporting, claim, job, doc, approved, signed, clock, admitted>>
        /\ report' = [outcome |-> Reconcile(v, CiBinding, job.tip, claim),
                      exit |-> VerdictExit(v, job.tip \in approved), main |-> job.on, head |-> job.tip]
    BY <1>2 DEF ReconcileSelf, localSide, ciSide
  <2>2. VerdictExit(v, job.tip \in approved) = VerdictExit(v, v = "MASKED_FAILURE" /\ job.tip \in approved)
    BY DEF VerdictExit, Adjudged
  <2>3. report' = [outcome |-> Reconcile(v, CiBinding, job.tip, claim),
                   exit |-> VerdictExit(v, v = "MASKED_FAILURE" /\ job.tip \in approved), main |-> job.on, head |-> job.tip]
    BY <2>1, <2>2
  <2>4. Verdicts("ci", job.tip, job.tip, job.on, v) \in judged' BY <2>1 DEF Verdicts
  <2>5. judged \subseteq judged' /\ approved' = approved BY <2>1
  <2>6. \E t : Verdicts("ci", t, job.tip, job.on, v) \in judged' BY <2>4
  <2>7. AgreementHonest' BY <2>1, <2>3, <2>4, <2>5, <2>6, ReportIsHonest
  <2>8. job.tip \in Standing BY <2>1 DEF ReceiptInv, ReceiptTyped
  <2>9. \A j \in judged' : j.tree \in Standing BY <2>1, <2>8 DEF ReceiptInv, ReceiptTyped
  <2>10. QED BY <2>1, <2>5, <2>7, <2>9, ReportKeeps
<1>3. QED BY <1>1, <1>2

\* The signer, the consumer and the clock.
LEMMA SigningKeeps ==
    ASSUME ReceiptInv,
           \/ \E p \in Payloads, i \in 0..MaxTime, e \in 1..MaxTime : Sign(p, i, e)
           \/ Later
           \/ \E p \in Payloads : Admit(p)
    PROVE  ReceiptInv'
<1>0. ReceiptTyped BY DEF ReceiptInv
<1>1. UNCHANGED <<main, local, record, exporting, claim, job, doc, approved, report, judged>>
  BY DEF Sign, Later, Admit, localSide, ciSide
<1>2. clock' \in Nat BY <1>0 DEF Sign, Later, Admit, ReceiptTyped
<1>3. ReceiptTyped' BY <1>0, <1>1, <1>2 DEF ReceiptTyped
<1>4. /\ record' # NoClaim => Remembered("local", record, "VERIFIED")'
      /\ claim'.kind = "receipt" => Remembered("local", claim.digest, "VERIFIED")'
  BY <1>1 DEF ReceiptInv, Remembered, Judged
<1>5. doc' # NoClaim => DocumentHolds' BY <1>1 DEF ReceiptInv, DocumentHolds, Judged
<1>6. AgreementHonest' BY <1>1 DEF ReceiptInv, AgreementHonest, Judged
<1>7. /\ signed' # NoClaim => StatementHolds'
      /\ admitted' # {} => signed' # NoClaim
      /\ AdmissionSound'
  <2>1. ASSUME NEW p \in Payloads, NEW i \in 0..MaxTime, NEW e \in 1..MaxTime, Sign(p, i, e)
        PROVE  StatementHolds' /\ admitted' = {}
    <3>1. /\ doc # NoClaim /\ WellFormed(p) /\ ValidTime(i, e, clock) /\ ProducerStages(doc, p) /\ signed = NoClaim
          /\ signed' = [payload |-> p, issued |-> i, expires |-> e, at |-> clock] /\ admitted' = admitted
      BY <2>1 DEF Sign
    <3>2. DocumentHolds BY <3>1 DEF ReceiptInv
    <3>3. doc.verdict = p.verdict /\ doc.base = p.base /\ doc.tree = p.tree /\ doc.head = p.head
      BY <3>1 DEF ProducerStages
    <3>4. PICK j \in judged : p.tree = j.tree BY DEF Payloads
    <3>5. p.tree # NoClaim BY <1>0, <3>4, ReceiptAssumption DEF ReceiptTyped, Standing
    <3>6. doc.tree = doc.ran BY <3>2, <3>3, <3>5 DEF DocumentHolds
    <3>7. Judged("ci", p.tree, p.head, p.base, p.verdict) BY <3>2, <3>3, <3>6 DEF DocumentHolds
    <3>8. p.head # NoClaim
      <4>1. job.tip \in Standing /\ p.head = job.tip BY <1>0, <3>2, <3>3 DEF DocumentHolds, ReceiptTyped
      <4>2. QED BY <4>1, ReceiptAssumption DEF Standing
    <3>9. p.verdict = "MASKED_FAILURE" => p.head \in approved
      BY <3>1, <3>2, <3>3, <3>8 DEF WellFormed, ProducerStages, DocumentHolds
    <3>10. i \in Nat /\ e \in Nat /\ clock \in Nat /\ i <= clock /\ e - i <= Window
      BY <1>0, <3>1, ReceiptAssumption DEF ValidTime, ReceiptTyped
    <3>11. /\ signed'.payload = p /\ signed'.issued = i /\ signed'.expires = e /\ signed'.at = clock
      BY <3>1
    <3>12. StatementHolds'
      BY <1>1, <3>7, <3>9, <3>10, <3>11 DEF StatementHolds, Judged, MaskedIsApproved
    <3>13. QED BY <3>1, <3>12 DEF ReceiptInv
  <2>2. CASE Later
    <3>1. UNCHANGED <<signed, admitted>> BY <2>2 DEF Later
    <3>2. QED BY <1>1, <3>1 DEF ReceiptInv, StatementHolds, AdmissionSound, Judged, MaskedIsApproved
  <2>3. ASSUME NEW p \in Payloads, Admit(p)
        PROVE  StatementHolds' /\ signed' # NoClaim /\ AdmissionSound'
    <3>1. /\ signed # NoClaim /\ signed' = signed /\ signed.payload = p /\ ValidTime(signed.issued, signed.expires, clock)
          /\ admitted' = {[payload |-> p, at |-> clock]}
      BY <2>3 DEF Admit
    <3>2. StatementHolds BY <3>1 DEF ReceiptInv
    <3>3. clock - signed.at < Window
      BY <1>0, <3>1, <3>2, ReceiptAssumption DEF StatementHolds, ValidTime, ReceiptTyped
    <3>4. \A a \in admitted' : a.payload = p /\ a.at = clock BY <3>1
    <3>5. AdmissionSound'
      BY <1>1, <3>1, <3>2, <3>3, <3>4 DEF AdmissionSound, StatementHolds, MaskedIsApproved, Judged
    <3>6. StatementHolds' BY <1>1, <3>1, <3>2 DEF StatementHolds, Judged, MaskedIsApproved
    <3>7. QED BY <3>1, <3>5, <3>6
  <2>4. ASSUME admitted' = {} PROVE AdmissionSound' BY <2>4 DEF AdmissionSound
  <2>5. QED BY <2>1, <2>2, <2>3, <2>4
<1>8. QED BY <1>3, <1>4, <1>5, <1>6, <1>7 DEF ReceiptInv

\* Every step of a receipt's way.
LEMMA ReceiptKeeps == ReceiptInv /\ [ReceiptNext]_receiptVars => ReceiptInv'
<1> SUFFICES ASSUME ReceiptInv, [ReceiptNext]_receiptVars PROVE ReceiptInv'
  OBVIOUS
<1>1. CASE Working
  <2>1. CASE \/ \E s \in Source : EditSources(s)
             \/ CommitLocal \/ MainMoves
             \/ \E picked \in BOOLEAN : TakeMain(picked)
             \/ \E v \in {"VERIFIED", "SUITE_RED"} : VerifyLocal(v)
             \/ ExportAsks \/ ExportReads
             \/ \E c \in Transported(claim) : Transport(c)
    BY <2>1, LocalSteps
  <2>2. CASE OpenJob \/ LabelVerify BY <2>2, JobKeeps
  <2>3. CASE ReconcileDocument \/ \E v \in Adjudged : ReconcileSelf(v) BY <2>3, ReconcileKeeps
  <2>4. ASSUME NEW v \in Adjudged, VerifyMerge(v, TRUE) \/ VerifyMerge(v, v # "VERIFIED") PROVE ReceiptInv'
    <3>1. (v # "VERIFIED") \in BOOLEAN /\ TRUE \in BOOLEAN OBVIOUS
    <3>2. QED BY <2>4, <3>1, VerifyKeeps
  <2>5. CASE \E p \in Payloads, i \in 0..MaxTime, e \in 1..MaxTime : Sign(p, i, e) BY <2>5, SigningKeeps
  <2>6. QED BY <1>1, <2>1, <2>2, <2>3, <2>4, <2>5 DEF Working
<1>2. CASE Later BY <1>2, SigningKeeps
<1>3. CASE \E p \in Payloads : Admit(p) BY <1>3, SigningKeeps
<1>4. CASE UNCHANGED receiptVars
  <2>1. UNCHANGED <<main, local, record, exporting, claim, job, doc, approved, report, signed, clock, judged, admitted>>
    BY <1>4 DEF receiptVars
  <2>2. ReceiptTyped' BY <2>1 DEF ReceiptInv, ReceiptTyped
  <2>3. doc' # NoClaim => DocumentHolds' BY <2>1 DEF ReceiptInv, DocumentHolds, Judged
  <2>4. QED BY <2>1, <2>2, <2>3, RememberedStays DEF ReceiptInv, Remembered, Judged
<1>5. QED BY <1>1, <1>2, <1>3, <1>4 DEF ReceiptNext

-----------------------------------------------------------------------------
(* The external oracle.                                                    *)

Bindings == [tree : [OPath -> Nat], head : Nat]
OraclePlaces == {"manifest", "bind", "inspect", "copy", "compare", "cases", "judged", "cleanup", "emit", "done"}
OracleTyped ==
    /\ live \in [OPath -> Nat] /\ commits \in Nat /\ edits \in Nat /\ \A p \in OPath : live[p] <= edits
    /\ snapshot \in [OPath -> Nat \cup {Nothing}] /\ todo \subseteq OPath
    /\ count \in [completed : Nat, passed : Nat] /\ cleaned \in BOOLEAN /\ opc \in OraclePlaces
\* A content never seen before is later than the one bound: what was copied
\* stands between the binding and the present.
Between(p) == snapshot[p] \in Nat /\ bound.tree[p] <= snapshot[p] /\ snapshot[p] <= live[p]
OraclePhases ==
    /\ opc = "bind" => bound \in [tree : {Nothing}, head : Nat]
    /\ opc \in {"inspect", "copy", "compare", "cases", "judged"} => bound \in Bindings
    /\ opc \in {"inspect", "copy", "compare"} => \A p \in OPath : bound.tree[p] <= live[p]
    /\ opc = "copy" => \A p \in OPath \ todo : Between(p)
    /\ opc = "compare" => \A p \in OPath : Between(p)
    /\ opc \in {"cases", "judged"} => snapshot = bound.tree
    /\ opc \in {"cleanup", "emit"} /\ bound # Nothing => snapshot = bound.tree
    /\ opc = "emit" /\ bound # Nothing => cleaned
OracleAnswers ==
    /\ opc \in {"manifest", "bind", "inspect", "copy", "compare", "cases"} => answer = "none"
    /\ opc \in {"manifest", "bind", "inspect", "copy", "compare"} => count = [completed |-> 0, passed |-> 0]
    /\ opc = "cases" => count.passed = count.completed
    /\ opc \in {"judged", "cleanup", "emit"} /\ answer = "VERIFIED" => count.passed = Cases
    /\ opc \in {"cleanup", "emit"} /\ answer = "VERIFIED" => bound # Nothing
    /\ opc # "done" => said = Nothing
OracleInv == OracleTyped /\ OraclePhases /\ OracleAnswers /\ OracleSound

\* Nothing is bound, nothing is copied.
LEMMA OracleStarts == OracleInit => OracleInv
BY DEF OracleInit, OracleInv, OracleTyped, OraclePhases, OracleAnswers, OracleSound, OraclePlaces

\* A binding is something.
LEMMA BindingIsSomething == \A b \in Bindings : b # Nothing
BY OracleAssumption DEF Bindings

\* The candidate moves while it is judged.
LEMMA CandidateKeeps ==
    ASSUME OracleInv, (\E p \in OPath : CandidateEdits(p)) \/ CandidateCommits
    PROVE  OracleInv'
<1> USE DEF OracleInv
<1>1. UNCHANGED <<snapshot, bound, todo, budgetLeft, count, answer, cleaned, said, opc>>
  BY DEF CandidateEdits, CandidateCommits, evaluation
<1>2. /\ live' \in [OPath -> Nat] /\ commits' \in Nat /\ edits' \in Nat
      /\ \A p \in OPath : live'[p] <= edits' /\ live[p] <= live'[p] /\ live'[p] \in Nat /\ live[p] \in Nat
  BY DEF CandidateEdits, CandidateCommits, OracleTyped
<1>3. OracleTyped' BY <1>1, <1>2 DEF OracleTyped
<1>4. \A p \in OPath : bound \in Bindings => bound.tree[p] \in Nat BY DEF Bindings
<1>5. opc \in {"inspect", "copy", "compare"} => \A p \in OPath : bound.tree[p] <= live'[p]
  BY <1>2, <1>4 DEF OraclePhases
<1>6. opc \in {"copy", "compare"} => \A p \in OPath : Between(p) => Between(p)'
  BY <1>1, <1>2 DEF Between
<1>7. OraclePhases' BY <1>1, <1>5, <1>6 DEF OraclePhases
<1>8. OracleAnswers' /\ OracleSound' BY <1>1 DEF OracleAnswers, OracleSound
<1>9. QED BY <1>3, <1>7, <1>8

\* A failure says nothing of the candidate.
LEMMA FailureKeeps ==
    ASSUME OracleInv, FailOracle, bound' = Nothing, opc # "done"
    PROVE  OracleInv'
<1> USE DEF OracleInv
<1>1. /\ answer' = "CANNOT_VERIFY" /\ opc' = "cleanup"
      /\ UNCHANGED <<live, commits, snapshot, todo, budgetLeft, count, cleaned, said, edits>>
  BY DEF FailOracle
<1>2. OracleTyped' BY <1>1 DEF OracleTyped, OraclePlaces
<1>3. OraclePhases' BY <1>1 DEF OraclePhases
<1>4. OracleAnswers' /\ OracleSound' BY <1>1 DEF OracleAnswers, OracleSound
<1>5. QED BY <1>2, <1>3, <1>4

\* From the manifest to the copy.
LEMMA CopyKeeps ==
    ASSUME OracleInv,
           \/ \E ok \in BOOLEAN : Prepare(ok) \/ InspectEntries(ok)
           \/ BindTree \/ \E p \in OPath : CopyEntry(p)
           \/ Copied
    PROVE  OracleInv'
<1> USE DEF OracleInv
<1>1. CASE Prepare(FALSE) \/ InspectEntries(FALSE)
  BY <1>1, FailureKeeps DEF Prepare, InspectEntries
<1>2. CASE Prepare(TRUE)
  <2>1. /\ opc = "manifest" /\ opc' = "bind" /\ bound' = [tree |-> Nothing, head |-> commits]
        /\ UNCHANGED <<live, commits, snapshot, todo, budgetLeft, count, answer, cleaned, said, edits>>
    BY <1>2 DEF Prepare
  <2>2. OracleTyped' BY <2>1 DEF OracleTyped, OraclePlaces
  <2>3. OraclePhases' BY <2>1 DEF OraclePhases, OracleTyped
  <2>4. OracleAnswers' /\ OracleSound' BY <2>1 DEF OracleAnswers, OracleSound
  <2>5. QED BY <2>2, <2>3, <2>4
<1>3. CASE InspectEntries(TRUE)
  <2>1. /\ opc = "inspect" /\ opc' = "copy" /\ cleaned' = FALSE /\ todo' = OPath
        /\ UNCHANGED <<live, commits, snapshot, bound, budgetLeft, count, answer, said, edits>>
    BY <1>3 DEF InspectEntries
  <2>2. OracleTyped' BY <2>1 DEF OracleTyped, OraclePlaces
  <2>3. OraclePhases' BY <2>1 DEF OraclePhases
  <2>4. OracleAnswers' /\ OracleSound' BY <2>1 DEF OracleAnswers, OracleSound
  <2>5. QED BY <2>2, <2>3, <2>4
<1>4. CASE BindTree
  <2>1. /\ opc = "bind" /\ opc' = "inspect" /\ bound' = [bound EXCEPT !.tree = live]
        /\ UNCHANGED <<live, commits, snapshot, todo, budgetLeft, count, answer, cleaned, said, edits>>
    BY <1>4 DEF BindTree
  <2>2. OracleTyped' BY <2>1 DEF OracleTyped, OraclePlaces
  <2>3. bound' \in Bindings /\ bound'.tree = live
    BY <2>1 DEF OraclePhases, OracleTyped, Bindings
  <2>4. \A p \in OPath : bound'.tree[p] <= live[p] BY <2>3 DEF OracleTyped
  <2>5. OraclePhases' BY <2>1, <2>3, <2>4 DEF OraclePhases
  <2>6. OracleAnswers' /\ OracleSound' BY <2>1 DEF OracleAnswers, OracleSound
  <2>7. QED BY <2>2, <2>5, <2>6
<1>5. ASSUME NEW p \in OPath, CopyEntry(p) PROVE OracleInv'
  <2>1. /\ opc = "copy" /\ opc' = "copy" /\ todo' = todo \ {p} /\ snapshot' = [snapshot EXCEPT ![p] = live[p]]
        /\ UNCHANGED <<live, commits, bound, budgetLeft, count, answer, cleaned, said, edits>>
    BY <1>5 DEF CopyEntry
  <2>2. OracleTyped' BY <2>1 DEF OracleTyped, OraclePlaces
  <2>3. ASSUME NEW q \in OPath \ todo' PROVE Between(q)'
    <3>1. CASE q = p
      <4>1. snapshot'[q] = live[q] /\ live[q] \in Nat /\ bound.tree[q] <= live[q]
        BY <2>1, <3>1 DEF OracleTyped, OraclePhases
      <4>2. QED BY <2>1, <4>1 DEF Between
    <3>2. CASE q # p
      <4>1. snapshot'[q] = snapshot[q] /\ q \notin todo BY <2>1, <2>3, <3>2 DEF OracleTyped
      <4>2. QED BY <2>1, <4>1 DEF Between, OraclePhases
    <3>3. QED BY <3>1, <3>2
  <2>4. OraclePhases' BY <2>1, <2>3 DEF OraclePhases
  <2>5. OracleAnswers' /\ OracleSound' BY <2>1 DEF OracleAnswers, OracleSound
  <2>6. QED BY <2>2, <2>4, <2>5
<1>6. CASE Copied
  <2>1. /\ opc = "copy" /\ todo = {} /\ opc' = "compare" /\ todo' = OPath
        /\ UNCHANGED <<live, commits, snapshot, bound, budgetLeft, count, answer, cleaned, said, edits>>
    BY <1>6 DEF Copied
  <2>2. OracleTyped' BY <2>1 DEF OracleTyped, OraclePlaces
  <2>3. \A q \in OPath : Between(q)' BY <2>1 DEF OraclePhases, Between
  <2>4. OraclePhases' BY <2>1, <2>3 DEF OraclePhases
  <2>5. OracleAnswers' /\ OracleSound' BY <2>1 DEF OracleAnswers, OracleSound
  <2>6. QED BY <2>2, <2>4, <2>5
<1>7. QED BY <1>1, <1>2, <1>3, <1>4, <1>5, <1>6

\* From the comparison to what is said.
LEMMA EvaluationKeeps ==
    ASSUME OracleInv,
           \/ \E p \in OPath : CompareEntry(p)
           \/ StillBound("compare", "cases") \/ StillBound("judged", "cleanup")
           \/ \E r \in {"right", "wrong", "failed", "truncated", "foreign"} : AskCase(r)
           \/ BudgetRunsOut \/ AllAsked
    PROVE  OracleInv'
<1> USE DEF OracleInv
<1>1. ASSUME NEW p \in OPath, CompareEntry(p) PROVE OracleInv'
  <2>1. CASE live[p] # snapshot[p] BY <1>1, <2>1, FailureKeeps DEF CompareEntry
  <2>2. CASE live[p] = snapshot[p]
    <3>1. /\ opc = "compare" /\ todo' = todo \ {p}
          /\ UNCHANGED <<live, commits, snapshot, opc, bound, budgetLeft, count, answer, cleaned, said, edits>>
      BY <1>1, <2>2 DEF CompareEntry
    <3>2. OracleTyped' BY <3>1 DEF OracleTyped
    <3>3. OraclePhases' BY <3>1 DEF OraclePhases, Between
    <3>4. OracleAnswers' /\ OracleSound' BY <3>1 DEF OracleAnswers, OracleSound
    <3>5. QED BY <3>2, <3>3, <3>4
  <2>3. QED BY <2>1, <2>2
<1>2. CASE StillBound("compare", "cases") \/ StillBound("judged", "cleanup")
  <2>1. CASE ~(live = bound.tree /\ commits = bound.head)
    <3>1. FailOracle /\ bound' = Nothing /\ opc # "done" BY <1>2, <2>1 DEF StillBound
    <3>2. QED BY <3>1, FailureKeeps
  <2>2. CASE live = bound.tree /\ commits = bound.head
    <3>1. /\ \/ opc = "compare" /\ opc' = "cases"
             \/ opc = "judged" /\ opc' = "cleanup"
          /\ UNCHANGED <<live, commits, snapshot, bound, todo, budgetLeft, count, answer, cleaned, said, edits>>
      BY <1>2, <2>2 DEF StillBound
    <3>2. OracleTyped' BY <3>1 DEF OracleTyped, OraclePlaces
    <3>3. snapshot = bound.tree
      <4>1. CASE opc = "compare"
        <5>1. ASSUME NEW q \in OPath PROVE snapshot[q] = live[q]
          <6>1. Between(q) /\ live[q] = bound.tree[q] /\ live[q] \in Nat BY <2>2, <4>1 DEF OraclePhases, OracleTyped
          <6>2. QED BY <6>1 DEF Between
        <5>2. snapshot = live BY <5>1 DEF OracleTyped
        <5>3. QED BY <2>2, <5>2
      <4>2. CASE opc = "judged" BY <4>2 DEF OraclePhases
      <4>3. QED BY <3>1, <4>1, <4>2
    <3>4. bound \in Bindings /\ bound # Nothing BY <3>1, BindingIsSomething DEF OraclePhases
    <3>5. OraclePhases' BY <3>1, <3>3, <3>4 DEF OraclePhases
    <3>6. OracleAnswers' BY <3>1, <3>4 DEF OracleAnswers
    <3>7. OracleSound' BY <3>1 DEF OracleAnswers, OracleSound
    <3>8. QED BY <3>2, <3>5, <3>6, <3>7
  <2>3. QED BY <2>1, <2>2
<1>3. ASSUME NEW r \in {"right", "wrong", "failed", "truncated", "foreign"}, AskCase(r) PROVE OracleInv'
  <2>1. /\ opc = "cases" /\ UNCHANGED <<live, commits, snapshot, bound, todo, budgetLeft, cleaned, said, edits>>
        /\ \/ answer' = "CANNOT_VERIFY" /\ opc' = "judged" /\ count' = count
           \/ answer' = "ORACLE_RED" /\ opc' = "judged" /\ count' = [count EXCEPT !.completed = @ + 1]
           \/ answer' = answer /\ opc' = opc /\ count' = [completed |-> count.completed + 1, passed |-> count.passed + 1]
    BY <1>3 DEF AskCase
  <2>2. count' \in [completed : Nat, passed : Nat] BY <2>1 DEF OracleTyped
  <2>3. OracleTyped' BY <2>1, <2>2 DEF OracleTyped, OraclePlaces
  <2>4. OraclePhases' BY <2>1 DEF OraclePhases
  <2>5. opc' = "cases" => count'.passed = count'.completed BY <2>1 DEF OracleAnswers, OracleTyped
  <2>6. OracleAnswers' BY <2>1, <2>5 DEF OracleAnswers
  <2>7. OracleSound' BY <2>1 DEF OracleAnswers, OracleSound
  <2>8. QED BY <2>3, <2>4, <2>6, <2>7
<1>4. CASE BudgetRunsOut
  <2>1. /\ opc = "cases" /\ UNCHANGED <<live, commits, snapshot, opc, bound, todo, count, answer, cleaned, said, edits>>
    BY <1>4 DEF BudgetRunsOut
  <2>2. OracleTyped' BY <2>1 DEF OracleTyped
  <2>3. OraclePhases' BY <2>1 DEF OraclePhases
  <2>4. OracleAnswers' /\ OracleSound' BY <2>1 DEF OracleAnswers, OracleSound
  <2>5. QED BY <2>2, <2>3, <2>4
<1>5. CASE AllAsked
  <2>1. /\ opc = "cases" /\ count.completed = Cases /\ answer' = "VERIFIED" /\ opc' = "judged"
        /\ UNCHANGED <<live, commits, snapshot, bound, todo, budgetLeft, count, cleaned, said, edits>>
    BY <1>5 DEF AllAsked
  <2>2. OracleTyped' BY <2>1 DEF OracleTyped, OraclePlaces
  <2>3. OraclePhases' BY <2>1 DEF OraclePhases
  <2>4. OracleAnswers' BY <2>1 DEF OracleAnswers
  <2>5. OracleSound' BY <2>1 DEF OracleAnswers, OracleSound
  <2>6. QED BY <2>2, <2>3, <2>4, <2>5
<1>6. QED BY <1>1, <1>2, <1>3, <1>4, <1>5

\* The snapshot goes, and the verdict is said.
LEMMA SayingKeeps ==
    ASSUME OracleInv, (\E ok \in BOOLEAN : CleanUp(ok)) \/ Emit
    PROVE  OracleInv'
<1> USE DEF OracleInv
<1>1. ASSUME NEW ok \in BOOLEAN, CleanUp(ok) PROVE OracleInv'
  <2>1. /\ opc = "cleanup" /\ opc' = "emit"
        /\ UNCHANGED <<live, commits, snapshot, todo, budgetLeft, count, said, edits>>
        /\ cleaned' \in BOOLEAN
        /\ \/ cleaned' /\ answer' = answer /\ bound' = bound
           \/ answer' = "CANNOT_VERIFY" /\ bound' = Nothing
    BY <1>1 DEF CleanUp, OracleTyped
  <2>2. OracleTyped' BY <2>1 DEF OracleTyped, OraclePlaces
  <2>3. OraclePhases' BY <2>1 DEF OraclePhases
  <2>4. OracleAnswers' BY <2>1 DEF OracleAnswers
  <2>5. OracleSound' BY <2>1 DEF OracleAnswers, OracleSound
  <2>6. QED BY <2>2, <2>3, <2>4, <2>5
<1>2. CASE Emit
  <2>1. /\ opc = "emit" /\ opc' = "done"
        /\ said' = [verdict |-> answer, binding |-> bound, passed |-> count.passed, completed |-> count.completed]
        /\ UNCHANGED <<live, commits, snapshot, bound, todo, budgetLeft, count, answer, cleaned, edits>>
    BY <1>2 DEF Emit
  <2>2. OracleTyped' BY <2>1 DEF OracleTyped, OraclePlaces
  <2>3. OraclePhases' BY <2>1 DEF OraclePhases
  <2>4. OracleAnswers' BY <2>1 DEF OracleAnswers
  <2>5. said'.verdict = answer /\ said'.binding = bound /\ said'.passed = count.passed BY <2>1
  <2>6. answer = "VERIFIED" => count.passed = Cases /\ bound # Nothing BY <2>1 DEF OracleAnswers
  <2>7. bound # Nothing => cleaned /\ snapshot = bound.tree BY <2>1 DEF OraclePhases
  <2>8. OracleSound' BY <2>1, <2>5, <2>6, <2>7 DEF OracleSound
  <2>9. QED BY <2>2, <2>3, <2>4, <2>8
<1>3. QED BY <1>1, <1>2

\* Every step of an evaluation, and of the candidate under it.
LEMMA OracleKeeps == OracleInv /\ [OracleNext]_oracleVars => OracleInv'
<1> SUFFICES ASSUME OracleInv, [OracleNext]_oracleVars PROVE OracleInv'
  OBVIOUS
<1>1. CASE UNCHANGED oracleVars
  <2>1. UNCHANGED <<live, commits, snapshot, opc, bound, todo, budgetLeft, count, answer, cleaned, said, edits>>
    BY <1>1 DEF oracleVars
  <2>2. OracleTyped' BY <2>1 DEF OracleInv, OracleTyped
  <2>3. OraclePhases' BY <2>1 DEF OracleInv, OraclePhases, Between
  <2>4. OracleAnswers' /\ OracleSound' BY <2>1 DEF OracleInv, OracleAnswers, OracleSound
  <2>5. QED BY <2>2, <2>3, <2>4 DEF OracleInv
<1>2. CASE OracleNext
  BY <1>2, CandidateKeeps, CopyKeeps, EvaluationKeeps, SayingKeeps DEF OracleNext
<1>3. QED BY <1>1, <1>2

-----------------------------------------------------------------------------
(* The sign-off: what a commit passes a human has seen.                     *)

IsFinding(f) == f = [rule |-> f.rule, severity |-> f.severity, file |-> f.file, evidence |-> f.evidence]

LEMMA FindingIsFinding ==
    /\ \A rule, policy, p, evidence : IsFinding(Finding(rule, policy, p, evidence))
    /\ \A rule : IsFinding(DetectorError(rule))
    /\ \A f : IsFinding(f) => IsFinding(PinGuarded(f))
<1>1. \A rule, policy, p, evidence : IsFinding(Finding(rule, policy, p, evidence)) BY DEF Finding, IsFinding
<1>2. \A rule : IsFinding(DetectorError(rule)) BY DEF DetectorError, IsFinding
<1>3. \A f : IsFinding(f) => IsFinding(PinGuarded(f)) BY DEF PinGuarded, IsFinding
<1>4. QED BY <1>1, <1>2, <1>3

\* Whatever a detector finds is a finding.
LEMMA RunFinds ==
    ASSUME NEW id \in Detector, NEW old, NEW new, NEW policy, NEW view, NEW f \in Run(id, old, new, policy, view)
    PROVE  IsFinding(f)
<1> DEFINE active == ActiveChanges(Changes(old, new), policy)
<1>1. ASSUME f \in TestDeletion(active, policy) PROVE IsFinding(f)
  BY <1>1, FindingIsFinding DEF TestDeletion
<1>2. ASSUME f \in CastFindings(active, policy) PROVE IsFinding(f)
  BY <1>2, FindingIsFinding DEF CastFindings
<1>3. ASSUME f \in SnapshotRewrite(active, policy) PROVE IsFinding(f)
  BY <1>3, FindingIsFinding DEF SnapshotRewrite
<1>4. ASSUME f \in SnapshotOnly(active, DocChanged(old, new), policy, view) PROVE IsFinding(f)
  BY <1>4, FindingIsFinding DEF SnapshotOnly
<1>5. ASSUME f \in HookTampering(active, old, new, policy) PROVE IsFinding(f)
  BY <1>5, FindingIsFinding DEF HookTampering
<1> HIDE DEF active
<1>6. Run(id, old, new, policy, view) \in
        {TestDeletion(active, policy), CastFindings(active, policy), SnapshotRewrite(active, policy),
         SnapshotOnly(active, DocChanged(old, new), policy, view), HookTampering(active, old, new, policy)}
  BY DEF Run, Detector, active
<1>7. QED BY <1>1, <1>2, <1>3, <1>4, <1>5, <1>6

LEMMA EvaluateFinds ==
    ASSUME NEW old, NEW new, NEW policy, NEW view, NEW throwing, NEW f \in Evaluate(old, new, policy, view, throwing)
    PROVE  IsFinding(f)
<1> DEFINE on == {id \in Detector : id = "hook-tampering" \/ policy.rules[id].enabled}
           of(id) == IF id \in throwing THEN {DetectorError(id)} ELSE Run(id, old, new, policy, view)
<1>1. PICK g \in UNION {of(id) : id \in on} : f = PinGuarded(g) BY DEF Evaluate
<1>2. PICK id \in Detector : g \in of(id) BY <1>1
<1>3. IsFinding(g) BY <1>2, FindingIsFinding, RunFinds
<1>4. QED BY <1>1, <1>3, FindingIsFinding

\* Every entry of the ledger is of a tamper that was shown, on that day.
LedgerInv ==
    /\ today \in Nat /\ head = [id |-> head.id, tree |-> head.tree] /\ head.id \in Nat
    /\ \A e \in ledger : \E s \in shown :
          /\ IsFinding(s.finding) /\ s.finding.severity = "block" /\ FingerprintOf(s.finding) = e.fingerprint
          /\ s.day = e.recordedAt /\ s.day \in Nat /\ e.expiresAt = s.day + Lifetime

LEMMA LedgerStarts == AuthorityInit => LedgerInv
BY DEF AuthorityInit, LedgerInv

\* allow writes down what stands in the checkout, and nothing else.
LEMMA AllowKeeps == LedgerInv /\ Allow => LedgerInv'
<1> SUFFICES ASSUME LedgerInv, Allow PROVE LedgerInv'
  OBVIOUS
<1> DEFINE policy == PolicyOf(work)
           findings == IF policy = Unset THEN {} ELSE Evaluate(head.tree, work, policy, "worktree", {})
           targets(rule) == {f \in findings : f.severity = "block" /\ f.rule = rule}
<1>1. PICK rule \in BlockRule :
        /\ ledger' = ledger \cup {[fingerprint |-> FingerprintOf(f), recordedAt |-> today, expiresAt |-> today + Lifetime] : f \in targets(rule)}
        /\ shown' = shown \cup {[finding |-> f, day |-> today] : f \in targets(rule)}
        /\ UNCHANGED <<prVars, work, today>>
  BY DEF Allow
<1>2. \A f \in targets(rule) : IsFinding(f) /\ f.severity = "block" BY EvaluateFinds
<1> HIDE DEF targets
<1>3. today' = today /\ head' = head BY <1>1 DEF prVars
<1>4. ASSUME NEW e \in ledger' PROVE \E s \in shown' :
          /\ IsFinding(s.finding) /\ s.finding.severity = "block" /\ FingerprintOf(s.finding) = e.fingerprint
          /\ s.day = e.recordedAt /\ s.day \in Nat /\ e.expiresAt = s.day + Lifetime
  <2>1. CASE e \in ledger BY <2>1, <1>1 DEF LedgerInv
  <2>2. CASE e \notin ledger
    <3>1. PICK f \in targets(rule) : e = [fingerprint |-> FingerprintOf(f), recordedAt |-> today, expiresAt |-> today + Lifetime]
      BY <2>2, <1>1
    <3>2. [finding |-> f, day |-> today] \in shown' BY <1>1
    <3>3. QED BY <3>1, <3>2, <1>2 DEF LedgerInv
  <2>3. QED BY <2>1, <2>2
<1>5. QED BY <1>3, <1>4 DEF LedgerInv

\* Nobody else writes the ledger; a commit moves the branch and not its number.
LEMMA LedgerKeeps == LedgerInv /\ [PrNext \/ LocalNext]_authorityVars => LedgerInv'
<1> SUFFICES ASSUME LedgerInv, [PrNext \/ LocalNext]_authorityVars PROVE LedgerInv'
  OBVIOUS
<1>1. CASE UNCHANGED <<head, ledger, today, shown>> BY <1>1 DEF LedgerInv
<1>2. ASSUME NEW tree, Push(tree) PROVE LedgerInv'
  <2>1. UNCHANGED <<ledger, today, shown>> /\ head' = [id |-> head.id + 1, tree |-> tree] BY <1>2 DEF Push, localVars
  <2>2. QED BY <2>1 DEF LedgerInv
<1>3. CASE Commit
  <2>1. UNCHANGED <<ledger, today, shown>> /\ head' = [head EXCEPT !.tree = work] BY <1>3 DEF Commit, localVars
  <2>2. QED BY <2>1 DEF LedgerInv
<1>4. CASE Tick
  <2>1. UNCHANGED <<ledger, head, shown>> /\ today' = today + 1 BY <1>4 DEF Tick, prVars
  <2>2. QED BY <2>1 DEF LedgerInv
<1>5. CASE PrNext
  <2>1. ASSUME NEW want, Label(want) PROVE UNCHANGED <<head, ledger, today, shown>> BY <2>1 DEF Label, localVars
  <2>2. ASSUME NEW throwing, Adjudicate(throwing) PROVE UNCHANGED <<head, ledger, today, shown>> BY <2>2 DEF Adjudicate, localVars
  <2>3. Merge => UNCHANGED <<head, ledger, today, shown>> BY DEF Merge, localVars
  <2>4. QED BY <1>5, <1>1, <1>2, <2>1, <2>2, <2>3 DEF PrNext
<1>6. CASE LocalNext
  <2>1. ASSUME NEW p, NEW content, Edit(p, content) PROVE UNCHANGED <<head, ledger, today, shown>> BY <2>1 DEF Edit, prVars
  <2>2. QED BY <1>6, <1>1, <1>3, <1>4, AllowKeeps, <2>1 DEF LocalNext
<1>7. CASE UNCHANGED authorityVars BY <1>7, <1>1 DEF authorityVars
<1>8. QED BY <1>5, <1>6, <1>7

\* What a commit leaves standing, a live entry covers.
LEMMA CommitIsSigned ==
    ASSUME LedgerInv, Commit,
           NEW f \in Evaluate(head.tree, work, PolicyOf(work), "staged", {}), f.severity = "block"
    PROVE  \E s \in shown : s.finding = f /\ today - s.day < Lifetime
<1> DEFINE findings == Evaluate(head.tree, work, PolicyOf(work), "staged", {})
<1>1. IsFinding(f) BY EvaluateFinds
<1> HIDE DEF findings
<1>2. PolicyOf(work) # Unset /\ Says(findings \ LocalCleared(findings)).exit = 0
  BY DEF Commit, CheckStaged, NoPolicy, findings
<1>3. ~HasBlocking(findings \ LocalCleared(findings)) BY <1>2 DEF Says
<1>4. f \in LocalCleared(findings) BY <1>3 DEF HasBlocking, findings
<1>5. PICK e \in ledger : HonoredAt(e, today) /\ e.fingerprint = FingerprintOf(f) BY <1>4 DEF LocalCleared
<1>6. PICK s \in shown :
          /\ IsFinding(s.finding) /\ s.finding.severity = "block" /\ FingerprintOf(s.finding) = e.fingerprint
          /\ s.day = e.recordedAt /\ s.day \in Nat /\ e.expiresAt = s.day + Lifetime
  BY DEF LedgerInv
<1>7. s.finding.rule = f.rule /\ s.finding.file = f.file /\ s.finding.evidence = f.evidence
  BY <1>5, <1>6 DEF FingerprintOf
<1>8. s.finding = f BY <1>1, <1>6, <1>7 DEF IsFinding
<1>9. today - s.day < Lifetime BY <1>5, <1>6, AuthorityAssumption DEF HonoredAt, LedgerInv
<1>10. QED BY <1>8, <1>9

\* Only a commit moves the branch under its number.
LEMMA SignedStep ==
    LedgerInv /\ [PrNext \/ LocalNext]_authorityVars =>
        (head'.tree # head.tree /\ head'.id = head.id =>
            \A f \in Evaluate(head.tree, work, PolicyOf(work), "staged", {}) :
                f.severity = "block" => \E s \in shown : s.finding = f /\ today - s.day < Lifetime)
<1> SUFFICES ASSUME LedgerInv, [PrNext \/ LocalNext]_authorityVars, head'.tree # head.tree, head'.id = head.id
             PROVE  Commit
  BY CommitIsSigned
<1>1. head' # head OBVIOUS
<1>2. ASSUME NEW tree PROVE ~Push(tree)
  <2>1. Push(tree) => head'.id = head.id + 1 BY DEF Push
  <2>2. QED BY <2>1 DEF LedgerInv
<1>3. ~Merge /\ ~Tick /\ ~Allow BY <1>1 DEF Merge, Tick, Allow, prVars
<1>4. /\ \A want : ~Label(want)
      /\ \A throwing : ~Adjudicate(throwing)
      /\ \A p, content : ~Edit(p, content)
  BY <1>1 DEF Label, Adjudicate, Edit, prVars
<1>5. QED BY <1>1, <1>2, <1>3, <1>4 DEF PrNext, LocalNext, authorityVars

-----------------------------------------------------------------------------
(* The organisation's floor: a policy the loader lets stand on it blocks    *)
(* whatever the floor blocks.                                               *)

SameLayout(a, b) == \A p : \A cat \in Category : IsProtected(p, a, cat) <=> IsProtected(p, b, cat)
\* One finding under two policies: they differ in the severity they give it.
Twin(f, g, a, b) == \E rule \in Rule : \E p, evidence : f = Finding(rule, a, p, evidence) /\ g = Finding(rule, b, p, evidence)
Shadows(F, G, a, b) == \A f \in F : \E g \in G : Twin(f, g, a, b)

LEMMA TwinOf ==
    ASSUME NEW rule \in Rule, NEW p, NEW evidence, NEW a, NEW b
    PROVE  Twin(Finding(rule, a, p, evidence), Finding(rule, b, p, evidence), a, b)
BY DEF Twin

LEMMA SamePaths ==
    ASSUME NEW a, NEW b, SameLayout(a, b)
    PROVE  \A p : /\ SpecPath(p, a) <=> SpecPath(p, b)
                  /\ IsTestFile(p, a) <=> IsTestFile(p, b)
                  /\ ProtectedAtAll(p, a) <=> ProtectedAtAll(p, b)
<1>1. {"tests", "snapshots"} \subseteq Category BY DEF Category
<1>2. QED BY <1>1 DEF SameLayout, SpecPath, IsTestFile, ProtectedAtAll

\* The same changes are found the same under one layout.
LEMMA DeletionShadows ==
    ASSUME NEW a, NEW b, NEW A, SameLayout(a, b)
    PROVE  Shadows(TestDeletion(A, a), TestDeletion(A, b), a, b)
<1> DEFINE taken(policy) == {c \in A : SpecPath(c.path, policy) /\ ~IsRelocation(Or(c.before, {}) \ Or(c.after, {}), A, policy)}
           fewer(c) == Cardinality(c.before \cap Test) - Cardinality(c.after \cap Test)
           left(policy) == {c \in A : c.op = "rename" /\ SpecPath(c.oldPath, policy) /\ ~SpecPath(c.path, policy)}
           deletions(policy) == {Finding("test-deletion", policy, c.path, <<"deleted">>) : c \in {x \in taken(policy) : x.op = "delete"}}
           leavings(policy) == {Finding("test-deletion", policy, c.path, <<"left", c.oldPath>>) : c \in left(policy)}
           losses(policy) == {Finding("test-deletion", policy, c.path, <<"fewer", fewer(c)>>) :
                c \in {x \in taken(policy) : x.op \in {"modify", "rename"} /\ fewer(x) > 0}}
<1>1. Pool(A, a) = Pool(A, b) BY SamePaths DEF Pool
<1>2. \A removed : IsRelocation(removed, A, a) <=> IsRelocation(removed, A, b) BY <1>1 DEF IsRelocation, PooledLines
<1>3. taken(a) = taken(b) BY <1>2, SamePaths
<1>4. left(a) = left(b) BY SamePaths
<1>5. \A policy : TestDeletion(A, policy) = deletions(policy) \cup leavings(policy) \cup losses(policy) BY DEF TestDeletion
<1>6. "test-deletion" \in Rule BY DEF Rule, BlockRule
<1> HIDE DEF taken, left, fewer
<1>7. ASSUME NEW f \in deletions(a) PROVE \E g \in deletions(b) : Twin(f, g, a, b) BY <1>3, <1>6, TwinOf
<1>8. ASSUME NEW f \in leavings(a) PROVE \E g \in leavings(b) : Twin(f, g, a, b) BY <1>4, <1>6, TwinOf
<1>9. ASSUME NEW f \in losses(a) PROVE \E g \in losses(b) : Twin(f, g, a, b) BY <1>3, <1>6, TwinOf
<1> HIDE DEF deletions, leavings, losses
<1>10. QED BY <1>5, <1>7, <1>8, <1>9 DEF Shadows

LEMMA CastShadows ==
    ASSUME NEW a, NEW b, NEW A, SameLayout(a, b)
    PROVE  Shadows(CastFindings(A, a), CastFindings(A, b), a, b)
<1> DEFINE taken == {c \in A : c.op # "delete" /\ c.path \in CodePath}
           grew(line) == {c \in taken : line \in c.after \ Or(c.before, {})}
           source(policy) == {c \in grew("cast") : ~IsTestFile(c.path, policy)}
           casts(policy) == {Finding("ts-any-cast", policy, c.path, "cast") : c \in source(policy)}
           ceded(policy) == {Finding("ts-any-launder", policy, c.path, "cast") : c \in grew("cast") \ source(policy)}
           anys(policy) == {Finding("ts-any-launder", policy, c.path, "any") : c \in grew("any")}
<1>1. source(a) = source(b) BY SamePaths
<1>2. \A policy : CastFindings(A, policy) = casts(policy) \cup ceded(policy) \cup anys(policy) BY DEF CastFindings
<1>3. "ts-any-cast" \in Rule /\ "ts-any-launder" \in Rule BY DEF Rule, BlockRule
<1> HIDE DEF grew, source
<1>4. ASSUME NEW f \in casts(a) PROVE \E g \in casts(b) : Twin(f, g, a, b) BY <1>1, <1>3, TwinOf
<1>5. ASSUME NEW f \in ceded(a) PROVE \E g \in ceded(b) : Twin(f, g, a, b) BY <1>1, <1>3, TwinOf
<1>6. ASSUME NEW f \in anys(a) PROVE \E g \in anys(b) : Twin(f, g, a, b) BY <1>3, TwinOf
<1> HIDE DEF casts, ceded, anys
<1>7. QED BY <1>2, <1>4, <1>5, <1>6 DEF Shadows

LEMMA SnapshotShadows ==
    ASSUME NEW a, NEW b, NEW A, SameLayout(a, b), NEW docChanged, NEW view
    PROVE  /\ Shadows(SnapshotRewrite(A, a), SnapshotRewrite(A, b), a, b)
           /\ Shadows(SnapshotOnly(A, docChanged, a, view), SnapshotOnly(A, docChanged, b, view), a, b)
<1>1. \A c : SnapshotChange(c, a) <=> SnapshotChange(c, b)
  <2>1. "snapshots" \in Category BY DEF Category
  <2>2. QED BY <2>1 DEF SnapshotChange, SameLayout
<1>2. "snapshot-rewrite" \in Rule /\ "snapshot-only-rewrite" \in Rule BY DEF Rule
<1>3. Shadows(SnapshotRewrite(A, a), SnapshotRewrite(A, b), a, b)
  BY <1>1, <1>2, TwinOf DEF Shadows, SnapshotRewrite
<1>4. Shadows(SnapshotOnly(A, docChanged, a, view), SnapshotOnly(A, docChanged, b, view), a, b)
  BY <1>1, <1>2, TwinOf DEF Shadows, SnapshotOnly
<1>5. QED BY <1>3, <1>4

LEMMA HookShadows ==
    ASSUME NEW a, NEW b, NEW A, SameLayout(a, b), NEW old, NEW new
    PROVE  Shadows(HookTampering(A, old, new, a), HookTampering(A, old, new, b), a, b)
<1> DEFINE touched(policy) ==
        {Finding("hook-tampering", policy, c.path, c.op) :
            c \in {x \in A : x.op # "add" /\ \E p \in {x.path, x.oldPath} \ {Unset} : IsProtected(p, policy, "hooks")}}
           weakened(policy) ==
        {Finding("hook-tampering", policy, PolicyPath, "weakened") :
            d \in {x \in {1} : DocChanged(old, new) /\ DocWeakened(old[PolicyPath], new[PolicyPath], Tracked(new))}}
<1>1. \A p : IsProtected(p, a, "hooks") <=> IsProtected(p, b, "hooks") BY DEF SameLayout, Category
<1>2. "hook-tampering" \in Rule BY DEF Rule, BlockRule
<1>3. \A policy : HookTampering(A, old, new, policy) = touched(policy) \cup weakened(policy) BY DEF HookTampering
<1>4. ASSUME NEW f \in touched(a) PROVE \E g \in touched(b) : Twin(f, g, a, b)
  <2>1. PICK c \in A : /\ c.op # "add" /\ \E p \in {c.path, c.oldPath} \ {Unset} : IsProtected(p, a, "hooks")
                       /\ f = Finding("hook-tampering", a, c.path, c.op)
    OBVIOUS
  <2>2. \E p \in {c.path, c.oldPath} \ {Unset} : IsProtected(p, b, "hooks") BY <2>1, <1>1
  <2>3. Finding("hook-tampering", b, c.path, c.op) \in touched(b) BY <2>1, <2>2
  <2> HIDE DEF touched
  <2>4. QED BY <2>1, <2>3, <1>2, TwinOf
<1>5. ASSUME NEW f \in weakened(a) PROVE \E g \in weakened(b) : Twin(f, g, a, b) BY <1>2, TwinOf
<1> HIDE DEF touched, weakened
<1>6. QED BY <1>3, <1>4, <1>5 DEF Shadows

LEMMA RunShadows ==
    ASSUME NEW a, NEW b, SameLayout(a, b), NEW id \in Detector, NEW old, NEW new, NEW view,
           ActiveChanges(Changes(old, new), a) = ActiveChanges(Changes(old, new), b)
    PROVE  Shadows(Run(id, old, new, a, view), Run(id, old, new, b, view), a, b)
<1> DEFINE A == ActiveChanges(Changes(old, new), a)
<1>1. A = ActiveChanges(Changes(old, new), b) OBVIOUS
<1> HIDE DEF A
<1>2. A = ActiveChanges(Changes(old, new), a) BY DEF A
<1>3. CASE id = "test-deletion" BY <1>1, <1>2, <1>3, DeletionShadows DEF Run
<1>4. CASE id = "ts-any-cast" BY <1>1, <1>2, <1>4, CastShadows DEF Run
<1>5. CASE id = "snapshot-rewrite" BY <1>1, <1>2, <1>5, SnapshotShadows DEF Run
<1>6. CASE id = "snapshot-only-rewrite" BY <1>1, <1>2, <1>6, SnapshotShadows DEF Run
<1>7. CASE id = "hook-tampering" BY <1>1, <1>2, <1>7, HookShadows DEF Run
<1>8. QED BY <1>3, <1>4, <1>5, <1>6, <1>7 DEF Detector

\* With nothing left to judge, and the policy untouched, nothing is found.
LEMMA NothingToJudge ==
    ASSUME NEW a, NEW id \in Detector, NEW old, NEW new, NEW view,
           ActiveChanges(Changes(old, new), a) = {}, ~DocChanged(old, new)
    PROVE  Run(id, old, new, a, view) = {}
<1>1. TestDeletion({}, a) = {} BY DEF TestDeletion
<1>2. CastFindings({}, a) = {} BY DEF CastFindings
<1>3. SnapshotRewrite({}, a) = {} BY DEF SnapshotRewrite
<1>4. SnapshotOnly({}, DocChanged(old, new), a, view) = {} BY DEF SnapshotOnly
<1>5. HookTampering({}, old, new, a) = {} BY DEF HookTampering
<1>6. QED BY <1>1, <1>2, <1>3, <1>4, <1>5 DEF Run, Detector

\* The least steps make one change at most, and none to the policy.
OneStep(old, new) == \E p \in Tracked(old) : IsTree(new) /\ \A q \in Path \ {p} : new[q] = old[q]

LEMMA StepsAreSteps ==
    ASSUME NEW tree, IsTree(tree), NEW new \in Steps(tree)
    PROVE  OneStep(tree, new)
BY DEF Steps, OneStep, IsTree, Tracked, Files

LEMMA OneChange ==
    ASSUME NEW old, NEW new, OneStep(old, new)
    PROVE  /\ ~DocChanged(old, new)
           /\ \A c, d \in Changes(old, new) : c = d
<1>1. PICK p \in Tracked(old) : \A q \in Path \ {p} : new[q] = old[q] BY DEF OneStep
<1>2. p \in Path /\ p # PolicyPath /\ PolicyPath \in Path BY EngineAssumption DEF Tracked, Files
<1>3. ~DocChanged(old, new) BY <1>1, <1>2 DEF DocChanged
<1>4. Come(old, new) = {} BY <1>1 DEF Come, Tracked, Files
<1>5. Gone(old, new) \subseteq {p} BY <1>1 DEF Gone, Tracked, Files
<1>6. {q \in Tracked(old) \cap Tracked(new) : old[q] # new[q]} \subseteq {p} \ Gone(old, new)
  BY <1>1 DEF Gone, Tracked, Files
<1>7. Pairs(old, new) = {} BY <1>4 DEF Pairs
<1>8. Renamed(old, new) = {}
  <2> DEFINE fits(chosen) == /\ \A a, b \in chosen : a # b => a[1] # b[1] /\ a[2] # b[2]
                             /\ \A pr \in Pairs(old, new) : \E c \in chosen : c[1] = pr[1] \/ c[2] = pr[2]
  <2>1. {} \in SUBSET Pairs(old, new) /\ fits({}) BY <1>7
  <2>2. Renamed(old, new) = CHOOSE chosen \in SUBSET Pairs(old, new) : fits(chosen) BY DEF Renamed
  <2> HIDE DEF fits
  <2>3. Renamed(old, new) \in SUBSET Pairs(old, new) BY <2>1, <2>2
  <2>4. QED BY <2>3, <1>7
<1>9. Changes(old, new) =
        {Change("delete", q, Unset, old[q], Unset) : q \in Gone(old, new)}
        \cup {Change("modify", q, Unset, old[q], new[q]) : q \in {r \in Tracked(old) \cap Tracked(new) : old[r] # new[r]}}
  BY <1>4, <1>8 DEF Changes
<1>10. \A c, d \in Changes(old, new) : c = d BY <1>5, <1>6, <1>9
<1>11. QED BY <1>3, <1>10

\* What the loader keeps of a policy laid over another.
AtLeast(strong, weak) ==
    /\ SameLayout(strong, weak)
    /\ weak.ignore \subseteq strong.ignore
    /\ \A rule \in Rule :
          /\ strong.rules[rule].enabled => weak.rules[rule].enabled
          /\ strong.rules[rule].enabled /\ strong.rules[rule].severity = "block" => weak.rules[rule].severity = "block"
          /\ weak.rules[rule].exclude \subseteq strong.rules[rule].exclude

LEMMA LoadedIsAtLeast ==
    ASSUME NEW written, NEW base, base # Unset, Load(written, base) # Unset
    PROVE  AtLeast(base, Load(written, base))
<1>1. CASE written.form = "absent"
  <2>1. Load(written, base) = base BY <1>1 DEF Load
  <2>2. QED BY <2>1 DEF AtLeast, SameLayout
<1>2. CASE written.form # "absent"
  <2> DEFINE policy == ParsePolicy(written, base)
             declared == Written(written).protected
  <2>1. Load(written, base) = policy /\ ~FloorRefuses(policy, base, declared) BY <1>2 DEF Load
  <2>2. policy.protected = MergeProtected(base.protected, declared) BY DEF ParsePolicy
  <2> HIDE DEF policy, declared
  <2>3. \A cat \in Category : declared[cat] = Unset \/ declared[cat] = base.protected[cat] BY <2>1 DEF FloorRefuses
  <2>4. ASSUME NEW p, NEW cat \in Category PROVE IsProtected(p, base, cat) <=> IsProtected(p, policy, cat)
    <3>1. policy.protected[cat] = base.protected[cat] \cup Or(declared[cat], {}) BY <2>2 DEF MergeProtected
    <3>2. \A glob : glob \in policy.protected[cat] <=> glob \in base.protected[cat] BY <2>3, <3>1 DEF Or
    <3>3. QED BY <3>2 DEF IsProtected, MatchesAny
  <2>5. policy.ignore \subseteq base.ignore BY <2>1 DEF FloorRefuses
  <2>6. ASSUME NEW rule \in Rule
        PROVE  /\ base.rules[rule].enabled => policy.rules[rule].enabled
               /\ base.rules[rule].enabled /\ base.rules[rule].severity = "block" => policy.rules[rule].severity = "block"
               /\ policy.rules[rule].exclude \subseteq base.rules[rule].exclude
    BY <2>1 DEF FloorRefuses
  <2>7. QED BY <2>1, <2>4, <2>5, <2>6 DEF AtLeast, SameLayout
<1>3. QED BY <1>1, <1>2

\* What the stronger one suppresses less of, it does not find more in.
LEMMA ActiveUnder ==
    ASSUME NEW strong, NEW weak, AtLeast(strong, weak), NEW changes, \A c, d \in changes : c = d
    PROVE  \/ ActiveChanges(changes, strong) = {}
           \/ ActiveChanges(changes, strong) = ActiveChanges(changes, weak)
<1>1. \A p : IsIgnored(p, weak) => IsIgnored(p, strong) BY DEF AtLeast, IsIgnored, MatchesAny
<1>2. \A p : ProtectedAtAll(p, strong) <=> ProtectedAtAll(p, weak) BY SamePaths DEF AtLeast
<1>3. \A c : IsSuppressed(c, weak) => IsSuppressed(c, strong) BY <1>1, <1>2 DEF IsSuppressed
<1>4. QED BY <1>3 DEF ActiveChanges

\* Between two policies, one at least as strong, a step blocks no less.
LEMMA NoLessBlocked ==
    ASSUME NEW strong, NEW weak, AtLeast(strong, weak), NEW old, NEW new, OneStep(old, new)
    PROVE  BlockedBy(strong, old, new) \subseteq BlockedBy(weak, old, new)
<1> DEFINE on(policy) == {id \in Detector : id = "hook-tampering" \/ policy.rules[id].enabled}
           found(policy) == UNION {Run(id, old, new, policy, "range") : id \in on(policy)}
           kept(policy) == {f \in {PinGuarded(g) : g \in found(policy)} : Kept(f, policy)}
<1>1. \A policy : Evaluate(old, new, policy, "range", {}) = kept(policy) BY DEF Evaluate
<1>2. Detector \subseteq Rule BY DEF Detector, Rule, BlockRule
<1>3. on(strong) \subseteq on(weak) BY <1>2 DEF AtLeast
<1>4. ASSUME NEW g \in found(strong) PROVE \E h \in found(weak) : Twin(g, h, strong, weak)
  <2>1. PICK id \in on(strong) : g \in Run(id, old, new, strong, "range") OBVIOUS
  <2>2. id \in Detector /\ id \in on(weak) BY <1>3, <2>1
  <2> HIDE DEF on
  <2>3. ActiveChanges(Changes(old, new), strong) # {} BY <2>1, <2>2, NothingToJudge, OneChange
  <2>4. ActiveChanges(Changes(old, new), strong) = ActiveChanges(Changes(old, new), weak) BY <2>3, ActiveUnder, OneChange
  <2>5. Shadows(Run(id, old, new, strong, "range"), Run(id, old, new, weak, "range"), strong, weak)
    BY <2>2, <2>4, RunShadows DEF AtLeast
  <2>6. PICK h \in Run(id, old, new, weak, "range") : Twin(g, h, strong, weak) BY <2>1, <2>5 DEF Shadows
  <2>7. QED BY <2>2, <2>6
<1> HIDE DEF on, found
<1>5. ASSUME NEW f \in kept(strong), f.severity = "block"
      PROVE  \E h \in kept(weak) : h.severity = "block" /\ h.rule = f.rule
  <2>1. PICK g \in found(strong) : f = PinGuarded(g) /\ Kept(f, strong) OBVIOUS
  <2>2. PICK h \in found(weak) : Twin(g, h, strong, weak) BY <1>4
  <2>3. PICK rule \in Rule : \E p, evidence : g = Finding(rule, strong, p, evidence) /\ h = Finding(rule, weak, p, evidence)
    BY <2>2 DEF Twin
  <2>4. /\ g.rule = rule /\ h.rule = rule /\ g.file = h.file
        /\ g.severity = strong.rules[rule].severity /\ h.severity = weak.rules[rule].severity
        /\ "severity" \in DOMAIN h /\ "rule" \in DOMAIN h /\ h = [rule |-> h.rule, severity |-> h.severity, file |-> h.file, evidence |-> h.evidence]
        /\ g = [rule |-> g.rule, severity |-> g.severity, file |-> g.file, evidence |-> g.evidence]
    BY <2>3 DEF Finding
  <2>5. Guarded(g) <=> Guarded(h) BY <2>4 DEF Guarded
  <2>6. rule # "detector-error" BY DEF Rule, BlockRule
  <2>7. CASE Guarded(h)
    <3>1. PinGuarded(h) = [h EXCEPT !.severity = "block"] BY <2>7 DEF PinGuarded
    <3>2. PinGuarded(h).severity = "block" /\ PinGuarded(h).rule = rule /\ PinGuarded(h).file = h.file BY <3>1, <2>4
    <3>3. Kept(PinGuarded(h), weak) BY <3>2, <2>4, <2>7 DEF Kept, Guarded
    <3>4. f.rule = rule BY <2>1, <2>4 DEF PinGuarded
    <3>5. QED BY <3>2, <3>3, <3>4
  <2>8. CASE ~Guarded(h)
    <3>1. f = g /\ PinGuarded(h) = h BY <2>1, <2>5, <2>8 DEF PinGuarded
    <3>2. strong.rules[rule].enabled /\ ~MatchesAny(f.file, strong.rules[rule].exclude)
      BY <2>1, <2>4, <2>5, <2>6, <2>8, <3>1 DEF Kept
    <3>3. weak.rules[rule].enabled /\ weak.rules[rule].severity = "block" BY <2>4, <3>1, <3>2, <1>5 DEF AtLeast
    <3>4. ~MatchesAny(h.file, weak.rules[rule].exclude) BY <2>4, <3>1, <3>2 DEF AtLeast, MatchesAny
    <3>5. Kept(h, weak) BY <2>4, <3>3, <3>4 DEF Kept
    <3>6. QED BY <2>4, <3>1, <3>3, <3>5
  <2>9. QED BY <2>7, <2>8
<1> HIDE DEF kept
<1>6. QED BY <1>1, <1>5 DEF BlockedBy

LEMMA FloorDominates ==
    ASSUME NEW written, NEW base, base # Unset, Load(written, base) # Unset, NEW tree, IsTree(tree)
    PROVE  ~Weaker(base, Load(written, base), tree)
<1> DEFINE policy == Load(written, base)
<1>1. AtLeast(base, policy) BY LoadedIsAtLeast
<1> HIDE DEF policy
<1>2. \A new \in Steps(tree) : BlockedBy(base, tree, new) \subseteq BlockedBy(policy, tree, new)
  BY <1>1, StepsAreSteps, NoLessBlocked
<1>3. ~Weaker(base, policy, tree)
  <2> DEFINE blocked == [at \in {base, policy} \X Steps(tree) |-> BlockedBy(at[1], tree, at[2])]
  <2>1. \A new \in Steps(tree) : /\ blocked[<<base, new>>] = BlockedBy(base, tree, new)
                                 /\ blocked[<<policy, new>>] = BlockedBy(policy, tree, new)
    OBVIOUS
  <2>2. Weaker(base, policy, tree) => \E new \in Steps(tree) : blocked[<<base, new>>] \ blocked[<<policy, new>>] # {}
    BY DEF Weaker
  <2> HIDE DEF blocked
  <2>3. QED BY <1>2, <2>1, <2>2
<1>4. QED BY <1>3 DEF policy

\* Every tree is a tree.
TreesInv == IsTree(fork) /\ IsTree(head.tree) /\ IsTree(work)

LEMMA TreesStart == AuthorityInit => TreesInv
BY AuthorityAssumption DEF AuthorityInit, TreesInv

LEMMA EditsAreTrees ==
    ASSUME NEW tree, IsTree(tree)
    PROVE  /\ \A p, content : IsTree([tree EXCEPT ![p] = content])
           /\ \A t \in Branches(tree) : IsTree(t)
<1>1. ASSUME NEW t, IsTree(t) PROVE \A p, content : IsTree([t EXCEPT ![p] = content]) BY <1>1 DEF IsTree
<1>2. ASSUME NEW t, IsTree(t) PROVE \A u \in Edited(t) : IsTree(u) BY <1>2, <1>1 DEF Edited
<1>3. \A u \in Redrawn(tree) : IsTree(u) BY <1>1 DEF Redrawn
<1>4. \A u \in Branches(tree) : IsTree(u) BY <1>2, <1>3 DEF Branches
<1>5. QED BY <1>1, <1>4

LEMMA TreesKeep == TreesInv /\ LedgerInv /\ [PrNext \/ LocalNext]_authorityVars => TreesInv'
<1> SUFFICES ASSUME TreesInv, LedgerInv, [PrNext \/ LocalNext]_authorityVars PROVE TreesInv'
  OBVIOUS
<1>1. CASE UNCHANGED <<fork, head, work>> BY <1>1 DEF TreesInv
<1>2. ASSUME NEW tree, IsTree(tree), Push(tree) PROVE TreesInv' BY <1>2 DEF Push, localVars, TreesInv
<1>3. CASE Merge BY <1>3 DEF Merge, localVars, TreesInv
<1>4. CASE Commit
  <2>1. UNCHANGED <<fork, work>> /\ head' = [head EXCEPT !.tree = work] BY <1>4 DEF Commit, localVars
  <2>2. head'.tree = work BY <2>1 DEF LedgerInv
  <2>3. QED BY <2>1, <2>2 DEF TreesInv
<1>5. ASSUME NEW p, NEW content, Edit(p, content) PROVE TreesInv'
  <2>1. UNCHANGED <<fork, head>> /\ work' = [work EXCEPT ![p] = content] BY <1>5 DEF Edit, prVars
  <2>2. QED BY <2>1, EditsAreTrees DEF TreesInv
<1>6. CASE PrNext
  <2>1. \A tree \in Branches(fork) \cup Edited(fork) \cup Redrawn(fork) : IsTree(tree)
    <3>1. \A t \in Edited(fork) : t \in Branches(fork)  BY DEF Branches, Redrawn
    <3>2. \A t \in Redrawn(fork) : IsTree(t) BY EditsAreTrees DEF Redrawn, TreesInv
    <3>3. QED BY <3>1, <3>2, EditsAreTrees DEF TreesInv
  <2>2. ASSUME NEW want, Label(want) PROVE UNCHANGED <<fork, head, work>> BY <2>2 DEF Label, localVars
  <2>3. ASSUME NEW throwing, Adjudicate(throwing) PROVE UNCHANGED <<fork, head, work>> BY <2>3 DEF Adjudicate, localVars
  <2>4. QED BY <1>6, <1>1, <1>2, <1>3, <2>1, <2>2, <2>3 DEF PrNext
<1>7. CASE LocalNext
  <2>1. Tick \/ Allow => UNCHANGED <<fork, head, work>> BY DEF Tick, Allow, prVars
  <2>2. QED BY <1>7, <1>1, <1>4, <1>5, <2>1 DEF LocalNext
<1>8. CASE UNCHANGED authorityVars BY <1>8, <1>1 DEF authorityVars
<1>9. QED BY <1>6, <1>7, <1>8

\* Main moves to the branch alone.
LEMMA FloorStep ==
    TreesInv /\ [PrNext \/ LocalNext]_authorityVars =>
        (floor # Unset /\ fork' # fork =>
            LET policy == PolicyOf(fork') IN policy = Unset \/ ~Weaker(floor, policy, fork'))
<1> SUFFICES ASSUME TreesInv, [PrNext \/ LocalNext]_authorityVars, floor # Unset, fork' # fork,
                    NEW policy, policy = Load(fork'[PolicyPath], floor), policy # Unset
             PROVE  ~Weaker(floor, policy, fork')
  BY DEF PolicyOf
<1>1. \A tree : ~Push(tree) BY DEF Push
<1>2. ~Tick /\ ~Allow /\ ~Commit BY DEF Commit, Tick, Allow, prVars
<1>3. /\ \A want : ~Label(want)
      /\ \A throwing : ~Adjudicate(throwing)
      /\ \A p, content : ~Edit(p, content)
  BY DEF Label, Adjudicate, Edit, prVars
<1>4. Merge BY <1>1, <1>2, <1>3 DEF PrNext, LocalNext, authorityVars
<1>5. IsTree(fork') BY <1>4 DEF Merge, TreesInv
<1>6. QED BY <1>5, FloorDominates

-----------------------------------------------------------------------------
(* What is told of a runtime.                                               *)

\* A set of positions has a first one.
LEMMA FirstOf ==
    ASSUME NEW n \in Nat, NEW S \in SUBSET (1 .. n), S # {}
    PROVE  Min(S) \in S
<1> DEFINE Below(i) == {j \in S : j < i}
           F == {Below(i) : i \in S}
<1>0. IsFiniteSet(1 .. n) BY FS_Interval
<1>1. IsFiniteSet(S) BY <1>0, FS_Subset
<1>a. S \subseteq Int OBVIOUS
<1>b. F # {} OBVIOUS
<1>2. S \subseteq Int /\ F # {} BY <1>a, <1>b
<1>3. F \subseteq FiniteSubsetsOf(S) BY <1>1, FS_FiniteSubsetsOfFinite
<1>4. PICK X \in F : \A Y \in F : ~(<<Y, X>> \in StrictSubsetOrdering(S))
  BY <1>2, <1>3, FS_StrictSubsetOrderingWellFounded, <1>1, WFMin
<1>5. PICK m \in S : X = Below(m) OBVIOUS
<1>6. ASSUME NEW k \in S, k < m PROVE FALSE
  <2>1. k \in Below(m) /\ k \notin Below(k) BY <1>2, <1>6
  <2>2. \A j \in S : j < k => j < m BY <1>2, <1>6
  <2>3. Below(k) \subseteq Below(m) /\ Below(k) # Below(m) BY <2>1, <2>2
  <2>4. Below(k) \in F /\ Below(k) \in SUBSET S /\ Below(m) \in SUBSET S OBVIOUS
  <2>5. <<Below(k), Below(m)>> \in StrictSubsetOrdering(S) BY <2>3, <2>4 DEF StrictSubsetOrdering
  <2>6. QED BY <1>4, <1>5, <2>4, <2>5
<1>7. \A k \in S : m <= k BY <1>2, <1>6
<1>8. \E x \in S : \A y \in S : x <= y BY <1>7
<1>9. QED BY <1>8 DEF Min

\* A record that is matched stands in the catalogue and is of that binding.
LEMMA MatchedIsRetained ==
    ASSUME NEW k, k \in Seq(ToSet(k)), NEW b
    PROVE  \/ MatchRetainedEvidence(k, b) = NoRecord
           \/ \E i \in DOMAIN k : MatchRetainedEvidence(k, b) = k[i] /\ EvidenceBindingMatches(k[i], b)
<1> DEFINE I == {i \in 1 .. Len(k) : EvidenceBindingMatches(k[i], b)}
           at == IF I # {} THEN Min(I) ELSE 0
<1>1. SelectInSeq(k, LAMBDA r : EvidenceBindingMatches(r, b)) = at BY DEF SelectInSeq
<1>2. Len(k) \in Nat /\ DOMAIN k = 1 .. Len(k) OBVIOUS
<1>3. I # {} => at \in I BY <1>2, FirstOf
<1>4. MatchRetainedEvidence(k, b) = IF at = 0 THEN NoRecord ELSE k[at] BY <1>1 DEF MatchRetainedEvidence
<1>5. CASE I = {} BY <1>4, <1>5
<1>6. CASE I # {}
  <2>1. at \in 1 .. Len(k) /\ EvidenceBindingMatches(k[at], b) BY <1>3, <1>6
  <2> HIDE DEF at
  <2>2. at # 0 BY <1>2, <2>1
  <2>3. QED BY <1>2, <1>4, <2>1, <2>2
<1>7. QED BY <1>5, <1>6

\* A declaration alone earns no PROVEN.
LEMMA DeclaredIsNotProven == \A d : \A c \in Capability : Declared(d)[c] # "PROVEN"
<1> SUFFICES ASSUME NEW d, NEW c \in Capability PROVE Declared(d)[c] # "PROVEN"
  OBVIOUS
<1>1. CASE c \in PreDeny BY <1>1 DEF Declared, PreDeny, Capability
<1>2. CASE c \notin PreDeny
  <2>1. c \in {"end-of-turn", "transport", "hook-not-invoked", "post-observe", "denial-reason-delivery", "continue-after-denial", "detached"}
    BY <1>2 DEF Capability, RequiredInLoop
  <2>2. CASE c = "end-of-turn" BY <2>2 DEF Declared, PreDeny, Capability, RequiredInLoop
  <2>3. CASE c = "transport" BY <2>3 DEF Declared, PreDeny, Capability, RequiredInLoop
  <2>4. CASE c = "hook-not-invoked" BY <2>4 DEF Declared, PreDeny, Capability, RequiredInLoop
  <2>5. CASE c = "post-observe" BY <2>5 DEF Declared, PreDeny, Capability, RequiredInLoop
  <2>6. CASE c = "denial-reason-delivery" BY <2>6 DEF Declared, PreDeny, Capability, RequiredInLoop
  <2>7. CASE c = "continue-after-denial" BY <2>7 DEF Declared, PreDeny, Capability, RequiredInLoop
  <2>8. CASE c = "detached" BY <2>8 DEF Declared, PreDeny, Capability, RequiredInLoop
  <2>9. QED BY <2>1, <2>2, <2>3, <2>4, <2>5, <2>6, <2>7, <2>8
<1>3. QED BY <1>1, <1>2

Observes(r, c) == c \in DOMAIN r.observed /\ r.observed[c] = "proven"

LEMMA ProvenIsObserved ==
    ASSUME NEW d, NEW retained, NEW c \in Capability, AssessCapabilities(d, retained)[c] = "PROVEN"
    PROVE  retained # NoRecord /\ Observes(retained, c)
<1>1. retained # NoRecord /\ c \in Observable \cap DOMAIN retained.observed
  BY DeclaredIsNotProven DEF AssessCapabilities
<1>2. AssessFromEvidence(retained.observed[c]) = "PROVEN" BY <1>1 DEF AssessCapabilities
<1>3. QED BY <1>1, <1>2 DEF AssessFromEvidence, Observes

CatalogueHeld == inputs.catalogue \in ToSet(Catalogue)

\* All that a qualification calls PROVEN one record of its binding observed.
LEMMA QualifiedIsObserved ==
    ASSUME CatalogueHeld, NEW r, NEW asked, NEW q, q = BuildQualification(r, asked)
    PROVE  \/ \A c \in Capability : q.states[c] # "PROVEN"
           \/ \E i \in DOMAIN inputs.catalogue :
                 /\ EvidenceBindingMatches(inputs.catalogue[i], q.bearing)
                 /\ \A c \in Capability : q.states[c] = "PROVEN" => Observes(inputs.catalogue[i], c)
<1> DEFINE retained == MatchRetainedEvidence(inputs.catalogue, q.bearing)
<1>1. q.states = AssessCapabilities(inputs.adapter[r], retained) BY DEF BuildQualification
<1> HIDE DEF retained
<1>2. \A c \in Capability : q.states[c] = "PROVEN" => retained # NoRecord /\ Observes(retained, c)
  BY <1>1, ProvenIsObserved
<1>3. inputs.catalogue \in Seq(ToSet(inputs.catalogue)) BY QualificationAssumption DEF CatalogueHeld
<1>4. \/ retained = NoRecord
      \/ \E i \in DOMAIN inputs.catalogue :
            retained = inputs.catalogue[i] /\ EvidenceBindingMatches(inputs.catalogue[i], q.bearing)
  BY <1>3, MatchedIsRetained DEF retained
<1>5. QED BY <1>2, <1>4

RetainedFor(b, c) == \E k \in ToSet(Catalogue) : \E i \in DOMAIN k : EvidenceBindingMatches(k[i], b) /\ Observes(k[i], c)
Backed(r) == \A c \in Capability : r.states[c] = "PROVEN" => RetainedFor(r.bearing, c)
\* What a running command holds: what it qualified a record backs, what it read is a
\* stored record that passed the reading.
Running(at, r, asked, held, records) == [at |-> at, target |-> r, asked |-> asked, report |-> held, records |-> records]
Shaped(x) == x = Running(x.at, x.target, x.asked, x.report, x.records)
Fits(x) ==
    /\ Shaped(x)
    /\ x.at \in {"qualified", "read", "kept"} => Backed(x.report)
    /\ x.at = "stored" => ValidStored(x.report)
InputsHeld ==
    /\ inputs = [version |-> inputs.version, build |-> inputs.build, present |-> inputs.present, catalogue |-> inputs.catalogue,
                 adapter |-> inputs.adapter, config |-> inputs.config]
    /\ CatalogueHeld
QualificationInv ==
    /\ InputsHeld
    /\ proc = [p \in Process |-> proc[p]]
    /\ \A p \in Process : Fits(proc[p])
    /\ ProvenIsRetained

LEMMA UnrecordedIsNot == \A reason : ~Unrecorded(reason).recorded
BY DEF Unrecorded

LEMMA ObservedIsRetained ==
    ASSUME CatalogueHeld, NEW r, NEW asked
    PROVE  Backed(BuildQualification(r, asked))
<1> DEFINE q == BuildQualification(r, asked)
<1> HIDE DEF q
<1>1. \/ \A c \in Capability : q.states[c] # "PROVEN"
      \/ \E i \in DOMAIN inputs.catalogue :
            /\ EvidenceBindingMatches(inputs.catalogue[i], q.bearing)
            /\ \A c \in Capability : q.states[c] = "PROVEN" => Observes(inputs.catalogue[i], c)
  BY QualifiedIsObserved DEF q
<1>2. Backed(q) BY <1>1 DEF Backed, RetainedFor, CatalogueHeld
<1>3. QED BY <1>2 DEF q

LEMMA EndedFits == Fits(Idle) /\ Fits(Ended)
BY DEF Fits, Shaped, Running, Idle, Ended

LEMMA FilledIn ==
    /\ \A a, t, k, h, c, next : [Running(a, t, k, h, c) EXCEPT !.at = next] = Running(next, t, k, h, c)
    /\ \A a, t, k, h, c, held : [Running(a, t, k, h, c) EXCEPT !.report = held] = Running(a, t, k, held, c)
    /\ \A a, t, k, h, c, held : [Running(a, t, k, h, c) EXCEPT !.records = held] = Running(a, t, k, h, held)
<1>1. \A a, t, k, h, c, next : [Running(a, t, k, h, c) EXCEPT !.at = next] = Running(next, t, k, h, c) BY DEF Running
<1>2. \A a, t, k, h, c, held : [Running(a, t, k, h, c) EXCEPT !.report = held] = Running(a, t, k, held, c) BY DEF Running
<1>3. \A a, t, k, h, c, held : [Running(a, t, k, h, c) EXCEPT !.records = held] = Running(a, t, k, h, held) BY DEF Running
<1>4. QED BY <1>1, <1>2, <1>3

\* A command moves on with a report, or with the records it read.
LEMMA Moved ==
    ASSUME NEW x, Shaped(x), NEW next, NEW held
    PROVE  /\ [x EXCEPT !.at = next] = Running(next, x.target, x.asked, x.report, x.records)
           /\ [x EXCEPT !.at = next, !.report = held] = Running(next, x.target, x.asked, held, x.records)
<1> DEFINE z == [x EXCEPT !.at = next]
<1>1. [x EXCEPT !.at = next, !.report = held] = [z EXCEPT !.report = held] OBVIOUS
<1>3. x = Running(x.at, x.target, x.asked, x.report, x.records) BY DEF Shaped
<1>4. z = Running(next, x.target, x.asked, x.report, x.records) BY <1>3, FilledIn
<1> HIDE DEF z
<1>5. [z EXCEPT !.report = held] = Running(next, x.target, x.asked, held, x.records) BY <1>4, FilledIn
<1>6. QED BY <1>1, <1>4, <1>5 DEF z
LEMMA MovedReading ==
    ASSUME NEW x, Shaped(x), NEW next, NEW held
    PROVE  [x EXCEPT !.at = next, !.records = held] = Running(next, x.target, x.asked, x.report, held)
<1> DEFINE z == [x EXCEPT !.at = next]
<1>1. [x EXCEPT !.at = next, !.records = held] = [z EXCEPT !.records = held] OBVIOUS
<1>2. z = Running(next, x.target, x.asked, x.report, x.records) BY Moved
<1> HIDE DEF z
<1>3. [z EXCEPT !.records = held] = Running(next, x.target, x.asked, x.report, held) BY <1>2, FilledIn
<1>4. QED BY <1>1, <1>3

LEMMA QualificationStarts == QualificationInit => QualificationInv
<1> SUFFICES ASSUME QualificationInit PROVE QualificationInv
  OBVIOUS
<1>1. inputs.catalogue = Catalogue[1] /\ Catalogue[1] \in ToSet(Catalogue) BY QualificationAssumption DEF QualificationInit, ToSet
<1>2. InputsHeld BY <1>1 DEF QualificationInit, InputsHeld, CatalogueHeld
<1>3. proc = [p \in Process |-> Idle] BY DEF QualificationInit
<1>4. ProvenIsRetained BY UnrecordedIsNot DEF QualificationInit, ProvenIsRetained
<1>5. QED BY <1>2, <1>3, <1>4, EndedFits DEF QualificationInv

\* One command moves, to something that fits.
LEMMA OneMoves ==
    ASSUME proc = [p \in Process |-> proc[p]], \A p \in Process : Fits(proc[p]),
           NEW p \in Process, NEW y, Fits(y), proc' = [proc EXCEPT ![p] = y]
    PROVE  proc' = [q \in Process |-> proc'[q]] /\ (\A q \in Process : Fits(proc'[q])) /\ proc'[p] = y
<1>1. proc' = [q \in Process |-> IF q = p THEN y ELSE proc[q]] OBVIOUS
<1>2. \A q \in Process : proc'[q] = IF q = p THEN y ELSE proc[q] BY <1>1
<1>3. proc' = [q \in Process |-> proc'[q]] BY <1>1
<1>4. \A q \in Process : Fits(proc'[q]) BY <1>2
<1>5. QED BY <1>2, <1>3, <1>4

\* A command that moves and tells nothing keeps it.
LEMMA MovingKeeps ==
    ASSUME QualificationInv, NEW p \in Process, NEW y, Fits(y), proc' = [proc EXCEPT ![p] = y],
           UNCHANGED <<inputs, document>>
    PROVE  QualificationInv'
<1>1. proc' = [q \in Process |-> proc'[q]] /\ \A q \in Process : Fits(proc'[q]) BY OneMoves DEF QualificationInv
<1>2. InputsHeld' BY DEF QualificationInv, InputsHeld, CatalogueHeld
<1>3. ProvenIsRetained' BY DEF QualificationInv, ProvenIsRetained
<1>4. QED BY <1>1, <1>2, <1>3 DEF QualificationInv

\* What is told of the present is backed, or nothing recorded is told.
LEMMA TellingKeeps ==
    ASSUME QualificationInv, NEW p \in Process, NEW told, Told(p, told), UNCHANGED inputs,
           told.recorded /\ ~told.stale => Backed(told)
    PROVE  QualificationInv'
<1>1. document' = told /\ proc' = [proc EXCEPT ![p] = Ended] BY DEF Told
<1>2. proc' = [q \in Process |-> proc'[q]] /\ \A q \in Process : Fits(proc'[q])
  BY <1>1, OneMoves, EndedFits DEF QualificationInv
<1>3. ProvenIsRetained' BY <1>1 DEF ProvenIsRetained, Backed, RetainedFor, Observes
<1>4. InputsHeld' BY DEF QualificationInv, InputsHeld, CatalogueHeld
<1>5. QED BY <1>2, <1>3, <1>4 DEF QualificationInv

LEMMA RefusingKeeps ==
    ASSUME QualificationInv, NEW p \in Process, NEW reason, Told(p, Unrecorded(reason)), UNCHANGED inputs
    PROVE  QualificationInv'
BY TellingKeeps, UnrecordedIsNot

\* What a verify qualifies a record backs.
LEMMA QualifyKeeps == ASSUME QualificationInv, NEW p \in Process, Qualify(p) PROVE QualificationInv'
<1> DEFINE b == BuildQualification(proc[p].target, proc[p].asked)
           x == proc[p]
           y == [x EXCEPT !.at = "qualified", !.report = ReportFrom(b)]
<1>1. Backed(b) BY ObservedIsRetained DEF QualificationInv, InputsHeld
<1>2. Shaped(x) BY DEF QualificationInv, Fits
<1>3. proc' = [proc EXCEPT ![p] = y] /\ UNCHANGED <<inputs, document>> BY DEF Qualify
<1> HIDE DEF b, x
<1>4. ReportFrom(b).states = b.states /\ ReportFrom(b).bearing = b.bearing BY DEF ReportFrom
<1>5. Backed(ReportFrom(b)) BY <1>1, <1>4 DEF Backed
<1>6. y = Running("qualified", x.target, x.asked, ReportFrom(b), x.records) BY <1>2, Moved
<1>7. Fits(y) BY <1>5, <1>6 DEF Fits, Shaped, Running
<1>8. QED BY <1>3, <1>7, MovingKeeps

LEMMA ReadStoreKeeps == ASSUME QualificationInv, NEW p \in Process, ReadStore(p) PROVE QualificationInv'
<1>1. CASE store.kind = "irregular" BY <1>1, RefusingKeeps DEF ReadStore
<1>2. CASE store.kind # "irregular"
  <2> DEFINE x == proc[p]
             y == [x EXCEPT !.at = "read", !.records = store.of]
  <2>1. Shaped(x) /\ Backed(x.report) BY DEF QualificationInv, Fits, ReadStore
  <2>2. proc' = [proc EXCEPT ![p] = y] /\ UNCHANGED <<inputs, document>> BY <1>2 DEF ReadStore
  <2> HIDE DEF x
  <2> DEFINE of == store.of
  <2>a. Shaped(x) BY <2>1
  <2>b. y = [x EXCEPT !.at = "read", !.records = of] OBVIOUS
  <2> HIDE DEF of, y
  <2>c. \A held : [x EXCEPT !.at = "read", !.records = held] = Running("read", x.target, x.asked, x.report, held) BY <2>a, MovedReading
  <2>3. y = Running("read", x.target, x.asked, x.report, of) BY <2>b, <2>c
  <2>4. Fits(y) BY <2>1, <2>3 DEF Fits, Shaped, Running
  <2>5. proc' = [proc EXCEPT ![p] = y] BY <2>2 DEF y, of, x
  <2>6. QED BY <2>2, <2>4, <2>5, MovingKeeps
<1>3. QED BY <1>1, <1>2

LEMMA WriteRecordKeeps == ASSUME QualificationInv, NEW p \in Process, WriteRecord(p) PROVE QualificationInv'
<1>1. CASE Told(p, Unrecorded("unwritable")) BY <1>1, RefusingKeeps DEF WriteRecord
<1>2. CASE proc' = [proc EXCEPT ![p].at = "kept"] /\ UNCHANGED document
  <2> DEFINE x == proc[p]
             y == [x EXCEPT !.at = "kept"]
  <2>1. Shaped(x) /\ Backed(x.report) BY DEF QualificationInv, Fits, WriteRecord
  <2>2. proc' = [proc EXCEPT ![p] = y] /\ UNCHANGED <<inputs, document>> BY <1>2 DEF WriteRecord
  <2> HIDE DEF x
  <2>3. y = Running("kept", x.target, x.asked, x.report, x.records) BY <2>1, Moved
  <2>4. Fits(y) BY <2>1, <2>3 DEF Fits, Shaped, Running
  <2>5. QED BY <2>2, <2>4, MovingKeeps
<1>3. QED BY <1>1, <1>2 DEF WriteRecord

LEMMA TellVerifiedKeeps == ASSUME QualificationInv, NEW p \in Process, TellVerified(p) PROVE QualificationInv'
<1> DEFINE held == proc[p].report
           told == Telling(held, FALSE)
<1>1. Backed(held) BY DEF QualificationInv, Fits, TellVerified
<1>2. Told(p, told) /\ UNCHANGED inputs BY DEF TellVerified
<1> HIDE DEF held
<1>3. told.states = held.states /\ told.bearing = held.bearing BY DEF Telling
<1>4. Backed(told) BY <1>1, <1>3 DEF Backed
<1>5. QED BY <1>2, <1>4, TellingKeeps

LEMMA ReadRecordKeeps == ASSUME QualificationInv, NEW p \in Process, ReadRecord(p) PROVE QualificationInv'
<1> DEFINE x == proc[p]
           y == [x EXCEPT !.at = "stored", !.report = store.of[x.target]]
<1>1. CASE \E reason \in {"irregular", "none", "invalid"} : Told(p, Unrecorded(reason))
  BY <1>1, RefusingKeeps DEF ReadRecord
<1>2. CASE ValidStored(store.of[x.target]) /\ proc' = [proc EXCEPT ![p] = y] /\ UNCHANGED document
  <2>1. Shaped(x) BY DEF QualificationInv, Fits
  <2>2. UNCHANGED inputs BY DEF ReadRecord
  <2> HIDE DEF x
  <2>3. y = Running("stored", x.target, x.asked, store.of[x.target], x.records) BY <2>1, Moved
  <2>4. Fits(y) BY <1>2, <2>3 DEF Fits, Shaped, Running
  <2>5. proc' = [proc EXCEPT ![p] = y] BY <1>2 DEF x
  <2>6. QED BY <1>2, <2>2, <2>4, <2>5, MovingKeeps
<1>3. QED BY <1>1, <1>2 DEF ReadRecord

\* What status tells of the present is what the inputs give now.
LEMMA StoredIsNow ==
    ASSUME QualificationInv, NEW p \in Process, TellStored(p), document'.recorded, ~document'.stale
    PROVE  LET now == BuildQualification(proc[p].target, proc[p].asked)
           IN  /\ document'.bearing = now.bearing /\ document'.states = now.states
               /\ document'.aggregate = AggregateInLoop(now.states)
<1> DEFINE now == BuildQualification(proc[p].target, proc[p].asked)
           kept == proc[p].report
           stale == kept.bearing # now.bearing
           told == Telling(kept, stale)
<1>1. ValidStored(kept) BY DEF QualificationInv, Fits, TellStored
<1>2. \/ document' = Unrecorded("posture")
      \/ document' = told /\ ~(~stale /\ (kept.id # EvidenceId(now.bearing, now.states) \/ kept.states # now.states))
  BY DEF TellStored, Told
<1> HIDE DEF now, kept
<1>3. document' = told /\ ~(~stale /\ (kept.id # EvidenceId(now.bearing, now.states) \/ kept.states # now.states))
  BY <1>2, UnrecordedIsNot
<1>4. told.bearing = kept.bearing /\ told.states = kept.states /\ told.aggregate = kept.aggregate /\ told.stale = stale
  BY DEF Telling
<1>5. ~stale BY <1>3, <1>4
<1>6. kept.bearing = now.bearing /\ kept.states = now.states BY <1>3, <1>5
<1>7. kept.aggregate = AggregateInLoop(now.states) BY <1>1, <1>6 DEF ValidStored
<1>8. QED BY <1>3, <1>4, <1>6, <1>7 DEF now

LEMMA TellStoredKeeps == ASSUME QualificationInv, NEW p \in Process, TellStored(p) PROVE QualificationInv'
<1>1. PICK told : Told(p, told) BY DEF TellStored
<1>2. UNCHANGED inputs /\ document' = told BY <1>1 DEF TellStored, Told
<1>3. ASSUME told.recorded, ~told.stale PROVE Backed(told)
  <2> DEFINE now == BuildQualification(proc[p].target, proc[p].asked)
  <2>1. Backed(now) BY ObservedIsRetained DEF QualificationInv, InputsHeld
  <2>2. told.bearing = now.bearing /\ told.states = now.states BY <1>2, <1>3, StoredIsNow
  <2>3. QED BY <2>1, <2>2 DEF Backed
<1>4. QED BY <1>1, <1>2, <1>3, TellingKeeps

LEMMA ShiftKeeps == ASSUME QualificationInv, Shift PROVE QualificationInv'
<1>1. UNCHANGED <<proc, document>> BY DEF Shift
<1>2. InputsHeld'
  <2>1. InputsHeld BY DEF QualificationInv
  <2>2. CASE \E v : inputs' = [inputs EXCEPT !.version = v] BY <2>1, <2>2 DEF InputsHeld, CatalogueHeld
  <2>3. CASE \E v : inputs' = [inputs EXCEPT !.build = v] BY <2>1, <2>3 DEF InputsHeld, CatalogueHeld
  <2>4. CASE \E f : inputs' = [inputs EXCEPT !.config = f] BY <2>1, <2>4 DEF InputsHeld, CatalogueHeld
  <2>5. CASE \E f : inputs' = [inputs EXCEPT !.adapter = f] BY <2>1, <2>5 DEF InputsHeld, CatalogueHeld
  <2>6. CASE \E c \in ToSet(Catalogue) : inputs' = [inputs EXCEPT !.catalogue = c] BY <2>1, <2>6 DEF InputsHeld, CatalogueHeld
  <2>7. QED BY <2>2, <2>3, <2>4, <2>5, <2>6 DEF Shift
<1>3. proc' = [p \in Process |-> proc'[p]] /\ \A p \in Process : Fits(proc'[p]) BY <1>1 DEF QualificationInv
<1>4. ProvenIsRetained' BY <1>1 DEF QualificationInv, ProvenIsRetained
<1>5. QED BY <1>2, <1>3, <1>4 DEF QualificationInv

LEMMA StartKeeps == ASSUME QualificationInv, NEW p \in Process, Start(p) PROVE QualificationInv'
<1>1. UNCHANGED <<inputs, document>> BY DEF Start
<1>2. CASE proc' = [proc EXCEPT ![p] = Ended] BY <1>1, <1>2, MovingKeeps, EndedFits
<1>3. ASSUME NEW command \in {"verify", "status"}, NEW r, NEW asked,
             proc' = [proc EXCEPT ![p] = [Idle EXCEPT !.at = command, !.target = r, !.asked = asked]]
      PROVE  QualificationInv'
  <2> DEFINE w == [Idle EXCEPT !.at = command, !.target = r]
             y == [Idle EXCEPT !.at = command, !.target = r, !.asked = asked]
  <2>1. w = [[Idle EXCEPT !.at = command] EXCEPT !.target = r] OBVIOUS
  <2>2. [Idle EXCEPT !.at = command] = Running(command, NoRecord, NoRecord, NoRecord, NoRecords) BY FilledIn DEF Idle, Running
  <2>3. y = [w EXCEPT !.asked = asked] OBVIOUS
  <2> DEFINE v == [Idle EXCEPT !.at = command]
  <2>4. w = [v EXCEPT !.target = r] BY <2>1
  <2>5. v = Running(command, NoRecord, NoRecord, NoRecord, NoRecords) BY <2>2
  <2> HIDE DEF v, w
  <2>6. w = Running(command, r, NoRecord, NoRecord, NoRecords) BY <2>4, <2>5 DEF Running
  <2>7. y = Running(command, r, asked, NoRecord, NoRecords) BY <2>3, <2>6 DEF Running
  <2>8. Fits(y) BY <2>7 DEF Fits, Shaped, Running
  <2>9. QED BY <1>1, <1>3, <2>8, MovingKeeps
<1>4. QED BY <1>2, <1>3 DEF Start

LEMMA QualificationKeeps == QualificationInv /\ [QualificationNext]_qualificationVars => QualificationInv'
<1> SUFFICES ASSUME QualificationInv, [QualificationNext]_qualificationVars PROVE QualificationInv'
  OBVIOUS
<1>1. CASE UNCHANGED qualificationVars
  <2>1. UNCHANGED <<inputs, proc, document>> BY <1>1 DEF qualificationVars
  <2>2. InputsHeld' BY <2>1 DEF QualificationInv, InputsHeld, CatalogueHeld
  <2>3. ProvenIsRetained' BY <2>1 DEF QualificationInv, ProvenIsRetained
  <2>4. QED BY <2>1, <2>2, <2>3 DEF QualificationInv
<1>2. CASE Shift BY <1>2, ShiftKeeps
<1>3. CASE Forge
  <2>1. UNCHANGED <<inputs, proc, document>> BY <1>3 DEF Forge
  <2>2. InputsHeld' BY <2>1 DEF QualificationInv, InputsHeld, CatalogueHeld
  <2>3. ProvenIsRetained' BY <2>1 DEF QualificationInv, ProvenIsRetained
  <2>4. QED BY <2>1, <2>2, <2>3 DEF QualificationInv
<1>4. ASSUME NEW p \in Process,
             Start(p) \/ Qualify(p) \/ ReadStore(p) \/ WriteRecord(p) \/ TellVerified(p) \/ Killed(p) \/ ReadRecord(p) \/ TellStored(p)
      PROVE  QualificationInv'
  <2>1. CASE Killed(p) BY <2>1, MovingKeeps, EndedFits DEF Killed
  <2>2. QED BY <1>4, <2>1, StartKeeps, QualifyKeeps, ReadStoreKeeps, WriteRecordKeeps, TellVerifiedKeeps,
               ReadRecordKeeps, TellStoredKeeps
<1>5. QED BY <1>1, <1>2, <1>3, <1>4 DEF QualificationNext

LEMMA FullIsRequired == \A states : AggregateInLoop(states) = "FULL" => \A c \in RequiredInLoop : states[c] = "PROVEN"
BY DEF AggregateInLoop

\* Only status takes a command from the stored record to its end.
LEMMA ToldStep ==
    ASSUME QualificationInv, NEW p \in Process, [QualificationNext]_qualificationVars,
           proc[p].at = "stored", proc'[p].at = "ended"
    PROVE  TellStored(p)
<1>1. ~UNCHANGED proc OBVIOUS
<1>2. ~Shift /\ ~Forge /\ ~UNCHANGED qualificationVars BY <1>1 DEF Shift, Forge, qualificationVars
<1>3. PICK q \in Process : \/ Start(q) \/ Qualify(q) \/ ReadStore(q) \/ WriteRecord(q) \/ TellVerified(q)
                           \/ Killed(q) \/ ReadRecord(q) \/ TellStored(q)
  BY <1>2 DEF QualificationNext
<1>4. \E y : proc' = [proc EXCEPT ![q] = y]
  <2>1. \A told : Told(q, told) => \E y : proc' = [proc EXCEPT ![q] = y] BY DEF Told
  <2>2. CASE Start(q) BY <2>2 DEF Start
  <2>3. CASE Qualify(q) BY <2>3 DEF Qualify
  <2>4. CASE ReadStore(q) BY <2>1, <2>4 DEF ReadStore
  <2>5. CASE WriteRecord(q) BY <2>1, <2>5 DEF WriteRecord
  <2>6. CASE TellVerified(q) BY <2>1, <2>6 DEF TellVerified
  <2>7. CASE Killed(q) BY <2>7 DEF Killed
  <2>8. CASE ReadRecord(q) BY <2>1, <2>8 DEF ReadRecord
  <2>9. CASE TellStored(q) BY <2>1, <2>9 DEF TellStored
  <2>10. QED BY <1>3, <2>2, <2>3, <2>4, <2>5, <2>6, <2>7, <2>8, <2>9
<1>5. q = p
  <2>1. PICK y : proc' = [proc EXCEPT ![q] = y] BY <1>4
  <2>2. proc = [r \in Process |-> proc[r]] BY DEF QualificationInv
  <2>3. q # p => proc'[p] = proc[p] BY <2>1, <2>2
  <2>4. QED BY <2>3
<1>6. QED BY <1>3, <1>5 DEF Start, Qualify, ReadStore, WriteRecord, TellVerified, Killed, ReadRecord

LEMMA CurrentStep == QualificationInv /\ [QualificationNext]_qualificationVars => ToldIsCurrent
<1> SUFFICES ASSUME QualificationInv, [QualificationNext]_qualificationVars, NEW p \in Process,
                    proc[p].at = "stored", proc'[p].at = "ended", document'.recorded, ~document'.stale
             PROVE  /\ [bearing |-> document'.bearing, states |-> document'.states] = BuildQualification(proc[p].target, proc[p].asked)
                    /\ document'.aggregate = "FULL" =>
                          \E i \in DOMAIN inputs.catalogue :
                              /\ EvidenceBindingMatches(inputs.catalogue[i], document'.bearing)
                              /\ \A c \in RequiredInLoop : inputs.catalogue[i].observed[c] = "proven"
  BY DEF ToldIsCurrent
<1> DEFINE now == BuildQualification(proc[p].target, proc[p].asked)
<1>1. TellStored(p) BY ToldStep
<1>2. document'.bearing = now.bearing /\ document'.states = now.states /\ document'.aggregate = AggregateInLoop(now.states)
  BY <1>1, StoredIsNow
<1>3. now = [bearing |-> now.bearing, states |-> now.states] BY DEF BuildQualification
<1>4. CatalogueHeld BY DEF QualificationInv, InputsHeld
<1>5. \/ \A c \in Capability : now.states[c] # "PROVEN"
      \/ \E i \in DOMAIN inputs.catalogue :
            /\ EvidenceBindingMatches(inputs.catalogue[i], now.bearing)
            /\ \A c \in Capability : now.states[c] = "PROVEN" => Observes(inputs.catalogue[i], c)
  BY <1>4, QualifiedIsObserved
<1> HIDE DEF now
<1>6. [bearing |-> document'.bearing, states |-> document'.states] = now BY <1>2, <1>3
<1>7. ASSUME document'.aggregate = "FULL"
      PROVE  \E i \in DOMAIN inputs.catalogue :
                 /\ EvidenceBindingMatches(inputs.catalogue[i], document'.bearing)
                 /\ \A c \in RequiredInLoop : inputs.catalogue[i].observed[c] = "proven"
  <2>1. \A c \in RequiredInLoop : now.states[c] = "PROVEN" BY <1>2, <1>7, FullIsRequired
  <2>2. RequiredInLoop \subseteq Capability BY DEF Capability
  <2>3. "transport" \in RequiredInLoop BY DEF RequiredInLoop
  <2>4. PICK i \in DOMAIN inputs.catalogue :
            /\ EvidenceBindingMatches(inputs.catalogue[i], now.bearing)
            /\ \A c \in Capability : now.states[c] = "PROVEN" => Observes(inputs.catalogue[i], c)
    BY <1>5, <2>1, <2>2, <2>3
  <2>5. \A c \in RequiredInLoop : inputs.catalogue[i].observed[c] = "proven" BY <2>1, <2>2, <2>4 DEF Observes
  <2>6. QED BY <1>2, <2>4, <2>5
<1>8. QED BY <1>6, <1>7 DEF now

-----------------------------------------------------------------------------
(* The whole.                                                               *)

\* Beside its own side nothing moves a pull request or a checkout, a receipt, an oracle run,
\* or a qualification.
AllInv == LedgerInv /\ TreesInv /\ ReceiptInv /\ OracleInv /\ QualificationInv

LEMMA AllStarts == Init => AllInv
BY LedgerStarts, TreesStart, ReceiptStarts, OracleStarts, QualificationStarts DEF Init, AllInv

LEMMA Sides ==
    [Next]_all => /\ [PrNext \/ LocalNext]_authorityVars /\ [ReceiptNext]_receiptVars
                  /\ [OracleNext]_oracleVars /\ [QualificationNext]_qualificationVars
<1> SUFFICES ASSUME [Next]_all
             PROVE  /\ [PrNext \/ LocalNext]_authorityVars /\ [ReceiptNext]_receiptVars
                    /\ [OracleNext]_oracleVars /\ [QualificationNext]_qualificationVars
  OBVIOUS
<1>1. [PrNext \/ LocalNext]_authorityVars BY DEF Next, all
<1>2. [ReceiptNext]_receiptVars BY DEF Next, all
<1>3. [OracleNext]_oracleVars BY DEF Next, all
<1>4. [QualificationNext]_qualificationVars BY DEF Next, all
<1>5. QED BY <1>1, <1>2, <1>3, <1>4

LEMMA AllKeeps == AllInv /\ [Next]_all => AllInv'
<1> SUFFICES ASSUME AllInv, [Next]_all PROVE AllInv'
  OBVIOUS
<1>1. LedgerInv' BY Sides, LedgerKeeps DEF AllInv
<1>2. TreesInv' BY Sides, TreesKeep DEF AllInv
<1>3. ReceiptInv' BY Sides, ReceiptKeeps DEF AllInv
<1>4. OracleInv' BY Sides, OracleKeeps DEF AllInv
<1>5. QualificationInv' BY Sides, QualificationKeeps DEF AllInv
<1>6. QED BY <1>1, <1>2, <1>3, <1>4, <1>5 DEF AllInv

LEMMA AllSafe == Spec => []AllInv
BY AllStarts, AllKeeps, PTL DEF Spec

\* What a receipt, the document CI reconciles, or the oracle claims of a candidate is what was
\* found of it, at the revisions it names. (reconcile, evaluateOracle)
THEOREM ClaimsAreSound == Spec => []ClaimsSound
<1>1. AllInv => ClaimsSound BY DEF AllInv, ReceiptInv, OracleInv, ClaimsSound
<1>2. QED BY <1>1, AllSafe, PTL

\* Whatever a deployment gate admits, CI adjudicated: that verdict of that tree, head and base,
\* a masked failure only where a human approved it for that head; and it was signed within
\* the window. (signAdmissionVerdict, admitVerdict)
THEOREM AdmissionIsSound == Spec => []AdmissionSound
<1>1. AllInv => AdmissionSound BY DEF AllInv, ReceiptInv
<1>2. QED BY <1>1, AllSafe, PTL

\* A block that a commit passes was signed off by a human as that rule, file and evidence,
\* within a sign-off's lifetime. (runAllow, findSignoff, runCheck)
THEOREM SignedIsShown == Spec => SignedForThis
<1>1. AllInv /\ [Next]_all =>
        [head'.tree # head.tree /\ head'.id = head.id =>
            \A f \in Evaluate(head.tree, work, PolicyOf(work), "staged", {}) :
                f.severity = "block" => \E s \in shown : s.finding = f /\ today - s.day < Lifetime]_authorityVars
  BY Sides, SignedStep DEF AllInv
<1>2. QED BY <1>1, AllSafe, PTL DEF Spec, SignedForThis

\* Under the organisation's floor nothing comes to main judged by a policy that blocks less
\* than the floor does. (enforceFloor, loadPolicyAt)
THEOREM FloorIsHeld == Spec => FloorHolds
<1>1. AllInv /\ [Next]_all =>
        [floor # Unset /\ fork' # fork =>
            LET policy == PolicyOf(fork') IN policy = Unset \/ ~Weaker(floor, policy, fork')]_authorityVars
  BY Sides, FloorStep DEF AllInv
<1>2. QED BY <1>1, AllSafe, PTL DEF Spec, FloorHolds

\* What status tells of a runtime as recorded and not stale is what the inputs give at that
\* moment, whatever was put into the store; FULL has one retained record of that binding that
\* proved every required part, and nothing told of the present is PROVEN in more than a
\* retained record observed. (storedQualification, assessCapabilities)
THEOREM QualificationIsSound == Spec => QualificationSound
<1>1. AllInv /\ [Next]_all => [ToldIsCurrent]_qualificationVars BY Sides, CurrentStep DEF AllInv
<1>2. AllInv' => ProvenIsRetained' BY DEF AllInv, QualificationInv
<1>3. AllInv /\ AllInv' /\ [Next]_all => [ToldIsCurrent /\ ProvenIsRetained']_qualificationVars BY <1>1, <1>2
<1>4. QED BY <1>3, AllSafe, PTL DEF Spec, QualificationSound
=============================================================================
