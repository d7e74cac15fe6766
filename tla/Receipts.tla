----------------------------- MODULE Receipts -----------------------------
(* What a local verification may claim elsewhere: the exported receipt,    *)
(* its reconciliation with CI's own verdict, and the signed statement that *)
(* admits a head (verification-receipt.ts, cli/receipt.ts,                 *)
(* admission-evidence.ts, verdict-attestation.ts).  A tree is its sources  *)
(* and the version of main it carries.                                     *)
EXTENDS Naturals, FiniteSets

CONSTANTS
    Source,     \* what the candidate's own files may hold
    NoClaim,    \* nothing, where something could be
    Window,     \* the longest a statement lives (24 hours)
    MaxMain,    \* bound: versions of main
    MaxJudged,  \* bound: adjudications remembered at each end
    MaxTime     \* bound: the clock

(* A tree stands for itself; the lack of one is none.                       *)
ASSUME ReceiptAssumption ==
    /\ NoClaim \notin [src : Source, level : Nat]
    /\ Window \in Nat /\ MaxMain \in Nat /\ MaxTime \in Nat

VARIABLES
    main,      \* the version main stands at
    local,     \* the developer's checkout: its tree, its commit, its merge-base
    record,    \* the record under .git/tamperward, or NoClaim
    exporting, \* an export has seen CURRENT and not read the record yet
    claim,     \* the receipt as it reaches CI
    job,       \* the pull request CI has checked out, or NoClaim
    doc,       \* the verify document of this job
    approved,  \* heads a reviewer's verify label names
    report,    \* the last reconciliation
    signed,    \* the signed statement, or NoClaim
    clock,
    judged,    \* history: what was adjudicated, where
    admitted   \* history: statements a consumer let in, and when

localSide == <<main, local, record, exporting>>
ciSide == <<job, doc, approved>>
receiptVars == <<main, local, record, exporting, claim, job, doc, approved, report, signed, clock, judged, admitted>>

Verdict == {"VERIFIED", "MASKED_FAILURE", "SUITE_RED", "CANNOT_VERIFY"}
Bigger(a, b) == IF a > b THEN a ELSE b

(* The identity a verification binds; policy, verifier and surface are those *)
(* of the base.                                                              *)
Binding(tree, head, base, env) == [tree |-> tree, head |-> head, base |-> base, env |-> env]
LocalBinding == Binding(local.tree, local.head, local.on, "laptop")
CandidateMatches(a, b) == a.tree = b.tree /\ a.head = b.head /\ a.base = b.base
EnvironmentDiverges(a, b) == a.env # b.env

ReceiptInit ==
    /\ main = 0
    /\ \E s \in Source : LET tree == [src |-> s, level |-> 0] IN local = [tree |-> tree, head |-> tree, on |-> 0]
    /\ record = NoClaim /\ exporting = FALSE /\ claim = [kind |-> "absent"]
    /\ job = NoClaim /\ doc = NoClaim /\ approved = {} /\ report = NoClaim
    /\ signed = NoClaim /\ clock = 0 /\ judged = {} /\ admitted = {}

-----------------------------------------------------------------------------
(* The developer's machine.                                                 *)
EditSources(s) ==
    /\ s # local.tree.src
    /\ local' = [local EXCEPT !.tree.src = s]
    /\ UNCHANGED <<main, record, exporting, claim, ciSide, report, signed, clock, judged, admitted>>
CommitLocal ==
    /\ local.head # local.tree /\ local' = [local EXCEPT !.head = local.tree]
    /\ UNCHANGED <<main, record, exporting, claim, ciSide, report, signed, clock, judged, admitted>>
(* The branch takes main in: merged, or its changes picked one by one.      *)
TakeMain(picked) ==
    /\ local.tree.level < main
    /\ LET tree == [local.tree EXCEPT !.level = main] IN
       local' = [tree |-> tree, head |-> tree, on |-> IF picked THEN local.on ELSE main]
    /\ UNCHANGED <<main, record, exporting, claim, ciSide, report, signed, clock, judged, admitted>>
MainMoves ==
    /\ main < MaxMain /\ main' = main + 1
    /\ UNCHANGED <<local, record, exporting, claim, ciSide, report, signed, clock, judged, admitted>>
(* verify: only a VERIFIED run leaves a record.                             *)
VerifyLocal(verdict) ==
    /\ record' = IF verdict = "VERIFIED" THEN LocalBinding ELSE NoClaim
    /\ judged' = IF verdict # "VERIFIED" THEN judged
                 ELSE judged \cup {[at |-> "local", tree |-> local.tree, head |-> local.head, base |-> local.on, verdict |-> verdict]}
    /\ UNCHANGED <<main, local, exporting, claim, ciSide, report, signed, clock, admitted>>
(* export asks for the state, then reads the record.                        *)
ExportAsks ==
    /\ ~exporting /\ record = LocalBinding /\ exporting' = TRUE
    /\ UNCHANGED <<main, local, record, claim, ciSide, report, signed, clock, judged, admitted>>
ExportReads ==
    /\ exporting /\ exporting' = FALSE
    /\ claim' = IF record = NoClaim THEN claim ELSE [kind |-> "receipt", binding |-> record, digest |-> record]
    /\ UNCHANGED <<main, local, record, ciSide, report, signed, clock, judged, admitted>>

(* On its way a receipt is edited, or rewritten for another version.        *)
Transported(c) ==
    {[kind |-> "schema"]}
    \cup {[c EXCEPT !.binding.tree.src = s] : s \in {x \in Source : c.kind = "receipt" /\ c.digest = c.binding}}
Transport(c) ==
    /\ claim.kind = "receipt" /\ c # claim /\ claim' = c
    /\ UNCHANGED <<localSide, ciSide, report, signed, clock, judged, admitted>>
Disposition(c) ==
    CASE c.kind = "absent" -> "ABSENT" [] c.kind = "schema" -> "UNKNOWN_SCHEMA"
      [] c.kind = "receipt" /\ c.digest = c.binding -> "PRESENT"
      [] OTHER -> "MALFORMED"

-----------------------------------------------------------------------------
(* CI: the branch's tip is checked out beside the merge with main.  Bound:  *)
(* a second job only for a branch that carries an approval.                 *)
OpenJob ==
    /\ job = NoClaim \/ (approved # {} /\ job.tip # local.head)
    /\ job' = [tip |-> local.head, on |-> local.on, main |-> main] /\ job' # job
    /\ doc' = NoClaim
    /\ UNCHANGED <<localSide, claim, approved, report, signed, clock, judged, admitted>>
MergeTree == [src |-> job.tip.src, level |-> Bigger(job.tip.level, job.main)]
CiBinding == Binding(job.tip, job.tip, job.on, "runner")
LabelVerify ==
    /\ job # NoClaim /\ approved = {} /\ approved' = approved \cup {job.tip}
    /\ UNCHANGED <<localSide, claim, job, doc, report, signed, clock, judged, admitted>>
(* verify over the merge result, at main or at the merge-base; an older     *)
(* build does not name the tree.                                            *)
VerifyMerge(verdict, names) ==
    /\ job # NoClaim /\ doc = NoClaim
    /\ LET oob == verdict = "MASKED_FAILURE" /\ job.tip \in approved IN
       doc' = [verdict |-> verdict, base |-> job.main, head |-> job.tip, ran |-> MergeTree,
               tree |-> IF names THEN MergeTree ELSE NoClaim, oob |-> oob]
    /\ judged' = judged \cup {[at |-> "ci", tree |-> MergeTree, head |-> job.tip, base |-> job.main, verdict |-> verdict]}
    /\ UNCHANGED <<localSide, claim, job, approved, report, signed, clock, admitted>>

VerdictExit(verdict, signedOff) ==
    CASE verdict = "VERIFIED" -> 0
      [] verdict = "MASKED_FAILURE" -> IF signedOff THEN 0 ELSE 1
      [] verdict = "SUITE_RED" -> 1
      [] OTHER -> 2
(* Only a verify document against a base CI knows is CI's adjudication.     *)
ReadCiVerify(d, binding) ==
    IF d.verdict \in Verdict /\ d.base \in {binding.base, job.main} THEN d.verdict ELSE "CANNOT_VERIFY"

(* Mutant: the receipt's identity is CI's, so CI ran its tree.              *)
ReconcileByIdentity(ci, binding, ran, c) ==
    LET agreement == IF Disposition(c) # "PRESENT" \/ ~CandidateMatches(c.binding, binding) THEN "NON_APPLICABLE"
                     ELSE IF ci = "VERIFIED" THEN "AGREE" ELSE "DIVERGENCE"
    IN [result |-> ci, agreement |-> agreement, applicable |-> agreement \in {"AGREE", "DIVERGENCE"},
        binding |-> binding, environment |-> FALSE]
Reconcile(ci, binding, ran, c) ==
    LET disposition == Disposition(c)
        outcome(agreement) == [result |-> ci, agreement |-> agreement, applicable |-> agreement \in {"AGREE", "DIVERGENCE"},
                               binding |-> binding, environment |-> disposition = "PRESENT" /\ EnvironmentDiverges(c.binding, binding)]
    IN CASE disposition = "ABSENT" -> outcome("NO_CLAIM")
         [] disposition \in {"MALFORMED", "UNKNOWN_SCHEMA"} -> outcome("NON_APPLICABLE")
         [] OTHER -> IF CandidateMatches(c.binding, binding) /\ ran = c.binding.tree
                     THEN outcome(IF ci = "VERIFIED" THEN "AGREE" ELSE "DIVERGENCE")
                     ELSE outcome("NON_APPLICABLE")
(* reconcile --ci-result: the exit is settled before the receipt is read.   *)
ReconcileDocument ==
    /\ doc # NoClaim
    /\ LET ci == ReadCiVerify(doc, CiBinding) IN
       report' = [outcome |-> Reconcile(ci, CiBinding, IF ci = doc.verdict THEN doc.tree ELSE NoClaim, claim),
                  exit |-> VerdictExit(ci, ci = "MASKED_FAILURE" /\ job.tip \in approved),
                  main |-> job.main, head |-> job.tip]
    /\ UNCHANGED <<localSide, claim, ciSide, signed, clock, judged, admitted>>
(* reconcile alone: it verifies the checkout it stands in.                  *)
ReconcileSelf(verdict) ==
    /\ job # NoClaim /\ doc = NoClaim
    /\ report' = [outcome |-> Reconcile(verdict, CiBinding, job.tip, claim),
                  exit |-> VerdictExit(verdict, job.tip \in approved), main |-> job.on, head |-> job.tip]
    /\ judged' = judged \cup {[at |-> "ci", tree |-> job.tip, head |-> job.tip, base |-> job.on, verdict |-> verdict]}
    /\ UNCHANGED <<localSide, claim, ciSide, signed, clock, admitted>>

-----------------------------------------------------------------------------
(* A trusted signer's statement, and the consumer that admits by it.        *)
Payloads ==
    {[head |-> h, base |-> b, tree |-> t, verdict |-> v, exception |-> e] :
        h \in {j.head : j \in judged}, b \in 0..main, t \in {j.tree : j \in judged},
        v \in {"VERIFIED", "MASKED_FAILURE"}, e \in {h2 : h2 \in approved} \cup {NoClaim}}
WellFormed(p) == IF p.verdict = "VERIFIED" THEN p.exception = NoClaim ELSE p.exception = p.head
(* Mutant: the evidence is of the same base and tree, whatever the head.    *)
ProducerStagesOfTree(d, p) == d.verdict = p.verdict /\ d.base = p.base /\ d.tree = p.tree
ProducerStages(d, p) ==
    /\ d.verdict = p.verdict /\ d.base = p.base /\ d.tree = p.tree /\ d.head = p.head
    /\ IF p.exception = NoClaim THEN ~d.oob ELSE d.oob
ValidTime(issued, expires, now) == issued <= now /\ expires > now /\ expires > issued /\ expires - issued <= Window
Sign(p, issued, expires) ==
    /\ doc # NoClaim /\ WellFormed(p) /\ ValidTime(issued, expires, clock) /\ ProducerStages(doc, p)
    /\ signed = NoClaim /\ signed' = [payload |-> p, issued |-> issued, expires |-> expires, at |-> clock]
    /\ UNCHANGED <<localSide, claim, ciSide, report, clock, judged, admitted>>
Admit(expected) ==
    /\ signed # NoClaim /\ WellFormed(expected)
    /\ ValidTime(signed.issued, signed.expires, clock) /\ signed.payload = expected
    /\ admitted = {} /\ admitted' = {[payload |-> expected, at |-> clock]}
    /\ UNCHANGED <<localSide, claim, ciSide, report, signed, clock, judged>>
Later ==
    /\ clock < MaxTime /\ signed # NoClaim /\ clock' = clock + 1
    /\ UNCHANGED <<localSide, claim, ciSide, report, signed, judged, admitted>>

(* Nothing reads a report, nor a statement but its consumer: a behaviour    *)
(* ends with one.  Bounds: adjudications at each end; a receipt is made     *)
(* once, before CI opens its job, and edited once; the branch moves on only *)
(* towards a second job; an older build is met where it says VERIFIED, and  *)
(* CANNOT_VERIFY where a document is not of this base.                      *)
Adjudged == {"VERIFIED", "MASKED_FAILURE", "SUITE_RED"}
Working ==
    \/ /\ doc = NoClaim /\ (job = NoClaim \/ (approved # {} /\ local.head = job.tip))
       /\ \/ \E s \in Source : EditSources(s)
          \/ CommitLocal \/ MainMoves
    \/ /\ job = NoClaim
       /\ \/ \E picked \in BOOLEAN : TakeMain(picked)
          \/ \E v \in {"VERIFIED", "SUITE_RED"} : VerifyLocal(v)
          \/ claim.kind = "absent" /\ ExportAsks
          \/ ExportReads
          \/ \E c \in Transported(claim) : Transport(c)
    \/ OpenJob
    \/ LabelVerify \/ ReconcileDocument
    \/ \E v \in Adjudged : VerifyMerge(v, TRUE) \/ VerifyMerge(v, v # "VERIFIED")
    \/ \E v \in Adjudged : ReconcileSelf(v)
    \/ \E p \in Payloads, i \in 0..MaxTime, e \in 1..MaxTime : Sign(p, i, e)
Bounded == \A end \in {"local", "ci"} : Cardinality({j \in judged' : j.at = end}) <= MaxJudged
ReceiptNext ==
    \/ report = NoClaim /\ signed = NoClaim /\ Working /\ Bounded
    \/ Later
    \/ \E p \in Payloads : Admit(p)

-----------------------------------------------------------------------------
Judged(where, tree, head, base, verdict) ==
    [at |-> where, tree |-> tree, head |-> head, base |-> base, verdict |-> verdict] \in judged

(* An agreement is of one tree, verified at both ends, each by its own suite *)
(* run; a divergence is of one tree that CI did not verify; and a receipt,  *)
(* whatever it says, moves no exit: 0 is CI's own verdict on this head, or  *)
(* its masked failure approved for this head.                               *)
AgreementHonest ==
    report # NoClaim =>
        LET r == report.outcome
            b == r.binding
        IN /\ r.applicable => Judged("local", b.tree, b.head, b.base, "VERIFIED")
           /\ r.applicable => Judged("ci", b.tree, b.head, report.main, r.result)
           /\ r.agreement = "AGREE" => r.result = "VERIFIED"
           /\ report.exit = 0 =>
                \E j \in judged : /\ j.at = "ci" /\ j.head = report.head /\ j.base = report.main /\ j.verdict = r.result
                                  /\ j.verdict = "VERIFIED" \/ (j.verdict = "MASKED_FAILURE" /\ j.head \in approved)

(* Whatever is admitted, CI adjudicated: that head, on that base and tree,  *)
(* verified or masked and approved for that head; and it was signed less    *)
(* than a day before.                                                       *)
AdmissionSound ==
    \A a \in admitted :
        /\ Judged("ci", a.payload.tree, a.payload.head, a.payload.base, a.payload.verdict)
        /\ a.payload.verdict = "MASKED_FAILURE" => a.payload.head \in approved
        /\ a.at - signed.at < Window
===========================================================================
