------------------------- MODULE VerificationProofs -------------------------
(***************************************************************************)
(* What holds of verify and its evidence for every set of processes, every *)
(* tree, commit graph, policy and suite, any mix of changes and faults and *)
(* any bounds: type correctness; that a VERIFIED verdict is about the      *)
(* base's suite; that the base governs when it is given; that a disproved  *)
(* record does not stand; that the store names nothing no run found        *)
(* VERIFIED; and, each under the hypothesis it needs, what CURRENT, the    *)
(* receipt and the marker say.                                             *)
(***************************************************************************)
EXTENDS MCVerificationPair, FiniteSetTheorems, TLAPS

(***************************************************************************)
(* Type correctness.  TypeOK alone is not inductive: what a run has noted  *)
(* may be missing (None) in general, but not at the labels that use it.    *)
(***************************************************************************)
Copies == [src : Src, tests : Tests]

AfterAnchor == {"fingerprint", "visible", "recheck", "overlay", "pristine", "adjudicate"}
                  \union Adjudicated
AfterFingerprint == AfterAnchor \ {"fingerprint"}

Noted ==
    \A p \in Proc :
        /\ pc[p] \in AfterAnchor => job[p].base \in Commit
        /\ pc[p] \in AfterFingerprint => job[p].tree \in Tree
        /\ pc[p] \in {"pristine", "adjudicate"} => job[p].copy \in Copies
        /\ pc[p] \in {"recheck", "overlay", "pristine", "adjudicate"} => job[p].visible \in {0, 1}
        /\ pc[p] = "storeReceipt" => job[p].read \in Records

TInv == TypeOK /\ Noted

\* The assumptions on the commit graph, one at a time.
LEMMA MainsAreCommits == Mains \subseteq Commit
  BY VerificationAssumption

\* A merge base is a commit.
LEMMA MergeBases == \A m \in Commit, h \in Commit : MergeBase[m, h] \in Commit
<1>1. MergeBase \in [Commit \X Commit -> Commit]
  BY VerificationAssumption
<1> QED
  BY <1>1

\* A commit has a tree.
LEMMA CommitTrees == \A c \in Commit : Contents[c] \in Trees
<1>1. Contents \in [Commit -> Tree] /\ Tree \subseteq Trees
  BY VerificationAssumption
<1> QED
  BY <1>1

\* The notes of a run that begins.
LEMMA BlankType ==
    ASSUME NEW e \in BOOLEAN, NEW m \in BOOLEAN
    PROVE  [Blank EXCEPT !.explicit = e, !.marked = m] \in Jobs
  BY DEF Blank, Jobs, Exits, Verdicts

\* The notes of no run.
LEMMA BlankJob == Blank \in Jobs
  BY DEF Blank, Jobs, Exits, Verdicts

\* One field of one process's notes at a time.
LEMMA JobType ==
    ASSUME job \in [Proc -> Jobs], NEW p \in Proc
    PROVE  /\ \A v \in Policy \union {NoPolicy}, w \in Dep \union {None} :
                [job EXCEPT ![p] = [@ EXCEPT !.policy = v, !.deps = w]] \in [Proc -> Jobs]
           /\ \A v \in Commit \union {None}, w \in Commit \union {None} :
                [job EXCEPT ![p] = [@ EXCEPT !.base = v, !.head = w]] \in [Proc -> Jobs]
           /\ \A v \in Tree \union {None} : [job EXCEPT ![p].tree = v] \in [Proc -> Jobs]
           /\ \A v \in Exits : [job EXCEPT ![p].visible = v] \in [Proc -> Jobs]
           /\ \A v \in Exits : [job EXCEPT ![p].pristine = v] \in [Proc -> Jobs]
           /\ \A v \in Copies \union {None} : [job EXCEPT ![p].copy = v] \in [Proc -> Jobs]
           /\ \A v \in Verdicts : [job EXCEPT ![p].verdict = v] \in [Proc -> Jobs]
           /\ \A v \in Records \union {None} : [job EXCEPT ![p].read = v] \in [Proc -> Jobs]
           /\ [job EXCEPT ![p] = Blank] \in [Proc -> Jobs]
<1>1. \A v \in Policy \union {NoPolicy}, w \in Dep \union {None} :
                [job EXCEPT ![p] = [@ EXCEPT !.policy = v, !.deps = w]] \in [Proc -> Jobs]
  <2> SUFFICES ASSUME NEW v \in Policy \union {NoPolicy}, NEW w \in Dep \union {None}
               PROVE  [job[p] EXCEPT !.policy = v, !.deps = w] \in Jobs
    OBVIOUS
  <2> QED
    BY job[p] \in Jobs DEF Jobs
<1>2. \A v \in Commit \union {None}, w \in Commit \union {None} :
                [job EXCEPT ![p] = [@ EXCEPT !.base = v, !.head = w]] \in [Proc -> Jobs]
  <2> SUFFICES ASSUME NEW v \in Commit \union {None}, NEW w \in Commit \union {None}
               PROVE  [job[p] EXCEPT !.base = v, !.head = w] \in Jobs
    OBVIOUS
  <2> QED
    BY job[p] \in Jobs DEF Jobs
<1>3. \A v \in Tree \union {None} : [job EXCEPT ![p].tree = v] \in [Proc -> Jobs]
  <2> SUFFICES ASSUME NEW v \in Tree \union {None}
               PROVE  [job[p] EXCEPT !.tree = v] \in Jobs
    OBVIOUS
  <2> QED
    BY job[p] \in Jobs DEF Jobs
<1>4. \A v \in Exits : [job EXCEPT ![p].visible = v] \in [Proc -> Jobs]
  <2> SUFFICES ASSUME NEW v \in Exits
               PROVE  [job[p] EXCEPT !.visible = v] \in Jobs
    OBVIOUS
  <2> QED
    BY job[p] \in Jobs DEF Jobs
<1>5. \A v \in Exits : [job EXCEPT ![p].pristine = v] \in [Proc -> Jobs]
  <2> SUFFICES ASSUME NEW v \in Exits
               PROVE  [job[p] EXCEPT !.pristine = v] \in Jobs
    OBVIOUS
  <2> QED
    BY job[p] \in Jobs DEF Jobs
<1>6. \A v \in Copies \union {None} : [job EXCEPT ![p].copy = v] \in [Proc -> Jobs]
  <2> SUFFICES ASSUME NEW v \in Copies \union {None}
               PROVE  [job[p] EXCEPT !.copy = v] \in Jobs
    OBVIOUS
  <2> QED
    BY job[p] \in Jobs DEF Jobs, Copies
<1>7. \A v \in Verdicts : [job EXCEPT ![p].verdict = v] \in [Proc -> Jobs]
  <2> SUFFICES ASSUME NEW v \in Verdicts
               PROVE  [job[p] EXCEPT !.verdict = v] \in Jobs
    OBVIOUS
  <2> QED
    BY job[p] \in Jobs DEF Jobs
<1>8. \A v \in Records \union {None} : [job EXCEPT ![p].read = v] \in [Proc -> Jobs]
  <2> SUFFICES ASSUME NEW v \in Records \union {None}
               PROVE  [job[p] EXCEPT !.read = v] \in Jobs
    OBVIOUS
  <2> QED
    BY job[p] \in Jobs DEF Jobs
<1>9. [job EXCEPT ![p] = Blank] \in [Proc -> Jobs]
  BY BlankJob
<1> QED
  BY <1>1, <1>2, <1>3, <1>4, <1>5, <1>6, <1>7, <1>8, <1>9

\* What a run computes from the live repository has its type.
LEMMA LiveType ==
    ASSUME TypeOK, NEW e \in BOOLEAN
    PROVE  /\ ResolveBase(e) \in Commit
           /\ EffectivePolicy(e) \in Policy \union {NoPolicy}
           /\ \A t \in Tree : Evaluable(e) => ComputeBinding(e, t) \in Bindings
<1>1. ResolveBase(e) \in Commit /\ ResolveBase(TRUE) \in Commit
  <2>1. head \in Commit /\ main \in Commit
    <3>1. main \in Mains /\ head \in Commit
      BY DEF TypeOK
    <3> QED
      BY <3>1, MainsAreCommits
  <2>2. \A m \in Commit, h \in Commit : MergeBase[m, h] \in Commit
    BY MergeBases
  <2> QED
    BY <2>1, <2>2 DEF ResolveBase
<1>2. EffectivePolicy(e) \in Policy \union {NoPolicy}
  <2>1. Contents[ResolveBase(TRUE)] \in Trees /\ tree \in Trees
    BY <1>1, VerificationAssumption DEF TypeOK
  <2> QED
    BY <2>1 DEF EffectivePolicy, Trees
<1>3. \A t \in Tree : Evaluable(e) => ComputeBinding(e, t) \in Bindings
  BY <1>1, <1>2 DEF TypeOK, Evaluable, ComputeBinding, Bindings
<1> QED
  BY <1>1, <1>2, <1>3

\* Initially.
LEMMA InitTInv == Init => TInv
  BY BlankJob, VerificationAssumption
  DEF Init, TInv, TypeOK, Noted, PcStates, AfterFingerprint, AfterAnchor, Adjudicated

\* A run that begins.
LEMMA BeginTInv ==
    ASSUME TInv, NEW p \in Proc, NEW e \in Explicit, BeginVerifying(p, e)
    PROVE  TInv'
<1> USE DEF TInv, BeginVerifying, world
<1>1. e \in BOOLEAN
  BY VerificationAssumption
<1>2. job' \in [Proc -> Jobs]
  <2>1. [Blank EXCEPT !.explicit = e, !.marked = TRUE] \in Jobs
    BY <1>1, BlankType
  <2>2. [Blank EXCEPT !.explicit = e] \in Jobs
    BY <1>1, BlankJob DEF Jobs
  <2> QED
    BY <2>1, <2>2 DEF TypeOK
<1>3. pc' = [pc EXCEPT ![p] = "policy"]
  BY DEF Goto
<1>4. TypeOK'
  BY <1>2, <1>3, VerificationAssumption DEF TypeOK, PcStates, MayFail, Failed
<1>5. Noted'
  BY <1>3 DEF TypeOK, Noted, AfterFingerprint, AfterAnchor, Adjudicated
<1> QED
  BY <1>4, <1>5

\* The stages of a run, up to its verdict.
LEMMA StageTInv ==
    ASSUME TInv, NEW p \in Proc,
           \/ LoadPolicy(p) \/ Anchor(p) \/ Fingerprint(p)
           \/ VisibleExit(p) \/ VisibleBudget(p) \/ StageFailed(p) \/ Recheck(p)
           \/ OverlayPristine(p) \/ RunPristine(p) \/ Adjudicate(p)
    PROVE  TInv'
<1> USE DEF TInv, world, store, bounds, history, Goto
<1>0. job[p] \in Jobs /\ job[p].explicit \in BOOLEAN
  BY DEF TypeOK, Jobs
<1>1. CASE CannotVerify(p)
  <2>1. TypeOK'
    BY <1>1, JobType DEF CannotVerify, Finish, TypeOK, PcStates, Verdicts
  <2> QED
    BY <1>1, <2>1 DEF CannotVerify, Finish, TypeOK, Noted, AfterFingerprint, AfterAnchor, Adjudicated
<1>2. CASE LoadPolicy(p) /\ ~CannotVerify(p)
  <2>1. job' \in [Proc -> Jobs]
    <3>1. EffectivePolicy(job[p].explicit) \in Policy \union {NoPolicy} /\ deps \in Dep \union {None}
      BY <1>0, LiveType DEF TypeOK
    <3>2. [job EXCEPT ![p] = [@ EXCEPT !.policy = EffectivePolicy(job[p].explicit), !.deps = deps]]
            \in [Proc -> Jobs]
      BY <3>1, JobType DEF TypeOK
    <3>3. job' = [job EXCEPT ![p] = [@ EXCEPT !.policy = EffectivePolicy(job[p].explicit), !.deps = deps]]
      BY <1>2 DEF LoadPolicy
    <3> QED
      BY <3>2, <3>3
  <2>2. TypeOK'
    BY <1>2, <2>1 DEF LoadPolicy, TypeOK, PcStates
  <2> QED
    BY <1>2, <2>2 DEF LoadPolicy, TypeOK, Noted, AfterFingerprint, AfterAnchor, Adjudicated
<1>3. CASE Anchor(p)
  <2>1. TypeOK'
    BY <1>0, <1>3, JobType, LiveType DEF Anchor, TypeOK, PcStates
  <2>2. job'[p].base \in Commit
    BY <1>0, <1>3, LiveType DEF Anchor, TypeOK, Jobs
  <2> QED
    BY <1>3, <2>1, <2>2 DEF Anchor, TypeOK, Noted, AfterFingerprint, AfterAnchor, Adjudicated
<1>4. CASE Fingerprint(p) /\ ~CannotVerify(p)
  <2>0. job' \in [Proc -> Jobs]
    <3>1. job' = [job EXCEPT ![p].tree = tree] /\ tree \in Tree \union {None} /\ job \in [Proc -> Jobs]
      BY <1>4 DEF Fingerprint, TypeOK
    <3>2. \A v \in Tree \union {None} : [job EXCEPT ![p].tree = v] \in [Proc -> Jobs]
      BY <3>1, JobType
    <3> QED
      BY <3>1, <3>2
  <2>1. TypeOK'
    BY <1>4, <2>0 DEF Fingerprint, TypeOK, PcStates
  <2>2. job'[p].tree \in Tree /\ job'[p].base = job[p].base
    BY <1>0, <1>4 DEF Fingerprint, TypeOK, Jobs
  <2> QED
    BY <1>4, <2>1, <2>2 DEF Fingerprint, TypeOK, Noted, AfterFingerprint, AfterAnchor, Adjudicated
<1>5. CASE VisibleExit(p)
  <2>0. job' \in [Proc -> Jobs]
    <3>1. job \in [Proc -> Jobs] /\ {0, 1} \subseteq Exits
      BY DEF TypeOK, Exits
    <3>2. PICK exit \in {0, 1} : job' = [job EXCEPT ![p].visible = exit]
      BY <1>5 DEF VisibleExit
    <3>3. \A v \in Exits : [job EXCEPT ![p].visible = v] \in [Proc -> Jobs]
      BY <3>1, JobType
    <3> QED
      BY <3>1, <3>2, <3>3
  <2>1. TypeOK'
    BY <1>5, <2>0 DEF VisibleExit, TypeOK, PcStates
  <2>2. /\ job'[p].tree = job[p].tree /\ job'[p].base = job[p].base
        /\ job'[p].visible \in {0, 1}
    BY <1>0, <1>5 DEF VisibleExit, TypeOK, Jobs
  <2> QED
    BY <1>5, <2>1, <2>2 DEF VisibleExit, TypeOK, Noted, AfterFingerprint, AfterAnchor, Adjudicated
<1>6. CASE VisibleBudget(p)
  <2>1. TypeOK'
    BY <1>6, JobType DEF VisibleBudget, Finish, TypeOK, PcStates, Verdicts
  <2> QED
    BY <1>6, <2>1 DEF VisibleBudget, Finish, TypeOK, Noted, AfterFingerprint, AfterAnchor, Adjudicated
<1>7. CASE Recheck(p) /\ ~CannotVerify(p)
  <2>1. TypeOK'
    BY <1>7 DEF Recheck, TypeOK, PcStates
  <2> QED
    BY <1>7, <2>1 DEF Recheck, TypeOK, Noted, AfterFingerprint, AfterAnchor, Adjudicated
<1>8. CASE OverlayPristine(p)
  <2>1. [src |-> tree.src, tests |-> Contents[job[p].base].tests] \in Copies
    BY <1>8, VerificationAssumption
    DEF OverlayPristine, TypeOK, Noted, AfterAnchor, Copies, Trees
  <2>2. TypeOK'
    BY <1>8, <2>1, JobType DEF OverlayPristine, TypeOK, PcStates
  <2>3. /\ job'[p].tree = job[p].tree /\ job'[p].base = job[p].base
        /\ job'[p].copy \in Copies /\ job'[p].visible = job[p].visible
    BY <1>0, <1>8, <2>1 DEF OverlayPristine, TypeOK, Jobs
  <2> QED
    BY <1>8, <2>2, <2>3 DEF OverlayPristine, TypeOK, Noted, AfterFingerprint, AfterAnchor, Adjudicated
<1>9. CASE RunPristine(p)
  <2>0. job' \in [Proc -> Jobs]
    <3>1. job \in [Proc -> Jobs] /\ {0, 1, None} \subseteq Exits
      BY DEF TypeOK, Exits
    <3>2. PICK exit \in {0, 1, None} : job' = [job EXCEPT ![p].pristine = exit]
      BY <1>9 DEF RunPristine
    <3>3. \A v \in Exits : [job EXCEPT ![p].pristine = v] \in [Proc -> Jobs]
      BY <3>1, JobType
    <3> QED
      BY <3>1, <3>2, <3>3
  <2>1. TypeOK'
    BY <1>9, <2>0 DEF RunPristine, TypeOK, PcStates
  <2>2. /\ job'[p].tree = job[p].tree /\ job'[p].base = job[p].base
        /\ job'[p].copy = job[p].copy /\ job'[p].visible = job[p].visible
    BY <1>0, <1>9 DEF RunPristine, TypeOK, Jobs
  <2> QED
    BY <1>9, <2>1, <2>2 DEF RunPristine, TypeOK, Noted, AfterFingerprint, AfterAnchor, Adjudicated
<1>10. CASE Adjudicate(p) /\ ~CannotVerify(p)
  <2> DEFINE v == VerdictOf(job[p].visible, job[p].pristine)
  <2>1. Finish(p, Outcome(v), v) /\ UNCHANGED <<world, store, bounds>>
    BY <1>10 DEF Adjudicate
  <2>2. v \in Verdicts /\ Outcome(v) \in {"record", "invalidate"}
    <3>1. job[p].visible \in {0, 1} /\ job[p].pristine \in {0, 1, None}
      BY <1>0, <1>10 DEF Adjudicate, Noted, Jobs, Exits
    <3> QED
      BY <3>1, VerificationAssumption DEF VerdictOf, Outcome, Verdicts
  <2> HIDE DEF v
  <2>3. TypeOK'
    BY <2>1, <2>2, JobType DEF Finish, TypeOK, PcStates
  <2>4. job'[p].tree = job[p].tree /\ job'[p].base = job[p].base
    BY <1>0, <2>1 DEF Finish, TypeOK, Jobs
  <2> QED
    BY <1>10, <2>1, <2>2, <2>3, <2>4
    DEF Adjudicate, Finish, TypeOK, Noted, AfterFingerprint, AfterAnchor, Adjudicated
<1> QED
  BY <1>1, <1>2, <1>3, <1>4, <1>5, <1>6, <1>7, <1>8, <1>9, <1>10 DEF StageFailed

\* What Invalidate may conclude: a record, and so a binding, stands.
LEMMA EvidenceTInv ==
    ASSUME TInv, NEW p \in Proc,
           \/ RecordVerification(p) \/ RecordFails(p) \/ ReadRecord(p) \/ StoreReceipt(p)
           \/ Invalidate(p) \/ RemoveRecord(p) \/ RemoveStoredReceipt(p)
           \/ EndVerifying(p) \/ Throws(p) \/ Crash(p)
    PROVE  TInv'
<1> USE DEF TInv, world, store, bounds, history, Goto, MayFail, Failed
<1>0. /\ job \in [Proc -> Jobs] /\ job[p] \in Jobs /\ job[p].explicit \in BOOLEAN
      /\ pc[p] \in PcStates /\ MaxFaults \in Nat
  <2>1. {MaxMoves, MaxFaults, MaxRuns} \subseteq Nat
    BY VerificationAssumption
  <2> QED
    BY <2>1 DEF TypeOK, Jobs
<1>f. faults \in 0..MaxFaults /\ faults < MaxFaults => faults + 1 \in 0..MaxFaults
  BY <1>0
<1>1. CASE RecordVerification(p)
  <2>1. record' \in Records
    <3>1. ComputeBinding(job[p].explicit, job[p].tree) \in Bindings
      BY <1>0, <1>1, LiveType
      DEF RecordVerification, TypeOK, Noted, AfterFingerprint, AfterAnchor, Adjudicated
    <3> QED
      BY <1>0, <1>1, <3>1 DEF RecordVerification, Records
  <2>2. TypeOK'
    BY <1>1, <2>1 DEF RecordVerification, TypeOK, PcStates
  <2> QED
    BY <1>1, <2>2 DEF RecordVerification, TypeOK, Noted, AfterFingerprint, AfterAnchor, Adjudicated
<1>2. CASE RecordFails(p)
  <2>1. TypeOK'
    BY <1>f, <1>2 DEF RecordFails, TypeOK, PcStates
  <2> QED
    BY <1>2, <2>1 DEF RecordFails, TypeOK, Noted, AfterFingerprint, AfterAnchor, Adjudicated
<1>3. CASE ReadRecord(p)
  <2>1. job' \in [Proc -> Jobs]
    <3>1. record \in Records \union {None} /\ job' = [job EXCEPT ![p].read = record]
      BY <1>3 DEF ReadRecord, TypeOK
    <3>2. \A v \in Records \union {None} : [job EXCEPT ![p].read = v] \in [Proc -> Jobs]
      BY <1>0, JobType
    <3> QED
      BY <3>1, <3>2
  <2>2. TypeOK'
    BY <1>3, <2>1 DEF ReadRecord, TypeOK, PcStates
  <2>3. /\ job'[p].tree = job[p].tree /\ job'[p].base = job[p].base
        /\ job'[p].read = record
    BY <1>0, <1>3 DEF ReadRecord, Jobs
  <2>4. pc'[p] = "storeReceipt" => record \in Records
    BY <1>0, <1>3 DEF ReadRecord, TypeOK
  <2>5. \A q \in Proc \ {p} : job'[q] = job[q] /\ pc'[q] = pc[q]
    BY <1>0, <1>3 DEF ReadRecord, TypeOK
  <2>6. pc'[p] \in {"end", "storeReceipt"}
    BY <1>3 DEF ReadRecord, TypeOK
  <2> QED
    BY <1>3, <2>2, <2>3, <2>4, <2>5, <2>6
    DEF ReadRecord, Noted, AfterFingerprint, AfterAnchor, Adjudicated
<1>4. CASE StoreReceipt(p)
  <2>1. job[p].read.binding \in Bindings
    BY <1>4 DEF StoreReceipt, Noted, Records
  <2>2. TypeOK'
    BY <1>f, <1>4, <2>1 DEF StoreReceipt, TypeOK, PcStates
  <2> QED
    BY <1>4, <2>2 DEF StoreReceipt, TypeOK, Noted, AfterFingerprint, AfterAnchor, Adjudicated
<1>5. CASE Invalidate(p)
  <2>1. TypeOK'
    BY <1>5 DEF Invalidate, TypeOK, PcStates
  <2> QED
    BY <1>5, <2>1 DEF Invalidate, TypeOK, Noted, AfterFingerprint, AfterAnchor, Adjudicated
<1>6. CASE RemoveRecord(p)
  <2>1. TypeOK'
    BY <1>6 DEF RemoveRecord, TypeOK, PcStates
  <2> QED
    BY <1>6, <2>1 DEF RemoveRecord, TypeOK, Noted, AfterFingerprint, AfterAnchor, Adjudicated
<1>7. CASE RemoveStoredReceipt(p)
  <2>1. TypeOK'
    BY <1>7 DEF RemoveStoredReceipt, TypeOK, PcStates
  <2> QED
    BY <1>7, <2>1 DEF RemoveStoredReceipt, TypeOK, Noted, AfterFingerprint, AfterAnchor, Adjudicated
<1>8. CASE EndVerifying(p)
  <2>1. TypeOK'
    BY <1>0, <1>8, BlankJob DEF EndVerifying, TypeOK, PcStates
  <2> QED
    BY <1>8, <2>1 DEF EndVerifying, TypeOK, Noted, AfterFingerprint, AfterAnchor, Adjudicated
<1>9. CASE Throws(p)
  <2>1. TypeOK'
    BY <1>f, <1>9 DEF Throws, TypeOK, PcStates
  <2> QED
    BY <1>9, <2>1 DEF Throws, TypeOK, Noted, AfterFingerprint, AfterAnchor, Adjudicated
<1>10. CASE Crash(p)
  <2>1. TypeOK'
    BY <1>0, <1>f, <1>10, BlankJob DEF Crash, TypeOK, PcStates
  <2> QED
    BY <1>10, <2>1 DEF Crash, TypeOK, Noted, AfterFingerprint, AfterAnchor, Adjudicated
<1> QED
  BY <1>1, <1>2, <1>3, <1>4, <1>5, <1>6, <1>7, <1>8, <1>9, <1>10

\* What moves the repository.
LEMMA EnvironmentTInv ==
    ASSUME TInv, Environment
    PROVE  TInv'
<1> USE DEF TInv, store, history, MayMove
<1>0. moves \in 0..MaxMoves /\ moves < MaxMoves => moves + 1 \in 0..MaxMoves
  <2>1. {MaxMoves, MaxFaults, MaxRuns} \subseteq Nat
    BY VerificationAssumption
  <2> QED
    BY <2>1
<1>1. CASE Edit
  BY <1>0, <1>1 DEF Edit, TypeOK, Noted
<1>2. CASE MoveHead
  BY <1>0, <1>2 DEF MoveHead, TypeOK, Noted
<1>3. CASE MoveMain
  BY <1>0, <1>3 DEF MoveMain, TypeOK, Noted
<1>4. CASE InstallDeps
  BY <1>0, <1>4 DEF InstallDeps, TypeOK, Noted
<1>5. CASE Rewire
  BY <1>0, <1>5 DEF Rewire, TypeOK, Noted
<1>6. ASSUME NEW p \in Proc, TouchCopy(p)
      PROVE  TInv'
  <2> USE <1>6 DEF TouchCopy, world
  <2>1. PICK t \in Tests : job' = [job EXCEPT ![p].copy.tests = t]
    OBVIOUS
  <2>2. job[p] \in Jobs /\ job[p].copy \in Copies
    BY DEF TypeOK, Noted
  <2>3. [job[p].copy EXCEPT !.tests = t] \in Copies
    BY <2>2 DEF Copies
  <2>4. job' = [job EXCEPT ![p].copy = [job[p].copy EXCEPT !.tests = t]]
    BY <2>1, <2>2 DEF Jobs
  <2>5. job' \in [Proc -> Jobs]
    <3>1. \A v \in Copies \union {None} : [job EXCEPT ![p].copy = v] \in [Proc -> Jobs]
      BY JobType DEF TypeOK
    <3> QED
      BY <2>3, <2>4, <3>1
  <2>6. /\ job'[p].copy \in Copies
        /\ \A f \in {"tree", "base", "visible", "read"} : job'[p][f] = job[p][f]
    BY <2>2, <2>3, <2>4 DEF TypeOK, Jobs
  <2>7. \A q \in Proc \ {p} : job'[q] = job[q]
    BY <2>1 DEF TypeOK
  <2>8. TypeOK'
    BY <1>0, <2>5 DEF TypeOK
  <2>9. Noted'
    BY <2>6, <2>7 DEF Noted
  <2> QED
    BY <2>8, <2>9
<1> QED
  BY <1>1, <1>2, <1>3, <1>4, <1>5, <1>6 DEF Environment

(***************************************************************************)
(* A VERIFIED verdict is about the base's suite.  Each stage is sound only *)
(* while what it ran on still stands, or was not disturbed behind the      *)
(* comparison's back (undone); the comparison is the last thing before the *)
(* verdict.                                                                *)
(***************************************************************************)
InGreen(p) == <<job[p].tree.src, Contents[job[p].base].tests, job[p].policy, job[p].deps>> \in Green

CopySound(p) ==
    pc[p] \in {"pristine", "adjudicate"} =>
        \/ p \in undone \/ tree # job[p].tree
        \/ job[p].copy.src = job[p].tree.src

StageSound(p) ==
    pc[p] = "adjudicate" /\ job[p].pristine = 0 =>
        \/ p \in undone \/ tree # job[p].tree \/ deps # job[p].deps \/ OverlayMoved(p)
        \/ InGreen(p)

JudgedSound(p) ==
    pc[p] \in Adjudicated /\ job[p].verdict = "VERIFIED" => p \in undone \/ InGreen(p)

Sound(p) == CopySound(p) /\ StageSound(p) /\ JudgedSound(p)

SInv == TInv /\ \A p \in Proc : Sound(p)

\* A process is as sound as it was when neither it nor the world has moved.
LEMMA Untouched ==
    ASSUME NEW q \in Proc, Sound(q), pc'[q] = pc[q], job'[q] = job[q],
           tree' = tree, deps' = deps, q \in undone => q \in undone'
    PROVE  Sound(q)'
  BY DEF Sound, CopySound, StageSound, JudgedSound, OverlayMoved, InGreen

\* Outside the pristine stage and the evidence of a verdict nothing is claimed.
LEMMA NothingClaimed ==
    ASSUME NEW q \in Proc, pc'[q] \notin {"pristine", "adjudicate"} \union Adjudicated
    PROVE  Sound(q)'
  BY DEF Sound, CopySound, StageSound, JudgedSound, Adjudicated

\* Initially.
LEMMA InitSound == Init => \A p \in Proc : Sound(p)
  BY DEF Init, Sound, CopySound, StageSound, JudgedSound, Adjudicated

\* A step of one process, a throw or a crash.
LEMMA StepSound ==
    ASSUME SInv, NEW p \in Proc, Step(p) \/ Throws(p) \/ Crash(p)
    PROVE  \A q \in Proc : Sound(q)'
<1> USE DEF SInv, TInv, world, store, bounds, history, Goto
<1>0. /\ job \in [Proc -> Jobs] /\ job[p] \in Jobs /\ pc \in [Proc -> PcStates]
      /\ tree \in Tree /\ deps \in Dep
  BY DEF TypeOK
<1>1. ASSUME NEW q \in Proc \ {p}
      PROVE  Sound(q)'
  <2>1. /\ pc'[q] = pc[q] /\ job'[q] = job[q] /\ tree' = tree /\ deps' = deps
        /\ undone' = undone
    BY <1>0 DEF Step, LoadPolicy, Anchor, Fingerprint, VisibleExit, VisibleBudget,
         StageFailed, Recheck, OverlayPristine, RunPristine, Adjudicate, RecordVerification,
         RecordFails, ReadRecord, StoreReceipt, Invalidate, RemoveRecord,
         RemoveStoredReceipt, EndVerifying, Throws, Crash, CannotVerify, Finish
  <2> QED
    BY <2>1, Untouched
<1>2. Sound(p)'
  <2>1. CASE CannotVerify(p)
    <3>1. pc'[p] = "end"
      BY <1>0, <2>1 DEF CannotVerify, Finish
    <3> QED
      BY <3>1, NothingClaimed DEF Adjudicated
  <2>2. CASE \/ LoadPolicy(p) \/ Anchor(p) \/ Fingerprint(p) \/ VisibleExit(p)
             \/ VisibleBudget(p) \/ Recheck(p) \/ RecordFails(p) \/ StoreReceipt(p)
             \/ RemoveStoredReceipt(p) \/ EndVerifying(p) \/ Throws(p) \/ Crash(p)
    <3>1. pc'[p] \in {"end", "idle", "anchor", "fingerprint", "visible", "recheck", "overlay"}
      BY <1>0, <2>2 DEF LoadPolicy, Anchor, Fingerprint, VisibleExit, VisibleBudget, Recheck,
           RecordFails, StoreReceipt, RemoveStoredReceipt, EndVerifying, Throws, Crash,
           CannotVerify, Finish
    <3> QED
      BY <3>1, NothingClaimed DEF Adjudicated
  <2>3. CASE OverlayPristine(p)
    <3>1. /\ pc'[p] = "pristine" /\ tree' = tree
          /\ job'[p].copy.src = tree.src /\ job'[p].tree = job[p].tree
      BY <1>0, <2>3 DEF OverlayPristine, Jobs
    <3> QED
      BY <3>1 DEF Sound, CopySound, StageSound, JudgedSound, Adjudicated
  <2>4. CASE RunPristine(p)
    <3>1. PICK exit \in {0, 1, None} :
             /\ exit = 0 => Suite(job[p].copy.src, job[p].copy.tests, job[p].policy)
             /\ job' = [job EXCEPT ![p].pristine = exit]
      BY <2>4 DEF RunPristine
    <3>2. /\ pc[p] = "pristine" /\ pc'[p] = "adjudicate"
          /\ tree' = tree /\ deps' = deps /\ undone' = undone
      BY <1>0, <2>4 DEF RunPristine
    <3>3. /\ job'[p].pristine = exit
          /\ \A f \in {"copy", "tree", "base", "policy", "deps"} : job'[p][f] = job[p][f]
      BY <1>0, <3>1 DEF Jobs
    <3>4. \/ p \in undone \/ tree # job[p].tree \/ job[p].copy.src = job[p].tree.src
      BY <3>2 DEF Sound, CopySound
    <3>5. /\ job'[p].copy = job[p].copy /\ job'[p].tree = job[p].tree
          /\ job'[p].base = job[p].base /\ job'[p].policy = job[p].policy
          /\ job'[p].deps = job[p].deps
      BY <3>3
    <3>6. CopySound(p)'
      BY <3>2, <3>4, <3>5 DEF CopySound
    <3>7. StageSound(p)'
      BY <3>1, <3>2, <3>3, <3>4, <3>5 DEF StageSound, OverlayMoved, InGreen, Suite
    <3>8. JudgedSound(p)'
      BY <3>2 DEF JudgedSound, Adjudicated
    <3> QED
      BY <3>6, <3>7, <3>8 DEF Sound
  <2>5. CASE Adjudicate(p) /\ ~CannotVerify(p)
    <3> DEFINE v == VerdictOf(job[p].visible, job[p].pristine)
    <3>1. /\ pc[p] = "adjudicate" /\ ~OverlayMoved(p) /\ tree = job[p].tree /\ deps = job[p].deps
          /\ Finish(p, Outcome(v), v) /\ undone' = undone
      BY <2>5 DEF Adjudicate, TreeMoved, DepsMoved
    <3>2. v = "VERIFIED" => job[p].pristine = 0
      <4>1. job[p].visible \in {0, 1} /\ job[p].pristine \in {0, 1, None}
        BY <1>0, <3>1 DEF Noted, Jobs, Exits
      <4> QED
        BY <4>1, VerificationAssumption DEF VerdictOf
    <3> HIDE DEF v
    <3>3. /\ job'[p].verdict = v
          /\ job'[p].tree = job[p].tree /\ job'[p].base = job[p].base
          /\ job'[p].policy = job[p].policy /\ job'[p].deps = job[p].deps
      BY <1>0, <3>1 DEF Finish, Jobs
    <3>4. pc'[p] \in {"record", "invalidate"}
      BY <1>0, <3>1 DEF Finish, Outcome
    <3>5. JudgedSound(p)'
      BY <3>1, <3>2, <3>3 DEF Sound, StageSound, JudgedSound, InGreen
    <3> QED
      BY <3>4, <3>5 DEF Sound, CopySound, StageSound
  <2>6. CASE \/ RecordVerification(p) \/ ReadRecord(p) \/ Invalidate(p) \/ RemoveRecord(p)
    <3>1. pc[p] \in Adjudicated /\ pc'[p] \in Adjudicated \union {"end"} /\ undone' = undone
      BY <1>0, <2>6 DEF RecordVerification, ReadRecord, Invalidate, RemoveRecord, Adjudicated
    <3>2. /\ job'[p].verdict = job[p].verdict
          /\ job'[p].tree = job[p].tree /\ job'[p].base = job[p].base
          /\ job'[p].policy = job[p].policy /\ job'[p].deps = job[p].deps
      <4>1. CASE ReadRecord(p)
        BY <1>0, <4>1 DEF ReadRecord, Jobs
      <4>2. CASE RecordVerification(p) \/ Invalidate(p) \/ RemoveRecord(p)
        BY <4>2 DEF RecordVerification, Invalidate, RemoveRecord
      <4> QED
        BY <2>6, <4>1, <4>2
    <3>3. JudgedSound(p)'
      BY <3>1, <3>2 DEF Sound, JudgedSound, InGreen
    <3> QED
      BY <3>1, <3>3 DEF Sound, CopySound, StageSound, Adjudicated
  <2> QED
    BY <2>1, <2>2, <2>3, <2>4, <2>5, <2>6 DEF Step, StageFailed
<1> QED
  BY <1>1, <1>2

\* A run that begins claims nothing.
LEMMA BeginSound ==
    ASSUME SInv, NEW p \in Proc, NEW e \in Explicit, BeginVerifying(p, e)
    PROVE  \A q \in Proc : Sound(q)'
<1> USE DEF SInv, TInv, TypeOK, BeginVerifying, world, Goto
<1>1. ASSUME NEW q \in Proc \ {p}
      PROVE  Sound(q)'
  BY Untouched
<1>2. pc'[p] = "policy"
  OBVIOUS
<1> QED
  BY <1>1, <1>2, NothingClaimed DEF Adjudicated

\* A change that restores what a run noted puts it in undone; any other leaves
\* the comparison something to find.
LEMMA EnvironmentSound ==
    ASSUME SInv, Environment
    PROVE  \A q \in Proc : Sound(q)'
<1> USE DEF SInv, TInv, TypeOK, MayMove, store, history
<1>1. ASSUME NEW q \in Proc, Edit \/ InstallDeps
      PROVE  Sound(q)'
  <2>1. /\ pc' = pc /\ job' = job /\ undone \subseteq undone'
        /\ tree' \in Tree /\ deps' \in Dep
    BY <1>1 DEF Edit, InstallDeps
  <2>2. None \notin Tree /\ None \notin Dep
    BY VerificationAssumption
  <2>3. tree # job[q].tree /\ tree' = job[q].tree => q \in undone'
    BY <1>1, <2>1, <2>2 DEF Edit, InstallDeps, Reverted
  <2>4. deps # job[q].deps /\ deps' = job[q].deps => q \in undone'
    BY <1>1, <2>1, <2>2 DEF Edit, InstallDeps, Reverted
  <2> QED
    BY <2>1, <2>3, <2>4
    DEF Sound, CopySound, StageSound, JudgedSound, OverlayMoved, InGreen
<1>2. ASSUME NEW q \in Proc, MoveHead \/ MoveMain \/ Rewire
      PROVE  Sound(q)'
  BY <1>2, Untouched DEF MoveHead, MoveMain, Rewire
<1>3. ASSUME NEW p \in Proc, NEW q \in Proc, TouchCopy(p)
      PROVE  Sound(q)'
  <2> USE <1>3 DEF TouchCopy, world
  <2>1. PICK t \in Tests :
           /\ job' = [job EXCEPT ![p].copy.tests = t]
           /\ undone' = IF t = Contents[job[p].base].tests THEN undone \union {p} ELSE undone
    OBVIOUS
  <2>2. CASE q # p
    BY <2>1, <2>2, Untouched
  <2>3. CASE q = p
    <3>1. job[p] \in Jobs /\ job[p].copy \in Copies
      BY DEF Noted
    <3>2. /\ job'[p].copy.src = job[p].copy.src /\ job'[p].copy.tests = t
          /\ job'[p].tree = job[p].tree /\ job'[p].base = job[p].base
          /\ job'[p].policy = job[p].policy /\ job'[p].deps = job[p].deps
      BY <2>1, <3>1 DEF Jobs, Copies
    <3>3. /\ pc' = pc /\ tree' = tree /\ deps' = deps /\ undone \subseteq undone'
          /\ pc[p] \in {"pristine", "adjudicate"}
      BY <2>1
    <3>4. CopySound(p)'
      BY <3>2, <3>3 DEF Sound, CopySound
    <3>5. StageSound(p)'
      BY <2>1, <3>2, <3>3 DEF StageSound, OverlayMoved
    <3>6. JudgedSound(p)'
      BY <3>3 DEF JudgedSound, Adjudicated
    <3> QED
      BY <2>3, <3>4, <3>5, <3>6 DEF Sound
  <2> QED
    BY <2>2, <2>3
<1> QED
  BY <1>1, <1>2, <1>3 DEF Environment

\* The inductive step every property below rests on.
LEMMA TInvStep == TInv /\ [Next]_vars => TInv'
<1> SUFFICES ASSUME TInv, [Next]_vars
             PROVE  TInv'
  OBVIOUS
<1>1. ASSUME NEW p \in Proc, Step(p) \/ Throws(p) \/ Crash(p)
      PROVE  TInv'
  BY <1>1, StageTInv, EvidenceTInv DEF Step
<1>2. ASSUME NEW p \in Proc, NEW e \in Explicit, BeginVerifying(p, e)
      PROVE  TInv'
  BY <1>2, BeginTInv
<1>3. CASE Environment
  BY <1>3, EnvironmentTInv
<1>4. CASE UNCHANGED vars
  BY <1>4 DEF vars, world, store, bounds, history, TInv, TypeOK, Noted
<1> QED
  BY <1>1, <1>2, <1>3, <1>4 DEF Next

\* Whatever interleaves with whatever, and wherever it is killed: the store
\* holds only what verify writes, and a run only what it has read.
THEOREM TypeCorrect == Spec => []TypeOK
<1>1. TInv => TypeOK
  BY DEF TInv
<1> QED
  BY InitTInv, TInvStep, <1>1, PTL DEF Spec

\* VERIFIED means that the candidate's source passes the base's suite under the
\* policy and the dependencies of the run's entry, whatever moved meanwhile and
\* was not moved back.  (runVerifyImpl's re-checks before the adjudication)
THEOREM VerifiedIsSound == Spec => []VerdictSound
<1>1. Init => SInv
  BY InitTInv, InitSound DEF SInv
<1>2. SInv /\ [Next]_vars => SInv'
  <2> SUFFICES ASSUME SInv, [Next]_vars
               PROVE  SInv'
    OBVIOUS
  <2>1. TInv'
    BY TInvStep DEF SInv
  <2>2. ASSUME NEW p \in Proc, Step(p) \/ Throws(p) \/ Crash(p)
        PROVE  \A q \in Proc : Sound(q)'
    BY <2>2, StepSound
  <2>3. ASSUME NEW p \in Proc, NEW e \in Explicit, BeginVerifying(p, e)
        PROVE  \A q \in Proc : Sound(q)'
    BY <2>3, BeginSound
  <2>4. CASE Environment
    BY <2>1, <2>4, EnvironmentSound DEF SInv
  <2>5. CASE UNCHANGED vars
    <3>1. ASSUME NEW q \in Proc
          PROVE  Sound(q)'
      <4>1. pc' = pc /\ job' = job /\ tree' = tree /\ deps' = deps /\ undone' = undone
        BY <2>5 DEF vars, world, bounds, history
      <4> QED
        BY <4>1, Untouched DEF SInv
    <3> QED
      BY <2>1, <3>1 DEF SInv
  <2> QED
    BY <2>1, <2>2, <2>3, <2>4, <2>5 DEF Next, SInv
<1>3. SInv => VerdictSound
  BY DEF SInv, Sound, JudgedSound, InGreen, VerdictSound
<1> QED
  BY <1>1, <1>2, <1>3, PTL DEF Spec

(***************************************************************************)
(* With --base, the base governs.  A merge base with the trusted ref stays *)
(* one whatever HEAD and the ref do next.                                  *)
(***************************************************************************)
GovernedBy(p) == \E c \in Trusted : job[p].policy = Contents[c].policy

Governed(p) ==
    job[p].explicit =>
        /\ pc[p] \in AfterAnchor => job[p].base \in Trusted
        /\ pc[p] \in AfterAnchor \union {"anchor"} => GovernedBy(p)

GInv == TInv /\ \A p \in Proc : Governed(p)

\* What a run resolves from the trusted ref is on the trusted line.
LEMMA ResolvedIsTrusted ==
    ASSUME TypeOK
    PROVE  ResolveBase(TRUE) \in Trusted
<1>1. main \in Mains /\ head \in Commit
  BY DEF TypeOK
<1>2. MergeBase[main, head] \in Commit
  BY <1>1, MainsAreCommits, MergeBases
<1> QED
  BY <1>1, <1>2 DEF ResolveBase, Trusted

\* The base of a run, and the policy it loads, are on the trusted line.
LEMMA StepGoverned ==
    ASSUME GInv, NEW p \in Proc, Step(p) \/ Throws(p) \/ Crash(p)
    PROVE  \A q \in Proc : Governed(q)'
<1> USE DEF GInv, TInv, Goto
<1>0. job \in [Proc -> Jobs] /\ job[p] \in Jobs /\ pc \in [Proc -> PcStates]
  BY DEF TypeOK
<1>1. ASSUME NEW q \in Proc \ {p}
      PROVE  Governed(q)'
  <2>1. pc'[q] = pc[q] /\ job'[q] = job[q]
    BY <1>0 DEF Step, LoadPolicy, Anchor, Fingerprint, VisibleExit, VisibleBudget,
         StageFailed, Recheck, OverlayPristine, RunPristine, Adjudicate, RecordVerification,
         RecordFails, ReadRecord, StoreReceipt, Invalidate, RemoveRecord,
         RemoveStoredReceipt, EndVerifying, Throws, Crash, CannotVerify, Finish
  <2> QED
    BY <2>1 DEF Governed, GovernedBy
<1>2. Governed(p)'
  <2>1. CASE LoadPolicy(p) /\ ~CannotVerify(p)
    <3>0. /\ pc'[p] = "anchor"
          /\ job'[p] = [job[p] EXCEPT !.policy = EffectivePolicy(job[p].explicit), !.deps = deps]
      BY <1>0, <2>1 DEF LoadPolicy
    <3>1. /\ pc'[p] = "anchor" /\ job'[p].explicit = job[p].explicit
          /\ job'[p].policy = EffectivePolicy(job[p].explicit)
      BY <1>0, <3>0 DEF Jobs
    <3>2. job[p].explicit => GovernedBy(p)'
      BY <3>1, ResolvedIsTrusted DEF GovernedBy, EffectivePolicy
    <3> QED
      BY <3>1, <3>2 DEF Governed, AfterAnchor, Adjudicated
  <2>2. CASE Anchor(p)
    <3>1. /\ pc[p] = "anchor" /\ job'[p].explicit = job[p].explicit
          /\ job'[p].policy = job[p].policy /\ job'[p].base = ResolveBase(job[p].explicit)
      BY <1>0, <2>2 DEF Anchor, Jobs
    <3>2. job[p].explicit \in BOOLEAN
      BY <1>0 DEF Jobs
    <3>3. job[p].explicit => job'[p].base \in Trusted
      BY <3>1, <3>2, ResolvedIsTrusted
    <3> QED
      BY <3>1, <3>3 DEF Governed, GovernedBy
  <2>3. CASE EndVerifying(p) \/ Crash(p)
    <3>1. pc'[p] = "idle"
      BY <1>0, <2>3 DEF EndVerifying, Crash
    <3> QED
      BY <3>1 DEF Governed, AfterAnchor, Adjudicated
  <2>4. CASE /\ ~LoadPolicy(p) /\ ~Anchor(p) /\ ~EndVerifying(p) /\ ~Crash(p)
    <3>1. pc'[p] \in AfterAnchor => pc[p] \in AfterAnchor
      BY <1>0, <2>4 DEF Step, Fingerprint, VisibleExit, VisibleBudget,
         StageFailed, Recheck, OverlayPristine, RunPristine, Adjudicate, RecordVerification,
         RecordFails, ReadRecord, StoreReceipt, Invalidate, RemoveRecord,
         RemoveStoredReceipt, Throws, CannotVerify, Finish, AfterAnchor, Adjudicated
    <3>2. pc'[p] # "anchor"
      BY <1>0, <2>4 DEF Step, Fingerprint, VisibleExit, VisibleBudget,
         StageFailed, Recheck, OverlayPristine, RunPristine, Adjudicate, Outcome, RecordVerification,
         RecordFails, ReadRecord, StoreReceipt, Invalidate, RemoveRecord,
         RemoveStoredReceipt, Throws, CannotVerify, Finish
    <3>3. /\ job'[p].explicit = job[p].explicit
          /\ job'[p].policy = job[p].policy /\ job'[p].base = job[p].base
      <4>1. CASE Fingerprint(p) \/ ReadRecord(p) \/ OverlayPristine(p)
        BY <1>0, <4>1 DEF Fingerprint, ReadRecord, OverlayPristine, CannotVerify, Finish, Jobs
      <4>2. CASE VisibleExit(p) \/ RunPristine(p)
        BY <1>0, <4>2 DEF VisibleExit, RunPristine, Jobs
      <4>3. ASSUME NEW next, NEW verdict, Finish(p, next, verdict)
            PROVE  <3>3!:
        BY <1>0, <4>3 DEF Finish, Jobs
      <4>4. CASE VisibleBudget(p) \/ StageFailed(p) \/ Recheck(p) \/ Adjudicate(p)
        BY <4>3, <4>4 DEF VisibleBudget, StageFailed, Recheck, Adjudicate, CannotVerify
      <4>5. CASE \/ RecordVerification(p) \/ RecordFails(p) \/ StoreReceipt(p) \/ Invalidate(p)
                 \/ RemoveRecord(p) \/ RemoveStoredReceipt(p) \/ Throws(p)
        BY <4>5 DEF RecordVerification, RecordFails, StoreReceipt, Invalidate, RemoveRecord,
             RemoveStoredReceipt, Throws
      <4> QED
        BY <2>4, <4>1, <4>2, <4>4, <4>5 DEF Step
    <3> QED
      BY <3>1, <3>2, <3>3 DEF Governed, GovernedBy
  <2>5. CASE CannotVerify(p)
    <3>1. pc'[p] = "end"
      BY <1>0, <2>5 DEF CannotVerify, Finish
    <3> QED
      BY <3>1 DEF Governed, AfterAnchor, Adjudicated
  <2> QED
    BY <2>1, <2>2, <2>3, <2>4, <2>5
<1> QED
  BY <1>1, <1>2

\* The candidate does not choose the rules it is judged by: with --base, the
\* suite command that ran is a trusted commit's, whatever the working tree, HEAD
\* and the trusted ref became meanwhile.  (verify.ts, "POLICY PROVENANCE")
THEOREM TheBaseGoverns == Spec => []BaseGoverns
<1>1. Init => GInv
  BY InitTInv DEF GInv, Init, Governed, AfterAnchor, Adjudicated, Blank
<1>2. GInv /\ [Next]_vars => GInv'
  <2> SUFFICES ASSUME GInv, [Next]_vars
               PROVE  GInv'
    OBVIOUS
  <2>1. TInv'
    BY TInvStep DEF GInv
  <2>2. ASSUME NEW p \in Proc, Step(p) \/ Throws(p) \/ Crash(p)
        PROVE  \A q \in Proc : Governed(q)'
    BY <2>2, StepGoverned
  <2>3. ASSUME NEW p \in Proc, NEW e \in Explicit, NEW q \in Proc, BeginVerifying(p, e)
        PROVE  Governed(q)'
    <3>1. pc' = [pc EXCEPT ![p] = "policy"] /\ (q # p => job'[q] = job[q])
      BY <2>3 DEF BeginVerifying, Goto, GInv, TInv, TypeOK
    <3> QED
      BY <3>1 DEF GInv, TInv, TypeOK, Governed, GovernedBy, AfterAnchor, Adjudicated
  <2>4. ASSUME NEW q \in Proc, Environment
        PROVE  Governed(q)'
    <3>1. /\ pc' = pc /\ job'[q].explicit = job[q].explicit
          /\ job'[q].policy = job[q].policy /\ job'[q].base = job[q].base
      <4>1. CASE Edit \/ MoveHead \/ MoveMain \/ InstallDeps \/ Rewire
        BY <4>1 DEF Edit, MoveHead, MoveMain, InstallDeps, Rewire
      <4>2. ASSUME NEW p \in Proc, TouchCopy(p)
            PROVE  <3>1!:
        BY <4>2 DEF TouchCopy, GInv, TInv, TypeOK, Jobs
      <4> QED
        BY <2>4, <4>1, <4>2 DEF Environment
    <3> QED
      BY <3>1 DEF GInv, Governed, GovernedBy
  <2>5. CASE UNCHANGED vars
    <3>1. pc' = pc /\ job' = job
      BY <2>5 DEF vars
    <3> QED
      BY <2>1, <3>1 DEF GInv, Governed, GovernedBy
  <2> QED
    BY <2>1, <2>2, <2>3, <2>4, <2>5 DEF Next, GInv
<1>3. GInv => BaseGoverns
  BY DEF GInv, Governed, GovernedBy, BaseGoverns, AfterAnchor
<1> QED
  BY <1>1, <1>2, <1>3, PTL DEF Spec

(***************************************************************************)
(* A disproved record does not stand.                                      *)
(***************************************************************************)
DInv == TInv /\ DisprovedGone

\* A record's binding is never the partial one of a policy that does not load.
LEMMA LiveDiffers ==
    ASSUME TypeOK, record # None, ~Current(record), NEW e \in BOOLEAN
    PROVE  ~(record.explicit = e /\ record.binding = LiveBinding(e))
<1>1. record \in Records /\ record.binding.policy # NoPolicy
  BY VerificationAssumption DEF TypeOK, Records, Bindings
<1>2. LiveBinding(e).policy = EffectivePolicy(e)
  BY DEF LiveBinding, ComputeBinding
<1> QED
  BY <1>1, <1>2 DEF Current, Evaluable

\* When a suite went red on the state a record binds, that record is gone
\* before the run ends: status will not report CURRENT for it again.
\* (invalidateVerificationRecordIfCurrent)
THEOREM DisprovedIsGone == Spec => []DisprovedGone
<1>1. Init => DInv
  BY InitTInv DEF DInv, DisprovedGone, Init
<1>2. DInv /\ [Next]_vars => DInv'
  <2> SUFFICES ASSUME DInv, [Next]_vars
               PROVE  DisprovedGone'
    BY TInvStep DEF DInv
  <2> USE DEF DInv, TInv, DisprovedGone, world, store, bounds, history
  <2>1. ASSUME NEW p \in Proc, RecordVerification(p)
        PROVE  DisprovedGone'
    BY <2>1 DEF RecordVerification
  <2>2. ASSUME NEW p \in Proc, VisibleBudget(p)
        PROVE  DisprovedGone'
    BY <2>2 DEF VisibleBudget
  <2>3. ASSUME NEW p \in Proc, Invalidate(p)
        PROVE  DisprovedGone'
    BY <2>3, LiveDiffers DEF Invalidate, Disproves
  <2>4. ASSUME NEW p \in Proc, RemoveRecord(p)
        PROVE  DisprovedGone'
    BY <2>4 DEF RemoveRecord
  <2>5. CASE record' = record /\ disproved' = disproved
    BY <2>5
  <2>6. ASSUME NEW p \in Proc,
               \/ LoadPolicy(p) \/ Anchor(p) \/ Fingerprint(p) \/ VisibleExit(p)
               \/ StageFailed(p) \/ Recheck(p) \/ OverlayPristine(p) \/ RunPristine(p)
               \/ Adjudicate(p) \/ RecordFails(p) \/ ReadRecord(p) \/ StoreReceipt(p)
               \/ RemoveStoredReceipt(p) \/ EndVerifying(p) \/ Throws(p) \/ Crash(p)
        PROVE  record' = record /\ disproved' = disproved
    BY <2>6 DEF LoadPolicy, Anchor, Fingerprint, VisibleExit, StageFailed, Recheck,
         OverlayPristine, RunPristine, Adjudicate, RecordFails, ReadRecord, StoreReceipt,
         RemoveStoredReceipt, EndVerifying, Throws, Crash, CannotVerify
  <2>7. ASSUME NEW p \in Proc, NEW e \in Explicit, BeginVerifying(p, e)
        PROVE  record' = record /\ disproved' = disproved
    BY <2>7 DEF BeginVerifying
  <2>8. ASSUME Environment
        PROVE  record' = record /\ disproved' = disproved
    BY <2>8 DEF Environment, Edit, MoveHead, MoveMain, InstallDeps, Rewire, TouchCopy
  <2>9. ASSUME UNCHANGED vars
        PROVE  record' = record /\ disproved' = disproved
    BY <2>9 DEF vars
  <2> HIDE DEF DisprovedGone
  <2> QED
    BY <2>1, <2>2, <2>3, <2>4, <2>5, <2>6, <2>7, <2>8, <2>9 DEF Next, Step
<1>3. DInv => DisprovedGone
  BY DEF DInv
<1> QED
  BY <1>1, <1>2, <1>3, PTL DEF Spec

(***************************************************************************)
(* The evidence: what is bound, and by whom it was found VERIFIED.         *)
(***************************************************************************)
Judged(p) == [tree |-> job[p].tree, head |-> job[p].head, base |-> job[p].base,
              policy |-> job[p].policy, deps |-> job[p].deps]

\* Nothing is about to be written, or written, that no run found VERIFIED.
Vouched(p) ==
    /\ pc[p] = "record" => Judged(p) \in vouched
    /\ pc[p] = "storeReceipt" => \E v \in vouched : v.tree = job[p].read.binding.tree

\* A marker is its living writer's.
Owned(p) == marker = p => job[p].marked /\ pc[p] # "idle"

EInv == TInv /\ EvidenceVouched /\ \A p \in Proc : Vouched(p) /\ Owned(p)

\* What a step of p does to its own place, the store and the history.
StepShape(p) ==
    /\ pc' = [pc EXCEPT ![p] = pc'[p]] /\ job' = [job EXCEPT ![p] = job'[p]]
    /\ vouched \subseteq vouched'

\* A step of one process is its own.
LEMMA StepsAlone ==
    ASSUME TInv, NEW p \in Proc, Step(p) \/ Throws(p) \/ Crash(p)
    PROVE  StepShape(p)
<1> USE DEF StepShape, history, Goto
<1>1. pc \in [Proc -> PcStates] /\ job \in [Proc -> Jobs] BY DEF TInv, TypeOK
<1>2. pc' = [pc EXCEPT ![p] = pc'[p]]
  BY <1>1 DEF Step, LoadPolicy, Anchor, Fingerprint, VisibleExit, VisibleBudget,
     StageFailed, Recheck, OverlayPristine, RunPristine, Adjudicate, RecordVerification,
     RecordFails, ReadRecord, StoreReceipt, Invalidate, RemoveRecord,
     RemoveStoredReceipt, EndVerifying, Throws, Crash, CannotVerify, Finish
<1>4. job' = [job EXCEPT ![p] = job'[p]]
  BY <1>1 DEF Step, LoadPolicy, Anchor, Fingerprint, VisibleExit, VisibleBudget,
     StageFailed, Recheck, OverlayPristine, RunPristine, Adjudicate, RecordVerification,
     RecordFails, ReadRecord, StoreReceipt, Invalidate, RemoveRecord,
     RemoveStoredReceipt, EndVerifying, Throws, Crash, CannotVerify, Finish
<1>5. vouched \subseteq vouched'
  BY DEF Step, LoadPolicy, Anchor, Fingerprint, VisibleExit, VisibleBudget,
     StageFailed, Recheck, OverlayPristine, RunPristine, Adjudicate, RecordVerification,
     RecordFails, ReadRecord, StoreReceipt, Invalidate, RemoveRecord,
     RemoveStoredReceipt, EndVerifying, Throws, Crash, CannotVerify
<1>6. QED BY <1>2, <1>4, <1>5

\* What the world moves leaves the processes' places and the store alone.
LEMMA WorldShape ==
    ASSUME TInv, Environment
    PROVE  /\ UNCHANGED <<store, pc, vouched>>
           /\ \A p \in Proc : /\ job'[p].marked = job[p].marked /\ job'[p].read = job[p].read
                              /\ Judged(p)' = Judged(p) /\ job'[p].explicit = job[p].explicit
<1>1. job \in [Proc -> Jobs] BY DEF TInv, TypeOK
<1>2. CASE Edit \/ MoveHead \/ MoveMain \/ InstallDeps \/ Rewire
  BY <1>2 DEF Edit, MoveHead, MoveMain, InstallDeps, Rewire, store, history, Judged
<1>3. ASSUME NEW p \in Proc, TouchCopy(p)
      PROVE  /\ UNCHANGED <<store, pc, vouched>>
             /\ \A q \in Proc : /\ job'[q].marked = job[q].marked /\ job'[q].read = job[q].read
                                /\ Judged(q)' = Judged(q) /\ job'[q].explicit = job[q].explicit
  <2>1. UNCHANGED <<store, pc, vouched>> BY <1>3 DEF TouchCopy, store
  <2>2. PICK t : job' = [job EXCEPT ![p].copy.tests = t] BY <1>3 DEF TouchCopy
  <2>3. \A q \in Proc : \A f \in {"marked", "read", "tree", "head", "base", "policy", "deps", "explicit"} :
           job'[q][f] = job[q][f]
    BY <1>1, <2>2 DEF Jobs
  <2>4. \A q \in Proc : /\ job'[q].marked = job[q].marked /\ job'[q].read = job[q].read
                        /\ job'[q].tree = job[q].tree /\ job'[q].head = job[q].head
                        /\ job'[q].base = job[q].base /\ job'[q].policy = job[q].policy
                        /\ job'[q].deps = job[q].deps /\ job'[q].explicit = job[q].explicit
    BY <2>3
  <2>5. QED BY <2>1, <2>4 DEF Judged
<1>4. QED BY <1>2, <1>3 DEF Environment

\* Only adjudication comes to the record, and only with what it vouches for.
LEMMA StepVouched ==
    ASSUME EInv, NEW p \in Proc, Step(p) \/ Throws(p) \/ Crash(p)
    PROVE  Vouched(p)' /\ EvidenceVouched'
<1> USE DEF EInv
<1>1. StepShape(p) BY StepsAlone
<1>2. pc \in [Proc -> PcStates] /\ job \in [Proc -> Jobs] /\ job[p] \in Jobs BY DEF TInv, TypeOK
<1>3. CASE Adjudicate(p) /\ ~CannotVerify(p)
  <2>1. /\ job' = [job EXCEPT ![p].verdict = VerdictOf(job[p].visible, job[p].pristine)]
        /\ pc'[p] = Outcome(VerdictOf(job[p].visible, job[p].pristine))
        /\ record' = record /\ receipt' = receipt
    BY <1>2, <1>3 DEF Adjudicate, Finish, store
  <2>2. Judged(p)' = Judged(p) BY <1>2, <2>1 DEF Judged, Jobs
  <2>3. pc'[p] = "record" => VerdictOf(job[p].visible, job[p].pristine) = "VERIFIED" BY <2>1 DEF Outcome
  <2>4. pc'[p] = "record" => Judged(p) \in vouched' BY <1>3, <2>3 DEF Adjudicate, Judged
  <2>5. pc'[p] # "storeReceipt" BY <2>1 DEF Outcome
  <2>6. Vouched(p)' BY <2>2, <2>4, <2>5 DEF Vouched
  <2>7. QED BY <1>1, <2>1, <2>6 DEF StepShape, EvidenceVouched
<1>4. CASE RecordVerification(p)
  <2>1. record'.binding = ComputeBinding(job[p].explicit, job[p].tree) /\ receipt' = receipt
    BY <1>4 DEF RecordVerification
  <2>2. record'.binding.tree = job[p].tree BY <2>1 DEF ComputeBinding
  <2>3. Judged(p) \in vouched /\ Judged(p).tree = job[p].tree
    BY <1>4 DEF RecordVerification, Vouched, Judged
  <2>4. pc'[p] = "readRecord" BY <1>2, <1>4 DEF RecordVerification, Goto
  <2>5. EvidenceVouched' BY <1>1, <2>1, <2>2, <2>3 DEF StepShape, EvidenceVouched
  <2>6. QED BY <2>4, <2>5 DEF Vouched
<1>5. CASE ReadRecord(p)
  <2>1. /\ job' = [job EXCEPT ![p].read = record] /\ UNCHANGED <<record, receipt, vouched>>
        /\ pc'[p] = IF record = None THEN "end" ELSE "storeReceipt"
    BY <1>2, <1>5 DEF ReadRecord, Goto, store, history
  <2>2. job'[p].read = record BY <1>2, <2>1 DEF Jobs
  <2>3. QED BY <2>1, <2>2 DEF Vouched, EvidenceVouched
<1>6. CASE StoreReceipt(p)
  <2>1. pc[p] = "storeReceipt" /\ record' = record /\ pc'[p] = "end"
    BY <1>2, <1>6 DEF StoreReceipt, Goto
  <2>2. receipt' = receipt \/ receipt' = job[p].read.binding BY <1>6 DEF StoreReceipt
  <2>3. EvidenceVouched' BY <1>1, <2>1, <2>2 DEF StepShape, EvidenceVouched, Vouched
  <2>4. QED BY <2>1, <2>3 DEF Vouched
<1>7. CASE RemoveRecord(p) \/ RemoveStoredReceipt(p)
  <2>1. /\ (record' = record \/ record' = None) /\ (receipt' = receipt \/ receipt' = None)
        /\ pc'[p] \in {"removeReceipt", "end"}
    BY <1>2, <1>7 DEF RemoveRecord, RemoveStoredReceipt, Goto
  <2>2. QED BY <1>1, <2>1 DEF StepShape, EvidenceVouched, Vouched
<1>8. CASE \/ CannotVerify(p) \/ LoadPolicy(p) \/ Anchor(p) \/ Fingerprint(p)
           \/ VisibleExit(p) \/ VisibleBudget(p) \/ StageFailed(p) \/ Recheck(p)
           \/ OverlayPristine(p) \/ RunPristine(p) \/ RecordFails(p) \/ Invalidate(p)
           \/ EndVerifying(p) \/ Throws(p) \/ Crash(p)
  <2>1. /\ record' = record /\ receipt' = receipt /\ pc'[p] \notin {"record", "storeReceipt"}
    BY <1>2, <1>8 DEF LoadPolicy, Anchor, Fingerprint, VisibleExit, VisibleBudget,
       StageFailed, Recheck, OverlayPristine, RunPristine, RecordFails, Invalidate, EndVerifying,
       Throws, Crash, CannotVerify, Finish, Goto, store
  <2>2. QED BY <1>1, <2>1 DEF StepShape, EvidenceVouched, Vouched
<1>9. QED BY <1>3, <1>4, <1>5, <1>6, <1>7, <1>8 DEF Step

\* A marker goes with the process that wrote it.
LEMMA StepOwned ==
    ASSUME EInv, NEW p \in Proc, Step(p) \/ Throws(p) \/ Crash(p)
    PROVE  \A q \in Proc : Owned(q)'
<1> USE DEF EInv
<1>1. StepShape(p) BY StepsAlone
<1>2. pc \in [Proc -> PcStates] /\ job \in [Proc -> Jobs] /\ job[p] \in Jobs BY DEF TInv, TypeOK
<1>3. \A q \in Proc \ {p} : pc'[q] = pc[q] /\ job'[q] = job[q] BY <1>1, <1>2 DEF StepShape
<1>4. CASE EndVerifying(p)
  <2>1. marker' = IF job[p].marked THEN None ELSE marker BY <1>4 DEF EndVerifying
  <2>2. marker' # p BY <2>1, VerificationAssumption DEF Owned
  <2>3. \A q \in Proc \ {p} : marker' = q => marker = q BY <2>1, VerificationAssumption
  <2>4. QED BY <1>3, <2>2, <2>3 DEF Owned
<1>5. CASE Crash(p)
  <2>1. marker' = IF marker = p THEN Gone ELSE marker BY <1>5 DEF Crash
  <2>2. marker' # p /\ \A q \in Proc \ {p} : marker' = q => marker = q BY <2>1, VerificationAssumption
  <2>3. QED BY <1>3, <2>2 DEF Owned
<1>6. CASE \/ LoadPolicy(p) \/ Anchor(p) \/ Fingerprint(p)
           \/ VisibleExit(p) \/ VisibleBudget(p) \/ StageFailed(p) \/ Recheck(p)
           \/ OverlayPristine(p) \/ RunPristine(p) \/ Adjudicate(p)
           \/ RecordVerification(p) \/ RecordFails(p) \/ ReadRecord(p) \/ StoreReceipt(p)
           \/ Invalidate(p) \/ RemoveRecord(p) \/ RemoveStoredReceipt(p) \/ Throws(p)
  <2>1. marker' = marker /\ pc'[p] # "idle"
    BY <1>2, <1>6 DEF LoadPolicy, Anchor, Fingerprint, VisibleExit, VisibleBudget,
     StageFailed, Recheck, OverlayPristine, RunPristine, Adjudicate, RecordVerification,
     RecordFails, ReadRecord, StoreReceipt, Invalidate, RemoveRecord,
     RemoveStoredReceipt, Throws, CannotVerify, Finish, Goto, Outcome, store
  <2>2. job'[p].marked = job[p].marked
    BY <1>2, <1>6 DEF LoadPolicy, Anchor, Fingerprint, VisibleExit, VisibleBudget,
     StageFailed, Recheck, OverlayPristine, RunPristine, Adjudicate, RecordVerification,
     RecordFails, ReadRecord, StoreReceipt, Invalidate, RemoveRecord,
     RemoveStoredReceipt, Throws, CannotVerify, Finish, Jobs
  <2>3. QED BY <1>3, <2>1, <2>2 DEF Owned
<1>7. QED BY <1>4, <1>5, <1>6 DEF Step

\* Every step keeps the evidence and the marker.
LEMMA EvidenceKeeps == EInv /\ [Next]_vars => EInv'
<1> SUFFICES ASSUME EInv, [Next]_vars PROVE EInv'
  OBVIOUS
<1> USE DEF EInv
<1>0. TInv' BY TInvStep
<1>1. ASSUME NEW p \in Proc, Step(p) \/ Throws(p) \/ Crash(p) PROVE EInv'
  <2>1. StepShape(p) /\ Vouched(p)' /\ EvidenceVouched' /\ \A q \in Proc : Owned(q)'
    BY <1>1, StepsAlone, StepVouched, StepOwned
  <2>2. \A q \in Proc \ {p} : pc'[q] = pc[q] /\ job'[q] = job[q]
    BY <2>1 DEF StepShape, TInv, TypeOK
  <2>3. \A q \in Proc \ {p} : Vouched(q)' BY <2>1, <2>2 DEF Vouched, Judged, StepShape
  <2>4. QED BY <1>0, <2>1, <2>3
<1>2. ASSUME NEW p \in Proc, NEW e \in Explicit, BeginVerifying(p, e) PROVE EInv'
  <2>1. pc \in [Proc -> PcStates] /\ job \in [Proc -> Jobs] BY DEF TInv, TypeOK
  <2>2. pc' = [pc EXCEPT ![p] = "policy"] /\ UNCHANGED <<record, receipt, vouched>>
    BY <1>2 DEF BeginVerifying, Goto
  <2>3. \A q \in Proc \ {p} : pc'[q] = pc[q] /\ job'[q] = job[q]
    BY <1>2, <2>1, <2>2 DEF BeginVerifying
  <2>4. pc[p] = "idle" /\ pc'[p] = "policy" BY <1>2, <2>1, <2>2 DEF BeginVerifying
  <2>5. (marker' = p /\ job'[p].marked) \/ marker' = marker
    BY <1>2, <2>1 DEF BeginVerifying, Blank
  <2>6. \A q \in Proc : Owned(q)' BY <2>3, <2>4, <2>5 DEF Owned
  <2>7. \A q \in Proc : Vouched(q)' BY <2>2, <2>3, <2>4 DEF Vouched, Judged
  <2>8. QED BY <1>0, <2>2, <2>6, <2>7 DEF EvidenceVouched
<1>3. CASE Environment
  <2>1. \A p \in Proc : Vouched(p)' /\ Owned(p)' BY <1>3, WorldShape DEF Vouched, Owned, store
  <2>2. EvidenceVouched' BY <1>3, WorldShape DEF EvidenceVouched, store
  <2>3. QED BY <1>0, <2>1, <2>2
<1>4. CASE UNCHANGED vars
  <2>1. \A p \in Proc : Vouched(p)' /\ Owned(p)'
    BY <1>4 DEF vars, store, history, Vouched, Owned, Judged
  <2>2. QED BY <1>0, <1>4, <2>1 DEF vars, store, history, EvidenceVouched
<1>5. QED BY <1>1, <1>2, <1>3, <1>4 DEF Next

\* Evidence and marker, for every process, fault and interleaving.
LEMMA EvidenceHolds == Spec => []EInv
<1>1. Init => EInv
  BY InitTInv, VerificationAssumption DEF Init, EInv, EvidenceVouched, Vouched, Owned
<1>2. QED BY <1>1, EvidenceKeeps, PTL DEF Spec

\* Whatever crashes, throws or fails to be written, and however many verifies interleave, the
\* store names no tree that no run found VERIFIED, and a marker is believed only while the
\* process that wrote it lives.  (recordVerification, storeReceipt, beginVerifying)
THEOREM CrashLeavesNothingBehind == Spec => []CrashLeavesNothing
<1>1. EInv => CrashLeavesNothing
  BY DEF EInv, CrashLeavesNothing, NeverStuck, Owned
<1>2. QED BY <1>1, EvidenceHolds, PTL


(***************************************************************************)
(* CURRENT, when HEAD, the base and the dependencies stand still under a   *)
(* verify against --base.                                                  *)
(***************************************************************************)
StillUnderVerify == {"head", "main", "deps"} \intersect MidRun = {} /\ FALSE \notin Explicit

\* What a run has noted is what is live.
NotesLive(p) ==
    /\ pc[p] # "idle" => job[p].explicit
    /\ pc[p] \in {"anchor"} \union AfterAnchor =>
          job[p].policy = EffectivePolicy(TRUE) /\ job[p].deps = deps
    /\ pc[p] \in AfterAnchor => job[p].base = ResolveBase(TRUE) /\ job[p].head = head

Bound(b) == [tree |-> b.tree, head |-> b.head, base |-> b.base, policy |-> b.policy, deps |-> b.deps]
RecordJudged == record # None => record.explicit /\ Bound(record.binding) \in vouched

CInv == EInv /\ RecordJudged /\ \A p \in Proc : NotesLive(p)

\* Nothing that a binding reads moves while a verify is in flight.
LEMMA EnvironmentStill ==
    ASSUME StillUnderVerify, CInv, Environment
    PROVE  CInv'
<1> USE DEF CInv
<1>1. EInv' BY EvidenceKeeps DEF Next
<1>2. RecordJudged' BY WorldShape DEF EInv, RecordJudged, store
<1>3. \A p \in Proc : /\ pc'[p] = pc[p] /\ Judged(p)' = Judged(p) /\ job'[p].explicit = job[p].explicit
  BY WorldShape DEF EInv
<1>4. \A p \in Proc : /\ job'[p].base = job[p].base /\ job'[p].head = job[p].head
                      /\ job'[p].policy = job[p].policy /\ job'[p].deps = job[p].deps
  <2> SUFFICES ASSUME NEW p \in Proc PROVE <1>4!(p)
    OBVIOUS
  <2>1. Judged(p)' = Judged(p) BY <1>3
  <2>2. /\ Judged(p)'.base = Judged(p).base /\ Judged(p)'.head = Judged(p).head
        /\ Judged(p)'.policy = Judged(p).policy /\ Judged(p)'.deps = Judged(p).deps
    BY <2>1
  <2>3. QED BY <2>2 DEF Judged
<1>5. CASE Quiet
  <2>1. \A p \in Proc : pc'[p] = "idle" BY <1>3, <1>5 DEF Quiet
  <2>2. \A p \in Proc : NotesLive(p)' BY <2>1 DEF NotesLive, AfterAnchor, Adjudicated
  <2>3. QED BY <1>1, <1>2, <2>2
<1>6. CASE ~Quiet
  <2>1. UNCHANGED <<head, main, deps>>
    BY <1>6 DEF StillUnderVerify, Environment, Edit, MoveHead, MoveMain, InstallDeps, Rewire, TouchCopy, MayMove, world
  <2>2. ResolveBase(TRUE)' = ResolveBase(TRUE) /\ EffectivePolicy(TRUE)' = EffectivePolicy(TRUE)
    BY <2>1 DEF ResolveBase, EffectivePolicy
  <2>3. \A p \in Proc : NotesLive(p)' BY <1>3, <1>4, <2>1, <2>2 DEF NotesLive
  <2>4. QED BY <1>1, <1>2, <2>3
<1>7. QED BY <1>1, <1>2, <1>5, <1>6

\* What a run notes it reads from what is live, and keeps.
LEMMA StepNotesLive ==
    ASSUME StillUnderVerify, CInv, NEW p \in Proc, Step(p) \/ Throws(p) \/ Crash(p)
    PROVE  \A q \in Proc : NotesLive(q)'
<1> USE DEF CInv, EInv
<1>1. StepShape(p) BY StepsAlone
<1>2. pc \in [Proc -> PcStates] /\ job \in [Proc -> Jobs] /\ job[p] \in Jobs BY DEF TInv, TypeOK
<1>3. \A q \in Proc \ {p} : pc'[q] = pc[q] /\ job'[q] = job[q] BY <1>1, <1>2 DEF StepShape
<1>4. UNCHANGED world
  BY DEF Step, LoadPolicy, Anchor, Fingerprint, VisibleExit, VisibleBudget,
     StageFailed, Recheck, OverlayPristine, RunPristine, Adjudicate, RecordVerification,
     RecordFails, ReadRecord, StoreReceipt, Invalidate, RemoveRecord,
     RemoveStoredReceipt, EndVerifying, Throws, Crash, CannotVerify
<1>5. ResolveBase(TRUE)' = ResolveBase(TRUE) /\ EffectivePolicy(TRUE)' = EffectivePolicy(TRUE)
      /\ head' = head /\ deps' = deps
  BY <1>4 DEF ResolveBase, EffectivePolicy, world
<1>6. \A q \in Proc \ {p} : NotesLive(q)' BY <1>3, <1>5 DEF NotesLive
<1>7. CASE EndVerifying(p) \/ Crash(p)
  <2>1. pc'[p] = "idle" BY <1>2, <1>7 DEF EndVerifying, Crash, Goto
  <2>2. QED BY <1>6, <2>1 DEF NotesLive, AfterAnchor, Adjudicated
<1>8. CASE CannotVerify(p) \/ VisibleBudget(p) \/ Throws(p) \/ RecordFails(p) \/ StoreReceipt(p)
           \/ RemoveStoredReceipt(p)
  <2>0. pc[p] # "idle"
    BY DEF Step, LoadPolicy, Anchor, Fingerprint, VisibleExit, VisibleBudget,
       StageFailed, Recheck, OverlayPristine, RunPristine, Adjudicate, RecordVerification,
       RecordFails, ReadRecord, StoreReceipt, Invalidate, RemoveRecord,
       RemoveStoredReceipt, EndVerifying, Throws, Crash
  <2>1. pc[p] # "idle" /\ pc'[p] = "end" /\ job'[p].explicit = job[p].explicit
    BY <1>2, <1>8, <2>0 DEF CannotVerify, VisibleBudget, Finish, Throws, RecordFails, StoreReceipt,
       RemoveStoredReceipt, Goto, Jobs
  <2>2. QED BY <1>6, <2>1 DEF NotesLive, AfterAnchor, Adjudicated
<1>9. CASE LoadPolicy(p) /\ ~CannotVerify(p)
  <2>1. /\ pc[p] # "idle" /\ pc'[p] = "anchor"
        /\ job' = [job EXCEPT ![p] = [@ EXCEPT !.policy = EffectivePolicy(job[p].explicit), !.deps = deps]]
    BY <1>2, <1>9 DEF LoadPolicy, Goto
  <2>2. /\ job'[p].policy = EffectivePolicy(job[p].explicit) /\ job'[p].deps = deps
        /\ job'[p].explicit = job[p].explicit
    BY <1>2, <2>1 DEF Jobs
  <2>3. job[p].explicit = TRUE BY <1>2, <2>1 DEF NotesLive, Jobs
  <2>4. QED BY <1>5, <1>6, <2>1, <2>2, <2>3 DEF NotesLive, AfterAnchor, Adjudicated
<1>10. CASE Anchor(p)
  <2>1. /\ pc[p] = "anchor" /\ pc'[p] = "fingerprint"
        /\ job' = [job EXCEPT ![p] = [@ EXCEPT !.base = ResolveBase(job[p].explicit), !.head = head]]
    BY <1>2, <1>10 DEF Anchor, Goto
  <2>2. /\ job'[p].base = ResolveBase(job[p].explicit) /\ job'[p].head = head
        /\ job'[p].explicit = job[p].explicit /\ job'[p].policy = job[p].policy /\ job'[p].deps = job[p].deps
    BY <1>2, <2>1 DEF Jobs
  <2>3. job[p].explicit = TRUE BY <1>2, <2>1 DEF NotesLive, Jobs
  <2>4. QED BY <1>5, <1>6, <2>1, <2>2, <2>3 DEF NotesLive, AfterAnchor, Adjudicated
<1>11. CASE /\ ~CannotVerify(p)
            /\ \/ Fingerprint(p) \/ VisibleExit(p) \/ Recheck(p) \/ OverlayPristine(p)
               \/ RunPristine(p) \/ Adjudicate(p) \/ RecordVerification(p) \/ ReadRecord(p)
               \/ Invalidate(p) \/ RemoveRecord(p)
  <2>1. pc[p] \in AfterAnchor
    BY <1>11 DEF Fingerprint, VisibleExit, Recheck, OverlayPristine, RunPristine, Adjudicate, RecordVerification,
       ReadRecord, Invalidate, RemoveRecord, AfterAnchor, Adjudicated
  <2>2. /\ job'[p].explicit = job[p].explicit /\ job'[p].policy = job[p].policy /\ job'[p].deps = job[p].deps
        /\ job'[p].base = job[p].base /\ job'[p].head = job[p].head
    <3>1. CASE VisibleExit(p) \/ OverlayPristine(p) \/ RunPristine(p) \/ ReadRecord(p)
      BY <1>2, <3>1 DEF VisibleExit, OverlayPristine, RunPristine, ReadRecord, Jobs
    <3>2. CASE Recheck(p) \/ RecordVerification(p) \/ Invalidate(p) \/ RemoveRecord(p)
      BY <1>11, <3>2 DEF Recheck, RecordVerification, Invalidate, RemoveRecord
    <3>3. CASE Fingerprint(p) BY <1>2, <1>11, <3>3 DEF Fingerprint, Jobs
    <3>4. CASE Adjudicate(p) BY <1>2, <1>11, <3>4 DEF Adjudicate, Finish, Jobs
    <3>5. QED BY <1>11, <3>1, <3>2, <3>3, <3>4
  <2>3. pc[p] # "idle" BY <2>1 DEF AfterAnchor, Adjudicated
  <2>4. QED BY <1>5, <1>6, <2>1, <2>2, <2>3 DEF NotesLive
<1>12. CASE StageFailed(p) BY <1>8, <1>12 DEF StageFailed
<1>13. QED BY <1>7, <1>8, <1>9, <1>10, <1>11, <1>12 DEF Step

\* The record binds what was judged, because nothing it reads again has moved.
LEMMA StepRecordJudged ==
    ASSUME StillUnderVerify, CInv, NEW p \in Proc, Step(p) \/ Throws(p) \/ Crash(p)
    PROVE  RecordJudged'
<1> USE DEF CInv, EInv
<1>1. StepShape(p) BY StepsAlone
<1>2. CASE RecordVerification(p)
  <2>1. job[p].explicit \in BOOLEAN BY DEF TInv, TypeOK, Jobs
  <2>2. job[p].explicit = TRUE BY <1>2, <2>1 DEF RecordVerification, NotesLive
  <2>3. record' = [explicit |-> TRUE, binding |-> ComputeBinding(TRUE, job[p].tree)]
    BY <1>2, <2>2 DEF RecordVerification
  <2>4. /\ job[p].policy = EffectivePolicy(TRUE) /\ job[p].deps = deps
        /\ job[p].base = ResolveBase(TRUE) /\ job[p].head = head
    BY <1>2 DEF RecordVerification, NotesLive, AfterAnchor, Adjudicated
  <2>5. Bound(ComputeBinding(TRUE, job[p].tree)) = Judged(p)
    BY <2>4 DEF Bound, ComputeBinding, Judged
  <2>6. Judged(p) \in vouched' BY <1>1, <1>2 DEF RecordVerification, Vouched, StepShape
  <2>7. QED BY <2>3, <2>5, <2>6 DEF RecordJudged
<1>3. CASE record' = record \/ record' = None BY <1>1, <1>3 DEF RecordJudged, StepShape
<1>4. QED BY <1>2, <1>3 DEF Step, LoadPolicy, Anchor, Fingerprint, VisibleExit, VisibleBudget,
     StageFailed, Recheck, OverlayPristine, RunPristine, Adjudicate,
     RecordFails, ReadRecord, StoreReceipt, Invalidate, RemoveRecord,
     RemoveStoredReceipt, EndVerifying, Throws, Crash, CannotVerify, store

\* Every step keeps the record that of a judged state.
LEMMA CurrentKeeps == StillUnderVerify /\ CInv /\ [Next]_vars => CInv'
<1> SUFFICES ASSUME StillUnderVerify, CInv, [Next]_vars PROVE CInv'
  OBVIOUS
<1> USE DEF CInv
<1>0. EInv' BY EvidenceKeeps
<1>1. ASSUME NEW p \in Proc, Step(p) \/ Throws(p) \/ Crash(p) PROVE CInv'
  BY <1>0, <1>1, StepNotesLive, StepRecordJudged
<1>2. ASSUME NEW p \in Proc, NEW e \in Explicit, BeginVerifying(p, e) PROVE CInv'
  <2>1. pc \in [Proc -> PcStates] /\ job \in [Proc -> Jobs] BY DEF EInv, TInv, TypeOK
  <2>2. /\ pc' = [pc EXCEPT ![p] = "policy"] /\ UNCHANGED <<record, vouched, head, main, deps>>
    BY <1>2 DEF BeginVerifying, Goto, world
  <2>3. \A q \in Proc \ {p} : pc'[q] = pc[q] /\ job'[q] = job[q]
    BY <1>2, <2>1, <2>2 DEF BeginVerifying
  <2>4. e = TRUE BY VerificationAssumption DEF StillUnderVerify
  <2>5. pc'[p] = "policy" /\ job'[p].explicit BY <1>2, <2>1, <2>2, <2>4 DEF BeginVerifying, Blank
  <2>6. ResolveBase(TRUE)' = ResolveBase(TRUE) /\ EffectivePolicy(TRUE)' = EffectivePolicy(TRUE)
    BY <2>2 DEF ResolveBase, EffectivePolicy
  <2>7. \A q \in Proc \ {p} : NotesLive(q)' BY <2>2, <2>3, <2>6 DEF NotesLive
  <2>8. NotesLive(p)' BY <2>5 DEF NotesLive, AfterAnchor, Adjudicated
  <2>9. QED BY <1>0, <2>2, <2>7, <2>8 DEF RecordJudged
<1>3. CASE Environment BY <1>3, EnvironmentStill
<1>4. CASE UNCHANGED vars
  <2>1. UNCHANGED <<record, vouched, pc, job, head, main, deps>> BY <1>4 DEF vars, store, history, world
  <2>2. ResolveBase(TRUE)' = ResolveBase(TRUE) /\ EffectivePolicy(TRUE)' = EffectivePolicy(TRUE)
    BY <2>1 DEF ResolveBase, EffectivePolicy
  <2>3. \A q \in Proc : NotesLive(q)' BY <2>1, <2>2 DEF NotesLive
  <2>4. QED BY <1>0, <2>1, <2>3 DEF RecordJudged
<1>5. QED BY <1>1, <1>2, <1>3, <1>4 DEF Next

\* When HEAD, the base ref and the dependencies stand still under a verify against --base (the
\* run verify_unbound shows what happens when they do not), status says CURRENT only of a state
\* some run judged VERIFIED -- the very tree, HEAD, base, policy and dependencies -- however
\* the tree is edited, whatever crashes, and however many verifies interleave.
\* (recordVerification's live binding, evaluateVerificationState)
THEOREM CurrentIsJudged ==
    ASSUME {"head", "main", "deps"} \intersect MidRun = {}, FALSE \notin Explicit
    PROVE  Spec => []CurrentIsAdjudicated
<1>1. StillUnderVerify BY DEF StillUnderVerify
<1>2. Init => CInv
  <2>1. Init => EInv
    BY InitTInv, VerificationAssumption DEF Init, EInv, EvidenceVouched, Vouched, Owned
  <2>2. QED BY <2>1 DEF Init, CInv, RecordJudged, NotesLive, AfterAnchor, Adjudicated
<1>3. CInv => CurrentIsAdjudicated
  <2> SUFFICES ASSUME CInv, Status = "CURRENT"
               PROVE  \E v \in vouched : \A i \in DOMAIN v : v[i] = LiveBinding(record.explicit)[i]
    BY DEF CurrentIsAdjudicated
  <2>1. record # None /\ record.binding = LiveBinding(record.explicit)
    BY DEF Status, Current
  <2>2. Bound(record.binding) \in vouched BY <2>1 DEF CInv, RecordJudged
  <2>3. \A i \in DOMAIN Bound(record.binding) : Bound(record.binding)[i] = record.binding[i]
    BY DEF Bound
  <2>4. QED BY <2>1, <2>2, <2>3
<1>4. QED BY <1>1, <1>2, <1>3, CurrentKeeps, PTL DEF Spec


(***************************************************************************)
(* One verify at a time: the receipt and the marker.                       *)
(***************************************************************************)
Single == \A p, q \in Proc : pc[p] # "idle" /\ pc[q] # "idle" => p = q

\* What one run leaves between two steps of its own.
Pairing(p) ==
    /\ pc[p] = "idle" => ~job[p].marked
    /\ job[p].marked => marker = p
    /\ pc[p] = "readRecord" => record # None
    /\ pc[p] = "storeReceipt" => record # None /\ job[p].read = record

PInv == EInv /\ Single /\ ReceiptProjectsRecord /\ \A p \in Proc : Pairing(p)
TogetherInv == EInv /\ (~together => PInv) /\ together \in BOOLEAN

\* Of a set with at most one member every two are the same.
LEMMA AtMostOne ==
    ASSUME IsFiniteSet(Proc), NEW R, R \subseteq Proc, Cardinality(R) <= 1
    PROVE  \A p, q \in R : p = q
<1>1. IsFiniteSet(R) BY FS_Subset
<1> SUFFICES ASSUME NEW p \in R, NEW q \in R, p # q PROVE FALSE
  OBVIOUS
<1>2. IsFiniteSet(R \ {p}) /\ Cardinality(R \ {p}) = Cardinality(R) - 1 BY <1>1, FS_RemoveElement
<1>3. Cardinality(R \ {p}) \in Nat /\ Cardinality(R) \in Nat BY <1>1, <1>2, FS_CardinalityType
<1>4. Cardinality(R \ {p}) = 0 BY <1>2, <1>3
<1>5. R \ {p} = {} BY <1>2, <1>4, FS_EmptySet
<1>6. QED BY <1>5

\* The one run that is in flight replaces or removes the pair, and owns the marker.
LEMMA StepPairing ==
    ASSUME {"crash", "receipt"} \intersect Fault = {}, PInv, NEW p \in Proc,
           Step(p) \/ Throws(p) \/ Crash(p)
    PROVE  ReceiptProjectsRecord' /\ \A q \in Proc : Pairing(q)'
<1> USE DEF PInv, EInv
<1>1. StepShape(p) BY StepsAlone
<1>2. pc \in [Proc -> PcStates] /\ job \in [Proc -> Jobs] /\ job[p] \in Jobs BY DEF TInv, TypeOK
<1>3. \A q \in Proc \ {p} : pc'[q] = pc[q] /\ job'[q] = job[q] BY <1>1, <1>2 DEF StepShape
<1>4. pc[p] # "idle"
  BY DEF Step, LoadPolicy, Anchor, Fingerprint, VisibleExit, VisibleBudget,
     StageFailed, Recheck, OverlayPristine, RunPristine, Adjudicate, RecordVerification,
     RecordFails, ReadRecord, StoreReceipt, Invalidate, RemoveRecord,
     RemoveStoredReceipt, EndVerifying, Throws, Crash
<1>5. \A q \in Proc \ {p} : pc[q] = "idle" /\ ~job[q].marked BY <1>4 DEF Single, Pairing
<1>6. \A q \in Proc \ {p} : Pairing(q)' BY <1>3, <1>5 DEF Pairing
<1>7. ~Crash(p) BY DEF Crash, MayFail
<1>8. pc[p] \notin {"readRecord", "storeReceipt", "removeReceipt"} /\ receipt # None =>
          record # None /\ receipt = record.binding
  BY <1>5 DEF ReceiptProjectsRecord
<1>9. CASE EndVerifying(p)
  <2>1. pc'[p] = "idle" /\ ~job'[p].marked /\ UNCHANGED <<record, receipt>> /\ pc[p] = "end"
    BY <1>2, <1>9 DEF EndVerifying, Goto, Blank
  <2>2. Pairing(p)' BY <2>1 DEF Pairing
  <2>3. QED BY <1>6, <1>8, <2>1, <2>2 DEF ReceiptProjectsRecord
<1>10. CASE RecordVerification(p)
  <2>1. pc'[p] = "readRecord" /\ record' # None /\ marker' = marker /\ job' = job
    <3>1. /\ record' = [explicit |-> job[p].explicit, binding |-> ComputeBinding(job[p].explicit, job[p].tree)]
          /\ Evaluable(job[p].explicit) /\ pc'[p] = "readRecord" /\ marker' = marker /\ job' = job
      BY <1>2, <1>10 DEF RecordVerification, Goto
    <3>2. job[p].explicit \in BOOLEAN /\ job[p].tree \in Tree
      BY <1>2, <1>10 DEF RecordVerification, TInv, Noted, AfterFingerprint, AfterAnchor, Adjudicated, Jobs
    <3>3. ComputeBinding(job[p].explicit, job[p].tree) \in Bindings BY <3>1, <3>2, LiveType DEF TInv
    <3>4. record' \in Records BY <3>1, <3>2, <3>3 DEF Records
    <3>5. QED BY <3>1, <3>4, VerificationAssumption
  <2>2. Pairing(p)' BY <1>4, <2>1 DEF Pairing
  <2>3. QED BY <1>6, <2>1, <2>2 DEF ReceiptProjectsRecord
<1>11. CASE ReadRecord(p)
  <2>1. /\ job' = [job EXCEPT ![p].read = record] /\ UNCHANGED <<record, receipt, marker>>
        /\ record # None /\ pc'[p] = "storeReceipt"
    BY <1>2, <1>11 DEF ReadRecord, Goto, store, Pairing
  <2>2. job'[p].read = record /\ job'[p].marked = job[p].marked BY <1>2, <2>1 DEF Jobs
  <2>3. Pairing(p)' BY <2>1, <2>2 DEF Pairing
  <2>4. QED BY <1>6, <2>1, <2>3 DEF ReceiptProjectsRecord
<1>12. CASE StoreReceipt(p)
  <2>1. /\ receipt' = job[p].read.binding /\ UNCHANGED <<record, marker, job>>
        /\ pc'[p] = "end" /\ pc[p] = "storeReceipt"
    BY <1>2, <1>12 DEF StoreReceipt, Goto, MayFail
  <2>2. receipt' = record'.binding /\ record' # None BY <2>1 DEF Pairing
  <2>3. Pairing(p)' BY <2>1 DEF Pairing
  <2>4. QED BY <1>6, <2>2, <2>3 DEF ReceiptProjectsRecord
<1>13. CASE RemoveRecord(p)
  <2>1. pc'[p] = "removeReceipt" /\ UNCHANGED <<receipt, marker, job>>
    BY <1>2, <1>13 DEF RemoveRecord, Goto
  <2>2. Pairing(p)' BY <1>4, <2>1 DEF Pairing
  <2>3. QED BY <1>6, <2>1, <2>2 DEF ReceiptProjectsRecord
<1>14. CASE RemoveStoredReceipt(p)
  <2>1. pc'[p] = "end" /\ receipt' = None /\ UNCHANGED <<marker, job>>
    BY <1>2, <1>14 DEF RemoveStoredReceipt, Goto
  <2>2. Pairing(p)' BY <1>4, <2>1 DEF Pairing
  <2>3. QED BY <1>6, <2>1, <2>2 DEF ReceiptProjectsRecord
<1>15. CASE \/ LoadPolicy(p) \/ Anchor(p) \/ Fingerprint(p)
            \/ VisibleExit(p) \/ VisibleBudget(p) \/ StageFailed(p) \/ Recheck(p)
            \/ OverlayPristine(p) \/ RunPristine(p) \/ Adjudicate(p)
            \/ RecordFails(p) \/ Invalidate(p) \/ Throws(p)
  <2>1. /\ UNCHANGED <<record, receipt, marker>> /\ pc'[p] \notin {"idle", "readRecord", "storeReceipt"}
        /\ pc[p] \notin {"readRecord", "storeReceipt", "removeReceipt"}
    BY <1>2, <1>15 DEF LoadPolicy, Anchor, Fingerprint, VisibleExit, VisibleBudget,
     StageFailed, Recheck, OverlayPristine, RunPristine, Adjudicate, RecordFails, Invalidate,
     Throws, CannotVerify, Finish, Goto, Outcome, store
  <2>2. job'[p].marked = job[p].marked
    <3>1. CASE CannotVerify(p) \/ VisibleBudget(p) \/ Adjudicate(p)
      BY <1>2, <3>1 DEF CannotVerify, VisibleBudget, Adjudicate, Finish, Jobs
    <3>2. CASE Recheck(p) \/ RecordFails(p) \/ Invalidate(p) \/ Throws(p)
      BY <3>1, <3>2 DEF Recheck, RecordFails, Invalidate, Throws
    <3>3. CASE LoadPolicy(p) BY <1>2, <3>1, <3>3 DEF LoadPolicy, Jobs
    <3>5. CASE Anchor(p) BY <1>2, <3>5 DEF Anchor, Jobs
    <3>6. CASE Fingerprint(p) \/ VisibleExit(p) BY <1>2, <3>1, <3>6 DEF Fingerprint, VisibleExit, Jobs
    <3>4. CASE OverlayPristine(p) \/ RunPristine(p) \/ StageFailed(p)
      BY <1>2, <3>1, <3>4 DEF OverlayPristine, RunPristine, StageFailed, Jobs
    <3>7. QED BY <1>15, <3>1, <3>2, <3>3, <3>4, <3>5, <3>6
  <2>3. Pairing(p)' BY <2>1, <2>2 DEF Pairing
  <2>4. QED BY <1>6, <1>8, <2>1, <2>3 DEF ReceiptProjectsRecord
<1>16. QED BY <1>7, <1>9, <1>10, <1>11, <1>12, <1>13, <1>14, <1>15 DEF Step

\* The receipt and the marker, as long as there is one run at a time.
LEMMA SingleKeeps ==
    ASSUME {"crash", "receipt"} \intersect Fault = {}, PInv, [Next]_vars, Single'
    PROVE  PInv'
<1> USE DEF PInv
<1>0. EInv' BY EvidenceKeeps
<1>1. ASSUME NEW p \in Proc, Step(p) \/ Throws(p) \/ Crash(p) PROVE PInv'
  BY <1>0, <1>1, StepPairing
<1>2. ASSUME NEW p \in Proc, NEW e \in Explicit, BeginVerifying(p, e) PROVE PInv'
  <2>1. pc \in [Proc -> PcStates] /\ job \in [Proc -> Jobs] BY DEF EInv, TInv, TypeOK
  <2>2. pc' = [pc EXCEPT ![p] = "policy"] /\ UNCHANGED <<record, receipt>>
    BY <1>2 DEF BeginVerifying, Goto
  <2>3. \A q \in Proc \ {p} : pc'[q] = pc[q] /\ job'[q] = job[q]
    BY <1>2, <2>1, <2>2 DEF BeginVerifying
  <2>4. pc[p] = "idle" /\ pc'[p] = "policy" BY <1>2, <2>1, <2>2 DEF BeginVerifying
  <2>5. \A q \in Proc \ {p} : pc[q] = "idle" /\ ~job[q].marked BY <2>3, <2>4 DEF Single, Pairing
  <2>6. marker' = p \/ ~job'[p].marked
    BY <1>2, <2>1 DEF BeginVerifying, Blank
  <2>7. \A q \in Proc : Pairing(q)' BY <2>2, <2>3, <2>4, <2>5, <2>6 DEF Pairing
  <2>8. ReceiptProjectsRecord' BY <2>2, <2>4, <2>5 DEF ReceiptProjectsRecord
  <2>9. QED BY <1>0, <2>7, <2>8
<1>3. CASE Environment
  <2>1. /\ UNCHANGED <<store, pc, vouched>>
        /\ \A p \in Proc : job'[p].marked = job[p].marked /\ job'[p].read = job[p].read
    BY <1>3, WorldShape DEF EInv
  <2>2. \A q \in Proc : Pairing(q)' BY <2>1 DEF Pairing, store
  <2>3. ReceiptProjectsRecord' BY <2>1 DEF ReceiptProjectsRecord, store
  <2>4. QED BY <1>0, <2>2, <2>3
<1>4. CASE UNCHANGED vars
  <2>1. UNCHANGED <<store, pc, job>> BY <1>4 DEF vars
  <2>2. (\A q \in Proc : Pairing(q)') /\ ReceiptProjectsRecord' BY <2>1 DEF Pairing, ReceiptProjectsRecord, store
  <2>3. QED BY <1>0, <2>2
<1>5. QED BY <1>1, <1>2, <1>3, <1>4 DEF Next

\* For any number of processes and any moves of the repository: evidence names only what a run
\* found VERIFIED; and as long as no verify is killed and no receipt fails to be written, one
\* verify at a time leaves a receipt that projects the record that stands, and status says
\* VERIFYING while it is in flight.  (runVerify's store, verification-state.ts)
THEOREM StoreIsSound ==
    ASSUME {"crash", "receipt"} \intersect Fault = {}, IsFiniteSet(Proc)
    PROVE  SpecTogether => []StoreSound
<1>1. InitTogether => TogetherInv
  <2> SUFFICES ASSUME InitTogether PROVE TogetherInv
    OBVIOUS
  <2>1. Init /\ together \in BOOLEAN BY DEF InitTogether
  <2>2. EInv BY <2>1, InitTInv, VerificationAssumption DEF Init, EInv, EvidenceVouched, Vouched, Owned
  <2>3. \A p \in Proc : pc[p] = "idle" /\ ~job[p].marked BY <2>1 DEF Init, Blank
  <2>4. receipt = None BY <2>1 DEF Init
  <2>5. PInv BY <2>2, <2>3, <2>4 DEF PInv, Single, Pairing, ReceiptProjectsRecord
  <2>6. QED BY <2>1, <2>2, <2>5 DEF TogetherInv
<1>2. TogetherInv /\ [NextTogether]_<<vars, together>> => TogetherInv'
  <2> SUFFICES ASSUME TogetherInv, [NextTogether]_<<vars, together>> PROVE TogetherInv'
    OBVIOUS
  <2>1. [Next]_vars /\ together' = together BY DEF NextTogether
  <2>2. EInv' BY <2>1, EvidenceKeeps DEF TogetherInv
  <2>3. ASSUME ~together PROVE PInv'
    <3>1. PInv BY <2>3 DEF TogetherInv
    <3>2. CASE UNCHANGED vars
      <4>1. pc' = pc BY <3>2 DEF vars
      <4>2. Single' BY <3>1, <4>1 DEF PInv, Single
      <4>3. QED BY <3>1, <3>2, <4>2, SingleKeeps
    <3>3. CASE NextTogether
      <4>1. Cardinality({p \in Proc : pc'[p] # "idle"}) <= 1 BY <2>3, <3>3 DEF NextTogether
      <4>2. \A p, q \in {r \in Proc : pc'[r] # "idle"} : p = q BY <4>1, AtMostOne
      <4>4. Single' BY <4>2 DEF Single
      <4>3. QED BY <2>1, <3>1, <4>4, SingleKeeps
    <3>4. QED BY <3>2, <3>3
  <2>4. QED BY <2>1, <2>2, <2>3 DEF TogetherInv
<1>3. TogetherInv => StoreSound
  <2> SUFFICES ASSUME TogetherInv, ~together PROVE TypeOK /\ ReceiptProjectsRecord /\ VerifyingShown
    BY DEF TogetherInv, EInv, StoreSound
  <2>1. PInv /\ TypeOK BY DEF TogetherInv, EInv, TInv
  <2>2. VerifyingShown BY <2>1 DEF PInv, Pairing, VerifyingShown, Status
  <2>3. QED BY <2>1, <2>2 DEF PInv
<1>4. QED BY <1>1, <1>2, <1>3, PTL DEF SpecTogether

=============================================================================
