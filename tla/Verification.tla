---------------------------- MODULE Verification ----------------------------
(***************************************************************************)
(* `tamperward verify` (src/cli/verify.ts) and the evidence it keeps under *)
(* .git/tamperward (src/verification-state.ts, verification-receipt.ts):   *)
(*   marker   the process a verification is in progress in                 *)
(*   record   what the last VERIFIED run bound its verdict to              *)
(*   receipt  the transportable projection of the record                   *)
(* and `tamperward status`, which compares the record with the live state. *)
(*                                                                         *)
(* A verify runs the suite twice: on a copy of the candidate tree, then on *)
(* a second copy whose protected surface is the base's.  Nothing keeps the *)
(* repository still meanwhile, and two verifies may run at once.           *)
(*                                                                         *)
(* Left out: --cmd and --budget (the policy's command stands for them),    *)
(* the container backend, ignored unprotected files, and the surface and   *)
(* verifier digests, which are functions of the base and the policy.       *)
(***************************************************************************)
EXTENDS Naturals, FiniteSets

CONSTANTS Proc,       \* slots for verify processes
          Src, Tests, \* unprotected source; the protected verification surface
          Policy,     \* effective policies; each names a suite command
          NoPolicy,   \* a policy that does not load, or names no command
          Dep,        \* dependency environments
          Tree,       \* the trees the worktree takes
          Commit, Contents, MergeBase, \* the commit graph
          Mains,      \* where the trusted base ref can point
          Green,      \* <<src, tests, policy, deps>> for which the suite exits 0
          None, Gone, \* no file; a process that no longer exists
          May,        \* kinds of change that happen to the repository
          MidRun,     \* those that also happen while a verify is in flight
          Fault,      \* faults that happen: "crash", "throw", "marker", "record", "receipt"
          Explicit,   \* whether --base is given: a subset of BOOLEAN
          MaxMoves, MaxFaults, MaxRuns \* bounds

VARIABLES tree, head, main, deps, wiring,  \* the repository and its environment
          marker, record, receipt,         \* the store
          pc, job,                         \* verify processes
          moves, faults, runs,             \* bounded counters
          undone, vouched, disproved       \* history, read by properties only

world   == <<tree, head, main, deps, wiring>>
store   == <<marker, record, receipt>>
bounds  == <<moves, faults, runs>>
history == <<undone, vouched, disproved>>
vars == <<world, store, pc, job, bounds, history>>

Trees == [src : Src, tests : Tests, policy : Policy \union {NoPolicy}]
Bindings == [tree : Tree, head : Commit, base : Commit, policy : Policy,
             deps : Dep, wiring : BOOLEAN]
Records == [explicit : BOOLEAN, binding : Bindings]

ASSUME VerificationAssumption ==
    /\ Tree \subseteq Trees
    /\ Contents \in [Commit -> Tree]
    /\ MergeBase \in [Commit \X Commit -> Commit]
    /\ Mains \subseteq Commit
    /\ Explicit \subseteq BOOLEAN
    /\ {MaxMoves, MaxFaults, MaxRuns} \subseteq Nat
    /\ NoPolicy \notin Policy
    /\ None \notin Proc /\ Gone \notin Proc
    /\ None \notin Tree /\ None \notin Dep /\ None \notin {0, 1} /\ None \notin Records

Exits    == {0, 1, None}        \* None: not run
Verdicts == {"VERIFIED", "MASKED_FAILURE", "SUITE_RED", "BUDGET_EXCEEDED",
             "CANNOT_VERIFY", None}

\* What one run of verify has taken note of so far.
Blank == [explicit |-> FALSE, marked |-> FALSE, policy |-> NoPolicy, base |-> None,
          head |-> None, tree |-> None, deps |-> None, visible |-> None,
          copy |-> None, pristine |-> None, verdict |-> None, read |-> None]

PcStates == {"idle", "policy", "anchor", "fingerprint", "visible", "recheck",
             "overlay", "pristine", "adjudicate", "record", "readRecord",
             "storeReceipt", "invalidate", "removeRecord", "removeReceipt", "end"}

\* The pcs at which runVerifyImpl is past its early returns and has a verdict.
Adjudicated == {"record", "readRecord", "storeReceipt", "invalidate",
                "removeRecord", "removeReceipt"}

-----------------------------------------------------------------------------
(* What verify and status compute from the live repository.                *)

\* resolveBase: the merge base with HEAD, so a branch cannot dodge by being behind.
ResolveBase(explicit) == IF explicit THEN MergeBase[main, head] ELSE head

\* Mutant: the working tree's policy, base or no base.
WorktreePolicy(explicit) == tree.policy

\* The base governs when it is given; otherwise the working tree's policy does.
EffectivePolicy(explicit) ==
    IF explicit THEN Contents[ResolveBase(TRUE)].policy ELSE tree.policy

ComputeBinding(explicit, fingerprint) ==
    [tree |-> fingerprint, head |-> head, base |-> ResolveBase(explicit),
     policy |-> EffectivePolicy(explicit), deps |-> deps, wiring |-> wiring]

LiveBinding(explicit) == ComputeBinding(explicit, tree)

\* computeBinding throws rather than return a partial binding.
Evaluable(explicit) == EffectivePolicy(explicit) # NoPolicy

\* Mutant: an install of other dependencies goes unnoticed.
CurrentButDeps(r) ==
    /\ r # None
    /\ Evaluable(r.explicit)
    /\ r.binding = [LiveBinding(r.explicit) EXCEPT !.deps = r.binding.deps]

Current(r) ==
    /\ r # None
    /\ Evaluable(r.explicit)
    /\ r.binding = LiveBinding(r.explicit)

\* evaluateVerificationState, in its order of precedence.
Status ==
    IF marker \in Proc THEN "VERIFYING"
    ELSE IF record = None THEN "UNVERIFIED"
    ELSE IF ~Evaluable(record.explicit) THEN "BROKEN"
    ELSE IF Current(record) THEN "CURRENT" ELSE "STALE"

Suite(src, tests, policy) == <<src, tests, policy, deps>> \in Green

Finish(p, next, verdict) ==
    /\ pc' = [pc EXCEPT ![p] = next]
    /\ job' = [job EXCEPT ![p].verdict = verdict]

Goto(p, next) == pc' = [pc EXCEPT ![p] = next]

\* cannotVerify and the other early returns: exit 2, and the store as it was.
CannotVerify(p) ==
    /\ Finish(p, "end", "CANNOT_VERIFY")
    /\ UNCHANGED <<world, store, bounds, history>>

MayFail(f) == f \in Fault /\ faults < MaxFaults
Failed == faults' = faults + 1

-----------------------------------------------------------------------------
(* One run of verify.                                                      *)

Init ==
    /\ tree \in Tree
    /\ head \in Commit /\ main \in Mains
    /\ deps \in Dep /\ wiring = TRUE
    /\ marker = None /\ record = None /\ receipt = None
    /\ pc = [p \in Proc |-> "idle"]
    /\ job = [p \in Proc |-> Blank]
    /\ moves = 0 /\ faults = 0 /\ runs = 0
    /\ undone = {} /\ vouched = {} /\ disproved = {}

\* beginVerifying replaces whatever marker stands; best-effort.
BeginVerifying(p, explicit) ==
    /\ pc[p] = "idle"
    /\ runs < MaxRuns
    /\ runs' = runs + 1
    /\ Goto(p, "policy")
    /\ undone' = undone \ {p}
    /\ \/ /\ marker' = p
          /\ job' = [job EXCEPT ![p] = [Blank EXCEPT !.explicit = explicit, !.marked = TRUE]]
          /\ UNCHANGED faults
       \/ /\ MayFail("marker") /\ Failed
          /\ job' = [job EXCEPT ![p] = [Blank EXCEPT !.explicit = explicit]]
          /\ UNCHANGED marker
    /\ UNCHANGED <<world, record, receipt, moves, vouched, disproved>>

\* The policy, and the dependency environment frozen with it.
LoadPolicy(p) ==
    /\ pc[p] = "policy"
    /\ LET explicit == job[p].explicit IN
       \/ ~Evaluable(explicit) /\ CannotVerify(p)
       \/ /\ Evaluable(explicit)
          /\ job' = [job EXCEPT ![p] = [@ EXCEPT !.policy = EffectivePolicy(explicit), !.deps = deps]]
          /\ Goto(p, "anchor")
          /\ UNCHANGED <<world, store, bounds, history>>

Anchor(p) ==
    /\ pc[p] = "anchor"
    /\ job' = [job EXCEPT ![p] = [@ EXCEPT !.base = ResolveBase(job[p].explicit), !.head = head]]
    /\ Goto(p, "fingerprint")
    /\ UNCHANGED <<world, store, bounds, history>>

\* treeBefore, and the dependency check at the verifier's entry.
Fingerprint(p) ==
    /\ pc[p] = "fingerprint"
    /\ \/ deps # job[p].deps /\ CannotVerify(p)
       \/ /\ deps = job[p].deps
          /\ job' = [job EXCEPT ![p].tree = tree]
          /\ Goto(p, "visible")
          /\ UNCHANGED <<world, store, bounds, history>>

\* A copy of the tree as it stands, and the suite over it.  A red suite may be
\* a flaky one; a green one is not.
VisibleExit(p) ==
    /\ pc[p] = "visible"
    /\ \E exit \in {0, 1} :
         /\ exit = 0 => Suite(tree.src, tree.tests, job[p].policy)
         /\ job' = [job EXCEPT ![p].visible = exit]
    /\ Goto(p, "recheck")
    /\ UNCHANGED <<world, store, bounds, history>>

\* The stage overran its budget: an early return of its own.
VisibleBudget(p) ==
    /\ pc[p] = "visible"
    /\ Finish(p, "end", "BUDGET_EXCEEDED")
    /\ UNCHANGED <<world, store, bounds, undone, vouched>>
    /\ disproved' = disproved \union
         {[by |-> "visible budget", explicit |-> e, binding |-> LiveBinding(e)] : e \in BOOLEAN}

\* The backend failed, a resource ran out, or the suite left a process behind.
StageFailed(p) ==
    /\ pc[p] \in {"visible", "pristine"}
    /\ CannotVerify(p)

Recheck(p) ==
    /\ pc[p] = "recheck"
    /\ \/ (tree # job[p].tree \/ deps # job[p].deps) /\ CannotVerify(p)
       \/ /\ tree = job[p].tree /\ deps = job[p].deps
          /\ Goto(p, "overlay")
          /\ UNCHANGED <<job, world, store, bounds, history>>

\* The second copy, made only now: the tree's source under the base's surface,
\* and the digest of what was restored.
OverlayPristine(p) ==
    /\ pc[p] = "overlay"
    /\ job' = [job EXCEPT ![p].copy = [src |-> tree.src, tests |-> Contents[job[p].base].tests]]
    /\ Goto(p, "pristine")
    /\ UNCHANGED <<world, store, bounds, history>>

\* None: the stage overran its budget.
RunPristine(p) ==
    /\ pc[p] = "pristine"
    /\ \E exit \in {0, 1, None} :
         /\ exit = 0 => Suite(job[p].copy.src, job[p].copy.tests, job[p].policy)
         /\ job' = [job EXCEPT ![p].pristine = exit]
    /\ Goto(p, "adjudicate")
    /\ UNCHANGED <<world, store, bounds, history>>

\* Mutant: the tree is not fingerprinted again after the pristine stage.
TreeUnchecked(p) == FALSE

OverlayMoved(p) == job[p].copy.tests # Contents[job[p].base].tests
TreeMoved(p) == tree # job[p].tree
DepsMoved(p) == deps # job[p].deps

VerdictOf(visible, pristine) ==
    CASE pristine = None                -> "BUDGET_EXCEEDED"
      [] visible = 0 /\ pristine = 0    -> "VERIFIED"
      [] visible = 0 /\ pristine = 1    -> "MASKED_FAILURE"
      [] visible = 1 /\ pristine # None -> "SUITE_RED"

\* Only a genuine VERIFIED is recorded; every other verdict is reconciled.
Outcome(verdict) == IF verdict = "VERIFIED" THEN "record" ELSE "invalidate"

Adjudicate(p) ==
    /\ pc[p] = "adjudicate"
    /\ \/ (OverlayMoved(p) \/ TreeMoved(p) \/ DepsMoved(p)) /\ CannotVerify(p)
       \/ /\ ~OverlayMoved(p) /\ ~TreeMoved(p) /\ ~DepsMoved(p)
          /\ LET verdict == VerdictOf(job[p].visible, job[p].pristine) IN
             /\ Finish(p, Outcome(verdict), verdict)
             /\ vouched' = IF verdict = "VERIFIED"
                           THEN vouched \union {[tree |-> job[p].tree, head |-> job[p].head,
                                  base |-> job[p].base, policy |-> job[p].policy,
                                  deps |-> job[p].deps]}
                           ELSE vouched
          /\ UNCHANGED <<world, store, bounds, undone, disproved>>

-----------------------------------------------------------------------------
(* The evidence of a verdict.                                              *)

\* Mutant: the tree is fingerprinted again too, and not compared.
RecordLiveTree(p) ==
    /\ pc[p] = "record"
    /\ LET explicit == job[p].explicit
           r == [explicit |-> explicit, binding |-> LiveBinding(explicit)] IN
       /\ Evaluable(explicit)
       /\ record' = r
       /\ disproved' = {d \in disproved : [explicit |-> d.explicit, binding |-> d.binding] # r}
    /\ Goto(p, "readRecord")
    /\ UNCHANGED <<world, marker, receipt, job, bounds, undone, vouched>>

\* recordVerification: everything but the tree is computed again, live.
RecordVerification(p) ==
    /\ pc[p] = "record"
    /\ LET explicit == job[p].explicit
           r == [explicit |-> explicit, binding |-> ComputeBinding(explicit, job[p].tree)] IN
       /\ Evaluable(explicit)
       /\ record' = r
       /\ disproved' = {d \in disproved : [explicit |-> d.explicit, binding |-> d.binding] # r}
    /\ Goto(p, "readRecord")
    /\ UNCHANGED <<world, marker, receipt, job, bounds, undone, vouched>>

\* It could not be computed, or not written: the record that stands, stands.
RecordFails(p) ==
    /\ pc[p] = "record"
    /\ \/ ~Evaluable(job[p].explicit) /\ UNCHANGED faults
       \/ MayFail("record") /\ Failed
    /\ Goto(p, "end")
    /\ UNCHANGED <<world, store, job, moves, runs, history>>

\* readVerificationRecord, after the write: another run's may stand there.
ReadRecord(p) ==
    /\ pc[p] = "readRecord"
    /\ job' = [job EXCEPT ![p].read = record]
    /\ Goto(p, IF record = None THEN "end" ELSE "storeReceipt")
    /\ UNCHANGED <<world, store, bounds, history>>

StoreReceipt(p) ==
    /\ pc[p] = "storeReceipt"
    /\ \/ receipt' = job[p].read.binding /\ UNCHANGED faults
       \/ MayFail("receipt") /\ Failed /\ UNCHANGED receipt
    /\ Goto(p, "end")
    /\ UNCHANGED <<world, marker, record, job, moves, runs, history>>

Disproves(p) ==
    disproved' = disproved \union
       {[by |-> "suite", explicit |-> e, binding |-> LiveBinding(e)] : e \in BOOLEAN}

\* Mutant: a run only reconciles records taken with the same kind of base.
InvalidateOwn(p) ==
    /\ pc[p] = "invalidate"
    /\ \/ /\ Current(record) /\ record.explicit = job[p].explicit
          /\ Goto(p, "removeRecord") /\ UNCHANGED disproved
       \/ /\ ~(Current(record) /\ record.explicit = job[p].explicit)
          /\ Goto(p, "end") /\ Disproves(p)
    /\ UNCHANGED <<world, store, job, bounds, undone, vouched>>

\* invalidateVerificationRecordIfCurrent: the record is read and compared ...
Invalidate(p) ==
    /\ pc[p] = "invalidate"
    /\ \/ Current(record) /\ Goto(p, "removeRecord") /\ UNCHANGED disproved
       \/ ~Current(record) /\ Goto(p, "end") /\ Disproves(p)
    /\ UNCHANGED <<world, store, job, bounds, undone, vouched>>

\* ... and whatever stands at its path by then is removed.
RemoveRecord(p) ==
    /\ pc[p] = "removeRecord"
    /\ record' = None
    /\ Goto(p, "removeReceipt")
    /\ Disproves(p)
    /\ UNCHANGED <<world, marker, receipt, job, bounds, undone, vouched>>

RemoveStoredReceipt(p) ==
    /\ pc[p] = "removeReceipt"
    /\ receipt' = None
    /\ Goto(p, "end")
    /\ UNCHANGED <<world, marker, record, job, bounds, history>>

\* Mutant: the marker is never released.
EndKeepsMarker(p) ==
    /\ pc[p] = "end"
    /\ Goto(p, "idle")
    /\ job' = [job EXCEPT ![p] = Blank]
    /\ UNCHANGED <<world, store, bounds, history>>

\* endVerifying removes the marker that stands, whosever it is.
EndVerifying(p) ==
    /\ pc[p] = "end"
    /\ marker' = IF job[p].marked THEN None ELSE marker
    /\ Goto(p, "idle")
    /\ job' = [job EXCEPT ![p] = Blank]
    /\ UNCHANGED <<world, record, receipt, bounds, history>>

\* git or the filesystem throws: the `finally` still releases the marker.
Throws(p) ==
    /\ pc[p] \in {"anchor", "fingerprint", "recheck", "adjudicate"}
    /\ MayFail("throw") /\ Failed
    /\ Goto(p, "end")
    /\ UNCHANGED <<world, store, job, moves, runs, history>>

\* Mutant: a marker is believed whoever wrote it.
CrashSticks(p) ==
    /\ pc[p] # "idle"
    /\ MayFail("crash") /\ Failed
    /\ Goto(p, "idle")
    /\ job' = [job EXCEPT ![p] = Blank]
    /\ UNCHANGED <<world, store, moves, runs, history>>

\* The process is killed.  Its pid no longer answers, and the marker that
\* holds it is ignored.
Crash(p) ==
    /\ pc[p] # "idle"
    /\ MayFail("crash") /\ Failed
    /\ marker' = IF marker = p THEN Gone ELSE marker
    /\ Goto(p, "idle")
    /\ job' = [job EXCEPT ![p] = Blank]
    /\ UNCHANGED <<world, record, receipt, moves, runs, history>>

-----------------------------------------------------------------------------
(* The repository meanwhile: the developer, the agent, and what the suite  *)
(* itself leaves running.                                                  *)

Quiet == \A p \in Proc : pc[p] = "idle"

MayMove(kind) ==
    /\ kind \in May
    /\ moves < MaxMoves
    /\ kind \in MidRun \/ Quiet
    /\ moves' = moves + 1

\* The runs for which this change takes the tree or the dependencies back to
\* what they noted: no later comparison can tell.
Reverted == {p \in Proc : \/ job[p].tree # None /\ tree # job[p].tree /\ tree' = job[p].tree
                          \/ job[p].deps # None /\ deps # job[p].deps /\ deps' = job[p].deps}

Edit ==
    /\ MayMove("edit")
    /\ tree' \in Tree \ {tree}
    /\ UNCHANGED <<head, main, deps, wiring, store, pc, job, faults, runs, vouched, disproved>>
    /\ undone' = undone \union Reverted

MoveHead ==
    /\ MayMove("head")
    /\ head' \in Commit \ {head}
    /\ UNCHANGED <<tree, main, deps, wiring, store, pc, job, faults, runs, history>>

MoveMain ==
    /\ MayMove("main")
    /\ main' \in Mains \ {main}
    /\ UNCHANGED <<tree, head, deps, wiring, store, pc, job, faults, runs, history>>

InstallDeps ==
    /\ MayMove("deps")
    /\ deps' \in Dep \ {deps}
    /\ UNCHANGED <<tree, head, main, wiring>>
    /\ undone' = undone \union Reverted
    /\ UNCHANGED <<store, pc, job, faults, runs, vouched, disproved>>

Rewire ==
    /\ MayMove("wiring")
    /\ wiring' = ~wiring
    /\ UNCHANGED <<tree, head, main, deps, store, pc, job, faults, runs, history>>

\* What the visible suite left running finds the copy while it exists.
TouchCopy(p) ==
    /\ pc[p] \in {"pristine", "adjudicate"}
    /\ MayMove("copy")
    /\ \E t \in Tests \ {job[p].copy.tests} :
         /\ job' = [job EXCEPT ![p].copy.tests = t]
         /\ undone' = IF t = Contents[job[p].base].tests THEN undone \union {p} ELSE undone
    /\ UNCHANGED <<world, store, pc, faults, runs, vouched, disproved>>

Step(p) ==
    \/ LoadPolicy(p) \/ Anchor(p) \/ Fingerprint(p)
    \/ VisibleExit(p) \/ VisibleBudget(p) \/ StageFailed(p) \/ Recheck(p)
    \/ OverlayPristine(p) \/ RunPristine(p) \/ Adjudicate(p)
    \/ RecordVerification(p) \/ RecordFails(p) \/ ReadRecord(p) \/ StoreReceipt(p)
    \/ Invalidate(p) \/ RemoveRecord(p) \/ RemoveStoredReceipt(p)
    \/ EndVerifying(p)

Environment ==
    \/ Edit \/ MoveHead \/ MoveMain \/ InstallDeps \/ Rewire
    \/ \E p \in Proc : TouchCopy(p)

Next ==
    \/ \E p \in Proc : Step(p) \/ Throws(p) \/ Crash(p)
    \/ \E p \in Proc, explicit \in Explicit : BeginVerifying(p, explicit)
    \/ Environment

Spec == Init /\ [][Next]_vars

\* A started verify keeps running: both stages are killed at their budget.
FairSpec == Spec /\ \A p \in Proc : WF_vars(Step(p))

-----------------------------------------------------------------------------
(* Properties.                                                             *)

Jobs == [explicit : BOOLEAN, marked : BOOLEAN, policy : Policy \union {NoPolicy},
         base : Commit \union {None}, head : Commit \union {None},
         tree : Tree \union {None}, deps : Dep \union {None}, visible : Exits,
         copy : [src : Src, tests : Tests] \union {None}, pristine : Exits,
         verdict : Verdicts, read : Records \union {None}]

\* The store holds what the code writes, and a process what it has read.
TypeOK ==
    /\ tree \in Tree /\ head \in Commit /\ main \in Mains
    /\ deps \in Dep /\ wiring \in BOOLEAN
    /\ marker \in Proc \union {None, Gone}
    /\ record \in Records \union {None}
    /\ receipt \in Bindings \union {None}
    /\ pc \in [Proc -> PcStates]
    /\ job \in [Proc -> Jobs]
    /\ moves \in 0..MaxMoves /\ faults \in 0..MaxFaults /\ runs \in 0..MaxRuns

\* VERIFIED means that the candidate's source passes the BASE's suite, under
\* the policy loaded at entry and the dependencies frozen there, whatever
\* happened to the tree, the dependencies or the pristine copy while the two
\* stages ran -- short of a change that was taken back before the comparison.
VerdictSound ==
    \A p \in Proc :
        pc[p] \in Adjudicated /\ job[p].verdict = "VERIFIED" =>
            \/ p \in undone
            \/ <<job[p].tree.src, Contents[job[p].base].tests, job[p].policy, job[p].deps>> \in Green

\* With --base the candidate does not choose the rules it is judged by: the
\* command that ran is the one of a commit on the trusted line, not the working
\* tree's.  (verify.ts, "POLICY PROVENANCE")
Trusted == {c \in Commit : \E m \in Mains, h \in Commit : c = MergeBase[m, h]}
BaseGoverns ==
    \A p \in Proc :
        pc[p] \in Adjudicated /\ job[p].explicit =>
            /\ job[p].base \in Trusted
            /\ \E c \in Trusted : job[p].policy = Contents[c].policy

\* Status says CURRENT only of a state some run adjudicated VERIFIED: the very
\* tree, HEAD, base, policy and dependencies it judged.
CurrentIsAdjudicated ==
    Status = "CURRENT" =>
        \E v \in vouched :
            \A i \in DOMAIN v : v[i] = LiveBinding(record.explicit)[i]

\* Neither the record nor the receipt names a tree no run found VERIFIED.
EvidenceVouched ==
    /\ record # None  => \E v \in vouched : v.tree = record.binding.tree
    /\ receipt # None => \E v \in vouched : v.tree = receipt.tree

\* A record that the latest adjudication of the same bound state disproved is
\* not left standing: status would report CURRENT for it.
DisprovedGone ==
    record # None =>
        [by |-> "suite", explicit |-> record.explicit, binding |-> record.binding] \notin disproved

\* The same of a run whose visible stage overran its budget.
OverrunDisproves ==
    record # None =>
        [by |-> "visible budget", explicit |-> record.explicit, binding |-> record.binding]
            \notin disproved

\* The stored receipt projects the record that stands, except in the middle of
\* replacing or removing the pair.
ReceiptProjectsRecord ==
    receipt # None =>
        \/ record # None /\ receipt = record.binding
        \/ \E p \in Proc : pc[p] \in {"readRecord", "storeReceipt", "removeReceipt"}

\* While a verify that wrote the marker is in flight, status says so.
VerifyingShown ==
    (\E p \in Proc : job[p].marked) => Status = "VERIFYING"

\* A marker is believed only while the process that wrote it lives.
NeverStuck == marker \in Proc => pc[marker] # "idle"

\* VERIFYING ends, whatever crashes on the way.
VerifyingEnds == Status = "VERIFYING" ~> Status # "VERIFYING"
=============================================================================
