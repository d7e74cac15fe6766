----------------------------- MODULE RunEnvelope -----------------------------
(***************************************************************************)
(* `tamperward run` (runEnvelope in src/cli/run.ts): freeze the trusted    *)
(* base, run the agent under the supervisor of AgentLifecycle, and judge   *)
(* the tree it released: the commits, the working tree, the pristine       *)
(* suite, and whether anything moved meanwhile.                            *)
(*                                                                         *)
(* Git reads objects by content, but ancestry through grafts and shallow   *)
(* boundaries, which can redirect it (rewritten).  The working tree, HEAD, *)
(* that metadata and the dependencies are changed by the agent's processes *)
(* and by outsiders: an editor, another terminal, a process a suite left.  *)
(*                                                                         *)
(* A nested verify is one step here: what it promises of its verdict is    *)
(* VerdictSound of Verification.  Left out: --observe-transients, --settle *)
(* and out-of-band approvals, and preflights that read nothing mutable.    *)
(***************************************************************************)
EXTENDS AgentLifecycle, FiniteSets

CONSTANTS Tree, Commit, Dep,
          Contents,             \* the tree of a commit
          MergeBase, GraftedBase, \* of two commits, and as git answers when redirected
          Blocks,               \* <<before, after>>: the policy blocks the change
          Green,                \* <<base, after, deps>>: the pristine suite exits 0
          Loadable,             \* commits whose policy loads and names a suite
          Base,                 \* --base, or None for HEAD
          AllowDirty, AllowDepDrift,
          AgentMay, OutsiderMay, \* kinds of change: "tree", "head", "rewrite", "deps", "hold"
          EnvelopeFault,        \* "rewrites": that metadata cannot be read again; "check": a check answers 2;
                        \* "throw": a step throws
          MaxMoves

VARIABLES tree, head, rewritten, deps, \* the repository and its environment
          holding,  \* a process started during the run holds the tree open
          pc, note, found, verdict, exit, \* the envelope
          moves, undone

world == <<tree, head, rewritten, deps, holding>>
envelope == <<pc, note, found, verdict, exit>>
runVars == <<world, envelope, moves, undone>>
vars == <<runVars, lifecycleVars>>

Verdicts == {"VERIFIED", "AGENT_TIMEOUT", "AGENT_FAILED", "ENFORCEMENT_FAILED",
             "CANNOT_ADJUDICATE", "OBJECT_REWRITE", "HISTORY_REWRITE",
             "DEPENDENCY_DRIFT", "NOT_QUIESCENT"}

ASSUME RunAssumption ==
    /\ Contents \in [Commit -> Tree]
    /\ {MergeBase, GraftedBase} \subseteq [Commit \X Commit -> Commit]
    /\ Base \in Commit \union {None} /\ None \notin Commit
    /\ Loadable \subseteq Commit
    /\ {AllowDirty, AllowDepDrift} \subseteq BOOLEAN
    /\ MaxMoves \in Nat
    /\ None \notin Tree /\ None \notin Dep /\ None \notin Verdicts

Entry == {"rewrites", "base", "clean", "deps", "recheck", "agent"}
Adjudicating == {"anchor", "ancestry", "fingerprint", "diff", "worktree", "drift",
                 "verify", "tree2", "deps2", "rewrites2", "release"}
Settled == {"ancestry", "fingerprint", "diff", "worktree", "drift",
            "verify", "tree2", "deps2", "rewrites2"}

\* The merge base of two commits as git answers now.
Ancestor(c, d) == IF rewritten THEN GraftedBase[<<c, d>>] ELSE MergeBase[<<c, d>>]

Init ==
    /\ head \in Commit
    /\ tree \in Tree
    /\ rewritten = FALSE
    /\ deps \in Dep
    /\ holding = FALSE
    /\ pc = "rewrites"
    /\ note = [rewritten |-> FALSE, base |-> None, deps |-> None, head |-> None, tree |-> None]
    /\ found = [diff |-> 0, worktree |-> 0, verify |-> 0, mutated |-> FALSE,
                drifted |-> FALSE, rewrote |-> FALSE, unreadable |-> FALSE]
    /\ verdict = None /\ exit = None
    /\ moves = 0 /\ undone = FALSE
    /\ LifecycleInit

Goto(next) == pc' = next /\ UNCHANGED <<verdict, exit>>

Finish(v, code) == pc' = "end" /\ verdict' = v /\ exit' = code

\* An exit 2 with no verdict: before the agent, or on an exception.
Refuse == Finish("CANNOT_ADJUDICATE", 2) /\ UNCHANGED <<note, found>>

Still == UNCHANGED <<world, moves, undone>>

-----------------------------------------------------------------------------
(* Entry.                                                                  *)

NoteRewrites ==
    /\ pc = "rewrites"
    /\ note' = [note EXCEPT !.rewritten = rewritten]
    /\ Goto("base") /\ UNCHANGED found
    /\ Still /\ UNCHANGED lifecycleVars

\* The base, and the policy and suite command as they are at it.
FreezeBase ==
    /\ pc = "base"
    /\ LET base == IF Base = None THEN head ELSE Base IN
       \/ base \in Loadable /\ note' = [note EXCEPT !.base = base] /\ Goto("clean") /\ UNCHANGED found
       \/ base \notin Loadable /\ Refuse
    /\ Still /\ UNCHANGED lifecycleVars

CheckClean ==
    /\ pc = "clean"
    /\ \/ (AllowDirty \/ tree = Contents[head]) /\ Goto("deps") /\ UNCHANGED <<note, found>>
       \/ ~AllowDirty /\ tree # Contents[head] /\ Refuse
    /\ Still /\ UNCHANGED lifecycleVars

FreezeDeps ==
    /\ pc = "deps"
    /\ note' = [note EXCEPT !.deps = deps]
    /\ Goto("recheck") /\ UNCHANGED found
    /\ Still /\ UNCHANGED lifecycleVars

\* What redirects ancestry must be as it was noted.  Then the agent starts.
StartAgent ==
    /\ pc = "recheck"
    /\ \/ /\ rewritten = note.rewritten
          /\ Goto("agent") /\ UNCHANGED <<note, found>>
          /\ sup' = "spawn" /\ UNCHANGED <<domain, kids, rounds, left, timedOut, answer>>
       \/ rewritten # note.rewritten /\ Refuse /\ UNCHANGED lifecycleVars
    /\ Still

-----------------------------------------------------------------------------
(* Adjudication.                                                           *)

AgentReturns ==
    /\ pc = "agent" /\ answer # None
    /\ IF answer.owned THEN Goto("anchor") /\ UNCHANGED <<note, found>> ELSE Refuse
    /\ Still /\ UNCHANGED lifecycleVars

CheckRewrites ==
    /\ pc = "anchor"
    /\ \/ rewritten = note.rewritten /\ Goto("ancestry") /\ UNCHANGED <<note, found>>
       \/ rewritten # note.rewritten /\ Finish("OBJECT_REWRITE", 1) /\ UNCHANGED <<note, found>>
    /\ Still /\ UNCHANGED lifecycleVars

\* HEAD as it is judged from here on, which must descend from the base.
CheckAncestry ==
    /\ pc = "ancestry"
    /\ note' = [note EXCEPT !.head = head]
    /\ IF Ancestor(note.base, head) = note.base
       THEN Goto("fingerprint")
       ELSE Finish("HISTORY_REWRITE", 1)
    /\ UNCHANGED found /\ Still /\ UNCHANGED lifecycleVars

Fingerprint ==
    /\ pc = "fingerprint"
    /\ note' = [note EXCEPT !.tree = tree]
    /\ Goto("diff") /\ UNCHANGED found
    /\ Still /\ UNCHANGED lifecycleVars

\* A check's exit code: 2 when a policy does not load.
Check(before, after) == IF <<before, after>> \in Blocks THEN 1 ELSE 0
MayAnswer(code, judged) == code = judged \/ (code = 2 /\ "check" \in EnvelopeFault)

CheckCommits ==
    /\ pc = "diff"
    /\ \E code \in 0..2 :
         /\ IF note.head = note.base THEN code = 0
            ELSE MayAnswer(code, Check(Contents[Ancestor(note.base, note.head)], Contents[note.head]))
         /\ found' = [found EXCEPT !.diff = code]
    /\ Goto("worktree") /\ UNCHANGED note
    /\ Still /\ UNCHANGED lifecycleVars

\* The working tree against HEAD -- HEAD as it is now.
CheckWorktree ==
    /\ pc = "worktree"
    /\ \E code \in 0..2 :
         /\ MayAnswer(code, Check(Contents[head], tree))
         /\ found' = [found EXCEPT !.worktree = code]
    /\ Goto("drift") /\ UNCHANGED note
    /\ Still /\ UNCHANGED lifecycleVars

Drifted == ~AllowDepDrift /\ deps # note.deps

CheckDrift ==
    /\ pc = "drift"
    /\ IF Drifted THEN Finish("DEPENDENCY_DRIFT", 1) ELSE Goto("verify")
    /\ UNCHANGED <<note, found>> /\ Still /\ UNCHANGED lifecycleVars

\* 0 promises that the suite of the merge base passes over the tree.  1 may be
\* a flaky answer; 2 is anything that moved under verify, or an overrun.
Verify ==
    /\ pc = "verify"
    /\ \E code \in 0..2 :
         /\ code = 0 => <<Contents[Ancestor(note.base, head)], tree, deps>> \in Green
         /\ found' = [found EXCEPT !.verify = code]
    /\ Goto("tree2") /\ UNCHANGED note
    /\ Still /\ UNCHANGED lifecycleVars

\* What moved: the tree, the dependencies, the rewrite metadata, in this order.
TreeAgain ==
    /\ pc = "tree2"
    /\ found' = [found EXCEPT !.mutated = (tree # note.tree)]
    /\ Goto("deps2") /\ UNCHANGED note
    /\ Still /\ UNCHANGED lifecycleVars

DepsAgain ==
    /\ pc = "deps2"
    /\ found' = [found EXCEPT !.drifted = Drifted]
    /\ Goto("rewrites2") /\ UNCHANGED note
    /\ Still /\ UNCHANGED lifecycleVars

RewritesAgain ==
    /\ pc = "rewrites2"
    /\ \/ found' = [found EXCEPT !.rewrote = (rewritten # note.rewritten)]
       \/ "rewrites" \in EnvelopeFault /\ found' = [found EXCEPT !.unreadable = TRUE]
    /\ Goto("release") /\ UNCHANGED note
    /\ Still /\ UNCHANGED lifecycleVars

\* Mutant: the rewrite metadata is compared once, before the checks.
QuietButRewrites == ~(found.mutated \/ holding \/ found.drifted)

Quiet == ~(found.mutated \/ holding \/ found.drifted \/ found.rewrote)
Cannot == found.unreadable \/ (Quiet /\ 2 \in {found.diff, found.worktree, found.verify})
Blocked == 1 \in {found.diff, found.worktree, found.verify} \/ ~Quiet

\* The survivors are read, and the verdict follows at once.
Release ==
    /\ pc = "release"
    /\ IF Cannot THEN Finish("CANNOT_ADJUDICATE", 2)
       ELSE IF Blocked
       THEN Finish(IF found.rewrote THEN "OBJECT_REWRITE"
                   ELSE IF found.drifted THEN "DEPENDENCY_DRIFT"
                   ELSE IF ~Quiet THEN "NOT_QUIESCENT" ELSE "ENFORCEMENT_FAILED", 1)
       ELSE IF answer.timedOut THEN Finish("AGENT_TIMEOUT", 124)
       ELSE Finish(IF answer.exit # 0 THEN "AGENT_FAILED" ELSE "VERIFIED", answer.exit)
    /\ UNCHANGED <<note, found>> /\ Still /\ UNCHANGED lifecycleVars

\* guardedMain: an exit 2 for whatever git, a fingerprint or a check throws.
Throws ==
    /\ "throw" \in EnvelopeFault /\ pc \notin {"agent", "end"}
    /\ Refuse
    /\ Still /\ UNCHANGED lifecycleVars

EnvelopeStep ==
    \/ NoteRewrites \/ FreezeBase \/ CheckClean \/ FreezeDeps \/ StartAgent
    \/ AgentReturns \/ CheckRewrites \/ CheckAncestry \/ Fingerprint
    \/ CheckCommits \/ CheckWorktree \/ CheckDrift \/ Verify
    \/ TreeAgain \/ DepsAgain \/ RewritesAgain \/ Release \/ Throws

-----------------------------------------------------------------------------
(* What moves the repository.                                              *)

May(kind) ==
    /\ pc # "end"
    /\ kind \in OutsiderMay \/ (kind \in AgentMay /\ Alive # {})
    /\ moves < MaxMoves
    /\ moves' = moves + 1
    /\ UNCHANGED <<envelope, lifecycleVars>>

\* Taken back while it is judged: no comparison can tell.
Undo(restored) == undone' = (undone \/ (pc \in Settled /\ restored))

MoveTree ==
    /\ May("tree")
    /\ tree' \in Tree \ {tree}
    /\ Undo(tree' = note.tree)
    /\ UNCHANGED <<head, rewritten, deps, holding>>

MoveHead ==
    /\ May("head")
    /\ head' \in Commit \ {head}
    /\ UNCHANGED <<tree, rewritten, deps, holding, undone>>

Rewrite ==
    /\ May("rewrite")
    /\ rewritten' = ~rewritten
    /\ Undo(rewritten' = note.rewritten)
    /\ UNCHANGED <<tree, head, deps, holding>>

InstallDeps ==
    /\ May("deps")
    /\ deps' \in Dep \ {deps}
    /\ Undo(deps' = note.deps)
    /\ UNCHANGED <<tree, head, rewritten, holding>>

Hold ==
    /\ May("hold")
    /\ holding' = ~holding
    /\ UNCHANGED <<tree, head, rewritten, deps, undone>>

Movement == MoveTree \/ MoveHead \/ Rewrite \/ InstallDeps \/ Hold

Next ==
    \/ EnvelopeStep
    \/ SupervisorStep /\ UNCHANGED runVars
    \/ (SupervisorKilled \/ Backstop) /\ UNCHANGED runVars
    \/ DomainStep /\ UNCHANGED runVars
    \/ Movement

Spec == Init /\ [][Next]_vars

\* The envelope and the supervisor keep running and the timer fires; nothing is
\* assumed of the agent.
FairSpec ==
    /\ Spec
    /\ WF_vars(EnvelopeStep)
    /\ WF_vars(SupervisorStep /\ UNCHANGED runVars)

-----------------------------------------------------------------------------
(* Properties.                                                             *)

\* The envelope's notes have their shape, and it ends with an exit code.
TypeOK ==
    /\ LifecycleTypeOK
    /\ tree \in Tree /\ head \in Commit /\ deps \in Dep
    /\ rewritten \in BOOLEAN /\ holding \in BOOLEAN
    /\ pc \in Entry \union Adjudicating \union {"end"}
    /\ note \in [rewritten : BOOLEAN, base : Commit \union {None}, deps : Dep \union {None},
                 head : Commit \union {None}, tree : Tree \union {None}]
    /\ found \in [diff : 0..2, worktree : 0..2, verify : 0..2, mutated : BOOLEAN,
                  drifted : BOOLEAN, rewrote : BOOLEAN, unreadable : BOOLEAN]
    /\ verdict \in Verdicts \union {None}
    /\ exit \in AgentExits \union {1, 2, 124, None}
    /\ pc = "end" <=> exit # None
    /\ moves \in 0..MaxMoves /\ undone \in BOOLEAN

\* Nothing is judged while a process of the agent's domain still runs, whatever
\* the domain forks, detaches or kills.  (run.ts: "Adjudication begins only
\* behind an authoritatively drained lifecycle boundary")
NobodyLeft == pc \in Adjudicating => Alive = {}

\* GREEN MEANS GREEN: from the base to the judged HEAD and from there to the
\* judged tree nothing is blocked, the base's own suite passes over that tree
\* with the entry's dependencies, and the agent itself exited 0 in time --
\* whatever moved meanwhile, short of what was moved back.
VerifiedIsJudged ==
    verdict = "VERIFIED" /\ ~undone =>
        LET frozen == IF AllowDepDrift THEN Dep ELSE {note.deps} IN
        /\ note.head # note.base => <<Contents[note.base], Contents[note.head]>> \notin Blocks
        /\ <<Contents[note.head], note.tree>> \notin Blocks
        /\ \E d \in frozen : <<Contents[note.base], note.tree, d>> \in Green
        /\ left = 0 /\ ~timedOut

\* With a budget the run ends, whatever the agent does.
RunEnds == <>(pc = "end")
=============================================================================
