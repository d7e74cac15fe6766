-------------------------- MODULE RunEnvelopeProofs --------------------------
(***************************************************************************)
(* Nothing is judged while a process of the agent's domain lives, and what *)
(* is called VERIFIED was judged: for any number of processes, any forking *)
(* and detaching, any failing call of the supervisor, and whatever moves   *)
(* in the repository.                                                      *)
(***************************************************************************)
EXTENDS RunEnvelope, TLAPS

Living == {p \in Pid : life[p] \in {"alive", "zombie"}}

DomainTypeOK ==
    /\ life \in [Pid -> Lives]
    /\ parent \in [Pid -> Pid \union {Supervisor, None}]
    /\ sup \in SupStates
    /\ kids \subseteq Pid

\* A process is the supervisor's child, or that of a process still alive.
Attached == \A p \in Living : parent[p] = Supervisor \/ parent[p] \in Alive

\* The domain is a forest: every family in it has a member whose parent is
\* outside of it.
Forest == \A T \in SUBSET Living : T # {} => \E p \in T : parent[p] \notin T

\* Where the supervisor knows the domain to be empty.
Emptied ==
    /\ sup \in {"idle", "spawn", "drained"} => Living = {}
    /\ answer # None /\ answer.owned => Living = {}

\* The supervisor answers once, at its end.
AnswersOnce ==
    /\ answer # None => sup = "ended"
    /\ sup \in {"idle", "spawn"} => ~timedOut

EnvelopeWaits ==
    /\ pc \in Entry \ {"agent"} => sup = "idle"
    /\ pc \in Adjudicating => answer # None /\ answer.owned

LInv == DomainTypeOK /\ Attached /\ Forest /\ Emptied /\ AnswersOnce /\ EnvelopeWaits

\* ECHILD, and what the subreaper makes of it: a supervisor without children
\* has no descendants.
LEMMA NoChildNoDomain ==
    ASSUME DomainTypeOK, Attached, Forest, NoChild
    PROVE  Living = {}
<1> SUFFICES ASSUME Living # {}
             PROVE  FALSE
  OBVIOUS
<1>1. PICK p \in Living : parent[p] \notin Living
  BY DEF Forest
<1>2. parent[p] = Supervisor
  BY <1>1 DEF Attached, Alive, Living
<1> QED
  BY <1>2 DEF NoChild, Children, Living

\* Ending processes hands their children over and cuts no family loose.
LEMMA DieKeepsForest ==
    ASSUME DomainTypeOK, Attached, Forest, NEW S \in SUBSET Alive, Die(S)
    PROVE  /\ life' \in [Pid -> Lives] /\ parent' \in [Pid -> Pid \union {Supervisor, None}]
           /\ Attached' /\ Forest' /\ Living' = Living
<1> USE DEF DomainTypeOK, Die
<1>1. life' \in [Pid -> Lives] /\ parent' \in [Pid -> Pid \union {Supervisor, None}]
  BY DEF Lives
<1>2. Living' = Living
  BY DEF Living, Alive
<1>3. \A p \in Pid : parent'[p] = Supervisor \/ parent'[p] = parent[p]
  OBVIOUS
<1>4. Attached'
  BY <1>2 DEF Attached, Alive, Living
<1>5. Forest'
  <2> SUFFICES ASSUME NEW T \in SUBSET Living, T # {}
               PROVE  \E p \in T : parent'[p] \notin T
    BY <1>2 DEF Forest
  <2>1. PICK p \in T : parent[p] \notin T
    BY DEF Forest
  <2>2. Supervisor \notin T
    BY LifecycleAssumption DEF Living
  <2> QED
    BY <1>3, <2>1, <2>2 DEF Living
<1> QED
  BY <1>1, <1>2, <1>4, <1>5

\* A process that is gone takes no one with it.
LEMMA ReapKeepsForest ==
    ASSUME DomainTypeOK, Attached, Forest, NEW c \in Pid, life[c] = "zombie",
           life' = [life EXCEPT ![c] = "reaped"], parent' = parent
    PROVE  /\ life' \in [Pid -> Lives] /\ Attached' /\ Forest' /\ Living' \subseteq Living
<1> USE DEF DomainTypeOK
<1>1. life' \in [Pid -> Lives]
  BY DEF Lives
<1>2. Living' \subseteq Living /\ Alive' = Alive
  BY DEF Living, Alive
<1>3. Attached'
  BY <1>2 DEF Attached
<1>4. Forest'
  BY <1>2 DEF Forest
<1> QED
  BY <1>1, <1>2, <1>3, <1>4

\* A new process hangs from one that is alive.
LEMMA ForkKeepsForest ==
    ASSUME DomainTypeOK, Attached, Forest, NEW p \in Pid, NEW c \in Pid, Fork(p, c)
    PROVE  /\ life' \in [Pid -> Lives] /\ parent' \in [Pid -> Pid \union {Supervisor, None}]
           /\ Attached' /\ Forest'
<1> USE DEF DomainTypeOK, Fork
<1>1. life' \in [Pid -> Lives] /\ parent' \in [Pid -> Pid \union {Supervisor, None}]
  BY DEF Lives
<1>2. Living' = Living \union {c} /\ c \notin Living /\ p # c
  BY DEF Living
<1>3. Attached'
  BY <1>2 DEF Attached, Alive, Living
<1>4. Forest'
  <2> SUFFICES ASSUME NEW T \in SUBSET Living', T # {}
               PROVE  \E q \in T : parent'[q] \notin T
    BY DEF Forest
  <2>1. CASE T \ {c} = {}
    BY <1>2, <2>1
  <2>2. CASE T \ {c} # {}
    <3>1. PICK q \in T \ {c} : parent[q] \notin T \ {c}
      BY <1>2, <2>2 DEF Forest
    <3>2. q \in Living /\ parent'[q] = parent[q]
      BY <1>2, <3>1 DEF Living
    <3>3. parent[q] # c
      BY <1>2, <3>2, LifecycleAssumption DEF Attached, Alive, Living
    <3> QED
      BY <3>1, <3>2, <3>3
  <2> QED
    BY <2>1, <2>2
<1> QED
  BY <1>1, <1>3, <1>4

\* Nothing lives before the agent is spawned.
LEMMA InitLInv == Init => LInv
  BY LifecycleAssumption
  DEF Init, LifecycleInit, LInv, DomainTypeOK, Lives, SupStates, Attached, Forest, Living,
      Emptied, AnswersOnce, EnvelopeWaits, Entry, Adjudicating

\* Whatever the processes of the domain do.
LEMMA DomainLInv ==
    ASSUME LInv, DomainStep, UNCHANGED runVars
    PROVE  LInv'
<1> USE DEF LInv
<1>0. UNCHANGED <<sup, kids, answer, timedOut, pc>>
  BY DEF DomainStep, Fork, Setsid, Exit, Wait, supervisor, runVars, envelope
<1>1. ASSUME NEW p \in Pid, NEW c \in Pid, Fork(p, c)
      PROVE  LInv'
  <2>1. Living # {}
    BY <1>1 DEF Fork, Living
  <2> QED
    BY <1>0, <1>1, <2>1, ForkKeepsForest DEF DomainTypeOK, Emptied, AnswersOnce, EnvelopeWaits
<1>2. ASSUME NEW p \in Pid, Setsid(p)
      PROVE  LInv'
  BY <1>0, <1>2
  DEF Setsid, DomainTypeOK, Attached, Forest, Living, Alive, Emptied, AnswersOnce, EnvelopeWaits
<1>3. ASSUME NEW p \in Pid, Exit(p)
      PROVE  LInv'
  <2>1. {p} \in SUBSET Alive /\ Die({p})
    BY <1>3 DEF Exit, Alive
  <2> QED
    BY <1>0, <2>1, DieKeepsForest DEF DomainTypeOK, Emptied, AnswersOnce, EnvelopeWaits
<1>4. ASSUME NEW c \in Pid, Wait(c)
      PROVE  LInv'
  <2>1. /\ life[c] = "zombie" /\ life' = [life EXCEPT ![c] = "reaped"] /\ parent' = parent
    BY <1>4 DEF Wait
  <2> QED
    BY <1>0, <2>1, ReapKeepsForest DEF DomainTypeOK, Emptied, AnswersOnce, EnvelopeWaits
<1> QED
  BY <1>1, <1>2, <1>3, <1>4 DEF DomainStep

\* Every call of the supervisor, its kill and its backstop.
LEMMA SupervisorLInv ==
    ASSUME LInv, SupervisorStep \/ SupervisorKilled \/ Backstop, UNCHANGED runVars
    PROVE  LInv'
<1> USE DEF LInv, DomainTypeOK, AnswersOnce, EnvelopeWaits
<1>0. pc' = pc /\ sup # "ended" /\ answer = None
  BY DEF SupervisorStep, SupervisorKilled, Backstop, Spawn, ChildEnds, BudgetExpires, KillGroup,
         ReapOne, KillChild, Drained, StillLive, ListChildren, NextRound, Report, runVars, envelope
<1>1. CASE Spawn
  <2>0. sup = "spawn" /\ Living = {} /\ First \in Pid /\ First # Supervisor
    BY <1>1, LifecycleAssumption DEF Spawn, Emptied
  <2>1. ASSUME UNCHANGED domain, sup' = "ended", answer' = Answer(1, FALSE, TRUE), kids' = kids
        PROVE  LInv'
    <3>1. Living' = {} /\ life' = life /\ parent' = parent
      BY <2>0, <2>1 DEF domain, Living
    <3>2. Attached' /\ Forest'
      BY <3>1 DEF Attached, Forest
    <3>3. DomainTypeOK' /\ Emptied'
      BY <2>1, <3>1 DEF SupStates, Emptied
    <3>4. AnswersOnce'
      BY <2>1
    <3>5. EnvelopeWaits'
      BY <1>0, <2>0, <2>1 DEF Entry, Adjudicating
    <3> QED
      BY <3>2, <3>3, <3>4, <3>5
  <2>2. ASSUME life' = [life EXCEPT ![First] = "alive"],
               parent' = [parent EXCEPT ![First] = Supervisor],
               sup' = "wait", answer' = answer, kids' = kids
        PROVE  LInv'
    <3>1. Living' = {First} /\ parent'[First] = Supervisor
      BY <2>0, <2>2 DEF Living
    <3>2. Attached' /\ Forest'
      BY <2>0, <3>1 DEF Attached, Forest
    <3>3. DomainTypeOK'
      BY <2>0, <2>2 DEF Lives, SupStates
    <3> QED
      BY <1>0, <2>0, <2>2, <3>2, <3>3 DEF Emptied, Entry, Adjudicating
  <2> QED
    BY <1>1, <2>1, <2>2 DEF Spawn
<1>2. CASE ChildEnds \/ \E c \in Pid : ReapOne(c)
  <2>1. PICK c \in Pid : /\ life[c] = "zombie" /\ life' = [life EXCEPT ![c] = "reaped"]
                         /\ parent' = parent
    BY <1>2, LifecycleAssumption DEF ChildEnds, ReapOne
  <2>2. sup \notin {"idle", "spawn"} /\ sup' \in {"killpg", "reap", "last"} /\ kids' = kids /\ answer' = answer
    BY <1>2 DEF ChildEnds, ReapOne, supervisor
  <2> QED
    BY <1>0, <2>1, <2>2, ReapKeepsForest DEF Emptied, SupStates, Entry, Adjudicating
<1>3. CASE KillGroup \/ \E c \in Pid : KillChild(c)
  <2>1. /\ sup' \in {"reap", "kill", "failed"} /\ sup \notin {"idle", "spawn"}
        /\ kids' \subseteq Pid /\ answer' = answer
    BY <1>3 DEF KillGroup, KillChild
  <2>2. CASE UNCHANGED domain
    BY <1>0, <2>1, <2>2
    DEF domain, Attached, Forest, Living, Alive, Emptied, SupStates, Entry, Adjudicating
  <2>3. CASE \E S \in SUBSET Alive : Die(S)
    BY <1>0, <2>1, <2>3, DieKeepsForest DEF Emptied, SupStates, Entry, Adjudicating
  <2>4. (\E S \in SUBSET Alive : Die(S)) \/ UNCHANGED domain
    <3>1. CASE KillGroup
      <4>1. {p \in Alive : group[p]} \in SUBSET Alive
        OBVIOUS
      <4> QED
        BY <3>1, <4>1 DEF KillGroup
    <3>2. ASSUME NEW c \in Pid, KillChild(c)
          PROVE  <2>4!:
      <4>1. {c} \intersect Alive \in SUBSET Alive
        OBVIOUS
      <4> QED
        BY <3>2, <4>1 DEF KillChild
    <3> QED
      BY <1>3, <3>1, <3>2
  <2> QED
    BY <2>2, <2>3, <2>4
<1>4. CASE Drained
  <2>1. Living = {}
    BY <1>4, NoChildNoDomain DEF Drained
  <2> QED
    BY <1>0, <1>4, <2>1
    DEF Drained, domain, Attached, Forest, Living, Alive, Emptied, SupStates, Entry, Adjudicating
<1>5. CASE Report
  BY <1>0, <1>5
  DEF Report, Answer, domain, Attached, Forest, Living, Alive, Emptied, SupStates, Entry, Adjudicating
<1>6. CASE SupervisorKilled \/ Backstop
  BY <1>0, <1>6
  DEF SupervisorKilled, Backstop, Answer, domain, Attached, Forest, Living, Alive, Emptied,
      SupStates, Entry, Adjudicating
<1>7. CASE BudgetExpires \/ StillLive \/ ListChildren \/ NextRound
  <2>1. /\ UNCHANGED domain /\ answer' = answer /\ kids' \subseteq Pid
        /\ sup \notin {"idle", "spawn"}
        /\ sup' \in {"killpg", "list", "failed", "kill", "reap", "last"}
    BY <1>7 DEF BudgetExpires, StillLive, ListChildren, NextRound, Children
  <2> QED
    BY <1>0, <2>1
    DEF domain, Attached, Forest, Living, Alive, Emptied, SupStates, Entry, Adjudicating
<1> QED
  BY <1>1, <1>2, <1>3, <1>4, <1>5, <1>6, <1>7 DEF SupervisorStep

\* The envelope judges only behind an owned answer.
LEMMA EnvelopeLInv ==
    ASSUME LInv, EnvelopeStep \/ Movement
    PROVE  LInv'
<1> USE DEF LInv
<1>1. CASE StartAgent
  BY <1>1
  DEF StartAgent, Goto, Refuse, Finish, lifecycleVars, supervisor, domain, DomainTypeOK, SupStates,
      Attached, Forest, Living, Alive, Emptied, AnswersOnce, EnvelopeWaits, Entry, Adjudicating
<1>2. CASE UNCHANGED lifecycleVars /\ EnvelopeWaits'
  BY <1>2
  DEF lifecycleVars, supervisor, domain, DomainTypeOK, Attached, Forest, Living, Alive, Emptied,
      AnswersOnce
<1>3. CASE EnvelopeStep /\ ~StartAgent
  <2>1. UNCHANGED lifecycleVars
    BY <1>3 DEF EnvelopeStep, NoteRewrites, FreezeBase, CheckClean, FreezeDeps, AgentReturns,
         CheckRewrites, CheckAncestry, Fingerprint, CheckCommits, CheckWorktree, CheckDrift,
         Verify, TreeAgain, DepsAgain, RewritesAgain, Release, Throws
  <2>2. EnvelopeWaits'
    BY <1>3, <2>1 DEF EnvelopeStep, NoteRewrites, FreezeBase, CheckClean, FreezeDeps, AgentReturns,
         CheckRewrites, CheckAncestry, Fingerprint, CheckCommits, CheckWorktree, CheckDrift,
         Verify, TreeAgain, DepsAgain, RewritesAgain, Release, Throws, Goto, Refuse, Finish,
         EnvelopeWaits, Entry, Adjudicating, lifecycleVars, supervisor
  <2> QED
    BY <1>2, <2>1, <2>2
<1>4. CASE Movement
  <2>1. UNCHANGED lifecycleVars /\ pc' = pc
    BY <1>4 DEF Movement, MoveTree, MoveHead, Rewrite, InstallDeps, Hold, May, envelope
  <2> QED
    BY <1>2, <2>1 DEF EnvelopeWaits, lifecycleVars, supervisor
<1> QED
  BY <1>1, <1>3, <1>4

\* The invariant of the domain, the supervisor and the envelope's place.
LEMMA LifecycleInvariant == Spec => []LInv
<1>1. LInv /\ [Next]_vars => LInv'
  <2> SUFFICES ASSUME LInv, [Next]_vars
               PROVE  LInv'
    OBVIOUS
  <2>1. CASE UNCHANGED vars
    BY <2>1 DEF vars, runVars, envelope, lifecycleVars, supervisor, domain, LInv, DomainTypeOK,
         Attached, Forest, Living, Alive, Emptied, AnswersOnce, EnvelopeWaits
  <2> QED
    BY <2>1, DomainLInv, SupervisorLInv, EnvelopeLInv DEF Next
<1> QED
  BY InitLInv, <1>1, PTL DEF Spec

\* The supervisor reports ownership only of a domain in which nothing is left,
\* however it forked and detached.  (kill_domain, reap_state)
THEOREM OwnershipIsEarned == Spec => []OwnedIsDrained
<1>1. LInv => OwnedIsDrained
  BY DEF LInv, DomainTypeOK, Emptied, Living, Lives, OwnedIsDrained
<1> QED
  BY LifecycleInvariant, <1>1, PTL

\* No verdict is formed while a process of the agent's domain runs: whatever
\* left the group, was orphaned or forked during the drain is gone by then.
\* (runEnvelope's refusal of an unowned lifecycle, with the above)
THEOREM NobodyIsLeft == Spec => []NobodyLeft
<1>1. LInv => NobodyLeft
  BY DEF LInv, EnvelopeWaits, Emptied, Living, Alive, NobodyLeft
<1> QED
  BY LifecycleInvariant, <1>1, PTL

-----------------------------------------------------------------------------
(* What a VERIFIED verdict says.                                           *)

AfterAncestry == {"fingerprint", "diff", "worktree", "drift", "verify", "tree2", "deps2", "rewrites2", "release"}
AfterCommits == AfterAncestry \ {"fingerprint", "diff"}
AfterWorktree == AfterCommits \ {"worktree"}
AfterVerify == AfterWorktree \ {"drift", "verify"}

\* What was noted is as it was: as far as the second look has not come, and as
\* the second look found it after that.
RewritesHeld == IF pc = "release" THEN ~found.rewrote /\ ~found.unreadable ELSE rewritten = note.rewritten
TreeHeld == IF pc \in {"deps2", "rewrites2", "release"} THEN ~found.mutated ELSE tree = note.tree
DepsHeld == AllowDepDrift \/ IF pc \in {"rewrites2", "release"} THEN ~found.drifted ELSE deps = note.deps

NotedAncestor == IF note.rewritten THEN GraftedBase[<<note.base, note.head>>] ELSE MergeBase[<<note.base, note.head>>]
Frozen == IF AllowDepDrift THEN Dep ELSE {note.deps}
CommitsClean == note.head # note.base => <<Contents[note.base], Contents[note.head]>> \notin Blocks
TreeClean == <<Contents[note.head], note.tree>> \notin Blocks
SuiteGreen == \E d \in Frozen : <<Contents[note.base], note.tree, d>> \in Green
AgentClean == left = 0 /\ ~timedOut

\* The answer of a supervisor that owned the domain is the agent's own.
AnswerInv ==
    /\ LInv
    /\ answer # None /\ answer.owned /\ ~answer.timedOut /\ answer.exit = 0 => AgentClean

\* The envelope's notes and findings have their shape.
EnvelopeTyped ==
    /\ tree \in Tree /\ head \in Commit /\ deps \in Dep /\ rewritten \in BOOLEAN
    /\ note \in [rewritten : BOOLEAN, base : Commit \union {None}, deps : Dep \union {None},
                 head : Commit \union {None}, tree : Tree \union {None}]
    /\ found \in [diff : 0..2, worktree : 0..2, verify : 0..2, mutated : BOOLEAN,
                  drifted : BOOLEAN, rewrote : BOOLEAN, unreadable : BOOLEAN]

\* What each check found stands for as long as nothing has moved since; taking
\* a move back while it is judged is what undone remembers.
ChecksStand ==
    /\ pc \in AfterAncestry => note.head = head
    /\ pc \in AfterAncestry /\ ~undone /\ RewritesHeld => NotedAncestor = note.base
    /\ pc \in AfterCommits /\ ~undone /\ RewritesHeld /\ found.diff = 0 => CommitsClean
    /\ pc \in AfterWorktree /\ ~undone /\ TreeHeld /\ found.worktree = 0 => TreeClean
    /\ pc \in AfterVerify /\ ~undone /\ RewritesHeld /\ TreeHeld /\ DepsHeld /\ found.verify = 0 => SuiteGreen

\* The verdict is the end, and VERIFIED is all of it and the agent's own exit.
VerdictStands ==
    /\ pc # "end" => verdict = None
    /\ verdict = "VERIFIED" => answer # None /\ answer.owned /\ answer.exit = 0 /\ ~answer.timedOut
    /\ verdict = "VERIFIED" /\ ~undone => CommitsClean /\ TreeClean /\ SuiteGreen

JudgedInv == EnvelopeTyped /\ ChecksStand /\ VerdictStands

\* Nothing has been answered.
LEMMA AnswerStarts == Init => AnswerInv
BY InitLInv DEF Init, LifecycleInit, AnswerInv

\* The one answer is given by the supervisor, of the agent it waited for.
LEMMA AnswerKeeps == AnswerInv /\ LInv' /\ [Next]_vars => AnswerInv'
<1> SUFFICES ASSUME AnswerInv, LInv', [Next]_vars PROVE AnswerInv'
  OBVIOUS
<1>1. CASE UNCHANGED <<answer, left, timedOut>> BY <1>1 DEF AnswerInv, AgentClean
<1>2. ASSUME NEW p \in Pid, Exit(p) PROVE AnswerInv'
  <2>1. p \in Living BY <1>2 DEF Exit, Living
  <2>2. ~(answer # None /\ answer.owned) /\ answer' = answer BY <2>1, <1>2 DEF AnswerInv, LInv, Emptied, Exit
  <2>3. QED BY <2>2 DEF AnswerInv
<1>3. CASE Spawn
  <2>1. answer' = answer \/ answer' = Answer(1, FALSE, TRUE) BY <1>3 DEF Spawn
  <2>2. left' = left /\ timedOut' = timedOut BY <1>3 DEF Spawn
  <2>3. QED BY <2>1, <2>2 DEF AnswerInv, Answer, AgentClean
<1>4. CASE BudgetExpires
  <2>1. answer = None /\ answer' = answer BY <1>4 DEF BudgetExpires, AnswerInv, LInv, AnswersOnce
  <2>2. QED BY <2>1 DEF AnswerInv
<1>5. CASE Report
  <2>1. left' = left /\ timedOut' = timedOut BY <1>5 DEF Report
  <2>2. CASE sup = "failed"
    <3>1. answer' = Answer(1, FALSE, FALSE) BY <1>5, <2>2 DEF Report
    <3>2. QED BY <3>1 DEF AnswerInv, Answer
  <2>3. CASE sup # "failed"
    <3>1. answer' = Answer(IF timedOut THEN 124 ELSE left, timedOut, TRUE) BY <1>5, <2>3 DEF Report
    <3>2. answer'.exit = 0 /\ ~answer'.timedOut => left = 0 /\ ~timedOut BY <3>1 DEF Answer
    <3>3. QED BY <2>1, <3>2 DEF AnswerInv, AgentClean
  <2>4. QED BY <2>2, <2>3
<1>6. CASE SupervisorKilled \/ Backstop
  <2>1. answer' = Answer(1, FALSE, FALSE) \/ answer' = Answer(124, TRUE, FALSE) BY <1>6 DEF SupervisorKilled, Backstop
  <2>2. QED BY <2>1 DEF AnswerInv, Answer
<1>7. CASE ChildEnds \/ KillGroup \/ (\E c \in Pid : ReapOne(c) \/ KillChild(c)) \/ Drained \/ StillLive
           \/ ListChildren \/ NextRound
  BY <1>1, <1>7 DEF ChildEnds, KillGroup, ReapOne, KillChild, Drained, StillLive, ListChildren, NextRound, supervisor
<1>8. CASE (\E p, c \in Pid : Fork(p, c)) \/ (\E p \in Pid : Setsid(p) \/ Wait(p))
  BY <1>1, <1>8 DEF Fork, Setsid, Wait, supervisor
<1>9. CASE EnvelopeStep
  BY <1>1, <1>9 DEF EnvelopeStep, NoteRewrites, FreezeBase, CheckClean, FreezeDeps, StartAgent, AgentReturns,
         CheckRewrites, CheckAncestry, Fingerprint, CheckCommits, CheckWorktree, CheckDrift,
         Verify, TreeAgain, DepsAgain, RewritesAgain, Release, Throws, lifecycleVars, supervisor
<1>10. CASE Movement
  BY <1>1, <1>10 DEF Movement, MoveTree, MoveHead, Rewrite, InstallDeps, Hold, May, lifecycleVars, supervisor
<1>11. CASE UNCHANGED vars BY <1>1, <1>11 DEF vars, lifecycleVars, supervisor
<1>12. QED
  BY <1>2, <1>3, <1>4, <1>5, <1>6, <1>7, <1>8, <1>9, <1>10, <1>11 DEF Next, SupervisorStep, DomainStep


\* Nothing has been judged.
LEMMA JudgedStarts == Init => JudgedInv
<1> SUFFICES ASSUME Init PROVE JudgedInv
  OBVIOUS
<1>1. EnvelopeTyped
  <2>1. note \in [rewritten : BOOLEAN, base : Commit \union {None}, deps : Dep \union {None},
                  head : Commit \union {None}, tree : Tree \union {None}]
    BY DEF Init
  <2>2. found \in [diff : 0..2, worktree : 0..2, verify : 0..2, mutated : BOOLEAN,
                   drifted : BOOLEAN, rewrote : BOOLEAN, unreadable : BOOLEAN]
    BY DEF Init
  <2>3. tree \in Tree /\ head \in Commit /\ deps \in Dep /\ rewritten \in BOOLEAN
    BY DEF Init
  <2>4. QED BY <2>1, <2>2, <2>3 DEF EnvelopeTyped
<1>2. ChecksStand BY DEF Init, ChecksStand, AfterAncestry, AfterCommits, AfterWorktree, AfterVerify
<1>3. "VERIFIED" # None BY RunAssumption DEF Verdicts
<1>4. VerdictStands BY <1>3 DEF Init, VerdictStands
<1>5. QED BY <1>1, <1>2, <1>4 DEF JudgedInv

\* The notes and findings keep their shape.
LEMMA TypedKeeps == EnvelopeTyped /\ [Next]_vars => EnvelopeTyped'
<1> SUFFICES ASSUME EnvelopeTyped, [Next]_vars PROVE EnvelopeTyped'
  OBVIOUS
<1> USE RunAssumption DEF EnvelopeTyped
<1>1. CASE UNCHANGED runVars BY <1>1 DEF runVars, world, envelope
<1>2. CASE Movement
  BY <1>2 DEF Movement, MoveTree, MoveHead, Rewrite, InstallDeps, Hold, May, envelope
<1>3. CASE EnvelopeStep
  <2>1. UNCHANGED world
    BY <1>3 DEF EnvelopeStep, NoteRewrites, FreezeBase, CheckClean, FreezeDeps, StartAgent, AgentReturns,
         CheckRewrites, CheckAncestry, Fingerprint, CheckCommits, CheckWorktree, CheckDrift,
         Verify, TreeAgain, DepsAgain, RewritesAgain, Release, Throws, Still
  <2>2. CASE UNCHANGED <<note, found>> BY <2>1, <2>2 DEF world
  <2>3. CASE NoteRewrites \/ FreezeDeps \/ CheckAncestry \/ Fingerprint
    BY <2>1, <2>3 DEF world, NoteRewrites, FreezeDeps, CheckAncestry, Fingerprint
  <2>4. CASE FreezeBase
    BY <2>1, <2>4 DEF world, FreezeBase, Refuse
  <2>5. CASE CheckCommits \/ CheckWorktree \/ Verify
    BY <2>1, <2>5 DEF world, CheckCommits, CheckWorktree, Verify
  <2>6. CASE TreeAgain \/ DepsAgain \/ RewritesAgain
    BY <2>1, <2>6 DEF world, TreeAgain, DepsAgain, RewritesAgain, Drifted
  <2>7. CASE CheckClean \/ StartAgent \/ AgentReturns \/ CheckRewrites \/ CheckDrift \/ Release \/ Throws
    BY <2>2, <2>7 DEF CheckClean, StartAgent, AgentReturns, CheckRewrites, CheckDrift, Release, Throws, Refuse
  <2>8. QED BY <1>3, <2>3, <2>4, <2>5, <2>6, <2>7 DEF EnvelopeStep
<1>4. QED BY <1>1, <1>2, <1>3 DEF Next, vars

\* Nothing but the envelope's own step moves what it noted, and what an
\* outsider moves back is remembered.
LEMMA MovementKeepsJudged ==
    ASSUME "head" \notin OutsiderMay, LInv, JudgedInv, Movement, EnvelopeTyped'
    PROVE  JudgedInv'
<1> USE DEF JudgedInv
<1>1. UNCHANGED <<pc, note, found, verdict, exit, answer>>
  BY DEF Movement, MoveTree, MoveHead, Rewrite, InstallDeps, Hold, May, envelope, lifecycleVars, supervisor
<1>2. pc # "end" /\ verdict = None /\ verdict' # "VERIFIED"
  BY <1>1, RunAssumption DEF Movement, MoveTree, MoveHead, Rewrite, InstallDeps, Hold, May, VerdictStands, Verdicts
<1>3. VerdictStands' BY <1>1, <1>2 DEF VerdictStands
<1>4. undone => undone'
  BY DEF Movement, MoveTree, MoveHead, Rewrite, InstallDeps, Hold, Undo, EnvelopeTyped
<1>5. pc \in AfterAncestry => head' = head
  <2>1. pc \in AfterAncestry => Alive = {}
    BY DEF AfterAncestry, Adjudicating, LInv, EnvelopeWaits, Emptied, Living, Alive
  <2>2. pc \in AfterAncestry => ~May("head") BY <2>1 DEF May
  <2>3. QED BY <2>2 DEF Movement, MoveTree, MoveHead, Rewrite, InstallDeps, Hold
<1>6. pc \in AfterAncestry /\ ~undone' /\ RewritesHeld' => RewritesHeld
  <2>1. CASE Rewrite BY <2>1, <1>1 DEF Rewrite, Undo, RewritesHeld, AfterAncestry, Settled
  <2>2. CASE ~Rewrite
    <3>1. rewritten' = rewritten BY <2>2 DEF Movement, MoveTree, MoveHead, InstallDeps, Hold
    <3>2. QED BY <3>1, <1>1 DEF RewritesHeld
  <2>3. QED BY <2>1, <2>2
<1>7. pc \in AfterWorktree /\ ~undone' /\ TreeHeld' => TreeHeld
  <2>1. CASE MoveTree BY <2>1, <1>1 DEF MoveTree, Undo, TreeHeld, AfterWorktree, AfterCommits, AfterAncestry, Settled
  <2>2. CASE ~MoveTree
    <3>1. tree' = tree BY <2>2 DEF Movement, Rewrite, MoveHead, InstallDeps, Hold
    <3>2. QED BY <3>1, <1>1 DEF TreeHeld
  <2>3. QED BY <2>1, <2>2
<1>8. pc \in AfterVerify /\ ~undone' /\ DepsHeld' => DepsHeld
  <2>1. CASE InstallDeps
    BY <2>1, <1>1 DEF InstallDeps, Undo, DepsHeld, AfterVerify, AfterWorktree, AfterCommits, AfterAncestry, Settled
  <2>2. CASE ~InstallDeps
    <3>1. deps' = deps BY <2>2 DEF Movement, Rewrite, MoveHead, MoveTree, Hold
    <3>2. QED BY <3>1, <1>1 DEF DepsHeld
  <2>3. QED BY <2>1, <2>2
<1>9. /\ NotedAncestor' = NotedAncestor /\ (CommitsClean <=> CommitsClean') /\ (TreeClean <=> TreeClean')
      /\ (SuiteGreen <=> SuiteGreen')
  BY <1>1 DEF NotedAncestor, CommitsClean, TreeClean, SuiteGreen, Frozen
<1>10. AfterVerify \subseteq AfterWorktree /\ AfterWorktree \subseteq AfterCommits /\ AfterCommits \subseteq AfterAncestry
  BY DEF AfterVerify, AfterWorktree, AfterCommits
<1>11. ChecksStand'
  BY <1>1, <1>4, <1>5, <1>6, <1>7, <1>8, <1>9, <1>10 DEF ChecksStand
<1>12. QED BY <1>3, <1>11

\* Before the ancestry is read nothing is claimed yet.
LEMMA EntryKeepsJudged ==
    ASSUME JudgedInv, EnvelopeTyped',
           NoteRewrites \/ FreezeBase \/ CheckClean \/ FreezeDeps \/ StartAgent \/ AgentReturns
             \/ CheckRewrites \/ Throws
    PROVE  JudgedInv'
<1> USE DEF JudgedInv
<1>1. pc # "end" /\ verdict = None BY DEF VerdictStands, NoteRewrites, FreezeBase, CheckClean, FreezeDeps,
        StartAgent, AgentReturns, CheckRewrites, Throws
<1>2. verdict' # "VERIFIED"
  BY <1>1, RunAssumption DEF NoteRewrites, FreezeBase, CheckClean, FreezeDeps, StartAgent, AgentReturns, CheckRewrites,
     Throws, Goto, Refuse, Finish, Verdicts
<1>3. pc' \notin AfterAncestry /\ (pc' # "end" => verdict' = None)
  BY <1>1 DEF NoteRewrites, FreezeBase, CheckClean, FreezeDeps, StartAgent, AgentReturns, CheckRewrites,
     Throws, Goto, Refuse, Finish, AfterAncestry
<1>4. VerdictStands' BY <1>2, <1>3 DEF VerdictStands
<1>5. ChecksStand' BY <1>3 DEF ChecksStand, AfterCommits, AfterWorktree, AfterVerify
<1>6. QED BY <1>4, <1>5

\* HEAD is noted, and it descends from the base.
LEMMA CheckAncestryKeeps ==
    ASSUME JudgedInv, EnvelopeTyped', CheckAncestry
    PROVE  JudgedInv'
<1> USE DEF JudgedInv
<1>1. /\ note' = [note EXCEPT !.head = head] /\ found' = found /\ rewritten' = rewritten /\ undone' = undone
      /\ head' = head /\ answer' = answer
  BY DEF CheckAncestry, Still, world, lifecycleVars, supervisor
<1>2. /\ note'.head = head /\ note'.base = note.base /\ note'.rewritten = note.rewritten
  BY <1>1 DEF EnvelopeTyped
<1>3. CASE pc' = "fingerprint" /\ verdict' = verdict /\ Ancestor(note.base, head) = note.base
  <2>1. verdict' = None BY <1>3, RunAssumption DEF VerdictStands, CheckAncestry
  <2>2. VerdictStands' BY <2>1, <1>3, RunAssumption DEF VerdictStands, Verdicts
  <2>3. RewritesHeld' => NotedAncestor' = note.base
    BY <1>1, <1>2, <1>3 DEF RewritesHeld, NotedAncestor, Ancestor
  <2>4. ChecksStand' BY <2>3, <1>1, <1>2, <1>3 DEF ChecksStand, AfterCommits, AfterWorktree, AfterVerify
  <2>5. QED BY <2>2, <2>4
<1>4. CASE pc' = "end" /\ verdict' = "HISTORY_REWRITE"
  BY <1>4 DEF VerdictStands, ChecksStand, AfterCommits, AfterWorktree, AfterVerify, AfterAncestry
<1>5. QED BY <1>3, <1>4 DEF CheckAncestry, Goto, Finish

\* The checks, and the suite, over what is noted.
LEMMA ChecksKeep ==
    ASSUME JudgedInv, EnvelopeTyped', Fingerprint \/ CheckCommits \/ CheckWorktree \/ CheckDrift \/ Verify
    PROVE  JudgedInv'
<1> USE DEF JudgedInv
<1>1. UNCHANGED <<tree, head, rewritten, deps, undone, answer>> /\ verdict = None
  BY DEF Fingerprint, CheckCommits, CheckWorktree, CheckDrift, Verify, Still, world, lifecycleVars, supervisor,
     VerdictStands
<1>2. VerdictStands'
  BY <1>1, RunAssumption DEF Fingerprint, CheckCommits, CheckWorktree, CheckDrift, Verify, Goto, Finish,
     VerdictStands, Verdicts
<1>3. CASE Fingerprint
  <2>1. pc = "fingerprint" /\ pc' = "diff" /\ note' = [note EXCEPT !.tree = tree] BY <1>3 DEF Fingerprint, Goto
  <2>2. note'.head = note.head /\ note'.base = note.base /\ note'.rewritten = note.rewritten
    BY <2>1 DEF EnvelopeTyped
  <2>3. QED BY <1>1, <1>2, <2>1, <2>2
    DEF ChecksStand, AfterAncestry, AfterCommits, AfterWorktree, AfterVerify, RewritesHeld, NotedAncestor
<1>4. CASE CheckCommits
  <2>1. PICK code \in 0..2 :
          /\ IF note.head = note.base THEN code = 0
             ELSE MayAnswer(code, Check(Contents[Ancestor(note.base, note.head)], Contents[note.head]))
          /\ found' = [found EXCEPT !.diff = code]
    BY <1>4 DEF CheckCommits
  <2>2. pc = "diff" /\ pc' = "worktree" /\ note' = note BY <1>4 DEF CheckCommits, Goto
  <2>3. found'.diff = code BY <2>1 DEF EnvelopeTyped
  <2>4. ~undone /\ RewritesHeld => NotedAncestor = note.base BY <2>2 DEF ChecksStand, AfterAncestry
  <2>5. ~undone /\ RewritesHeld /\ code = 0 => CommitsClean
    BY <2>1, <2>2, <2>4 DEF RewritesHeld, NotedAncestor, Ancestor, CommitsClean, MayAnswer, Check
  <2>6. RewritesHeld' <=> RewritesHeld BY <1>1, <2>2 DEF RewritesHeld
  <2>7. CommitsClean' <=> CommitsClean BY <2>2 DEF CommitsClean
  <2>8. NotedAncestor' = NotedAncestor BY <2>2 DEF NotedAncestor
  <2>9. QED BY <1>1, <1>2, <2>2, <2>3, <2>4, <2>5, <2>6, <2>7, <2>8
    DEF ChecksStand, AfterAncestry, AfterCommits, AfterWorktree, AfterVerify
<1>5. CASE CheckWorktree
  <2>1. PICK code \in 0..2 :
          /\ MayAnswer(code, Check(Contents[head], tree))
          /\ found' = [found EXCEPT !.worktree = code]
    BY <1>5 DEF CheckWorktree
  <2>2. pc = "worktree" /\ pc' = "drift" /\ note' = note BY <1>5 DEF CheckWorktree, Goto
  <2>3. found'.worktree = code /\ found'.diff = found.diff BY <2>1 DEF EnvelopeTyped
  <2>4. note.head = head BY <2>2 DEF ChecksStand, AfterAncestry
  <2>5. TreeHeld' /\ code = 0 => TreeClean'
    BY <1>1, <2>1, <2>2, <2>4 DEF TreeHeld, TreeClean, MayAnswer, Check
  <2>6. RewritesHeld' <=> RewritesHeld BY <1>1, <2>2 DEF RewritesHeld
  <2>7. (CommitsClean' <=> CommitsClean) /\ NotedAncestor' = NotedAncestor BY <2>2 DEF CommitsClean, NotedAncestor
  <2>8. QED BY <1>1, <1>2, <2>2, <2>3, <2>5, <2>6, <2>7
    DEF ChecksStand, AfterAncestry, AfterCommits, AfterWorktree, AfterVerify
<1>6. CASE CheckDrift
  <2>1. pc = "drift" /\ note' = note /\ found' = found /\ pc' \in {"verify", "end"}
    BY <1>6 DEF CheckDrift, Goto, Finish
  <2>2. pc' = "verify" => (RewritesHeld' <=> RewritesHeld) /\ (TreeHeld' <=> TreeHeld)
    BY <1>1, <2>1 DEF RewritesHeld, TreeHeld
  <2>3. (CommitsClean' <=> CommitsClean) /\ (TreeClean' <=> TreeClean) /\ NotedAncestor' = NotedAncestor
    BY <2>1 DEF CommitsClean, TreeClean, NotedAncestor
  <2>4. QED BY <1>1, <1>2, <2>1, <2>2, <2>3
    DEF ChecksStand, AfterAncestry, AfterCommits, AfterWorktree, AfterVerify
<1>7. CASE Verify
  <2>1. PICK code \in 0..2 :
          /\ code = 0 => <<Contents[Ancestor(note.base, head)], tree, deps>> \in Green
          /\ found' = [found EXCEPT !.verify = code]
    BY <1>7 DEF Verify
  <2>2. pc = "verify" /\ pc' = "tree2" /\ note' = note BY <1>7 DEF Verify, Goto
  <2>3. found'.verify = code /\ found'.diff = found.diff /\ found'.worktree = found.worktree
    BY <2>1 DEF EnvelopeTyped
  <2>4. note.head = head BY <2>2 DEF ChecksStand, AfterAncestry
  <2>5. (RewritesHeld' <=> RewritesHeld) /\ (TreeHeld' <=> TreeHeld) BY <1>1, <2>2 DEF RewritesHeld, TreeHeld
  <2>6. (CommitsClean' <=> CommitsClean) /\ (TreeClean' <=> TreeClean) /\ NotedAncestor' = NotedAncestor
    BY <2>2 DEF CommitsClean, TreeClean, NotedAncestor
  <2>7. ~undone /\ RewritesHeld => NotedAncestor = note.base BY <2>2 DEF ChecksStand, AfterAncestry
  <2>8. DepsHeld' => deps \in Frozen BY <1>1, <2>2 DEF DepsHeld, Frozen, EnvelopeTyped
  <2>9. ~undone /\ RewritesHeld /\ TreeHeld /\ DepsHeld' /\ code = 0 => SuiteGreen
    BY <2>1, <2>2, <2>4, <2>7, <2>8 DEF RewritesHeld, TreeHeld, NotedAncestor, Ancestor, SuiteGreen
  <2>10. SuiteGreen' <=> SuiteGreen BY <2>2 DEF SuiteGreen, Frozen
  <2>11. QED BY <1>1, <1>2, <2>2, <2>3, <2>5, <2>6, <2>9, <2>10
    DEF ChecksStand, AfterAncestry, AfterCommits, AfterWorktree, AfterVerify
<1>8. QED BY <1>3, <1>4, <1>5, <1>6, <1>7

\* The second look at what may have moved.
LEMMA SecondLookKeeps ==
    ASSUME JudgedInv, EnvelopeTyped', TreeAgain \/ DepsAgain \/ RewritesAgain
    PROVE  JudgedInv'
<1> USE DEF JudgedInv
<1>1. /\ UNCHANGED <<tree, head, rewritten, deps, undone, answer, note, verdict>> /\ verdict = None
      /\ pc \in {"tree2", "deps2", "rewrites2"} /\ pc' \in {"deps2", "rewrites2", "release"}
  BY DEF TreeAgain, DepsAgain, RewritesAgain, Still, world, lifecycleVars, supervisor, VerdictStands, Goto
<1>2. VerdictStands' BY <1>1, RunAssumption DEF VerdictStands, Verdicts
<1>3. found'.diff = found.diff /\ found'.worktree = found.worktree /\ found'.verify = found.verify
  BY DEF TreeAgain, DepsAgain, RewritesAgain, EnvelopeTyped
<1>4. RewritesHeld' => RewritesHeld
  BY <1>1 DEF TreeAgain, DepsAgain, RewritesAgain, RewritesHeld, EnvelopeTyped, Goto
<1>5. TreeHeld' => TreeHeld
  BY <1>1 DEF TreeAgain, DepsAgain, RewritesAgain, TreeHeld, EnvelopeTyped, Goto
<1>6. DepsHeld' => DepsHeld
  BY <1>1 DEF TreeAgain, DepsAgain, RewritesAgain, DepsHeld, Drifted, EnvelopeTyped, Goto
<1>7. /\ NotedAncestor' = NotedAncestor /\ (CommitsClean <=> CommitsClean') /\ (TreeClean <=> TreeClean')
      /\ (SuiteGreen <=> SuiteGreen')
  BY <1>1 DEF NotedAncestor, CommitsClean, TreeClean, SuiteGreen, Frozen
<1>8. ChecksStand'
  BY <1>1, <1>3, <1>4, <1>5, <1>6, <1>7 DEF ChecksStand, AfterAncestry, AfterCommits, AfterWorktree, AfterVerify
<1>9. QED BY <1>2, <1>8

\* The verdict.
LEMMA ReleaseKeeps ==
    ASSUME JudgedInv, LInv, EnvelopeTyped', Release
    PROVE  JudgedInv'
<1> USE DEF JudgedInv
<1>1. UNCHANGED <<undone, answer, note, found>> /\ pc = "release" /\ pc' = "end"
  BY DEF Release, Still, lifecycleVars, supervisor, Finish
<1>2. ChecksStand' BY <1>1 DEF ChecksStand, AfterAncestry, AfterCommits, AfterWorktree, AfterVerify
<1>3. CASE verdict' = "VERIFIED"
  <2>1. ~Cannot /\ ~Blocked /\ ~answer.timedOut /\ answer.exit = 0 BY <1>3 DEF Release, Finish
  <2>2. answer # None /\ answer.owned BY <1>1 DEF LInv, EnvelopeWaits, Adjudicating
  <2>3. ~found.mutated /\ ~found.drifted /\ ~found.rewrote /\ ~found.unreadable
    BY <2>1 DEF Cannot, Blocked, Quiet
  <2>4. found.diff = 0 /\ found.worktree = 0 /\ found.verify = 0
    BY <2>1 DEF Cannot, Blocked, EnvelopeTyped
  <2>5. RewritesHeld /\ TreeHeld /\ DepsHeld BY <1>1, <2>3 DEF RewritesHeld, TreeHeld, DepsHeld
  <2>6. ~undone => CommitsClean /\ TreeClean /\ SuiteGreen
    BY <1>1, <2>4, <2>5 DEF ChecksStand, AfterAncestry, AfterCommits, AfterWorktree, AfterVerify
  <2>7. (CommitsClean <=> CommitsClean') /\ (TreeClean <=> TreeClean') /\ (SuiteGreen <=> SuiteGreen')
    BY <1>1 DEF CommitsClean, TreeClean, SuiteGreen, Frozen
  <2>8. VerdictStands' BY <1>1, <2>1, <2>2, <2>6, <2>7 DEF VerdictStands
  <2>9. QED BY <1>2, <2>8
<1>4. CASE verdict' # "VERIFIED" BY <1>1, <1>2, <1>4 DEF VerdictStands
<1>5. QED BY <1>3, <1>4

\* The domain and its supervisor move nothing of the envelope, and answer once.
LEMMA LifecycleKeepsJudged ==
    ASSUME JudgedInv, LInv, UNCHANGED runVars, answer = None \/ answer' = answer
    PROVE  JudgedInv'
<1> USE DEF JudgedInv
<1>1. UNCHANGED <<tree, head, rewritten, deps, pc, note, found, verdict, undone>> BY DEF runVars, world, envelope
<1>2. EnvelopeTyped' BY <1>1 DEF EnvelopeTyped
<1>3. ChecksStand'
  BY <1>1 DEF ChecksStand, RewritesHeld, TreeHeld, DepsHeld, NotedAncestor, CommitsClean, TreeClean, SuiteGreen, Frozen
<1>4. VerdictStands'
  BY <1>1 DEF VerdictStands, CommitsClean, TreeClean, SuiteGreen, Frozen
<1>5. QED BY <1>2, <1>3, <1>4

\* Every step, with a HEAD that outsiders leave alone.
LEMMA JudgedKeeps ==
    ASSUME "head" \notin OutsiderMay, LInv, JudgedInv, [Next]_vars
    PROVE  JudgedInv'
<1>1. EnvelopeTyped' BY TypedKeeps DEF JudgedInv
<1>2. CASE EnvelopeStep
  BY <1>1, <1>2, EntryKeepsJudged, CheckAncestryKeeps, ChecksKeep, SecondLookKeeps, ReleaseKeeps DEF EnvelopeStep
<1>3. CASE Movement BY <1>1, <1>3, MovementKeepsJudged
<1>4. CASE (SupervisorStep \/ SupervisorKilled \/ Backstop) /\ UNCHANGED runVars
  <2>1. sup # "ended"
    BY <1>4 DEF SupervisorStep, SupervisorKilled, Backstop, Spawn, ChildEnds, BudgetExpires, KillGroup,
         ReapOne, KillChild, Drained, StillLive, ListChildren, NextRound, Report
  <2>2. answer = None BY <2>1 DEF LInv, AnswersOnce
  <2>3. QED BY <1>4, <2>2, LifecycleKeepsJudged
<1>5. CASE DomainStep /\ UNCHANGED runVars
  <2>1. answer' = answer BY <1>5 DEF DomainStep, Fork, Setsid, Exit, Wait, supervisor
  <2>2. QED BY <1>5, <2>1, LifecycleKeepsJudged
<1>6. CASE UNCHANGED vars
  <2>1. UNCHANGED runVars /\ answer' = answer BY <1>6 DEF vars, lifecycleVars, supervisor
  <2>2. QED BY <2>1, LifecycleKeepsJudged
<1>7. QED BY <1>2, <1>3, <1>4, <1>5, <1>6 DEF Next

\* GREEN MEANS GREEN: as long as HEAD is the agent's alone to move (run_moving_head
\* shows what happens when it is not), VERIFIED says that from the frozen base to the judged
\* HEAD and from there to the judged tree nothing is blocked, that the base's own suite passes
\* over it with the entry's dependencies, and that the agent exited 0 in time: for every tree,
\* history, policy and suite, and whatever moved meanwhile.  (runEnvelope's adjudication)
THEOREM VerifiedMeansJudged ==
    ASSUME "head" \notin OutsiderMay
    PROVE  Spec => []VerifiedIsJudged
<1>1. Init => LInv /\ AnswerInv /\ JudgedInv BY InitLInv, AnswerStarts, JudgedStarts
<1>2. LInv /\ LInv' /\ AnswerInv /\ JudgedInv /\ [Next]_vars => AnswerInv' /\ JudgedInv'
  BY AnswerKeeps, JudgedKeeps
<1>3. AnswerInv /\ JudgedInv => VerifiedIsJudged
  BY DEF AnswerInv, JudgedInv, VerdictStands, AgentClean, CommitsClean, TreeClean, SuiteGreen, Frozen, VerifiedIsJudged
<1>4. QED BY <1>1, <1>2, <1>3, LifecycleInvariant, PTL DEF Spec
=============================================================================
