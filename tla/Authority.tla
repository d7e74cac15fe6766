----------------------------- MODULE Authority -----------------------------
(* Who may let a tamper through: the pull request judged by the policy of  *)
(* its merge-base, the reviewer's label bound to a head, the sign-off a    *)
(* human records for the tamper in front of them (cli/check.ts, signoff.ts,*)
(* cli/allow.ts, cli/signoff-label.ts).                                    *)
EXTENDS Engine

CONSTANTS
    Starts,     \* the trees a repository begins with
    Contents,   \* path -> what an edit may leave there
    Touched,    \* bound: the paths a checkout's edits touch
    Floors,     \* what the operator may set as the organisation's floor
    Lifetime,   \* days a sign-off lives (LEDGER_TTL_MS)
    Namings,    \* what a workflow may put in TAMPERWARD_OOB_HEAD
    MaxHead,    \* bound: heads pushed
    MaxLabels,  \* bound: approvals on the request
    MaxSigned,  \* bound: sign-offs in the ledger
    MaxDay      \* bound: days

IsTree(tree) == tree = [p \in Path |-> tree[p]]
ASSUME AuthorityAssumption == Lifetime \in Nat /\ \A tree \in Starts : IsTree(tree)

VARIABLES
    floor,    \* the organisation's policy floor
    naming,   \* what TAMPERWARD_OOB_HEAD carries: "head", "malformed", "unset"
    fork,     \* the tree main stands at, the merge-base
    head,     \* the branch: its number and its tree
    labels,   \* approvals on the pull request
    status,   \* what the required check says of this head, Unset before it does
    work,     \* the checkout, ahead of the branch
    ledger,   \* sign-offs recorded
    today,
    shown     \* history: what a human signed off, and when

prVars == <<floor, naming, fork, head, labels, status>>
localVars == <<work, ledger, today, shown>>
authorityVars == <<floor, naming, fork, head, labels, status, work, ledger, today, shown>>

PolicyOf(tree) == Load(tree[PolicyPath], floor)

(* An approval covers what it names under the head it names.                *)
Covers(token, want) ==
    /\ token.want = want
    /\ \/ naming = "head" /\ token.id = head.id
       \/ naming = "unset"
OobCleared(findings) ==
    {f \in findings : f.severity = "block" /\ \E t \in labels : Covers(t, <<f.rule>>) \/ Covers(t, <<f.rule, f.file>>)}

(* Mutant: a sign-off is for the rule and the file.                         *)
FingerprintOfFile(f) == <<f.rule, f.file>>
FingerprintOf(f) == <<f.rule, f.file, f.evidence>>
HonoredAt(e, now) == e.expiresAt > now /\ e.recordedAt <= now /\ e.expiresAt - e.recordedAt <= Lifetime
LocalCleared(findings) ==
    {f \in findings : f.severity = "block"
                      /\ \E e \in ledger : HonoredAt(e, today) /\ e.fingerprint = FingerprintOf(f)}

(* What the check says: its exit and what it names.                         *)
Says(findings) ==
    [exit |-> IF HasBlocking(findings) THEN 1 ELSE 0,
     blocked |-> {<<f.rule, f.file>> : f \in {g \in findings : g.severity = "block"}}]
NoPolicy == [exit |-> 2, blocked |-> {}]
(* Mutant: the pull request is judged by the policy it brings.              *)
CheckRangeItsOwn(throwing) ==
    LET policy == PolicyOf(head.tree)
        findings == Evaluate(fork, head.tree, policy, "range", throwing)
    IN IF policy = Unset THEN NoPolicy ELSE Says(findings \ OobCleared(findings))
(* check --diff: the merge-base's policy, approvals from outside only.      *)
CheckRange(throwing) ==
    LET policy == PolicyOf(fork)
        findings == Evaluate(fork, head.tree, policy, "range", throwing)
    IN IF policy = Unset THEN NoPolicy ELSE Says(findings \ OobCleared(findings))
(* check --staged: the checkout's own policy, and the ledger.               *)
CheckStaged ==
    LET policy == PolicyOf(work)
        findings == Evaluate(head.tree, work, policy, "staged", {})
    IN IF policy = Unset THEN NoPolicy ELSE Says(findings \ LocalCleared(findings))

AuthorityInit ==
    /\ floor \in Floors /\ naming \in Namings
    /\ fork \in Starts /\ head = [id |-> 0, tree |-> fork] /\ work = fork
    /\ labels = {} /\ ledger = {} /\ today = 0 /\ shown = {}
    /\ status = Unset

(* The branch, pushed again: the check is required anew of each head.       *)
Push(tree) ==
    /\ head.id < MaxHead /\ fork \in Starts /\ tree # fork
    /\ head' = [id |-> head.id + 1, tree |-> tree] /\ status' = Unset
    /\ UNCHANGED <<floor, naming, fork, labels, localVars>>

(* The agent edits one path of the checkout; a commit goes through the hook.*)
Edit(p, content) ==
    /\ work[p] # content /\ work' = [work EXCEPT ![p] = content]
    /\ UNCHANGED <<prVars, ledger, today, shown>>
Commit ==
    /\ work # head.tree /\ CheckStaged.exit = 0
    /\ head' = [head EXCEPT !.tree = work]
    /\ UNCHANGED <<floor, naming, fork, labels, status, localVars>>

(* allow binds to what the worktree check blocks now, for one rule.         *)
Allow ==
    LET policy == PolicyOf(work)
        findings == IF policy = Unset THEN {} ELSE Evaluate(head.tree, work, policy, "worktree", {})
        targets(rule) == {f \in findings : f.severity = "block" /\ f.rule = rule}
    IN \E rule \in BlockRule :
       /\ targets(rule) # {} /\ Cardinality(ledger) < MaxSigned
       /\ ledger' = ledger \cup {[fingerprint |-> FingerprintOf(f), recordedAt |-> today, expiresAt |-> today + Lifetime] : f \in targets(rule)}
       /\ shown' = shown \cup {[finding |-> f, day |-> today] : f \in targets(rule)}
       /\ UNCHANGED <<prVars, work, today>>
Tick == today < MaxDay /\ today' = today + 1 /\ UNCHANGED <<prVars, work, ledger, shown>>

(* A reviewer reads the head and labels it.                                 *)
Label(want) ==
    /\ Cardinality(labels) < MaxLabels /\ status # Unset /\ status.exit = 1
    /\ labels' = labels \cup {[want |-> want, id |-> head.id]} /\ labels' # labels
    /\ status' = Unset
    /\ UNCHANGED <<floor, naming, fork, head, localVars>>
Adjudicate(throwing) ==
    /\ status' = CheckRange(throwing)
    /\ UNCHANGED <<floor, naming, fork, head, labels, localVars>>
Merge ==
    /\ status # Unset /\ status.exit = 0 /\ fork # head.tree
    /\ fork' = head.tree /\ status' = Unset
    /\ UNCHANGED <<floor, naming, head, labels, localVars>>

(* Bound: a reviewer approves what the check of this very head refused.     *)
Wants == UNION {{<<named[1]>>, named} : named \in status.blocked}
(* Bounds: a branch edits the policy and one file, or two files; one is     *)
(* pushed over only once it carries an approval, with a single edit; the    *)
(* check runs once on what it is given, and a detector throws only where no *)
(* label stands.                                                            *)
Edits == {e \in Files \X UNION {Contents[p] : p \in Files} : e[2] \in Contents[e[1]]}
Edited(tree) == {[tree EXCEPT ![e[1]] = e[2]] : e \in Edits}
Redrawn(tree) == {tree} \cup {[tree EXCEPT ![PolicyPath] = doc] : doc \in Contents[PolicyPath]}
Branches(tree) == UNION {Edited(t) : t \in Redrawn(tree) \cup Edited(tree)}
PrNext ==
    \/ status = Unset /\ head.id = 0 /\ \E tree \in Branches(fork) : Push(tree)
    \/ status = Unset /\ head.id > 0 /\ labels # {} /\ \E tree \in Edited(fork) \cup Redrawn(fork) : Push(tree)
    \/ status # Unset /\ \E want \in Wants : Label(want)
    \/ status = Unset /\ \E throwing \in {{}} \cup {x \in {{"test-deletion"}} : labels = {}} : Adjudicate(throwing)
    \/ Merge
LocalNext ==
    \/ \E p \in Touched : \E content \in Contents[p] : Edit(p, content)
    \/ Allow \/ Commit \/ Tick

-----------------------------------------------------------------------------
(* What a policy blocks of a step between two trees, whoever approves it.   *)
BlockedBy(policy, old, new) == {f.rule : f \in {g \in Evaluate(old, new, policy, "range", {}) : g.severity = "block"}}
(* The tests a policy guards, and those a tree still holds.                 *)
GuardedTests(policy, tree) ==
    LET on == policy.rules["test-deletion"] IN
    IF ~on.enabled \/ on.severity # "block" THEN {}
    ELSE UNION {tree[p] \cap Test : p \in {q \in Tracked(tree) :
                    SpecPath(q, policy) /\ ~IsIgnored(q, policy) /\ ~MatchesAny(q, on.exclude)}}
HeldTests(policy, tree) == UNION {tree[p] \cap Test : p \in {q \in Tracked(tree) : SpecPath(q, policy)}}
(* The least steps from a tree: a file goes, a cast comes.                  *)
Steps(tree) == {[tree EXCEPT ![p] = Unset] : p \in Tracked(tree)}
               \cup {[tree EXCEPT ![p] = @ \cup {"cast"}] : p \in Tracked(tree) \cap CodePath}
(* One policy blocks less than another of what can be done to a tree.  A    *)
(* cast in a file that a new layout makes a test is ceded.                  *)
Weaker(strong, weak, tree) ==
    LET blocked == [at \in {strong, weak} \X Steps(tree) |-> BlockedBy(at[1], tree, at[2])]
        ceded(new) == \E p \in Tracked(tree) \ SourceSample :
                          IsTestFile(p, weak) /\ ~IsTestFile(p, strong) /\ tree[p] # new[p]
    IN \E new \in Steps(tree) :
           (blocked[<<strong, new>>] \ blocked[<<weak, new>>]) \ (IF ceded(new) THEN {"ts-any-cast"} ELSE {}) # {}
ApprovedAt(rule) == \E t \in labels : t.id = head.id /\ t.want[1] = rule

(* What reaches main without a reviewer having approved that very head: no  *)
(* guarded test goes, no hook goes, and the policy blocks no less than it   *)
(* did -- where the workflow names its head.                                *)
MainGuarded ==
    [][fork' # fork /\ naming # "unset" =>
         LET was == PolicyOf(fork)
             is == Load(fork'[PolicyPath], floor)
         IN /\ GuardedTests(was, fork) \subseteq HeldTests(was, fork') \/ ApprovedAt("test-deletion")
            /\ (\A p \in HookPath : fork'[p] = fork[p]) \/ ApprovedAt("hook-tampering")
            /\ is = Unset \/ ~Weaker(was, is, fork') \/ ApprovedAt("hook-tampering")]_authorityVars

(* Under the organisation's floor a pull request is never judged by a       *)
(* policy that blocks less than the floor does: none such comes to main.    *)
FloorHolds ==
    [][floor # Unset /\ fork' # fork =>
         LET policy == PolicyOf(fork') IN policy = Unset \/ ~Weaker(floor, policy, fork')]_authorityVars

(* A block that a commit passes was signed off by a human as that rule,     *)
(* file and evidence, within a sign-off's lifetime.                         *)
SignedForThis ==
    [][head'.tree # head.tree /\ head'.id = head.id =>
         \A f \in Evaluate(head.tree, work, PolicyOf(work), "staged", {}) :
            f.severity = "block" => \E s \in shown : s.finding = f /\ today - s.day < Lifetime]_authorityVars
===========================================================================
