------------------------------ MODULE Engine ------------------------------
(* One engine for every view: a change set through the detectors, what the *)
(* policy may filter of what they find, and what no policy may (engine.ts, *)
(* git/build.ts, and the detectors that judge a path by its category).     *)
EXTENDS Policy, FiniteSetsExt

CONSTANTS
    Test,        \* tests a spec may hold; a file is a set of lines
    PolicyPath,  \* .tamperward.yml
    HookPath     \* the hook files the baseline's globs name

Files == Path \ {PolicyPath}
ASSUME EngineAssumption == PolicyPath \in Path /\ HookPath \subseteq Path /\ "cast" \notin Test /\ "any" \notin Test

(* A tree: what stands at each path, Unset where nothing does; the policy   *)
(* file holds a document.                                                   *)
Tracked(tree) == {p \in Files : tree[p] # Unset}
Lines(tree, p) == Or(tree[p], {})

(* The changes between two trees.  git pairs a file that went with one that *)
(* came when they share half of it.                                         *)
Gone(old, new) == Tracked(old) \ Tracked(new)
Come(old, new) == Tracked(new) \ Tracked(old)
Alike(a, b) == 2 * Cardinality(a \cap b) >= Cardinality(a \cup b)
Pairs(old, new) == {pr \in Gone(old, new) \X Come(old, new) : old[pr[1]] # {} /\ Alike(old[pr[1]], new[pr[2]])}
Renamed(old, new) ==
    CHOOSE chosen \in SUBSET Pairs(old, new) :
        /\ \A a, b \in chosen : a # b => a[1] # b[1] /\ a[2] # b[2]
        /\ \A pr \in Pairs(old, new) : \E c \in chosen : c[1] = pr[1] \/ c[2] = pr[2]
Change(op, p, from, before, after) == [op |-> op, path |-> p, oldPath |-> from, before |-> before, after |-> after]
Changes(old, new) ==
    LET pairs == Renamed(old, new)
        from == {pr[1] : pr \in pairs}
        to == {pr[2] : pr \in pairs}
    IN {Change("rename", pr[2], pr[1], old[pr[1]], new[pr[2]]) : pr \in pairs}
       \cup {Change("delete", p, Unset, old[p], Unset) : p \in Gone(old, new) \ from}
       \cup {Change("add", p, Unset, Unset, new[p]) : p \in Come(old, new) \ to}
       \cup {Change("modify", p, Unset, old[p], new[p]) :
                p \in {q \in Tracked(old) \cap Tracked(new) : old[q] # new[q]}}
DocChanged(old, new) == old[PolicyPath] # new[PolicyPath]

(* A change to the policy file is never suppressed; a rename is only when   *)
(* both its ends are ignored and the old one protected by nothing.          *)
IsSuppressed(c, policy) ==
    /\ IsIgnored(c.path, policy)
    /\ c.oldPath # Unset => IsIgnored(c.oldPath, policy) /\ ~ProtectedAtAll(c.oldPath, policy)
ActiveChanges(changes, policy) == {c \in changes : ~IsSuppressed(c, policy)}

(* A finding carries the severity its policy gives the rule.                *)
Finding(rule, policy, p, evidence) ==
    [rule |-> rule, severity |-> policy.rules[rule].severity, file |-> p, evidence |-> evidence]

(* Tests that went from one spec and stand in another of the same change.   *)
Pool(active, policy) ==
    {c \in active : c.after # Unset /\ SpecPath(c.path, policy)}
PooledLines(active, policy) == UNION {c.after \ Or(c.before, {}) : c \in Pool(active, policy)}
Grown(c) ==
    LET grown == Cardinality(c.after \cap Test) - Cardinality((IF c.op = "add" THEN {} ELSE c.before) \cap Test)
    IN IF grown > 0 THEN grown ELSE 0
AddedBlocks(pool) == MapThenSumSet(Grown, pool)
IsRelocation(removed, active, policy) ==
    LET blocks == Cardinality(removed \cap Test) IN
    /\ removed # {}
    /\ 10 * Cardinality(removed \cap PooledLines(active, policy)) >= 6 * Cardinality(removed)
    /\ AddedBlocks(Pool(active, policy)) >= blocks

TestDeletion(active, policy) ==
    LET judged == {c \in active : SpecPath(c.path, policy) /\ ~IsRelocation(Or(c.before, {}) \ Or(c.after, {}), active, policy)}
        fewer(c) == Cardinality(c.before \cap Test) - Cardinality(c.after \cap Test)
        left == {c \in active : c.op = "rename" /\ SpecPath(c.oldPath, policy) /\ ~SpecPath(c.path, policy)}
    IN {Finding("test-deletion", policy, c.path, <<"deleted">>) : c \in {x \in judged : x.op = "delete"}}
       \cup {Finding("test-deletion", policy, c.path, <<"left", c.oldPath>>) : c \in left}
       \cup {Finding("test-deletion", policy, c.path, <<"fewer", fewer(c)>>) :
                c \in {x \in judged : x.op \in {"modify", "rename"} /\ fewer(x) > 0}}

CastFindings(active, policy) ==
    LET judged == {c \in active : c.op # "delete" /\ c.path \in CodePath}
        grew(line) == {c \in judged : line \in c.after \ Or(c.before, {})}
        source == {c \in grew("cast") : ~IsTestFile(c.path, policy)}
    IN {Finding("ts-any-cast", policy, c.path, "cast") : c \in source}
       \cup {Finding("ts-any-launder", policy, c.path, "cast") : c \in grew("cast") \ source}
       \cup {Finding("ts-any-launder", policy, c.path, "any") : c \in grew("any")}

SnapshotChange(c, policy) ==
    c.op # "add" /\ \E p \in {c.path, c.oldPath} \ {Unset} : IsProtected(p, policy, "snapshots")
SnapshotRewrite(active, policy) ==
    {Finding("snapshot-rewrite", policy, c.path, c.op) : c \in {x \in active : SnapshotChange(x, policy)}}
(* A commit whose every change is a recorded expectation.                   *)
SnapshotOnly(active, docChanged, policy, view) ==
    IF /\ view \in {"staged", "range"} /\ ~docChanged /\ active # {}
       /\ \A c \in active : SnapshotChange(c, policy)
    THEN {Finding("snapshot-only-rewrite", policy, (CHOOSE c \in active : TRUE).path, "only")} ELSE {}

(* The line comparison a policy whose before does not parse is left to.     *)
LineRegex(before, after) == after.form = "mapping" /\ \E rule \in Rule : after.rules[rule].enabled = FALSE
DocWeakened(before, after, probe) ==
    IF after.form = "absent" THEN TRUE
    ELSE IF before.form = "absent" THEN PolicyAddWeakening(after, probe)
    ELSE LET weakened == PolicyWeakening(before, after, probe) IN
         IF weakened = Unset THEN LineRegex(before, after) ELSE weakened
(* A hook file that goes, moves or changes; a policy that is weakened.      *)
HookTampering(active, old, new, policy) ==
    {Finding("hook-tampering", policy, c.path, c.op) :
        c \in {x \in active : x.op # "add" /\ \E p \in {x.path, x.oldPath} \ {Unset} : IsProtected(p, policy, "hooks")}}
    \cup {Finding("hook-tampering", policy, PolicyPath, "weakened") :
        d \in {x \in {1} : DocChanged(old, new) /\ DocWeakened(old[PolicyPath], new[PolicyPath], Tracked(new))}}

(* A finding on the policy file or the baseline's own hooks is beyond the   *)
(* policy's reach: it is never filtered and always blocks.                  *)
Guarded(f) == f.rule = "hook-tampering" /\ (f.file = PolicyPath \/ MatchesAny(f.file, Baseline["hooks"]))
PinGuarded(f) == IF Guarded(f) THEN [f EXCEPT !.severity = "block"] ELSE f
DetectorError(rule) == [rule |-> "detector-error", severity |-> "block", file |-> Unset, evidence |-> rule]
Kept(f, policy) ==
    \/ f.rule = "detector-error" \/ Guarded(f)
    \/ policy.rules[f.rule].enabled /\ ~MatchesAny(f.file, policy.rules[f.rule].exclude)

Detector == {"test-deletion", "ts-any-cast", "snapshot-rewrite", "snapshot-only-rewrite", "hook-tampering"}
Run(id, old, new, policy, view) ==
    LET active == ActiveChanges(Changes(old, new), policy) IN
    CASE id = "test-deletion" -> TestDeletion(active, policy)
      [] id = "ts-any-cast" -> CastFindings(active, policy)
      [] id = "snapshot-rewrite" -> SnapshotRewrite(active, policy)
      [] id = "snapshot-only-rewrite" -> SnapshotOnly(active, DocChanged(old, new), policy, view)
      [] id = "hook-tampering" -> HookTampering(active, old, new, policy)

(* The verdict on the step from one tree to another: what every detector    *)
(* that is on finds, a block for each that throws.                          *)
Evaluate(old, new, policy, view, throwing) ==
    LET on == {id \in Detector : id = "hook-tampering" \/ policy.rules[id].enabled}
        found == UNION {IF id \in throwing THEN {DetectorError(id)} ELSE Run(id, old, new, policy, view) : id \in on}
    IN {f \in {PinGuarded(g) : g \in found} : Kept(f, policy)}
HasBlocking(findings) == \E f \in findings : f.severity = "block"
===========================================================================
