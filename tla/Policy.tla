------------------------------ MODULE Policy ------------------------------
(* The policy: a document laid over the baseline or an organisation's      *)
(* floor, what the loader refuses, and what policy-diff calls a weakening  *)
(* (policy.ts, policy-load.ts, detectors/policy-diff.ts).  A glob is the   *)
(* set of paths it names, negated or not.                                  *)
EXTENDS Naturals, FiniteSets

CONSTANTS
    Path,          \* repository paths
    ControlPath,   \* those with a control character in them
    CodePath,      \* the code files
    Sample,        \* the conventional paths of the probe listing
    SourceSample,  \* the source files among them
    Baseline,      \* category -> the globs it ships with
    BlockSince,    \* rule -> the version that graduates it to block
    Unset          \* a key the document does not carry

Category == {"tests", "config", "snapshots", "hooks"}
Severity == {"block", "warn"}
BlockRule == {"test-deletion", "ts-any-cast", "hook-tampering"}
Rule == BlockRule \cup {"snapshot-rewrite", "snapshot-only-rewrite", "ts-any-launder"}
DefaultBudget == 2

ASSUME PolicyAssumption ==
    /\ ControlPath \subseteq Path /\ CodePath \subseteq Path
    /\ SourceSample \subseteq Sample /\ Sample \subseteq Path
    /\ DOMAIN Baseline = Category /\ DOMAIN BlockSince \subseteq Rule

Or(value, default) == IF value = Unset THEN default ELSE value

Matches(p, glob) == (p \in glob.on) # glob.negated
MatchesAny(p, globs) == \E glob \in globs : Matches(p, glob)
Negated(globs) == {glob \in globs : glob.negated}

(* Both ask the globs; a path with a control character is in every category,*)
(* and its first category is the tests.                                     *)
IsProtected(p, policy, cat) == p \in ControlPath \/ MatchesAny(p, policy.protected[cat])
ProtectedAtAll(p, policy) == \E cat \in Category : IsProtected(p, policy, cat)
IsTestFile(p, policy) == IsProtected(p, policy, "tests")
IsIgnored(p, policy) == MatchesAny(p, policy.ignore)

ApplyVersionGates(rules, version) ==
    [rule \in Rule |->
        IF rule \in DOMAIN BlockSince /\ BlockSince[rule] > version /\ rules[rule].severity = "block"
        THEN [rules[rule] EXCEPT !.severity = "warn"] ELSE rules[rule]]

BaseRules == [rule \in Rule |-> [severity |-> IF rule \in BlockRule \cup DOMAIN BlockSince THEN "block" ELSE "warn",
                                 enabled |-> TRUE, exclude |-> {}]]
DefaultPolicy(version) ==
    [version |-> version, protected |-> Baseline, rules |-> ApplyVersionGates(BaseRules, version),
     ignore |-> {}, requiredFor |-> {"block"}, ledger |-> "home", verify |-> Unset]

(* An override names the fields it changes; a category only grows.          *)
MergeRules(base, over) ==
    [rule \in Rule |-> [severity |-> Or(over[rule].severity, base[rule].severity),
                        enabled |-> Or(over[rule].enabled, base[rule].enabled),
                        exclude |-> Or(over[rule].exclude, base[rule].exclude)]]
MergeProtected(base, declared) == [cat \in Category |-> base[cat] \cup Or(declared[cat], {})]

(* What the loader refuses in a document, key by key.                       *)
BadVerify(v) ==
    /\ v # Unset
    /\ \/ v.command = Unset
       \/ v.budget # Unset /\ v.budget < 1
       \/ Or(v.backend, "local") = "container" /\ v.image \notin {"pinned", "repinned"}
       \/ Or(v.backend, "local") = "local" /\ v.image # Unset
Refused(doc) ==
    \/ doc.form = "broken"
    \/ doc.form = "mapping"
       /\ \/ doc.stray
          \/ doc.version # Unset /\ doc.version < 1
          \/ \E rule \in Rule : \/ Or(doc.rules[rule].severity, "block") \notin Severity
                                \/ Negated(Or(doc.rules[rule].exclude, {})) # {}
          \/ Negated(Or(doc.ignore, {})) # {}
          \/ \E cat \in Category : Negated(Or(doc.protected[cat], {})) # {}
          \/ ~(Or(doc.requiredFor, {}) \subseteq Severity)
          \/ doc.ledger = "outside"
          \/ BadVerify(doc.verify)

NoOverride == [rule \in Rule |-> [severity |-> Unset, enabled |-> Unset, exclude |-> Unset]]
EmptyDoc == [form |-> "mapping", stray |-> FALSE, version |-> Unset, rules |-> NoOverride, ignore |-> Unset,
             protected |-> [cat \in Category |-> Unset], requiredFor |-> Unset, ledger |-> Unset, verify |-> Unset]
(* An empty file, or none, restates what it is laid over.                   *)
Written(doc) == IF doc.form = "mapping" THEN doc ELSE EmptyDoc

MergeVerify(base, declared) ==
    IF declared = Unset THEN base
    ELSE LET over(field) == IF base = Unset THEN declared[field] ELSE Or(declared[field], base[field])
         IN [command |-> over("command"), budget |-> Or(over("budget"), DefaultBudget),
             inputs |-> over("inputs"), backend |-> over("backend"), image |-> over("image")]
ParsePolicy(written, floor) ==
    LET doc == Written(written)
        version == Or(doc.version, IF floor = Unset THEN 1 ELSE floor.version)
        base == IF floor = Unset THEN DefaultPolicy(version) ELSE floor
    IN [version |-> version,
        protected |-> MergeProtected(base.protected, doc.protected),
        rules |-> MergeRules(base.rules, doc.rules),
        ignore |-> Or(doc.ignore, base.ignore),
        requiredFor |-> Or(doc.requiredFor, base.requiredFor),
        ledger |-> Or(doc.ledger, base.ledger),
        verify |-> MergeVerify(base.verify, doc.verify)]

(* Mutant: an organisation's rules are compared, not what they exclude.     *)
FloorRefusesRules(policy, floor, declared) ==
    \E rule \in Rule :
        /\ floor.rules[rule].enabled
        /\ ~policy.rules[rule].enabled \/ (floor.rules[rule].severity = "block" /\ policy.rules[rule].severity # "block")

(* What the floor refuses of the policy laid over it.                       *)
FloorRefuses(policy, floor, declared) ==
    \/ policy.version < floor.version
    \/ ~(policy.ignore \subseteq floor.ignore)
    \/ \E rule \in Rule :
          LET minimum == floor.rules[rule]
              actual == policy.rules[rule]
          IN \/ minimum.enabled /\ ~actual.enabled
             \/ minimum.enabled /\ minimum.severity = "block" /\ actual.severity # "block"
             \/ ~(actual.exclude \subseteq minimum.exclude)
    \/ \E cat \in Category : declared[cat] # Unset /\ declared[cat] # floor.protected[cat]
    \/ ~(floor.requiredFor \subseteq policy.requiredFor) \/ policy.ledger # floor.ledger
    \/ /\ floor.verify # Unset
       /\ LET v == policy.verify IN
          \/ v = Unset
          \/ v.command # floor.verify.command \/ v.budget < floor.verify.budget
          \/ Or(v.backend, "local") # Or(floor.verify.backend, "local") \/ v.image # floor.verify.image
          \/ Or(v.inputs, {}) # Or(floor.verify.inputs, {})

(* The policy of a document, or Unset where the load throws.                *)
Load(doc, floor) ==
    IF doc.form = "absent" THEN IF floor = Unset THEN DefaultPolicy(1) ELSE floor
    ELSE IF Refused(doc) THEN Unset
    ELSE LET policy == ParsePolicy(doc, floor) IN
         IF floor # Unset /\ FloorRefuses(policy, floor, Written(doc).protected) THEN Unset ELSE policy

(* policy-diff reads a document the loader may refuse: it never throws.     *)
Effective(doc) ==
    LET version == IF doc.version = Unset \/ doc.version < 1 THEN 1 ELSE doc.version IN
    [ParsePolicy([doc EXCEPT !.version = version], Unset) EXCEPT !.verify = doc.verify]

(* Which paths a rule judges.  The cast rules cede the test files.          *)
SpecPath(p, policy) == IsProtected(p, policy, "tests") /\ ~IsProtected(p, policy, "snapshots")
Reaches(rule, p, policy) ==
    CASE rule = "test-deletion" -> SpecPath(p, policy)
      [] rule = "ts-any-cast" -> p \in CodePath /\ ~IsTestFile(p, policy)
Reaching == {"test-deletion", "ts-any-cast"}
ReachLost(before, after, probe) ==
    {rule \in Reaching :
        LET lost == {p \in probe \cup Sample : Reaches(rule, p, before) /\ ~Reaches(rule, p, after)} IN
        lost # {} /\ (rule = "ts-any-cast" => lost \cap SourceSample # {})}

GrownWrongly(be, ae, probe) ==
    \E cat \in Category :
        LET added == ae.protected[cat] \ be.protected[cat]
            plain == added \ Negated(added)
        IN \/ Negated(added) # {}
           \/ cat = "snapshots" /\ plain # {}
           \/ cat = "tests" /\ \E p \in Sample \cup probe :
                 MatchesAny(p, plain) /\ MatchesAny(p, ae.protected["snapshots"])
VerifyWeakened(bv, av) ==
    /\ bv # Unset /\ bv.command # Unset
    /\ \/ av = Unset \/ av.command = Unset
       \/ av.command # bv.command
       \/ Or(av.budget, DefaultBudget) < Or(bv.budget, DefaultBudget)
       \/ ~(Or(bv.inputs, {}) \subseteq Or(av.inputs, {}))
       \/ Or(bv.backend, "local") = "container" /\ (Or(av.backend, "local") # "container" \/ av.image # bv.image)
RuleWeakened(br, ar) ==
    \/ br.severity = "block" /\ ar.severity # "block"
    \/ br.enabled /\ ~ar.enabled
    \/ ~(ar.exclude \subseteq br.exclude)

(* Whether the edit weakens the policy: Unset when there is nothing to      *)
(* compare it to.                                                           *)
PolicyWeakening(before, after, probe) ==
    IF before.form # "mapping" THEN Unset
    ELSE IF after.form # "mapping" THEN TRUE
    ELSE LET be == Effective(before)
             ae == Effective(after)
         IN \/ ae.version < be.version
            \/ \E rule \in Rule : RuleWeakened(be.rules[rule], ae.rules[rule])
            \/ ~(ae.ignore \subseteq be.ignore)
            \/ \E cat \in Category : ~(be.protected[cat] \subseteq ae.protected[cat])
            \/ GrownWrongly(be, ae, probe)
            \/ ReachLost(be, ae, probe) # {}
            \/ "block" \in be.requiredFor /\ "block" \notin ae.requiredFor
            \/ ae.ledger # be.ledger
            \/ VerifyWeakened(before.verify, after.verify)
(* A file that is new is compared to the baseline it displaces.             *)
PolicyAddWeakening(after, probe) ==
    IF after.form = "empty" THEN FALSE
    ELSE IF after.form = "broken" THEN TRUE ELSE PolicyWeakening(EmptyDoc, after, probe)
===========================================================================
