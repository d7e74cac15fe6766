---------------------------- MODULE MCAuthority ----------------------------
(* Authority for TLC: one pull request, one checkout, one receipt on its    *)
(* way to CI, one oracle run, or the qualification of the runtimes here.    *)
EXTENDS Authority, Receipts, Oracle, RuntimeQualification, TLC

VARIABLE side
all == <<authorityVars, receiptVars, oracleVars, qualificationVars, side>>
Pinned == floor = Unset /\ naming = "head" /\ fork[PolicyPath].form = "absent"
Init == /\ AuthorityInit /\ ReceiptInit /\ OracleInit /\ QualificationInit
        /\ side \in {"pr", "local", "receipt", "oracle", "runtime"}
        /\ floor # Unset => naming = "head"
        /\ side = "pr" \/ Pinned
        /\ local.tree.src = "v1"
Next == /\ UNCHANGED side
        /\ \/ side = "pr" /\ PrNext /\ UNCHANGED <<receiptVars, oracleVars, qualificationVars>>
           \/ side = "local" /\ LocalNext /\ UNCHANGED <<receiptVars, oracleVars, qualificationVars>>
           \/ side = "receipt" /\ ReceiptNext /\ UNCHANGED <<authorityVars, oracleVars, qualificationVars>>
           \/ side = "oracle" /\ OracleNext /\ UNCHANGED <<authorityVars, receiptVars, qualificationVars>>
           \/ side = "runtime" /\ QualificationNext /\ UNCHANGED <<authorityVars, receiptVars, oracleVars>>
Spec == Init /\ [][Next]_all

(* What is claimed of a candidate elsewhere is what was found of it: by the *)
(* receipt CI reconciles (verification-receipt.ts), and by the external     *)
(* oracle (cli/oracle.ts).                                                  *)
ClaimsSound == AgreementHonest /\ OracleSound

(* What is told of a runtime is what the inputs give now, and PROVEN only   *)
(* by a record of that very binding (cli/runtime.ts).                       *)
QualificationSound == [][ToldIsCurrent /\ ProvenIsRetained']_qualificationVars

Enforcing == [pre |-> {"shell", "file-edit", "mcp"}, post |-> TRUE, stop |-> TRUE, notes |-> {}]
FailingOpen == [pre |-> {"shell"}, post |-> FALSE, stop |-> FALSE, notes |-> {"failsOpen", "noPost"}]
Observing(result) == [c \in Observable |-> result]
Retained(adapter, components, observed) ==
    [runtime |-> "claude", version |-> "v1", asked |-> "model", config |-> "v1", components |-> components, build |-> "v1",
     adapter |-> adapter, tested |-> Capability, observed |-> observed]
Catalogues ==
    << <<Retained(NoHash, {}, Observing("proven")), Retained(Enforcing, {"sdk"}, Observing("proven")),
         Retained(Enforcing, {}, [Observing("proven") EXCEPT !["transport"] = "inconclusive", !["pre-deny:mcp"] = "fail-open"])>>,
       <<Retained(Enforcing, {}, Observing("proven"))>> >>
Shippings == <<"claude", "codex">>
Detections == <<"claude", "cursor", "codex">>
Presences == {{"cursor", "codex"}}
Declarations == <<Enforcing, FailingOpen>>
Releases == <<"v1", "v2">>
Askings == <<"model", "other">>

Globs(on) == {[on |-> on, negated |-> FALSE]}
BaselineGlobs == [tests |-> Globs({"s1", "s2", "ctl"}), config |-> {}, snapshots |-> Globs({"snap"}), hooks |-> Globs({"hook", "policy"})]
Graduations == [rule \in {} |-> 0]

Over(rule, field, value) == [EmptyDoc EXCEPT !.rules[rule][field] = value]
Protects(cat, globs) == [EmptyDoc EXCEPT !.protected[cat] = globs]
Verifies(budget) == [command |-> "suite", budget |-> budget, inputs |-> Unset, backend |-> Unset, image |-> Unset]
Absent == [form |-> "absent"]
Docs == {Absent, EmptyDoc, [form |-> "broken"],
         Over("test-deletion", "severity", "warn"), Over("test-deletion", "severity", "BLOCK"),
         Over("ts-any-cast", "enabled", FALSE), Over("hook-tampering", "enabled", FALSE),
         Over("test-deletion", "exclude", Globs({"s1"})),
         [EmptyDoc EXCEPT !.ignore = Globs({"s1", "src"})], [EmptyDoc EXCEPT !.ignore = Globs({"int"})],
         [EmptyDoc EXCEPT !.ignore = {[on |-> {"src"}, negated |-> TRUE]}],
         Protects("tests", Globs({"int"})), Protects("tests", Globs({"src", "int"})),
         Protects("tests", {[on |-> {"int"}, negated |-> TRUE]}),
         Protects("snapshots", Globs({"s1"})),
         [EmptyDoc EXCEPT !.version = 2],
         [EmptyDoc EXCEPT !.verify = Verifies(2)], [EmptyDoc EXCEPT !.verify = Verifies(1)]}

FileContents ==
    [s1 |-> {Unset, {"t1"}, {"t1", "t2"}}, s2 |-> {Unset, {"t1", "t2"}}, int |-> {Unset, {"t2"}},
     src |-> {{}, {"cast"}}, snap |-> {{"any"}}, hook |-> {Unset, {}, {"any"}}, ctl |-> {Unset, {"t2"}},
     policy |-> Docs]
Tree(written) == [s1 |-> {"t1", "t2"}, s2 |-> Unset, int |-> Unset, src |-> {}, snap |-> {}, hook |-> {}, ctl |-> Unset, policy |-> written]
StartTrees ==
    {[Tree(Absent) EXCEPT !["s2"] = {"t2"}, !["s1"] = {"t1"}],
     [Tree([EmptyDoc EXCEPT !.version = 2, !.verify = Verifies(2)]) EXCEPT !["int"] = {}],
     [Tree(Protects("tests", Globs({"int"}))) EXCEPT !["int"] = {"t2"}],
     Tree([EmptyDoc EXCEPT !.ignore = Globs({"int"})])}
FloorPolicies ==
    {Unset, [ParsePolicy([EmptyDoc EXCEPT !.verify = Verifies(2)], Unset) EXCEPT !.ignore = Globs({"int"})]}
===========================================================================
