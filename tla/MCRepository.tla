----------------------------- MODULE MCRepository -----------------------------
(* The files Tamperward keeps and the ones it writes into a repository, for  *)
(* TLC: research documents, the research ledger, the audit evidence branch;  *)
(* init, onboard, and doctor's question to GitHub; and the files an agent's  *)
(* runtime writes there through its adapter.  Init and onboard apart, none   *)
(* reads another's state: a behaviour moves one of them.                     *)
EXTENDS ResearchRecord, ResearchLedger, AuditStore, Onboarding, RepositoryAuthority, RuntimeAdapters, TLC

VARIABLE side
kept == <<deskVars, ledgerVars, auditVars>>
all == <<kept, allOnboard, githubVars, steerVars, side>>

Link == [kind |-> "link"]
Irregular == [kind |-> "irregular"]
Usual == [husky |-> FALSE, managed |-> FALSE, git |-> TRUE, tracked |-> FALSE, deps |-> FALSE, markers |-> {},
          linux |-> TRUE, docker |-> TRUE, root |-> TRUE, head |-> TRUE, dirty |-> FALSE, origin |-> TRUE, watched |-> TRUE]
Repos == {Usual, [Usual EXCEPT !.deps = TRUE, !.markers = {"codex", "copilot"}, !.dirty = TRUE],
          [Usual EXCEPT !.managed = TRUE, !.head = FALSE, !.linux = FALSE, !.docker = FALSE],
          [Usual EXCEPT !.deps = TRUE, !.tracked = TRUE, !.root = FALSE]}

Settings(pre, stop, off) == File([form |-> "object", pre |-> pre, stop |-> stop, off |-> off])
Entry(cmd, pin, hurt, tools) == [cmd |-> cmd, pin |-> pin, hurt |-> hurt, tools |-> tools, reads |-> TRUE]
Theirs == Entry("user", 0, FALSE, {"Bash"})
Gate == Entry("init", Current, FALSE, Tool)
AgentFiles ==
    {File([form |-> "broken"]), Settings({Theirs}, {}, "unset"), Settings({Gate}, {Gate}, "false"), Settings({Gate}, {Gate}, "true"),
     Settings({Theirs, Entry("init", 1, FALSE, {"Bash"})}, {Entry("legacy", 0, FALSE, Tool)}, "unset"),
     Settings({Entry("init", Current, TRUE, {"Bash"})}, {Gate, Theirs}, "false"),
     Settings({Entry("hand", 0, FALSE, {"Edit"})}, {Entry("hand", 1, FALSE, Tool)}, "false"),
     Settings({Entry("hand", 0, TRUE, Tool)}, {Gate}, "false"), Settings({Gate}, {Entry("legacy", 1, TRUE, Tool)}, "false")}
Lines == {"user", "mark", "now", "old", "hand", "exit", "managed"}
Scripts == {File(s) : s \in UNION {[1..n -> Lines] : n \in 1..3}} \cup
           {File(<<"shebang", "exit", "mark", "old">>), File(<<"user", "exit", "user", "mark", "now">>)}
Workflow(stamp, wrote, body) == File([stamp |-> stamp, wrote |-> wrote, body |-> body])
Own(verify, minutes, grants) == [by |-> 0, verify |-> verify, minutes |-> minutes, grants |-> grants]
PolicyFile(loads, command, minutes, backend) ==
    File([loads |-> loads, command |-> command, minutes |-> minutes, backend |-> backend])
Files ==
    [policy |-> {Nothing, Link, File(BaselineFile), PolicyFile(FALSE, None, 2, "local"), PolicyFile(TRUE, "npm", 3, "local"), PolicyFile(TRUE, "npm", 2, "container")},
     gitignore |-> {Nothing, Irregular, File({}), File({"theirs", "ignored"}), File({"negation"})},
     agent |-> {Nothing, Link} \cup AgentFiles,
     codex |-> {Nothing, Link, File([tables |-> "none", pin |-> 0, rest |-> {"theirs"}]), File([tables |-> "hand", pin |-> 0, rest |-> {}]),
                File([tables |-> "init", pin |-> 1, rest |-> {"theirs"}])},
     copilot |-> {Nothing, File([tables |-> "none", pin |-> 0, rest |-> {}]), File([tables |-> "init", pin |-> 1, rest |-> {}])},
     ci |-> {Nothing, Link} \cup {File(Generated(1)), File(Generated(Current))} \cup
            {Workflow(1, Template(1), Own(TRUE, 2, FALSE)), Workflow(0, Own(FALSE, 0, FALSE), Own(TRUE, 1, FALSE)), Workflow(0, Own(FALSE, 0, FALSE), Own(TRUE, 2, TRUE)),
             Workflow(0, Own(FALSE, 0, FALSE), Own(TRUE, 2, FALSE))},
     codeowners |-> {Nothing, Link, File({}), File({"workflows"}), File(CriticalPath)}]
AllFiles == [i \in Item |-> IF i = "pre-commit" THEN {Nothing, Link} \cup Scripts ELSE Files[i]]
AllEdits ==
    [policy |-> {Link, PolicyFile(TRUE, "other", 2, "local")}, gitignore |-> {}, agent |-> {Link, Settings({Theirs}, {}, "unset")},
     codex |-> {Nothing}, copilot |-> {}, ci |-> {File(Generated(1))}, codeowners |-> {}]
    @@ ("pre-commit" :> {File(<<"user", "exit">>)})

Ruleset(names, by, owners, dismiss, bypass, known) ==
    [checks |-> {[name |-> n, by |-> by] : n \in names}, owners |-> owners, dismiss |-> dismiss, bypass |-> bypass, known |-> known]
BranchRules == {Ruleset(RequiredCheck, Trusted, TRUE, TRUE, {}, TRUE), Ruleset(RequiredCheck, "other", TRUE, TRUE, {}, TRUE),
                Ruleset({"gate"}, Trusted, FALSE, FALSE, {"admin"}, TRUE), Ruleset({"test"}, Trusted, TRUE, FALSE, {}, TRUE),
                Ruleset({}, Trusted, TRUE, TRUE, {"bot"}, FALSE)}
ClassicRules == {Ruleset(RequiredCheck, Trusted, TRUE, TRUE, {}, TRUE), Ruleset({"gate"}, Trusted, FALSE, TRUE, {}, TRUE), Ruleset(RequiredCheck, "other", TRUE, TRUE, {}, TRUE)}

(* The calls a runtime makes: each tool in each shape, over the test file,   *)
(* its second name and a file outside; where it says it runs matters only to *)
(* a call that does nothing else.                                            *)
Call(tool, does, args) == [text |-> "object", tool |-> tool, does |-> does] @@ args
Rewrites == {Call("write", "content", [path |-> p, new |-> n]) :
                p \in {"test", "alias", "out"}, n \in {{}, {"assert"}, {"assert", "skip"}}} \cup
            {Call("write", "content", [path |-> "test", new |-> {"assert", "bulk"}]),
             Call("notebook", "content", [path |-> "src", new |-> {"skip"}])}
Swap(old, new) == [old |-> old, new |-> new]
Swaps == {Call("edit", "edits", [path |-> "test", edits |-> <<Swap(o, n)>>]) : o \in {"assert", "skip"}, n \in {"skip", "note"}} \cup
         {Call("edits", "edits", [path |-> "test", edits |-> <<Swap("assert", "note"), Swap("note", "assert")>>])}
Part(op, path, to, anchor, gone, new) == [op |-> op, path |-> path, to |-> to, anchor |-> anchor, gone |-> gone, new |-> new]
Patches == {Call("patch", "patch", [sections |-> s]) : s \in {
    <<Part("add", "test", "test", {}, {}, {"assert"})>>, <<Part("delete", "test", "test", {}, {}, {})>>,
    <<Part("update", "test", "test", {"assert"}, {"assert"}, {"note"}), Part("add", "src", "src", {}, {}, {"note"})>>,
    <<Part("update", "test", "test", {"assert"}, {}, {"note"})>>, <<Part("update", "test", "test", {}, {}, {"note"})>>,
    <<Part("update", "test", "src", {"assert"}, {"assert"}, {"note"})>>}}
Diff(op, names, anchor, gone, new, odd) ==
    [op |-> op, names |-> names, anchor |-> anchor, gone |-> gone, new |-> new, odd |-> odd]
Whole(lines) == [is |-> "full", lines |-> lines]
Hosted(path, resolved, diff, full) ==
    Call("write", "request", [path |-> path, resolved |-> resolved, diff |-> diff, full |-> full])
Requests ==
    {Hosted("test", NoName, Diff(op, "test", {"assert"}, {"assert"}, n, FALSE), NoFull) : op \in {"bare", "delete"}, n \in {{}, {"note"}}} \cup
    {Hosted("alias", r, Diff("modify", "alias", {"assert"}, {}, {"note"}, FALSE), f) :
        r \in {"test", "src"}, f \in {NoFull, Whole({"assert", "note"}), Whole({})}} \cup
    {Hosted("test", NoName, NoDiff, NoFull), Hosted("out", NoName, NoDiff, Whole({})), Hosted("alias", NoName, NoDiff, Whole({})),
     Hosted("test", NoName, Diff("create", "test", {}, {}, {"assert"}, FALSE), NoFull),
     Hosted("test", NoName, Diff("modify", "src", {}, {}, {"note"}, FALSE), NoFull),
     Hosted("test", NoName, Diff("bare", NoName, {}, {}, {"note"}, TRUE), NoFull)}
Nameless == {[text |-> t, tool |-> NoName, does |-> "nothing"] : t \in {"absent", "broken", "object"}}
Payloads == Nameless \cup Rewrites \cup Swaps \cup Patches \cup Requests \cup
            {Call(t, "nothing", <<>>) : t \in {"plan", "telepathy", "write", "patch", "shell"}} \cup
            {Call("shell", "command", [cmd |-> c]) : c \in {"script", "bypass"}} \cup {Call("editor", "garbled", <<>>)}
ItsCalls == (Payloads \X {NoName}) \cup (Nameless \X CwdClaim)

Long(f) == f.kind = "file" /\ Len(f.is) > 1
Calm == guarding = [rulesets |-> {}, classic |-> Unseen] /\ bound = FALSE
Init ==
    /\ DeskInit /\ LedgerInit /\ AuditInit /\ OnboardInit /\ GithubInit
    /\ side \in {"desk", "ledger", "audit", "init", "onboard", "github", "steer"}
    /\ side # "github" => Calm
    /\ side \in {"init", "onboard"} \/ (repo = Usual /\ \A i \in Item : ~Stands(files[i]))
    /\ side = "onboard" => /\ ob.mode # "scripted" => ob.flag = None
                           /\ \A i \in {"gitignore", "codex", "copilot"} : ~Stands(files[i])
                           /\ \A i \in Item \ {"policy", "agent"} : ~Refused(files[i])   \* bound: "init" meets the others
    /\ Long(files["pre-commit"]) => side = "init" /\ repo = Usual
    /\ side # "onboard" => ob.mode = "deaf" /\ ob.flag = None /\ guarded
    /\ SteerInit /\ (side = "steer" \/ (runtime = "claude" /\ session /\ linked = "root"))
Next == /\ UNCHANGED side
        /\ \/ side = "desk" /\ DeskNext /\ UNCHANGED <<ledgerVars, auditVars, allOnboard, githubVars, steerVars>>
           \/ side = "ledger" /\ LedgerNext /\ UNCHANGED <<deskVars, auditVars, allOnboard, githubVars, steerVars>>
           \/ side = "audit" /\ AuditNext /\ UNCHANGED <<deskVars, ledgerVars, allOnboard, githubVars, steerVars>>
           \/ side = "init" /\ WiringNext /\ UNCHANGED <<kept, onboardVars, githubVars, steerVars>>
           \/ side = "onboard" /\ OnboardNext /\ UNCHANGED <<kept, githubVars, steerVars>>
           \/ side = "github" /\ GithubNext /\ UNCHANGED <<kept, allOnboard, steerVars>>
           \/ side = "steer" /\ SteerNext /\ UNCHANGED <<kept, allOnboard, githubVars>>
Spec == Init /\ [][Next]_all

(* What a writer of research documents produces its reader accepts, and what *)
(* a reader accepts is what some run could have measured: records, bundles   *)
(* and the report derived from them (research/record.ts, bundle.ts).         *)
ResearchRoundTrips == /\ ReaderAcceptsWriter /\ MeasuredIsWritable
                      /\ ValidBundleIsDerived /\ CreatedBundleIsValid

(* An experiment measures one commit, over a workspace nobody moved between  *)
(* its two judgements, and exits 0 only with its plan on disk; one runner    *)
(* writes the ledger at a time (research/run.ts).                            *)
RunsComplete == DeskTypeOK /\ LedgerTypeOK /\ OneSource /\ MeasuredStood /\ ExitZeroIsComplete
ResearchSound == side \in {"desk", "ledger"} => ResearchRoundTrips /\ OneWriter /\ RunsComplete

(* The audit branch is what a rebuild from its partitions gives, the rebuild *)
(* is never refused, and no file outgrows its limit (audit-publish.mjs).     *)
AuditRebuilds == side = "audit" => AuditTypeOK /\ SummaryIsRebuild /\ RebuildNeverRefuses /\ WithinLimits

(* Neither a research record nor published audit evidence is ever taken back *)
(* or replaced, and the audit branch stays what a rebuild of it gives        *)
(* (research/run.ts, audit-publish.mjs).                                     *)
NothingLost ==
    [][RecordStays /\ EvidenceStays /\ (UNCHANGED <<branch, damaged>> \/ AuditRebuilds')]_<<ledgerVars, auditVars>>

(* Whatever the runtime and the shape of its call: what is let through is    *)
(* judged at the trusted root, lands as judged, and weakens nothing that     *)
(* scripts, commits and later calls could then hide (src/adapters).          *)
SteeringSound == side = "steer" => SteeringHolds

OneTask == <<"t1">>

(* Two ids; one of them appears with two contents.                          *)
Events == {[id |-> "i1", severity |-> "block", session |-> "s1"],
           [id |-> "i1", severity |-> "warn", session |-> "s1"],
           [id |-> "i2", severity |-> "warn", session |-> "s1"]}
Offers == LET one == [id |-> "i1", severity |-> "block", session |-> "s1"]
              again == [one EXCEPT !.severity = "warn"]
              two == [id |-> "i2", severity |-> "warn", session |-> "s1"]
          IN  {<<one>>, <<two>>, <<again>>, <<one, two>>, <<one, one>>, <<two, again>>}
Batches == <<"b1", "b2">>
NoLegacy == <<>>
(* What is said of the installation is so.                                   *)
InstallationSound == /\ side \in {"init", "onboard"} => WiringCertified /\ ReadyIsWired
                     /\ AuthorityHeld
InstallationKeeps == [][(Applying /\ todo' # todo => \A i \in Item : RowKeeps(i)) /\ outside' /\ CommandNamed]_all
===========================================================================
