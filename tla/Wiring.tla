------------------------------ MODULE Wiring ------------------------------
(* The files `tamperward init` writes and the plan it writes them by:       *)
(* every item is planned from what stands at its path, then the rows are     *)
(* applied one by one (cli/init.ts, safe-write.ts, wiring.ts).  A release is *)
(* a number, 0 where a command names none.                                   *)
EXTENDS Naturals, Sequences, FiniteSets

CONSTANTS
    Tool,         \* the tools PreToolUse must see
    Current,      \* the release this binary is
    CriticalPath, \* what CODEOWNERS must cover
    Command,      \* commands a repository may name as its suite
    None,         \* no such thing
    Standing,     \* what an item's path may hold: [Item -> SUBSET files]
    Edits,        \* what a path may be changed to beside init
    Checkouts,    \* repositories init may be run in
    MaxChanges    \* bound: changes made beside init, and writes that fail

ASSUME WiringAssumption == Current \in Nat \ {0} /\ None \notin Command

VARIABLES
    files,   \* item -> what stands at its path
    repo,    \* what else the planner looks at
    plan,    \* the rows of the run under way or just ended, or None
    todo,    \* the items not applied yet
    force,   \* --force-workflow
    seen,    \* history: the files the plan was made from
    moved,   \* history: items changed beside init since the plan
    outside, \* the file a link at one of the paths points to is as it was
    changes

wiringVars == <<files, repo, plan, todo, force, seen, moved, outside, changes>>

Item == {"policy", "gitignore", "agent", "codex", "copilot", "pre-commit", "ci", "codeowners"}
Order == <<"policy", "gitignore", "agent", "codex", "copilot", "pre-commit", "ci", "codeowners">>

Nothing == [kind |-> "absent"]
File(is) == [kind |-> "file", is |-> is]
Stands(f) == f.kind # "absent"
Refused(f) == f.kind \in {"link", "irregular"}

Row(status, writes) == [status |-> status, writes |-> writes]
Leave(status) == Row(status, None)
Write(f, is) == Row(IF Stands(f) THEN "update" ELSE "create", File(is))

-----------------------------------------------------------------------------
(* .claude/settings.json.  An entry names the gate (by init's own text, a    *)
(* text init once wrote, or one written by hand) or is the user's; hurt when *)
(* a key, a wrapper or a matcher keeps the runtime from running the gate     *)
(* through it; `reads` when its matcher is a pattern the runtime can read.   *)
Ours == [cmd |-> "init", pin |-> Current, hurt |-> FALSE, tools |-> Tool, reads |-> TRUE]
NamesGate(e) == e.cmd # "user"
GateEntries(s) == {e \in s : NamesGate(e)}
Judged(e) == ~e.hurt
(* Mutant: an entry that carries the command needs nothing more.             *)
NothingMissing(e) == {}
MissingTools(e) == Tool \ e.tools
StalePin(e) == e.cmd = "legacy" \/ (e.cmd = "init" /\ e.pin # Current)

NoSettings == [form |-> "object", pre |-> {}, stop |-> {}, off |-> "unset"]
Restored(e) == [e EXCEPT !.cmd = "init", !.pin = Current, !.hurt = FALSE]
Repinned(e) == IF ~NamesGate(e) THEN e
               ELSE IF ~Judged(e) \/ StalePin(e) THEN Restored(e) ELSE e
Widened(e) == IF NamesGate(e) THEN [e EXCEPT !.tools = @ \cup MissingTools(e)] ELSE e
WithGate(s) == IF GateEntries(s) = {} THEN s \cup {Ours} ELSE s
WiredSettings(s) ==
    [s EXCEPT !.pre = WithGate({Widened(Repinned(e)) : e \in @}),
              !.stop = WithGate({Repinned(e) : e \in @}),
              !.off = "false"]
PlanClaudeHooks(f) ==
    LET s == IF Stands(f) THEN f.is ELSE NoSettings
        gates == GateEntries(s.pre) \cup GateEntries(s.stop) IN
    CASE Refused(f) -> Leave("error")
      [] ~Refused(f) /\ s.form = "broken" -> Leave("error")
      [] ~Refused(f) /\ s.form # "broken" ->
           IF \E e \in gates : ~Judged(e) /\ e.cmd = "hand" THEN Leave("error")
           ELSE IF WiredSettings(s) = s THEN Leave("ok")
           ELSE Write(f, WiredSettings(s))

-----------------------------------------------------------------------------
(* The pre-commit script: lines of the gate, of the user, and the ones that  *)
(* end it.                                                                   *)
GateLine == {"now", "old", "hand"}
FirstOf(lines, S) ==
    LET at == {i \in DOMAIN lines : lines[i] \in S} IN
    IF at = {} THEN 0 ELSE CHOOSE i \in at : \A j \in at : i <= j
UnconditionalExitAt(lines) == FirstOf(lines, {"exit"})
Block == <<"mark", "now">>
InsertAbove(lines, i) == SubSeq(lines, 1, i - 1) \o Block \o SubSeq(lines, i, Len(lines))
Reachable(lines, at) == LET dead == UnconditionalExitAt(lines) IN at # 0 /\ (dead = 0 \/ at < dead)

PlanScript(f) ==
    LET lines == f.is  at == FirstOf(lines, GateLine)  dead == UnconditionalExitAt(lines) IN
    IF FirstOf(lines, {"managed"}) # 0 THEN Leave("skip")
    ELSE IF Reachable(lines, at) THEN
        IF lines[at] = "old" THEN Write(f, [lines EXCEPT ![at] = "now"]) ELSE Leave("ok")
    ELSE IF at # 0 THEN
        IF lines[at] # "hand" /\ lines[at - 1] = "mark"
        THEN Write(f, InsertAbove(SubSeq(lines, 1, at - 2) \o SubSeq(lines, at + 1, Len(lines)), dead))
        ELSE Leave("error")
    ELSE IF dead # 0 THEN Write(f, InsertAbove(lines, dead))
    ELSE Write(f, lines \o Block)
PlanPreCommit(f) ==
    IF ~repo.husky /\ (repo.managed \/ ~repo.git) THEN Leave("skip")
    ELSE IF Refused(f) THEN Leave("error")
    ELSE IF ~Stands(f) THEN Write(f, <<"shebang">> \o Block)
    ELSE PlanScript(f)

-----------------------------------------------------------------------------
(* The workflow carries the release that wrote it and the body it wrote.     *)
Template(v) == [by |-> v, verify |-> v = Current, minutes |-> 2, grants |-> FALSE]
Generated(v) == [stamp |-> v, wrote |-> Template(v), body |-> Template(v)]
Unmodified(w) == w.stamp # 0 /\ w.body = w.wrote
PlanWorkflow(f, forced) ==
    CASE Refused(f) -> Leave("error")
      [] ~Stands(f) -> Write(f, Generated(Current))
      [] f.kind = "file" ->
           IF f.is.stamp # 0 /\ f.is.body = Template(Current) THEN Leave("ok")
           ELSE IF Unmodified(f.is) \/ forced THEN Write(f, Generated(Current))
           ELSE Leave("skip")

(* CODEOWNERS, wherever it already stands.                                   *)
PlanCodeowners(f) ==
    IF Refused(f) THEN Leave("error")
    ELSE IF Stands(f) /\ f.is = CriticalPath THEN Leave("ok")
    ELSE Write(f, CriticalPath)

(* The policy is created and never rewritten; `minutes` is the job time its  *)
(* verify budget needs.                                                      *)
BaselineFile == [loads |-> TRUE, command |-> None, minutes |-> 2, backend |-> "local"]
PlanPolicy(f) ==
    IF Refused(f) THEN Leave("error")
    ELSE IF Stands(f) THEN Leave(IF f.is.loads THEN "ok" ELSE "error")
    ELSE Write(f, BaselineFile)

(* .gitignore, by what it says of node_modules.                              *)
PlanGitignore(f) ==
    IF Refused(f) THEN Leave("error")
    ELSE IF repo.tracked \/ (Stands(f) /\ "negation" \in f.is) THEN Leave("skip")
    ELSE IF Stands(f) /\ "ignored" \in f.is THEN Leave("ok")
    ELSE Write(f, (IF Stands(f) THEN f.is ELSE {}) \cup {"ignored"})

(* Codex's tables are appended where there are none; the Copilot document is *)
(* the tool's own.                                                           *)
RuntimeTables(rest) == [tables |-> "init", pin |-> Current, rest |-> rest]
PlanRuntime(item, f) ==
    IF Refused(f) THEN Leave("error")
    ELSE IF ~Stands(f) THEN Write(f, RuntimeTables({}))
    ELSE CASE f.is.tables = "none" -> IF item = "codex" THEN Write(f, RuntimeTables(f.is.rest)) ELSE Leave("error")
           [] f.is.tables = "hand" -> Leave("error")
           [] f.is.tables = "init" -> IF f.is.pin = Current THEN Leave("ok") ELSE Write(f, RuntimeTables(f.is.rest))

Planned == (Item \ {"gitignore", "codex", "copilot"}) \cup repo.markers
           \cup (IF repo.deps THEN {"gitignore"} ELSE {})
RowOf(item, f, forced) ==
    CASE item = "policy" -> PlanPolicy(f)
      [] item = "gitignore" -> PlanGitignore(f)
      [] item = "agent" -> PlanClaudeHooks(f)
      [] item \in {"codex", "copilot"} -> PlanRuntime(item, f)
      [] item = "pre-commit" -> PlanPreCommit(f)
      [] item = "ci" -> PlanWorkflow(f, forced)
      [] item = "codeowners" -> PlanCodeowners(f)
PlanInit(forced) == [i \in Planned |-> RowOf(i, files[i], forced)]

-----------------------------------------------------------------------------
Applying == plan # None /\ todo # <<>>
InitEnded == plan # None /\ todo = <<>>
WiringInit ==
    /\ \E i \in Item : \E f \in Standing[i] : files = [j \in Item |-> IF j = i THEN f ELSE Nothing]
    /\ repo \in Checkouts
    /\ plan = None /\ todo = <<>> /\ force = FALSE /\ seen = files /\ moved = {} /\ outside = TRUE /\ changes = 0

RunInit(forced) ==
    /\ ~Applying
    /\ plan' = PlanInit(forced) /\ force' = forced /\ seen' = files /\ moved' = {}
    /\ todo' = SelectSeq(Order, LAMBDA i : i \in Planned)
    /\ UNCHANGED <<files, repo, outside, changes>>

(* The bytes go to a fresh sibling and rename puts it in the path's place:   *)
(* what stood there is never opened.                                         *)
(* Mutant: the path is opened for writing, and a link followed.              *)
WriteThrough(f, new) == [file |-> IF f.kind = "link" THEN f ELSE new, reached |-> f.kind = "link"]
AtomicReplace(f, new) == [file |-> new, reached |-> FALSE]
Apply ==
    /\ Applying
    /\ LET i == Head(todo)  row == plan[i] IN
       \/ /\ row.writes = None /\ UNCHANGED <<files, plan, outside, changes>>
       \/ /\ row.writes # None /\ files[i].kind # "irregular"
          /\ LET done == AtomicReplace(files[i], row.writes) IN
             /\ files' = [files EXCEPT ![i] = done.file]
             /\ outside' = (outside /\ ~done.reached)
          /\ UNCHANGED <<plan, changes>>
       \/ /\ row.writes # None /\ changes < MaxChanges
          /\ plan' = [plan EXCEPT ![i] = Leave("error")] /\ changes' = changes + 1 /\ UNCHANGED <<files, outside>>
    /\ todo' = Tail(todo)
    /\ UNCHANGED <<repo, force, seen, moved>>

(* Somebody changes what stands at a path, init running or not.              *)
Change(i, f) ==
    /\ changes < MaxChanges /\ f # files[i]
    /\ files' = [files EXCEPT ![i] = f] /\ moved' = moved \cup {i} /\ changes' = changes + 1
    /\ UNCHANGED <<repo, plan, todo, force, seen, outside>>

WiringNext ==
    \/ \E forced \in BOOLEAN : RunInit(forced)
    \/ Apply
    \/ \E i \in Item : \E f \in Edits[i] : Change(i, f)

-----------------------------------------------------------------------------
(* What the wiring does when somebody acts on it.                            *)
GateRuns(s) ==
    /\ s.off = "false"
    /\ Tool = UNION {IF e.reads THEN e.tools ELSE {} : e \in {g \in GateEntries(s.pre) : Judged(g)}}
    /\ \E e \in GateEntries(s.stop) : Judged(e)
InForce(i, f) ==
    CASE i = "policy" -> f.is.loads
      [] i = "gitignore" -> "ignored" \in f.is
      [] i = "agent" -> GateRuns(f.is)
      [] i \in {"codex", "copilot"} -> f.is.tables = "init" /\ f.is.pin = Current
      [] i = "pre-commit" -> \E at \in DOMAIN f.is : f.is[at] \in GateLine /\ Reachable(f.is, at)
      [] i = "ci" -> f.is.body = Template(Current)
      [] i = "codeowners" -> CriticalPath \subseteq f.is

(* What a person wrote there and a rewrite must leave.                       *)
UserLine(line) == line \notin {"mark", "now", "old"}
Survives(i, f, g) ==
    ~Stands(f) \/
    CASE i = "policy" -> g = f
      [] i = "gitignore" -> f.is \subseteq g.is
      [] i = "agent" ->
           \A part \in {"pre", "stop"} :
              /\ f.is[part] \ GateEntries(f.is[part]) \subseteq g.is[part]
              /\ \A e \in GateEntries(f.is[part]) :
                    \E n \in g.is[part] : e.tools \subseteq n.tools /\ (e.cmd = "hand" => n.cmd = "hand" /\ n.pin = e.pin)
      [] i \in {"codex", "copilot"} -> f.is.tables # "hand" /\ f.is.rest \subseteq g.is.rest
      [] i = "pre-commit" -> SelectSeq(g.is, UserLine) = SelectSeq(f.is, UserLine)
      [] i = "ci" -> force \/ Unmodified(f.is)
      [] i = "codeowners" -> f.is \subseteq g.is

(* What a finished run left alone since is in force, wherever the planner    *)
(* says ok: and a second run finds nothing to do.                            *)
WiringCertified ==
    \A i \in Planned : LET f == files[i] IN
        /\ RowOf(i, f, FALSE).status = "ok" => InForce(i, f)
        /\ InitEnded /\ i \in DOMAIN plan /\ i \notin moved /\ plan[i].status \in {"create", "update", "ok"}
             => RowOf(i, f, FALSE).status = "ok"

(* Nothing a person wrote before the plan is lost by a row, and no row writes *)
(* through a link (safe-write.ts; init.ts: nothing a user wrote is ever      *)
(* overwritten).                                                             *)
RowKeeps(i) == files'[i] # files[i] => Survives(i, seen[i], files'[i])
===========================================================================
