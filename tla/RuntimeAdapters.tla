--------------------------- MODULE RuntimeAdapters ---------------------------
(* The seam a coding agent's runtime asks for a decision through: four       *)
(* runtimes, the payloads they hand over, the changes each adapter predicts  *)
(* from an operation, the decision, and the sweep when the turn ends         *)
(* (src/adapters, src/cli/runtime-hook.ts, src/repo-context.ts).             *)
(* One protected test file and one source file; a file is the set of lines   *)
(* it holds.  The runtime does what it was allowed; a script it was allowed  *)
(* to start writes when it likes.                                            *)
EXTENDS Integers, Sequences, FiniteSets, SequencesExt

CONSTANTS Payload,    \* what a runtime may hand over: [text, tool, does, ...]
          CwdClaim,      \* where a payload may say it runs
          Calls,      \* which payload comes with which claim
          MaxLanded   \* operations and script writes that land

NoName == "none"
Runtime == {"claude", "codex", "copilot", "sdk"}
Text(lines) == [kind |-> "file", lines |-> lines]
Unset == [kind |-> "unset", lines |-> {}]
NoFile == [kind |-> "absent", lines |-> {}]
Shut == [kind |-> "shut", lines |-> {}]     \* stands there, and no text is read from it

(* The test file has a second name in the repository, and "out" lies outside *)
(* it.  A claim names the root, a link, a path that is gone, or nothing.     *)
Target(path) == IF path = "alias" THEN "test" ELSE path

ASSUME AdapterAssumption ==
    /\ MaxLanded \in Nat
    /\ CwdClaim \subseteq {NoName, "root", "link", "gone", "blank"}
    /\ \A p \in Payload : p.text \in {"absent", "broken", "object"}

VARIABLES runtime,      \* whose adapter decides
          session,      \* the runtime gives its session an id
          disk,         \* the test file and the source file
          tip,         \* the test file as last committed
          baseline,     \* the commit the sweep compares against, or Unset
          expected,     \* the test file as last sanctioned, or Unset
          turn,         \* the commit the turn began from, the test file it began with
          said,         \* the last decision
          contexts,     \* the repositories resolved so far, by path
          linked,       \* the repository the link leads to now
          loose,        \* a script that was let through is running
          landed
steerVars == <<runtime, session, disk, tip, baseline, expected, turn, said, contexts, linked, loose, landed>>

Denied == [phase |-> "denied"]
Idle == [phase |-> "idle"]

-----------------------------------------------------------------------------
(* The event a payload is normalised to: an absence is a call without a      *)
(* name, an unparsable one a failure, and arguments of no known shape are    *)
(* dropped.                                                                  *)
Unnamed == [text |-> "absent", tool |-> NoName, does |-> "nothing"]
Normalised(p, name) ==
    CASE p.text = "absent" -> Unnamed @@ [kind |-> "other"]
      [] p.text = "broken" -> [text |-> "broken", kind |-> "failure"]
      [] OTHER -> p @@ [kind |-> name]

ClaudeKind(tool) ==
    CASE tool = "shell" -> "shell"
      [] tool \in {"edit", "write", "edits", "notebook"} -> "file-edit"
      [] OTHER -> "other"
CodexKind(tool) ==
    CASE tool = "shell" -> "shell"
      [] tool \in {"edit", "write", "patch"} -> "file-edit"
      [] tool \in {NoName, "plan", "read", "mcp"} -> "other"
      [] OTHER -> "unknown"
CopilotKind(tool) ==
    CASE tool \in {"shell", "session-shell"} -> "shell"
      [] tool \in {"edit", "write", "edits", "patch", "editor"} -> "file-edit"
      [] tool \in {NoName, "plan", "read", "mcp"} -> "other"
      [] OTHER -> "unknown"
SdkKind(tool) ==
    CASE tool = "shell" -> "shell"
      [] tool = "write" -> "file-edit"
      [] tool \in {NoName, "plan", "read", "mcp"} -> "other"
      [] OTHER -> "unknown"

ClaudeEvent(p) == Normalised(p, ClaudeKind(p.tool))
CodexEvent(p) == Normalised(p, CodexKind(p.tool))
(* Copilot's arguments may be text that does not parse: then there are none. *)
CopilotEvent(p) == Normalised(IF p.does = "garbled" THEN [p EXCEPT !.does = "nothing"] ELSE p, CopilotKind(p.tool))
SdkEvent(p) == Normalised(p, SdkKind(p.tool))

-----------------------------------------------------------------------------
(* The changes an operation would make.  One that cannot be predicted is     *)
(* refused, one the runtime gave no content for is unsupported.              *)
Predicts(changes) == [is |-> "changes", changes |-> changes]
Unpredicted == [is |-> "refused", changes |-> {}]
Unsupported == [is |-> "unsupported", changes |-> {}]
Both(a, b) == IF a = Unpredicted \/ b = Unpredicted THEN Unpredicted ELSE Predicts(a.changes \cup b.changes)

CommandChange(cmd) == [kind |-> "command", cmd |-> cmd]
FileChange(path, old, before, after) == [kind |-> "file", path |-> path, old |-> old, before |-> before, after |-> after]

\* Null where no text is read: an absent file and a shut one alike.
ReadDisk(path) ==
    IF path # "out" /\ disk[Target(path)].kind = "file" THEN disk[Target(path)] ELSE NoFile

\* Past the ceiling of what can be judged in time nothing is predicted.
OverCeiling(before, after) == "bulk" \in before.lines \cup after.lines
SynthFileChange(path, old, before, after) ==
    CASE before = after -> Predicts({})
      [] before # after /\ OverCeiling(before, after) -> Unpredicted
      [] OTHER -> Predicts({FileChange(path, old, before, after)})

\* The old line gives way to the new; one that is not there is an addition.
ApplyEdit(content, edit) ==
    Text(IF content = NoFile THEN {edit.new} ELSE (content.lines \ {edit.old}) \cup {edit.new})
ApplyEdits(content, edits) == FoldLeft(ApplyEdit, content, edits)

ClaudeChanges(ev) ==
    CASE ev.tool = "shell" /\ ev.does = "command" -> Predicts({CommandChange(ev.cmd)})
      [] ev.tool = "write" /\ ev.does = "content" ->
            SynthFileChange(ev.path, NoName, ReadDisk(ev.path), Text(ev.new))
      [] ev.tool \in {"edit", "edits"} /\ ev.does = "edits" ->
            SynthFileChange(ev.path, NoName, ReadDisk(ev.path), ApplyEdits(ReadDisk(ev.path), ev.edits))
      [] ev.tool = "notebook" /\ ev.does = "content" /\ ev.new # {} ->
            SynthFileChange(ev.path, NoName, Text({}), Text(ev.new))
      [] OTHER -> Predicts({})

ShellChanges(ev) == IF ev.does = "command" THEN Predicts({CommandChange(ev.cmd)}) ELSE Unpredicted
FileEdit(ev) ==
    CASE ev.does = "edits" -> SynthFileChange(ev.path, NoName, ReadDisk(ev.path), ApplyEdits(ReadDisk(ev.path), ev.edits))
      [] ev.does = "content" -> SynthFileChange(ev.path, NoName, ReadDisk(ev.path), Text(ev.new))
      [] OTHER -> Unpredicted

(* apply_patch: sections that add, delete or update a file, each against the *)
(* file on disk.  An update takes its anchored lines out, and one that is    *)
(* not found where it says, or has no anchor, is not guessed at.             *)
Located(section, before) == section.anchor # {} /\ section.anchor \subseteq before.lines
ApplyUpdate(before, section) == Text((before.lines \ section.gone) \cup section.new)
SectionChange(section) ==
    LET before == ReadDisk(section.path)
    IN  CASE section.op = "add" -> SynthFileChange(section.path, NoName, NoFile, Text(section.new))
          [] section.op = "delete" -> SynthFileChange(section.path, NoName, before, NoFile)
          [] section.op = "update" /\ Located(section, before) ->
                SynthFileChange(section.to, IF section.to # section.path THEN section.path ELSE NoName,
                                before, ApplyUpdate(before, section))
          [] OTHER -> Unpredicted
ApplyPatchChanges(ev) ==
    IF ev.does # "patch" THEN Unpredicted
    ELSE FoldLeft(LAMBDA acc, section : Both(acc, SectionChange(section)), Predicts({}), ev.sections)

CodexChanges(ev) ==
    CASE ev.kind = "shell" -> ShellChanges(ev)
      [] ev.kind # "shell" /\ ev.kind # "file-edit" -> Predicts({})
      [] ev.tool = "patch" -> ApplyPatchChanges(ev)
      [] OTHER -> FileEdit(ev)
CopilotChanges(ev) ==
    CASE ev.kind = "shell" -> ShellChanges(ev)
      [] ev.kind # "shell" /\ ev.kind # "file-edit" -> Predicts({})
      [] ev.tool = "patch" -> ApplyPatchChanges(ev)
      [] OTHER -> FileEdit(ev)

(* A hosted write: the target by its one real name inside the repository, a  *)
(* diff whose headers agree with the request and whose operation agrees with *)
(* the file, and full contents that agree with the diff.                     *)
NoDiff == [op |-> NoName]
NoFull == [is |-> NoName, lines |-> {}]
Contained(path) == path # "out"
DiffOp(diff, stands) == IF diff.op = "bare" THEN (IF stands THEN "modify" ELSE "create") ELSE diff.op
CanonicalPatch(diff, path, stands) ==
    /\ ~diff.odd
    /\ diff.op = "bare" \/ diff.names = path
    /\ (DiffOp(diff, stands) = "create") = ~stands
ReconstructAfter(diff, path, entry) ==
    LET op == DiffOp(diff, entry # NoFile)
    IN  IF \/ ~CanonicalPatch(diff, path, entry # NoFile) \/ "bulk" \in diff.new
           \/ ~(diff.anchor \subseteq entry.lines)
           \/ op = "delete" /\ diff.gone # entry.lines
        THEN Unpredicted
        ELSE [is |-> "after", entry |-> IF op = "delete" THEN NoFile ELSE Text((entry.lines \ diff.gone) \cup diff.new)]
SdkFileEditChanges(ev) ==
    LET entry == disk[Target(ev.path)]
        byDiff == ReconstructAfter(ev.diff, ev.path, entry)
        full == Text(ev.full.lines)
    IN  IF \/ ev.does # "request" \/ ~Contained(ev.path)
           \/ ev.resolved # NoName /\ Target(ev.resolved) # Target(ev.path)
           \/ entry = Shut
        THEN Unpredicted
        ELSE IF ev.diff = NoDiff
             THEN IF ev.full = NoFull THEN Unsupported ELSE SynthFileChange(Target(ev.path), NoName, entry, full)
        ELSE IF byDiff = Unpredicted \/ (ev.full # NoFull /\ byDiff.entry # full) THEN Unpredicted
        ELSE SynthFileChange(Target(ev.path), NoName, entry, byDiff.entry)
SdkChanges(ev) == IF ev.kind = "file-edit" THEN SdkFileEditChanges(ev) ELSE CopilotChanges(ev)

(* What each runtime says: hosted requests, patches, or a tool's arguments.  *)
Spoken ==
    {p \in Payload : /\ p.does = "request" => runtime = "sdk"
                     /\ p.does \in {"content", "edits"} => runtime # "sdk"
                     /\ p.does = "patch" => runtime \in {"codex", "copilot"}}
SteeringEvent(p) ==
    CASE runtime = "claude" -> ClaudeEvent(p)
      [] runtime = "codex" -> CodexEvent(p)
      [] runtime = "copilot" -> CopilotEvent(p)
      [] runtime = "sdk" -> SdkEvent(p)
Changes(ev) ==
    CASE runtime = "claude" -> ClaudeChanges(ev)
      [] runtime = "codex" -> CodexChanges(ev)
      [] runtime = "copilot" -> CopilotChanges(ev)
      [] runtime = "sdk" -> SdkChanges(ev)

-----------------------------------------------------------------------------
(* What the rules block: a command that switches the gate off, an assertion  *)
(* that goes, a skip that comes, a test file that goes.                      *)
Weakens(before, after) ==
    \/ "assert" \in before.lines \ after.lines
    \/ "skip" \in after.lines \ before.lines
    \/ before.kind = "file" /\ after = NoFile
Blocks(change) ==
    IF change.kind = "command" THEN change.cmd = "bypass"
    ELSE \/ change.path = "test" /\ Weakens(change.before, change.after)
         \/ change.old = "test" /\ change.before.kind = "file"
\* At the turn's end and between calls, what cannot be read is blocked too.
TurnBlocks(from, now) == now # from /\ (now = Shut \/ Weakens(from, now))

-----------------------------------------------------------------------------
(* What an operation that was let through leaves, by the runtime's own tool. *)
(* An edit that is not found there is refused by the tool, or forced in.     *)
Put(files, path, entry) == IF path = "out" THEN files ELSE [files EXCEPT ![Target(path)] = entry]
At(files, path) == IF path = "out" THEN NoFile ELSE files[Target(path)]
LandSection(files, s) ==
    CASE s.op = "add" -> Put(files, s.path, Text(s.new))
      [] s.op = "delete" -> Put(files, s.path, NoFile)
      [] OTHER -> Put(Put(files, s.path, NoFile), s.to, ApplyUpdate(At(files, s.path), s))
Found(entry, edits) == entry = NoFile \/ \A i \in 1..Len(edits) : edits[i].old \in ApplyEdits(entry, SubSeq(edits, 1, i - 1)).lines
LandsAs(ev) ==
    LET entry == At(disk, ev.path)
    IN  CASE ev.does = "content" -> {Put(disk, ev.path, Text(ev.new \cup (IF ev.tool = "notebook" THEN entry.lines ELSE {})))}
          [] ev.does = "edits" -> {Put(disk, ev.path, ApplyEdits(entry, ev.edits))} \cup
                                  (IF Found(entry, ev.edits) THEN {} ELSE {disk})
          [] ev.does = "patch" -> {FoldLeft(LandSection, disk, ev.sections)}
          [] ev.does = "request" /\ ev.full # NoFull -> {Put(disk, ev.path, Text(ev.full.lines))}
          [] ev.does = "request" /\ ev.full = NoFull /\ ev.diff # NoDiff ->
                {Put(disk, ev.path, IF ev.diff.op = "delete" THEN NoFile ELSE Text((entry.lines \ ev.diff.gone) \cup ev.diff.new))}
          [] ev.does = "request" /\ ev.full = NoFull /\ ev.diff = NoDiff -> {Put(disk, ev.path, Text({"skip"}))}
          [] OTHER -> {disk}

(* The predictions that are exact.  The others are what the sweep is for: an *)
(* alias is judged by the name it has, content that is there is not read for *)
(* an addition, a move onto a file or several sections of one file are each  *)
(* judged alone, and a notebook's cell is judged without its notebook.       *)
Faithful(ev) ==
    /\ ev.does = "patch" => \A i \in 1..Len(ev.sections) : LET s == ev.sections[i] IN
            /\ {s.path, s.to} \subseteq {"test", "src"} /\ s.path = s.to
            /\ disk[s.path].kind = (IF s.op = "add" THEN "absent" ELSE "file")
            /\ \A j \in 1..Len(ev.sections) : ev.sections[j].path = s.path => i = j
    /\ ev.does \in {"content", "edits"} =>
            ev.tool # "notebook" /\ ev.path # "alias" /\ At(disk, ev.path) # Shut
    /\ ev.does = "request" => ev.diff # NoDiff \/ ev.full # NoFull

-----------------------------------------------------------------------------
(* The repository a claim leads to now.  A path is resolved once; the link   *)
(* is followed before the cache is asked.                                    *)
PlaceOf(path) == IF path = "link" THEN linked ELSE path
RepoContext(path) ==
    IF path \in DOMAIN contexts THEN contexts[path]
    ELSE IF PlaceOf(path) = "nowhere" THEN NoName ELSE PlaceOf(path)
\* Mutant: the cache is asked for the claim as it was spelt.
ClaimAsSpelt(claim) == claim
RealClaim(claim) == PlaceOf(claim)
Remembering(paths) ==
    [path \in {q \in DOMAIN contexts \cup paths : RepoContext(q) # NoName} |-> RepoContext(path)]
ValidateClaim(claim) ==
    \/ claim = NoName
    \/ claim \notin {NoName, "gone", "blank"} /\ RepoContext(RealClaim(claim)) = "root"
Looked(claim) == {"root"} \cup (IF claim \in {"root", "link"} THEN {RealClaim(claim)} ELSE {})
(* Claude's own path asks once more, for the claim as it was spelt.          *)
JudgedAt(claim) == IF runtime = "claude" /\ claim # NoName THEN RepoContext(claim) ELSE "root"
ClaudeLooks(claim) == IF runtime = "claude" /\ claim # NoName THEN {claim} ELSE {}

Rejects(claim) == contexts' = Remembering(Looked(claim))
Accepts(claim) == contexts' = Remembering(Looked(claim) \cup ClaudeLooks(claim))

-----------------------------------------------------------------------------
(* The decision before an action, in the order the adapters take it.         *)
Named(ev) == session /\ ev.text = "object"
Pinned(ev) == IF Named(ev) /\ baseline = Unset THEN tip ELSE baseline
Since(ev) == IF Pinned(ev) = Unset THEN tip ELSE Pinned(ev)
Drifted(ev) == Named(ev) /\ expected # Unset /\ expected # disk["test"]
DriftBlocks(ev) == Drifted(ev) /\ TurnBlocks(Since(ev), disk["test"])
Absorbed(ev) == IF Named(ev) THEN disk["test"] ELSE expected
FirstSight(ev) == IF Named(ev) /\ expected = Unset THEN [turn EXCEPT !.tree = disk["test"]] ELSE turn
SanctionPredictedWrites(ev, changes) ==
    LET written == {c \in changes : c.kind = "file" /\ c.path = "test" /\ c.after # NoFile}
    IN  IF Named(ev) /\ written # {} THEN (CHOOSE c \in written : TRUE).after ELSE Absorbed(ev)

ParseFailure(ev) == ev.kind = "failure" /\ said' = Denied /\ UNCHANGED <<baseline, expected, turn, contexts>>
IdentityRejected(ev, claim) ==
    /\ ev.kind # "failure" /\ ~ValidateClaim(claim) /\ Rejects(claim)
    /\ said' = Denied /\ UNCHANGED <<baseline, expected, turn>>
UnknownTool(ev, claim) ==
    /\ ev.kind = "unknown" /\ ValidateClaim(claim) /\ Rejects(claim)
    /\ said' = Denied /\ UNCHANGED <<baseline, expected, turn>>
Judges(ev, claim) ==
    /\ ev.kind \notin {"failure", "unknown"} /\ ValidateClaim(claim) /\ Accepts(claim)
    /\ baseline' = Pinned(ev)
PolicyRefused(ev, claim) == Judges(ev, claim) /\ said' = Denied /\ UNCHANGED <<expected, turn>>
EffectDrift(ev, claim) ==
    Judges(ev, claim) /\ DriftBlocks(ev) /\ said' = Denied /\ UNCHANGED <<expected, turn>>
JudgeOperation(ev, claim) ==
    LET predicted == Changes(ev)
    IN  /\ Judges(ev, claim) /\ ~DriftBlocks(ev)
        /\ IF predicted = Unpredicted \/ \E c \in predicted.changes : Blocks(c)
           THEN said' = Denied /\ expected' = Absorbed(ev) /\ turn' = FirstSight(ev)
           ELSE /\ said' = [phase |-> "allowed", does |-> ev, at |-> JudgedAt(claim), place |-> RealClaim(claim),
                            since |-> Since(ev), saw |-> disk["test"]]
                /\ expected' = SanctionPredictedWrites(ev, predicted.changes)
                /\ turn' = [FirstSight(ev) EXCEPT !.blind = @ \/ ~Faithful(ev)]
Decide(p, claim) ==
    LET ev == SteeringEvent(p)
        at == IF p.text = "absent" THEN NoName ELSE claim
    IN  /\ said.phase # "allowed"
        /\ ParseFailure(ev) \/ IdentityRejected(ev, at) \/ UnknownTool(ev, at)
           \/ PolicyRefused(ev, at) \/ EffectDrift(ev, at) \/ JudgeOperation(ev, at)
        /\ UNCHANGED <<runtime, session, disk, tip, linked, loose, landed>>

-----------------------------------------------------------------------------
(* What happens between decisions, and the sweep when the turn ends.         *)
Starts(ev) == ev.does = "command" /\ ev.cmd = "script"
Land ==
    /\ said.phase = "allowed" /\ landed < MaxLanded
    /\ disk' \in LandsAs(said.does)
    /\ loose' = (loose \/ Starts(said.does))
    /\ said' = Idle /\ landed' = landed + 1
    /\ UNCHANGED <<runtime, session, tip, baseline, expected, turn, contexts, linked>>
NeverLands == said.phase = "allowed" /\ said' = Idle
              /\ UNCHANGED <<runtime, session, disk, tip, baseline, expected, turn, contexts, linked, loose, landed>>
ScriptWrites ==
    /\ loose /\ landed < MaxLanded /\ landed' = landed + 1
    /\ \E e \in {Text({"assert"}), Text({"assert", "skip"}), Text({}), Shut} : disk' = [disk EXCEPT !["test"] = e]
    /\ UNCHANGED <<runtime, session, tip, baseline, expected, turn, said, contexts, linked, loose>>
ScriptCommits ==
    /\ loose /\ disk["test"] # Shut /\ tip' = disk["test"]
    /\ UNCHANGED <<runtime, session, disk, baseline, expected, turn, said, contexts, linked, loose, landed>>
Retarget ==
    /\ landed = 0 /\ linked' \in {"root", "other", "nowhere"} \ {linked}
    /\ UNCHANGED <<runtime, session, disk, tip, baseline, expected, turn, said, contexts, loose, landed>>

SweepRefused(ev, claim) ==
    /\ said' = Denied
    /\ IF ev.kind = "failure" THEN UNCHANGED contexts ELSE ~ValidateClaim(claim) /\ Rejects(claim)
    /\ UNCHANGED <<baseline, expected, turn>>
SweepPassed(ev, claim, active) ==
    /\ ev.kind # "failure" /\ ValidateClaim(claim) /\ Accepts(claim) /\ active
    /\ said' = Idle /\ UNCHANGED <<baseline, expected, turn>>
SweepJudged(ev, claim) ==
    /\ ev.kind # "failure" /\ ValidateClaim(claim) /\ Accepts(claim)
    /\ IF TurnBlocks(IF Named(ev) THEN Since(ev) ELSE tip, disk["test"])
       THEN said' = Denied /\ baseline' = Pinned(ev) /\ UNCHANGED <<expected, turn>>
       ELSE /\ said' = [phase |-> "ended", named |-> Named(ev), from |-> turn.commit, saw |-> disk["test"]]
            /\ baseline' = IF Named(ev) THEN tip ELSE baseline
            /\ expected' = Absorbed(ev)
            /\ turn' = IF Named(ev) THEN [commit |-> tip, tree |-> disk["test"], blind |-> FALSE] ELSE turn
Sweep(p, claim, active) ==
    LET ev == SteeringEvent(p)
        at == IF p.text = "absent" THEN NoName ELSE claim
    IN  /\ said.phase # "allowed"
        /\ SweepRefused(ev, at) \/ SweepPassed(ev, at, active) \/ (~active /\ SweepJudged(ev, at))
        /\ UNCHANGED <<runtime, session, disk, tip, linked, loose, landed>>

SteerInit ==
    /\ runtime \in Runtime /\ session \in BOOLEAN
    /\ tip = Text({"assert"}) /\ disk = [test |-> tip, src |-> NoFile]
    /\ baseline = Unset /\ expected = Unset /\ said = Idle
    /\ turn = [commit |-> tip, tree |-> tip, blind |-> FALSE]
    /\ contexts = <<>> /\ linked \in {"root", "other"}
    /\ loose = FALSE /\ landed = 0
SteerNext ==
    \/ \E p \in Spoken, claim \in CwdClaim : <<p, claim>> \in Calls /\ Decide(p, claim)
    \/ \E p \in Spoken, claim \in CwdClaim, active \in BOOLEAN : <<p, claim>> \in Calls /\ p.tool = NoName /\ Sweep(p, claim, active)
    \/ Land \/ NeverLands \/ ScriptWrites \/ ScriptCommits \/ Retarget

-----------------------------------------------------------------------------
(* An operation whose prediction is exact, and which is let through, leaves  *)
(* the test file no weaker, and leaves it as predicted and judged: whatever  *)
(* the runtime, the shape of the call and the file (adapters/*/changes.ts).  *)
NothingSlips ==
    said.phase = "allowed" /\ said.does.kind = "file-edit" /\ said.saw = disk["test"] /\ Faithful(said.does)
    => \A files \in LandsAs(said.does) :
          /\ ~Weakens(said.saw, files["test"])
          /\ files["test"] # said.saw =>
                \E c \in Changes(said.does).changes : c.path = "test" /\ c.after = files["test"]

(* Only a call from the trusted repository is judged, and there: a link that *)
(* was moved since it was last asked for is followed (repo-context.ts).      *)
OnlyTheRoot == said.phase = "allowed" => said.place \in {NoName, "root"} /\ said.at = "root"

(* A call goes on only over a test file no weaker than the turn's commit, or *)
(* than the file the turn began with, whatever scripts wrote in between.     *)
TurnHolds ==
    said.phase = "allowed" /\ Named(said.does) /\ ~turn.blind
    => ~Weakens(said.since, said.saw) \/ ~Weakens(turn.tree, said.saw)

(* A turn that ends clean leaves no weaker test file than the commit it      *)
(* began from, even when its changes were committed on the way.              *)
SweepSeesTurn == said.phase = "ended" /\ said.named => ~Weakens(said.from, said.saw)

SteeringHolds == NothingSlips /\ OnlyTheRoot /\ TurnHolds /\ SweepSeesTurn
=============================================================================
