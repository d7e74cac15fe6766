------------------------------ MODULE Oracle ------------------------------
(* The external oracle: expected values and the count of assertions stay   *)
(* with the host, the candidate answers from a container over a snapshot   *)
(* (cli/oracle.ts, external-oracle.ts).  The candidate may move meanwhile. *)
EXTENDS Naturals, FiniteSets

CONSTANTS
    OPath,     \* the candidate's entries
    Cases,     \* how many cases the plan holds
    MaxEdits,  \* bound: changes to the candidate while it is judged
    Nothing    \* no value

ASSUME OracleAssumption ==
    /\ Cases \in Nat /\ MaxEdits \in Nat
    /\ Nothing \notin [tree : [OPath -> Nat], head : Nat]

VARIABLES
    live,      \* path -> its content; each change brings a content never seen
    commits,   \* HEAD
    snapshot,  \* path -> what the copy holds
    opc,       \* where the evaluation stands
    bound,     \* the tree and the head read first
    todo,      \* entries still to copy, or to compare
    budgetLeft,
    count,     \* cases completed, and passed
    answer,    \* the evaluation so far
    cleaned,   \* whether the snapshot is gone
    said,      \* what was printed
    edits

oracleVars == <<live, commits, snapshot, opc, bound, todo, budgetLeft, count, answer, cleaned, said, edits>>
evaluation == <<snapshot, bound, todo, budgetLeft, count, answer, cleaned, said>>

OracleInit ==
    /\ live = [p \in OPath |-> 0] /\ commits = 0 /\ edits = 0
    /\ snapshot = [p \in OPath |-> Nothing] /\ opc = "manifest" /\ bound = Nothing /\ todo = {}
    /\ budgetLeft = TRUE /\ count = [completed |-> 0, passed |-> 0]
    /\ answer = "none" /\ cleaned = TRUE /\ said = Nothing

CandidateEdits(p) ==
    /\ edits < MaxEdits /\ opc # "done" /\ edits' = edits + 1
    /\ live' = [live EXCEPT ![p] = edits + 1] /\ UNCHANGED <<commits, opc, evaluation>>
CandidateCommits ==
    /\ edits < MaxEdits /\ opc # "done" /\ edits' = edits + 1
    /\ commits' = commits + 1 /\ UNCHANGED <<live, opc, evaluation>>

(* Whatever fails from here on is CANNOT_VERIFY, after the cleanup.         *)
FailOracle ==
    /\ answer' = "CANNOT_VERIFY" /\ opc' = "cleanup"
    /\ UNCHANGED <<live, commits, snapshot, todo, budgetLeft, count, cleaned, said, edits>>
(* A manifest outside the repository, of the digest asked for, whose plan   *)
(* parses, and a container backend; the head is read, then the tree.        *)
Prepare(sound) ==
    /\ opc = "manifest"
    /\ IF sound
       THEN /\ bound' = [tree |-> Nothing, head |-> commits] /\ opc' = "bind"
            /\ UNCHANGED <<live, commits, snapshot, todo, budgetLeft, count, answer, cleaned, said, edits>>
       ELSE FailOracle /\ bound' = Nothing
BindTree ==
    /\ opc = "bind" /\ bound' = [bound EXCEPT !.tree = live] /\ opc' = "inspect"
    /\ UNCHANGED <<live, commits, snapshot, todo, budgetLeft, count, answer, cleaned, said, edits>>
(* Every entry is a file or a link that can be read; the snapshot's own     *)
(* filesystem tells cases apart.                                            *)
InspectEntries(supported) ==
    /\ opc = "inspect"
    /\ IF supported
       THEN /\ cleaned' = FALSE /\ todo' = OPath /\ opc' = "copy"
            /\ UNCHANGED <<live, commits, snapshot, bound, budgetLeft, count, answer, said, edits>>
       ELSE FailOracle /\ bound' = Nothing
CopyEntry(p) ==
    /\ opc = "copy" /\ p \in todo /\ todo' = todo \ {p}
    /\ snapshot' = [snapshot EXCEPT ![p] = live[p]]
    /\ UNCHANGED <<live, commits, opc, bound, budgetLeft, count, answer, cleaned, said, edits>>
Copied ==
    /\ opc = "copy" /\ todo = {} /\ opc' = "compare" /\ todo' = OPath
    /\ UNCHANGED <<live, commits, snapshot, bound, budgetLeft, count, answer, cleaned, said, edits>>
CompareEntry(p) ==
    /\ opc = "compare" /\ p \in todo
    /\ IF live[p] # snapshot[p] THEN FailOracle /\ bound' = Nothing
       ELSE /\ todo' = todo \ {p}
            /\ UNCHANGED <<live, commits, snapshot, opc, bound, budgetLeft, count, answer, cleaned, said, edits>>
(* The candidate still is what was bound: before the cases, and after.      *)
StillBound(from, to) ==
    /\ opc = from /\ todo = {}
    /\ IF live = bound.tree /\ commits = bound.head
       THEN /\ opc' = to
            /\ UNCHANGED <<live, commits, snapshot, bound, todo, budgetLeft, count, answer, cleaned, said, edits>>
       ELSE FailOracle /\ bound' = Nothing

(* One case: run within what is left of the budget, answer parsed, nonce    *)
(* and shape checked, value compared by the host.                           *)
AskCase(response) ==
    /\ opc = "cases" /\ count.completed < Cases
    /\ CASE ~budgetLeft \/ response \in {"failed", "truncated", "foreign"} ->
              /\ answer' = "CANNOT_VERIFY" /\ opc' = "judged" /\ UNCHANGED count
         [] budgetLeft /\ response = "wrong" ->
              /\ answer' = "ORACLE_RED" /\ opc' = "judged" /\ count' = [count EXCEPT !.completed = @ + 1]
         [] OTHER ->
              /\ count' = [completed |-> count.completed + 1, passed |-> count.passed + 1]
              /\ UNCHANGED <<answer, opc>>
    /\ UNCHANGED <<live, commits, snapshot, bound, todo, budgetLeft, cleaned, said, edits>>
BudgetRunsOut ==
    /\ opc = "cases" /\ budgetLeft /\ budgetLeft' = FALSE
    /\ UNCHANGED <<live, commits, snapshot, opc, bound, todo, count, answer, cleaned, said, edits>>
AllAsked ==
    /\ opc = "cases" /\ count.completed = Cases /\ answer' = "VERIFIED" /\ opc' = "judged"
    /\ UNCHANGED <<live, commits, snapshot, bound, todo, budgetLeft, count, cleaned, said, edits>>
(* The snapshot goes before anything is said; one that stays takes the      *)
(* verdict with it.                                                         *)
CleanUp(removed) ==
    /\ opc = "cleanup" /\ opc' = "emit" /\ cleaned' = (cleaned \/ removed)
    /\ IF cleaned \/ removed THEN UNCHANGED <<answer, bound>>
       ELSE answer' = "CANNOT_VERIFY" /\ bound' = Nothing
    /\ UNCHANGED <<live, commits, snapshot, todo, budgetLeft, count, said, edits>>
Emit ==
    /\ opc = "emit" /\ opc' = "done"
    /\ said' = [verdict |-> answer, binding |-> bound, passed |-> count.passed, completed |-> count.completed]
    /\ UNCHANGED <<live, commits, snapshot, bound, todo, budgetLeft, count, answer, cleaned, edits>>

OracleNext ==
    \/ \E p \in OPath : CandidateEdits(p) \/ CopyEntry(p) \/ CompareEntry(p)
    \/ CandidateCommits \/ BindTree \/ Copied \/ StillBound("compare", "cases") \/ StillBound("judged", "cleanup")
    \/ \E ok \in BOOLEAN : Prepare(ok) \/ InspectEntries(ok) \/ CleanUp(ok)
    \/ \E r \in {"right", "wrong", "failed", "truncated", "foreign"} : AskCase(r)
    \/ BudgetRunsOut \/ AllAsked \/ Emit

(* VERIFIED is said of the tree and the head that it binds: every case was  *)
(* passed, over a snapshot of that tree and nothing else, which is gone by  *)
(* then; and no verdict but those of a whole evaluation carries a binding.  *)
OracleSound ==
    said # Nothing =>
        /\ said.verdict = "VERIFIED" =>
             /\ said.passed = Cases /\ cleaned /\ said.binding # Nothing
             /\ snapshot = said.binding.tree
        /\ said.binding # Nothing => cleaned /\ snapshot = said.binding.tree
=============================================================================
