---------------------------- MODULE AuditStore ----------------------------
(* The tamperward-audit evidence branch and the workflow that adds to it:   *)
(* prescan, a sparse or full clone, the publisher and its push              *)
(* (.github/audit/*, .github/workflows/tamperward-audit.yml).               *)
(* Bounds: MaxMonth months, MaxFiles batch files in a month's partition.    *)
EXTENDS Integers, Sequences, FiniteSets, SequencesExt

CONSTANTS BatchOrder,     \* batch ids, in the order of their file names
          Event,          \* records [id, severity, session]
          Legacy,         \* what events/all.jsonl holds, a sequence of events
          Offered,        \* what a batch may hold: sequences of events
          MaxMonth, MaxFiles

VARIABLES
    branch,     \* what the evidence branch holds
    pending,    \* batch id -> candidate file in the repository, empty if none
    job,        \* the workflow run in progress: its step and its clone
    month,      \* the month of the ingestion clock
    damaged     \* derived files were edited by hand since the last rebuild
auditVars == <<branch, pending, job, month, damaged>>

Batch == ToSet(BatchOrder)
NoPartition == [there |-> FALSE, lines |-> <<>>]
EmptyState == [on |-> TRUE, events |-> 0, blocked |-> 0, sessions |-> 0, legacy |-> 0]
NoState == [EmptyState EXCEPT !.on = FALSE]

(* An event is stored as its line; an index holds its id with its content.  *)
Content(e) == [id |-> e.id, severity |-> e.severity]
NoIndex == [ids |-> {}, sessions |-> {}]

AuditInit ==
    /\ branch = [entries |-> IF Legacy = <<>> THEN <<>> ELSE <<[batch |-> "v1", content |-> Legacy, month |-> 0, stored |-> 0]>>,
                 parts |-> [b \in Batch |-> NoPartition], index |-> NoIndex, state |-> NoState]
    /\ pending = [b \in Batch |-> <<>>]
    /\ job = [step |-> "idle"]
    /\ month = 1
    /\ damaged = FALSE

InLedger(s, b) == \E i \in DOMAIN s.entries : s.entries[i].batch = b
EntryOf(s, b) == s.entries[CHOOSE i \in DOMAIN s.entries : s.entries[i].batch = b]

(* ------------------------------- folding -------------------------------- *)

FoldEvent(state, e, newSession) ==
    [state EXCEPT !.events = @ + 1,
                  !.blocked = @ + (IF e.severity = "block" THEN 1 ELSE 0),
                  !.sessions = @ + (IF newSession THEN 1 ELSE 0)]

(* One candidate event: a known id with the same content is skipped, with   *)
(* another content it refuses the run; else it is indexed, folded, stored.  *)
AddEvent(e, acc) ==
    LET known == {x \in acc.index.ids : x.id = e.id}
    IN  IF acc.refused \/ \E x \in known : x # Content(e) THEN [acc EXCEPT !.refused = TRUE]
        ELSE IF known # {} THEN acc
        ELSE [acc EXCEPT !.index.ids = @ \cup {Content(e)},
                         !.index.sessions = @ \cup {e.session},
                         !.state = FoldEvent(@, e, e.session \notin acc.index.sessions),
                         !.lines = Append(@, e)]

(* A rebuild streams what is stored.  An id that is stored twice refuses.   *)
StreamEvent(e, acc) ==
    IF \E x \in acc.index.ids : x.id = e.id THEN [acc EXCEPT !.refused = TRUE] ELSE AddEvent(e, acc)

(* The v1 file, then the partition of every v2 entry in ledger order; each  *)
(* must be there and hold the lines its entry recorded.                     *)
Rebuild(s, clone) ==
    LET v2 == SelectSeq(s.entries, LAMBDA x : x.batch # "v1")
        missing == \E i \in DOMAIN v2 : clone = "sparse" \/ Len(s.parts[v2[i].batch].lines) # v2[i].stored
        streamed == Legacy \o FlattenSeq([i \in DOMAIN v2 |-> s.parts[v2[i].batch].lines])
        start == [state |-> EmptyState, index |-> NoIndex, lines |-> <<>>, refused |-> FALSE]
        end == FoldLeft(LAMBDA acc, e : StreamEvent(e, acc), start, streamed)
    IN  IF missing THEN [start EXCEPT !.refused = TRUE]
        ELSE [end EXCEPT !.state.legacy = Len(Legacy), !.lines = <<>>]

(* ------------------------------ publishing ------------------------------ *)

(* A sparse clone has the ledger, the indexes and the summaries, and none   *)
(* of events/.                                                              *)
SeesLegacy(clone) == clone = "full" /\ Legacy # <<>>

StoredEvents(s) == FoldLeft(LAMBDA n, x : n + x.stored, 0, s.entries)

StateIsConsistent(s, clone) ==
    /\ s.state.on
    /\ s.state.legacy = (IF SeesLegacy(clone) THEN Len(Legacy) ELSE 0)
    /\ s.state.events = s.state.legacy + StoredEvents(s)

(* Fold forward from derived state that agrees with the ledger; else        *)
(* rebuild, if the clone shows that there is anything to rebuild from.      *)
StartingPoint(s, clone, rebuild) ==
    LET asIs == [state |-> s.state, index |-> s.index, lines |-> <<>>, refused |-> FALSE]
    IN  IF ~rebuild /\ StateIsConsistent(s, clone) THEN asIs
        ELSE IF rebuild \/ SeesLegacy(clone) \/ \E b \in Batch : InLedger(s, b) THEN Rebuild(s, clone)
        ELSE [asIs EXCEPT !.state = EmptyState]

FilesIn(s, m) == Len(SelectSeq(s.entries, LAMBDA x : x.month = m))

(* One candidate file: unchanged and known is skipped, changed after        *)
(* ingestion or beyond a limit refuses, and a new one becomes a partition.  *)
IngestBatch(acc, b) ==
    LET s == acc.store
        folded == FoldLeft(LAMBDA x, e : AddEvent(e, x), [acc EXCEPT !.lines = <<>>], pending[b])
    IN  IF acc.refused \/ pending[b] = <<>> THEN acc
        ELSE IF InLedger(s, b)
             THEN [acc EXCEPT !.refused = EntryOf(s, b).content # pending[b]]
        ELSE IF FilesIn(s, month) >= MaxFiles THEN [acc EXCEPT !.refused = TRUE]
        ELSE [folded EXCEPT
                !.store.entries = Append(@, [batch |-> b, content |-> pending[b], month |-> month,
                                             stored |-> Len(folded.lines)]),
                !.store.parts[b] = [there |-> TRUE, lines |-> folded.lines]]

(* Mutant: the indexes are not written back.                                *)
PublishedWithoutIndex(s, clone, rebuild) ==
    LET start == StartingPoint(s, clone, rebuild)
        acc == [state |-> start.state, index |-> start.index, lines |-> <<>>,
                refused |-> start.refused, store |-> s]
        end == FoldLeft(IngestBatch, acc, BatchOrder)
    IN  [refused |-> end.refused,
         store |-> [end.store EXCEPT !.index = start.index, !.state = end.state]]

Published(s, clone, rebuild) ==
    LET start == StartingPoint(s, clone, rebuild)
        acc == [state |-> start.state, index |-> start.index, lines |-> <<>>,
                refused |-> start.refused, store |-> s]
        end == FoldLeft(IngestBatch, acc, BatchOrder)
    IN  [refused |-> end.refused,
         store |-> [end.store EXCEPT !.index = end.index, !.state = end.state]]

(* ----------------------------- the workflow ----------------------------- *)

(* A batch is merged to main, or a merged one is edited.                    *)
Offer(b) ==
    /\ job.step = "idle"
    /\ \E content \in Offered \ {pending[b]} : pending' = [pending EXCEPT ![b] = content]
    /\ UNCHANGED <<branch, job, month, damaged>>

New == {b \in Batch : pending[b] # <<>> /\ ~InLedger(branch, b)}
Rewritten == {b \in Batch : InLedger(branch, b) /\ pending[b] # <<>> /\ EntryOf(branch, b).content # pending[b]}

(* A workflow run: prescan refuses a rewritten batch; without a new batch   *)
(* only a dispatched rebuild goes on.                                       *)
Prescan ==
    /\ job.step = "idle" /\ Rewritten = {}
    /\ \E rebuild \in BOOLEAN : /\ rebuild \/ New # {}
                                /\ job' = [step |-> "publish", rebuild |-> rebuild]
    /\ UNCHANGED <<branch, pending, month, damaged>>

(* The publisher works on a clone; a refusal leaves it as it was.           *)
Publish ==
    /\ job.step = "publish"
    /\ LET done == Published(branch, IF job.rebuild THEN "full" ELSE "sparse", job.rebuild)
       IN  job' = IF done.refused \/ done.store = branch THEN [step |-> "idle"]
                  ELSE [step |-> "push", rebuild |-> job.rebuild, store |-> done.store]
    /\ UNCHANGED <<branch, pending, month, damaged>>

PushBranch ==
    /\ job.step = "push"
    /\ branch' = job.store
    /\ job' = [step |-> "idle"]
    /\ damaged' = (damaged /\ ~job.rebuild)
    /\ UNCHANGED <<pending, month>>

(* The job is killed, or the push is refused: the clone goes with it.       *)
Abort ==
    /\ job.step # "idle"
    /\ job' = [step |-> "idle"]
    /\ UNCHANGED <<branch, pending, month, damaged>>

NextMonth ==
    /\ month < MaxMonth
    /\ month' = month + 1
    /\ UNCHANGED <<branch, pending, job, damaged>>

(* The state file is lost, or an index holds a leftover: both are derived   *)
(* files somebody edited.                                                   *)
Damage ==
    /\ ~damaged /\ job.step = "idle"
    /\ \/ branch' = [branch EXCEPT !.state = NoState]
       \/ \E e \in Event : branch' = [branch EXCEPT !.index.ids = {x \in @ : x.id # e.id} \cup {Content(e)}]
    /\ damaged' = TRUE
    /\ UNCHANGED <<pending, job, month>>

AuditNext == (\E b \in Batch : Offer(b)) \/ Prescan \/ Publish \/ PushBranch \/ Abort \/ NextMonth \/ Damage

(* ------------------------------ properties ------------------------------ *)

(* The branch has its shape.                                                *)
AuditTypeOK ==
    /\ \A b \in Batch : ToSet(branch.parts[b].lines) \subseteq Event
    /\ branch.state.events \in Nat /\ branch.state.sessions \in 0..branch.state.events
    /\ Len(branch.entries) <= Cardinality(Batch) + 1
    /\ job.step \in {"idle", "publish", "push"}

(* Folding batch by batch, across runs, months, duplicates and refused      *)
(* runs, arrives where streaming everything that is stored arrives: the     *)
(* published summary and the indexes are those of a rebuild.                *)
SummaryIsRebuild ==
    branch.state.on /\ ~damaged =>
        LET whole == Rebuild(branch, "full")
        IN  /\ ~whole.refused
            /\ branch.state = whole.state
            /\ branch.index = whole.index

(* Whatever was ingested can be rebuilt from: no event is stored twice and  *)
(* every ledger entry finds its partition (a rebuild is the only repair the *)
(* publisher has).                                                          *)
RebuildNeverRefuses == ~Rebuild(branch, "full").refused

(* Evidence is only ever added: a ledger entry and its partition never      *)
(* change once pushed.                                                      *)
EvidenceStays ==
    /\ IsPrefix(branch.entries, branch'.entries)
    /\ \A b \in Batch : branch.parts[b].there => branch'.parts[b] = branch.parts[b]

(* A file of a month past its limit is never added.                         *)
WithinLimits == \A m \in 1..MaxMonth : FilesIn(branch, m) <= MaxFiles
=============================================================================
