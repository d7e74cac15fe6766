------------------------ MODULE RuntimeQualification ------------------------
(* `runtime verify` and `runtime status` (cli/runtime.ts,                    *)
(* runtime-qualification.ts, adapters/evidence.ts): what a runtime is said   *)
(* to enforce in the loop, from what its adapter declares and from retained  *)
(* probe records, kept in a store beside the ledger that nobody locks and    *)
(* anybody may edit, over inputs that change.                                *)
EXTENDS Integers, Sequences, FiniteSets, SequencesExt

CONSTANTS Shipped,        \* runtimes with an adapter, in registry order
          Detectable,     \* runtimes with markers, in priority order
          Present,        \* which of them may be detected
          Declaration,    \* what an adapter may declare, what it does first: [pre, post, stop, notes]
          Release,        \* versions of a runtime, of Tamperward's build, of a hook configuration
          Asking,         \* the models and modes asked for
          Catalogue,      \* catalogues of retained records, each a sequence; the first stands at first
          NoHash, NoRecord,
          Commands,       \* commands run, in the order they are started
          MaxShifts, MaxForged

VARIABLES inputs,   \* what a binding is read from
          store,    \* the qualification store
          proc,     \* the running commands
          document, \* the one told last
          shifts, forged
qualificationVars == <<inputs, store, proc, document, shifts, forged>>

Process == 1..Commands
PreDeny == {"pre-deny:shell", "pre-deny:native-edit", "pre-deny:mcp"}
RequiredInLoop == PreDeny \cup {"end-of-turn", "transport", "hook-not-invoked"}
Capability == RequiredInLoop \cup {"post-observe", "denial-reason-delivery", "continue-after-denial", "detached"}
Note == {"failsOpen", "transportUnproven", "noPost"}
State == {"PROVEN", "PARTIAL", "UNPROVEN", "UNSUPPORTED", "FAIL-OPEN", "INCONCLUSIVE"}
ASSUME QualificationAssumption ==
    /\ 1 \in DOMAIN Catalogue /\ \A c \in ToSet(Catalogue) : c \in Seq(ToSet(c))
    /\ IsInjective(Shipped) /\ Present \subseteq SUBSET ToSet(Detectable)
    /\ \A d \in ToSet(Declaration) : d.pre \subseteq {"shell", "file-edit", "mcp"} /\ d.notes \subseteq Note
    /\ \A c \in ToSet(Catalogue) : \A i \in DOMAIN c : DOMAIN c[i].observed \subseteq c[i].tested

(* ---- what a runtime is said to enforce ---- *)

(* The declared kind behind each pre-deny capability.                        *)
KindOfDeny == [c \in PreDeny |-> CASE c = "pre-deny:shell" -> "shell" [] c = "pre-deny:native-edit" -> "file-edit" [] c = "pre-deny:mcp" -> "mcp"]

(* What a declaration alone earns: never PROVEN.                             *)
Declared(d) ==
    [c \in Capability |->
        CASE c \in PreDeny -> IF KindOfDeny[c] \in d.pre THEN "PARTIAL" ELSE "UNPROVEN"
          [] c = "post-observe" -> IF d.post THEN "PARTIAL" ELSE IF "noPost" \in d.notes THEN "UNSUPPORTED" ELSE "UNPROVEN"
          [] c = "end-of-turn" -> IF d.stop THEN "PARTIAL" ELSE "UNSUPPORTED"
          [] c = "transport" -> IF "failsOpen" \in d.notes THEN "FAIL-OPEN"
                                ELSE IF "transportUnproven" \in d.notes THEN "UNPROVEN" ELSE "PARTIAL"
          [] c = "hook-not-invoked" -> "PARTIAL"
          [] c = "denial-reason-delivery" -> IF d.stop \/ d.pre # {} THEN "PARTIAL" ELSE "UNPROVEN"
          [] c = "continue-after-denial" -> "UNPROVEN"
          [] c = "detached" -> IF d.stop THEN "PARTIAL" ELSE "UNPROVEN"]

(* A retained observation overrides the declaration, where one is asked for. *)
Observable == RequiredInLoop \cup {"post-observe"}
AssessFromEvidence(result) == IF result = "proven" THEN "PROVEN" ELSE IF result = "fail-open" THEN "FAIL-OPEN" ELSE "INCONCLUSIVE"
AssessCapabilities(d, retained) ==
    [c \in Capability |-> IF retained # NoRecord /\ c \in Observable \cap DOMAIN retained.observed
                          THEN AssessFromEvidence(retained.observed[c]) ELSE Declared(d)[c]]

(* A retained record applies under exactly the binding it was probed under;  *)
(* component versions are never resolved, and a hash that could not be       *)
(* recovered equals none.                                                    *)
EvidenceBindingMatches(r, b) ==
    /\ r.runtime = b.runtime /\ r.version = b.version /\ r.asked = b.asked /\ r.config = b.config
    /\ r.components = {} /\ r.build = b.build
    /\ r.adapter # NoHash /\ r.adapter = b.adapter /\ r.tested = b.tested
MatchRetainedEvidence(catalogue, b) ==
    LET i == SelectInSeq(catalogue, LAMBDA r : EvidenceBindingMatches(r, b)) IN IF i = 0 THEN NoRecord ELSE catalogue[i]

AggregateInLoop(states) ==
    LET present(c) == c \in DOMAIN states /\ states[c] \in {"PROVEN", "PARTIAL"}
        required == RequiredInLoop \cap DOMAIN states
    IN  IF ~present("end-of-turn") /\ \A c \in PreDeny : ~present(c) THEN "NONE"
        ELSE IF required = RequiredInLoop /\ \A c \in required : states[c] = "PROVEN" THEN "FULL"
        ELSE "PARTIAL"

(* The id of a qualification: its binding and the states assessed, and not   *)
(* what they were assessed from.                                             *)
EvidenceId(b, states) == <<b, states>>

BuildQualification(r, asked) ==
    LET b == [runtime |-> r, version |-> inputs.version, build |-> inputs.build, adapter |-> inputs.adapter[r],
              config |-> inputs.config[r], asked |-> asked, tested |-> Capability]
    IN  [bearing |-> b, states |-> AssessCapabilities(inputs.adapter[r], MatchRetainedEvidence(inputs.catalogue, b))]
ReportFrom(q) ==
    [bearing |-> q.bearing, states |-> q.states, id |-> EvidenceId(q.bearing, q.states),
     aggregate |-> AggregateInLoop(q.states), recorded |-> TRUE, shaped |-> TRUE]
Unrecorded(reason) == [recorded |-> FALSE, why |-> reason]

(* A stored record is of the published shape and reproduces its own id and   *)
(* aggregate; one that says it is unrecorded carries nothing.                *)
ValidStored(r) ==
    /\ r.shaped /\ DOMAIN r.states = r.bearing.tested
    /\ ~r.recorded => r.states = <<>> /\ r.aggregate = "NONE"
    /\ r.id = EvidenceId(r.bearing, r.states) /\ r.aggregate = AggregateInLoop(r.states)

(* ---- the commands ---- *)

NoRecords == [r \in {} |-> NoRecord]
StoreOf(records) == [kind |-> "records", of |-> records]
Put(records, r, report) == [other \in DOMAIN records \cup {r} |-> IF other = r THEN report ELSE records[other]]
Idle == [at |-> "idle", target |-> NoRecord, asked |-> NoRecord, report |-> NoRecord, records |-> NoRecords]
Ended == [Idle EXCEPT !.at = "ended"]
(* Every runtime was qualified once, under the inputs as they are.           *)
QualificationInit ==
    /\ inputs \in [version : {Release[1]}, build : {Release[1]}, present : Present, catalogue : {Catalogue[1]},
                   adapter : {[r \in ToSet(Shipped) |-> Declaration[1]]}, config : {[r \in ToSet(Shipped) |-> Release[1]]}]
    /\ store = StoreOf([r \in ToSet(Shipped) |-> ReportFrom(BuildQualification(r, Asking[1]))])
    /\ proc = [p \in Process |-> Idle] /\ document = Unrecorded("nothing yet") /\ shifts = 0 /\ forged = 0

(* The runtime named, or the first detected that ships an adapter.           *)
ResolveTarget ==
    LET detected == SelectSeq(Detectable, LAMBDA r : r \in inputs.present /\ r \in ToSet(Shipped))
    IN  IF detected = <<>> THEN NoRecord ELSE detected[1]
Targets == ToSet(Shipped) \cup {ResolveTarget}
Told(p, doc) == document' = doc /\ proc' = [proc EXCEPT ![p] = Ended]
Telling(report, stale) ==
    [bearing |-> report.bearing, states |-> report.states, id |-> report.id, aggregate |-> report.aggregate,
     recorded |-> report.recorded, stale |-> stale]

(* With no runtime to speak of the command refuses, and nothing is touched.  *)
Start(p) ==
    /\ proc[p].at = "idle" /\ \A q \in 1..(p - 1) : proc[q].at # "idle"
    /\ \E command \in {"verify", "status"}, r \in Targets, asked \in ToSet(Asking) :
          /\ command = "verify" => asked = Asking[1]   \* bound
          /\ proc' = [proc EXCEPT ![p] = IF r = NoRecord THEN Ended
                                         ELSE [Idle EXCEPT !.at = command, !.target = r, !.asked = asked]]
    /\ UNCHANGED <<document, inputs, store, shifts, forged>>

(* verify: the qualification is made, the whole store read; a store that is  *)
(* no regular file refuses the run, one that cannot be parsed counts as none.*)
Qualify(p) ==
    /\ proc[p].at = "verify"
    /\ proc' = [proc EXCEPT ![p] = [@ EXCEPT !.at = "qualified",
                                                  !.report = ReportFrom(BuildQualification(proc[p].target, proc[p].asked))]]
    /\ UNCHANGED <<document, inputs, store, shifts, forged>>
ReadStore(p) ==
    /\ proc[p].at = "qualified"
    /\ IF store.kind = "irregular" THEN Told(p, Unrecorded("refused"))
       ELSE proc' = [proc EXCEPT ![p] = [@ EXCEPT !.at = "read", !.records = store.of]] /\ UNCHANGED document
    /\ UNCHANGED <<inputs, store, shifts, forged>>

(* The store is replaced whole by what was read of it and the new record;    *)
(* only then is the document told, and one that was not kept says nothing.   *)
WriteRecord(p) ==
    /\ proc[p].at = "read"
    /\ \/ /\ store' = StoreOf(Put(proc[p].records, proc[p].target, proc[p].report))
          /\ proc' = [proc EXCEPT ![p].at = "kept"] /\ UNCHANGED document
       \/ Told(p, Unrecorded("unwritable")) /\ UNCHANGED store
    /\ UNCHANGED <<inputs, shifts, forged>>
TellVerified(p) ==
    /\ proc[p].at = "kept" /\ Told(p, Telling(proc[p].report, FALSE))
    /\ UNCHANGED <<inputs, store, shifts, forged>>
Killed(p) ==
    /\ proc[p].at \in {"qualified", "read", "kept"} /\ proc' = [proc EXCEPT ![p] = Ended]
    /\ UNCHANGED <<document, inputs, store, shifts, forged>>

(* status: the record of that runtime is read, then held against what the    *)
(* inputs give now.  Other inputs make it stale; the same inputs and another *)
(* posture reject it.                                                        *)
ReadRecord(p) ==
    /\ proc[p].at = "status"
    /\ IF store.kind = "irregular" THEN Told(p, Unrecorded("irregular"))
       ELSE IF proc[p].target \notin DOMAIN store.of THEN Told(p, Unrecorded("none"))
       ELSE IF ~ValidStored(store.of[proc[p].target]) THEN Told(p, Unrecorded("invalid"))
       ELSE proc' = [proc EXCEPT ![p] = [@ EXCEPT !.at = "stored", !.report = store.of[proc[p].target]]] /\ UNCHANGED document
    /\ UNCHANGED <<inputs, store, shifts, forged>>
(* Mutant: an untouched binding is enough.                                   *)
TellStoredTrusting(p) ==
    /\ proc[p].at = "stored"
    /\ Told(p, Telling(proc[p].report, proc[p].report.bearing # BuildQualification(proc[p].target, proc[p].asked).bearing))
    /\ UNCHANGED <<inputs, store, shifts, forged>>

TellStored(p) ==
    /\ proc[p].at = "stored"
    /\ LET now == BuildQualification(proc[p].target, proc[p].asked)
           kept == proc[p].report
           stale == kept.bearing # now.bearing
       IN  IF ~stale /\ (kept.id # EvidenceId(now.bearing, now.states) \/ kept.states # now.states)
           THEN Told(p, Unrecorded("posture")) ELSE Told(p, Telling(kept, stale))
    /\ UNCHANGED <<inputs, store, shifts, forged>>

(* ---- what changes under them ---- *)

(* A runtime or Tamperward is upgraded, a hook configuration or a            *)
(* declaration edited, the catalogue replaced in a build of the same name.   *)
Shift ==
    /\ shifts < MaxShifts /\ shifts' = shifts + 1
    /\ \/ \E v \in ToSet(Release) : inputs' = [inputs EXCEPT !.version = v]
       \/ \E v \in ToSet(Release) : inputs' = [inputs EXCEPT !.build = v]
       \/ \E r \in ToSet(Shipped), v \in ToSet(Release) : inputs' = [inputs EXCEPT !.config[r] = v]
       \/ \E r \in ToSet(Shipped), d \in ToSet(Declaration) : inputs' = [inputs EXCEPT !.adapter[r] = d]
       \/ \E c \in ToSet(Catalogue) : inputs' = [inputs EXCEPT !.catalogue = c]
    /\ inputs' # inputs /\ UNCHANGED <<store, proc, document, forged>>

(* A hand in the store: another kind of file, a text that does not parse, a  *)
(* record raised to PROVEN with or without the id and the aggregate made to  *)
(* fit, a record moved to another runtime, one told unrecorded.              *)
AllProven(r) == [r EXCEPT !.states = [c \in DOMAIN @ |-> "PROVEN"]]
Fitting(r) == [r EXCEPT !.id = EvidenceId(r.bearing, r.states), !.aggregate = AggregateInLoop(r.states)]
Forge ==
    /\ forged < MaxForged /\ forged' = forged + 1
    /\ \/ store' \in [kind : {"absent", "irregular", "unparsable"}, of : {NoRecords}]
       \/ \E r \in DOMAIN store.of :
             \/ \E forgery \in {[store.of[r] EXCEPT !.shaped = FALSE], AllProven(store.of[r]), Fitting(AllProven(store.of[r])),
                                [store.of[r] EXCEPT !.aggregate = "FULL"], [store.of[r] EXCEPT !.recorded = FALSE]} :
                   store' = StoreOf([store.of EXCEPT ![r] = forgery])
             \/ \E other \in ToSet(Shipped) \ {r} : store' = StoreOf(Put(store.of, other, store.of[r]))
    /\ store' # store /\ UNCHANGED <<inputs, proc, document, shifts>>

QualificationNext ==
    \/ \E p \in Process : \/ Start(p) \/ Qualify(p) \/ ReadStore(p) \/ WriteRecord(p) \/ TellVerified(p)
                          \/ Killed(p) \/ ReadRecord(p) \/ TellStored(p)
    \/ Shift \/ Forge
QualificationSpec == QualificationInit /\ [][QualificationNext]_qualificationVars

(* ---- properties ---- *)

(* A document that status tells recorded and not stale says exactly what the *)
(* inputs give at that moment for the runtime and the mode asked: whatever   *)
(* was put into the store, and whoever wrote it last.  What it calls FULL,   *)
(* one retained record of that very binding proved in every required part.   *)
ToldIsCurrent ==
    \A p \in Process :
        proc[p].at = "stored" /\ proc'[p].at = "ended" /\ document'.recorded /\ ~document'.stale =>
            /\ [bearing |-> document'.bearing, states |-> document'.states] = BuildQualification(proc[p].target, proc[p].asked)
            /\ document'.aggregate = "FULL" =>
                  \E i \in DOMAIN inputs.catalogue :
                      /\ EvidenceBindingMatches(inputs.catalogue[i], document'.bearing)
                      /\ \A c \in RequiredInLoop : inputs.catalogue[i].observed[c] = "proven"

(* PROVEN is of a record: no document told of the present, by verify or by   *)
(* status, is PROVEN in more than what a retained record observed of that    *)
(* runtime under that binding.  What a stale one says is of the binding it   *)
(* names.                                                                    *)
ProvenIsRetained ==
    document.recorded /\ ~document.stale =>
        \A c \in Capability : document.states[c] = "PROVEN" =>
            \E k \in ToSet(Catalogue) : \E i \in DOMAIN k :
                /\ EvidenceBindingMatches(k[i], document.bearing) /\ c \in DOMAIN k[i].observed /\ k[i].observed[c] = "proven"
=============================================================================
