---------------------------- MODULE HookService ----------------------------
(***************************************************************************)
(* The resident hook service (src/cli/hook-service.ts) and its thin client *)
(* (src/cli/hook-client.ts).  A hook process hands its request over a unix *)
(* socket and relays the verdict, or evaluates it itself: never both, and  *)
(* nothing of it may turn into an allow nobody gave.  The service is one   *)
(* event loop: it reads every request that waits, then evaluates the one   *)
(* it accepted, synchronously.  Services are started and stopped by the    *)
(* operator; what the path of the socket names is whoever bound it last.   *)
(*                                                                         *)
(* Left out: the identity of the socket's owner and mode beyond Trusted,   *)
(* sizes of requests and answers, and the pid and version the state file   *)
(* holds next to the service it names.                                     *)
(***************************************************************************)
EXTENDS Naturals, FiniteSets

CONSTANTS Client, Service, None,
          Outside,     \* clients whose cwd is outside the bound repository
          Other,       \* services of another version or protocol
          Trusted,     \* what socketRefusal may answer: subset of BOOLEAN
          MaxStarts,   \* bound: services started
          ServiceFault \* "throw", "crash", "unreadable"

VARIABLES client, to, gaveUp,     \* the hook processes: where they are, whom they reached
          wire,                   \* what a connection holds for its client
          unread,                 \* requests the service has not read
          service, phase,         \* the services: lifecycle, phase of the event loop
          inFlight, seenEnd,      \* the accepted request; connections whose end was read
          left,                   \* history: who had left when the poll phase ended
          bound, stateFile,       \* whom the socket's path and the state file name
          stopper, target,        \* the operator's stop
          starts,                 \* bounded counter
          answer,                 \* what each hook process says
          evaluated, ruled, late \* history: who evaluated, with what; evaluated for nobody

clients  == <<client, to, gaveUp, wire, answer>>
loops    == <<unread, phase, inFlight, seenEnd, left>>
operator == <<service, bound, stateFile, stopper, target, starts>>
judged   == <<evaluated, ruled, late>>
serviceVars == <<clients, loops, operator, judged>>

ASSUME ServiceAssumption ==
    /\ None \notin Client \union Service
    /\ Outside \subseteq Client /\ Other \subseteq Service
    /\ Trusted \subseteq BOOLEAN /\ MaxStarts \in Nat

Up == {s \in Service : service[s] \in {"up", "closing"}}

ServiceInit ==
    /\ client = [c \in Client |-> "idle"] /\ to = [c \in Client |-> None]
    /\ gaveUp = {} /\ wire = [c \in Client |-> "empty"]
    /\ unread = [s \in Service |-> {}]
    /\ service = [s \in Service |-> "off"] /\ phase = [s \in Service |-> "poll"]
    /\ inFlight = [s \in Service |-> None] /\ seenEnd = {} /\ left = {}
    /\ bound = None /\ stateFile = None
    /\ stopper = "idle" /\ target = None /\ starts = 0
    /\ answer = [c \in Client |-> "none"]
    /\ evaluated = [c \in Client |-> {}] /\ ruled = [c \in Client |-> "none"] /\ late = {}

ServiceTypeOK ==
    /\ client \in [Client -> {"idle", "connecting", "waiting", "local", "done"}]
    /\ to \in [Client -> Service \union {None}] /\ gaveUp \subseteq Client
    /\ wire \in [Client -> {"empty", "refused", "allow", "deny", "end"}]
    /\ unread \in [Service -> SUBSET Client]
    /\ service \in [Service -> {"off", "probed", "cleared", "up", "closing"}]
    /\ phase \in [Service -> {"poll", "check", "evaluating"}]
    /\ inFlight \in [Service -> Client \union {None}] /\ seenEnd \subseteq Client /\ left \subseteq Client
    /\ {bound, stateFile, target} \subseteq Service \union {None}
    /\ stopper \in {"idle", "probed", "signalled", "gone"}
    /\ starts \in 0 .. MaxStarts
    /\ answer \in [Client -> {"none", "allow", "deny"}]
    /\ evaluated \in [Client -> SUBSET {"service", "process"}]
    /\ ruled \in [Client -> {"none", "allow", "deny"}] /\ late \subseteq Client

-----------------------------------------------------------------------------
(* The client.                                                             *)

\* requestVerdict: without the opt-in, or with a socket it may not use, the hook
\* process evaluates.
Consult(c) ==
    /\ client[c] = "idle"
    /\ \E usable \in Trusted :
         client' = [client EXCEPT ![c] = IF usable /\ bound # None THEN "connecting" ELSE "local"]
    /\ UNCHANGED <<to, gaveUp, wire, answer, loops, operator, judged>>

\* exchange: connected, the request is handed over.
Connect(c) ==
    /\ client[c] = "connecting"
    /\ bound # None /\ service[bound] = "up"
    /\ client' = [client EXCEPT ![c] = "waiting"]
    /\ to' = [to EXCEPT ![c] = bound]
    /\ unread' = [unread EXCEPT ![bound] = @ \union {c}]
    /\ UNCHANGED <<gaveUp, wire, answer, phase, inFlight, seenEnd, left, operator, judged>>

\* Nobody listens, or the timer fires before the connection: nothing was handed over.
CannotConnect(c) ==
    /\ client[c] = "connecting"
    /\ client' = [client EXCEPT ![c] = "local"]
    /\ UNCHANGED <<to, gaveUp, wire, answer, loops, operator, judged>>

\* Mutant: there is no timer after the handover.
TimeoutNever(c) == FALSE /\ client[c] = "waiting" /\ UNCHANGED serviceVars

\* The timer fires after the handover: it cannot prove the service did not begin.
Timeout(c) ==
    /\ client[c] = "waiting"
    /\ client' = [client EXCEPT ![c] = "done"]
    /\ answer' = [answer EXCEPT ![c] = "deny"]
    /\ gaveUp' = gaveUp \union {c}
    /\ UNCHANGED <<to, wire, loops, operator, judged>>

\* A refusal proves that no evaluation began; an end proves nothing.
Receive(c) ==
    /\ client[c] = "waiting" /\ wire[c] # "empty"
    /\ client' = [client EXCEPT ![c] = IF wire[c] = "refused" THEN "local" ELSE "done"]
    /\ answer' = [answer EXCEPT ![c] = CASE wire[c] = "refused" -> "none"
                                        [] wire[c] = "end" -> "deny"
                                        [] OTHER -> wire[c]]
    /\ gaveUp' = gaveUp \union {c}
    /\ UNCHANGED <<to, wire, loops, operator, judged>>

\* The ordinary hook.
EvaluateHere(c) ==
    /\ client[c] = "local"
    /\ client' = [client EXCEPT ![c] = "done"]
    /\ \E v \in {"allow", "deny"} :
         /\ answer' = [answer EXCEPT ![c] = v] /\ ruled' = [ruled EXCEPT ![c] = v]
    /\ evaluated' = [evaluated EXCEPT ![c] = @ \union {"process"}]
    /\ UNCHANGED <<to, gaveUp, wire, loops, operator, late>>

-----------------------------------------------------------------------------
(* The service.                                                            *)

Send(c, what) == wire' = IF c \in gaveUp THEN wire ELSE [wire EXCEPT ![c] = what]

\* handle, in the poll phase: refused before acceptance, or accepted.  The end of
\* a connection its client has left is read with the request.
ReadRequest(s, c) ==
    /\ phase[s] = "poll" /\ s \in Up /\ c \in unread[s]
    /\ unread' = [unread EXCEPT ![s] = @ \ {c}]
    /\ seenEnd' = seenEnd \union ({c} \intersect gaveUp)
    /\ IF s \in Other \/ c \in Outside \/ inFlight[s] # None
       THEN Send(c, "refused") /\ UNCHANGED inFlight
       ELSE inFlight' = [inFlight EXCEPT ![s] = c] /\ UNCHANGED wire
    /\ UNCHANGED <<client, to, gaveUp, answer, phase, left, operator, judged>>

\* A request that never ends is refused before the client's own timer would mind.
Deadline(s, c) ==
    /\ phase[s] = "poll" /\ s \in Up /\ c \in unread[s]
    /\ unread' = [unread EXCEPT ![s] = @ \ {c}]
    /\ Send(c, "refused")
    /\ UNCHANGED <<client, to, gaveUp, answer, phase, inFlight, seenEnd, left, operator, judged>>

\* The end of a connection after its request.
ReadEnd(s, c) ==
    /\ phase[s] = "poll" /\ s \in Up /\ to[c] = s
    /\ c \in gaveUp \ (seenEnd \union unread[s])
    /\ seenEnd' = seenEnd \union {c}
    /\ UNCHANGED <<clients, unread, phase, inFlight, left, operator, judged>>

\* setImmediate: the check phase comes after every read of the poll phase.
PollDone(s) ==
    /\ phase[s] = "poll" /\ s \in Up /\ inFlight[s] # None /\ unread[s] = {}
    /\ \A c \in gaveUp \ seenEnd : to[c] # s
    /\ phase' = [phase EXCEPT ![s] = "check"]
    /\ left' = left \union {c \in gaveUp : to[c] = s}
    /\ UNCHANGED <<clients, unread, inFlight, seenEnd, operator, judged>>

\* A request whose connection has ended, or was destroyed, is not evaluated.
Begin(s) ==
    /\ phase[s] = "check" /\ s \in Up
    /\ IF inFlight[s] \in seenEnd
       THEN /\ phase' = [phase EXCEPT ![s] = "poll"]
            /\ inFlight' = [inFlight EXCEPT ![s] = None]
            /\ UNCHANGED <<evaluated, late>>
       ELSE /\ phase' = [phase EXCEPT ![s] = "evaluating"]
            /\ evaluated' = [evaluated EXCEPT ![inFlight[s]] = @ \union {"service"}]
            /\ late' = late \union ({inFlight[s]} \intersect left)
            /\ UNCHANGED inFlight
    /\ UNCHANGED <<clients, unread, seenEnd, left, operator, ruled>>

\* Mutant: an evaluation that throws is refused, as one that never began.
EndRefusing(s) ==
    /\ phase[s] = "evaluating" /\ s \in Up
    /\ phase' = [phase EXCEPT ![s] = "poll"]
    /\ inFlight' = [inFlight EXCEPT ![s] = None]
    /\ Send(inFlight[s], "refused")
    /\ UNCHANGED <<client, to, gaveUp, answer, unread, seenEnd, left, operator, judged>>

\* The verdict, or the denial an evaluation that throws becomes.
End(s) ==
    /\ phase[s] = "evaluating" /\ s \in Up
    /\ phase' = [phase EXCEPT ![s] = "poll"]
    /\ inFlight' = [inFlight EXCEPT ![s] = None]
    /\ \/ \E v \in {"allow", "deny"} :
            Send(inFlight[s], v) /\ ruled' = [ruled EXCEPT ![inFlight[s]] = v]
       \/ "throw" \in ServiceFault /\ Send(inFlight[s], "deny") /\ UNCHANGED ruled
    /\ UNCHANGED <<client, to, gaveUp, answer, unread, seenEnd, left, operator, evaluated, late>>

-----------------------------------------------------------------------------
(* Its lifecycle.                                                          *)

Listening(s) == s # None /\ service[s] = "up"

\* startHookService asks the socket, not the state file.
ProbeStart(s) ==
    /\ service[s] = "off" /\ starts < MaxStarts /\ ~Listening(bound)
    /\ service' = [service EXCEPT ![s] = "probed"]
    /\ starts' = starts + 1
    /\ UNCHANGED <<clients, loops, bound, stateFile, stopper, target, judged>>

ClearLeftovers(s) ==
    /\ service[s] = "probed"
    /\ service' = [service EXCEPT ![s] = "cleared"]
    /\ bound' = None /\ stateFile' = None
    /\ UNCHANGED <<clients, loops, stopper, target, starts, judged>>

\* A path somebody else bound since is an error, and the end.
Listen(s) ==
    /\ service[s] = "cleared"
    /\ IF bound = None
       THEN /\ service' = [service EXCEPT ![s] = "up"]
            /\ bound' = s /\ stateFile' = s
       ELSE service' = [service EXCEPT ![s] = "off"] /\ UNCHANGED <<bound, stateFile>>
    /\ UNCHANGED <<clients, loops, stopper, target, starts, judged>>

Connections(s) == {c \in Client : to[c] = s /\ c \notin gaveUp}
Drop(C) == wire' = [c \in Client |-> IF c \in C /\ wire[c] = "empty" THEN "end" ELSE wire[c]]

\* close: every connection but the accepted one ends at once.
Close(s) ==
    /\ service[s] = "up" /\ phase[s] # "evaluating"
    /\ service' = [service EXCEPT ![s] = "closing"]
    /\ Drop(Connections(s) \ {inFlight[s]})
    /\ unread' = [unread EXCEPT ![s] = {}]
    /\ UNCHANGED <<client, to, gaveUp, answer, phase, inFlight, seenEnd, left, bound, stateFile,
                   stopper, target, starts, judged>>

\* The drain window is over before the evaluation began.
Drain(s) ==
    /\ service[s] = "closing" /\ phase[s] # "evaluating" /\ inFlight[s] # None
    /\ Drop({inFlight[s]})
    /\ seenEnd' = seenEnd \union {inFlight[s]}
    /\ UNCHANGED <<client, to, gaveUp, answer, unread, phase, inFlight, left, operator, judged>>

\* finalize: the path is removed, whoever bound it.
Closed(s) ==
    /\ service[s] = "closing" /\ inFlight[s] = None
    /\ service' = [service EXCEPT ![s] = "off"]
    /\ bound' = None /\ stateFile' = None
    /\ UNCHANGED <<clients, loops, stopper, target, starts, judged>>

\* The kernel closes what a dead process held.
Crash(s) ==
    /\ "crash" \in ServiceFault /\ s \in Up
    /\ service' = [service EXCEPT ![s] = "off"]
    /\ Drop(Connections(s))
    /\ unread' = [unread EXCEPT ![s] = {}]
    /\ inFlight' = [inFlight EXCEPT ![s] = None]
    /\ phase' = [phase EXCEPT ![s] = "poll"]
    /\ UNCHANGED <<client, to, gaveUp, answer, seenEnd, left, bound, stateFile, stopper, target,
                   starts, judged>>

\* stopHookService: the listener that answers is the authority, and is signalled
\* only when the state file agrees with it.
ProbeStop ==
    /\ stopper = "idle"
    /\ \/ /\ Listening(bound) /\ stateFile = bound /\ bound \notin Other
          /\ stopper' = "signalled" /\ target' = bound
       \/ ~Listening(bound) /\ stopper' = "probed" /\ UNCHANGED target
    /\ UNCHANGED <<clients, loops, service, bound, stateFile, starts, judged>>

\* SIGTERM; gone is a dead process or no socket.
WaitGone ==
    /\ stopper = "signalled"
    /\ service[target] = "off" \/ bound = None
    /\ stopper' = "gone"
    /\ UNCHANGED <<clients, loops, service, bound, stateFile, target, starts, judged>>

RemoveLeftovers ==
    /\ stopper \in {"probed", "gone"}
    /\ stopper' = "idle" /\ target' = None
    /\ bound' = None /\ stateFile' = None
    /\ UNCHANGED <<clients, loops, service, starts, judged>>

-----------------------------------------------------------------------------
ClientStep(c) ==
    Consult(c) \/ Connect(c) \/ CannotConnect(c) \/ Timeout(c) \/ Receive(c) \/ EvaluateHere(c)

LoopStep(s) ==
    \/ \E c \in Client : ReadRequest(s, c) \/ Deadline(s, c) \/ ReadEnd(s, c)
    \/ PollDone(s) \/ Begin(s) \/ End(s) \/ Drain(s) \/ Closed(s)

OperatorStep ==
    \/ \E s \in Service : ProbeStart(s) \/ ClearLeftovers(s) \/ Listen(s)
    \/ \E s \in Service : (stopper = "signalled" => target = s) /\ Close(s)
    \/ \E s \in Service : Crash(s)
    \/ ProbeStop \/ WaitGone \/ RemoveLeftovers

ServiceNext ==
    \/ \E c \in Client : ClientStep(c)
    \/ \E s \in Service : LoopStep(s)
    \/ OperatorStep

\* A hook process runs; its timer is what it has when the service does not.
ServiceFairness ==
    \A c \in Client : WF_serviceVars(Connect(c) \/ CannotConnect(c) \/ Timeout(c)
                                     \/ Receive(c) \/ EvaluateHere(c))

ServiceSpec == ServiceInit /\ [][ServiceNext]_serviceVars /\ ServiceFairness

-----------------------------------------------------------------------------
(* Properties.                                                             *)

\* A request has one evaluator: the service it was handed to, or the hook process
\* itself; with any refusal, timeout, crash or shutdown, never both (exchange,
\* startHookService, #416).
OneEvaluation == \A c \in Client : evaluated[c] # {"service", "process"}

\* An allow is the verdict of that evaluation: no failure of the service, of the
\* connection or of the timer becomes one (requestVerdict).
AllowIsVerdict == \A c \in Client : answer[c] = "allow" => ruled[c] = "allow"

\* Nothing is evaluated, and no session state moves, for a hook process known to
\* have left: its tool call was denied already (the skip before the evaluation).
NobodyServedLate == late = {}

\* A hook process that began answers, whatever the service does.
HookAnswers == \A c \in Client : client[c] # "idle" ~> client[c] = "done"

\* The claim of stopHookService that a live listener is never orphaned behind an
\* unlinked socket.
NeverOrphaned == \A s \in Service : service[s] = "up" => bound = s
=============================================================================
