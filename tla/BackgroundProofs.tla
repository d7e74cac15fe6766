-------------------------- MODULE BackgroundProofs --------------------------
(***************************************************************************)
(* What runs beside the hooks, for every value of its bounds: the snapshot *)
(* cache, the hook service with its clients, the observer and the strict   *)
(* run that reads its log; and the qualification of a runtime, hosted or   *)
(* probed.                                                                 *)
(***************************************************************************)
EXTENDS MCBackground, FiniteSetTheorems, WellFoundedInduction, TLAPS

-----------------------------------------------------------------------------
(* The snapshot cache.                                                     *)

\* An entry, or what the walk is about to remember, is of the content under its
\* key as soon as the hash was taken Margin after that key.
Aged(taking, key) == taking - key >= Margin
CacheClock ==
    /\ ctime <= now
    /\ cached.on => cached.at <= now /\ cached.key <= ctime
    /\ walk \in {"hash", "again"} => taken <= now /\ stat <= ctime
CacheInv ==
    /\ CacheTypeOK /\ CacheClock
    /\ cached.on /\ cached.key = ctime /\ Aged(cached.at, cached.key) => cached.entry = file
    /\ walk = "again" /\ stat = ctime /\ Aged(taken, stat) => read = file
    /\ HitIsCurrent

\* An empty cache.
LEMMA CacheStarts == CacheInit => CacheInv
BY CacheAssumption DEF CacheInit, CacheInv, CacheTypeOK, CacheClock, HitIsCurrent, Nothing, Cached, Served, Aged

\* Every step of a reader and of the disk.
LEMMA CacheKeeps == CacheInv /\ [CacheNext]_cacheVars => CacheInv'
<1> SUFFICES ASSUME CacheInv, [CacheNext]_cacheVars PROVE CacheInv'
  OBVIOUS
<1> USE CacheAssumption DEF CacheInv, CacheTypeOK, CacheClock, HitIsCurrent, Nothing, Cached, Served, Aged
<1>1. CASE Pass BY <1>1 DEF Pass
<1>2. CASE Write
  <2>1. PICK t \in 0 .. now : ctime <= t /\ now < t + Tick /\ ctime' = t
    BY <1>2 DEF Write
  <2>2. t \in Nat /\ CacheTypeOK' BY <1>2, <2>1 DEF Write
  <2>3. CacheClock' BY <1>2, <2>1, <2>2 DEF Write
  <2>4. ~(cached.on /\ cached.key = t /\ Aged(cached.at, cached.key)) BY <2>1, <2>2
  <2>5. ~(walk = "again" /\ stat = t /\ Aged(taken, stat)) BY <2>1, <2>2
  <2>6. QED BY <1>2, <2>1, <2>2, <2>3, <2>4, <2>5 DEF Write
<1>3. CASE BeginSnapshot
  <2>1. CASE now - lastFull >= Revalidate
    <3>1. cached' = Nothing /\ lastFull' = now BY <1>3, <2>1 DEF BeginSnapshot
    <3>2. cached' \in Cached /\ ~cached'.on BY <3>1
    <3>3. QED BY <1>3, <3>1, <3>2 DEF BeginSnapshot
  <2>2. CASE ~(now - lastFull >= Revalidate)
    BY <1>3, <2>2 DEF BeginSnapshot
  <2>3. QED BY <2>1, <2>2
<1>4. CASE Hit BY <1>4 DEF Hit, Matches
<1>5. CASE Miss BY <1>5 DEF Miss
<1>6. CASE Compute BY <1>6 DEF Compute
<1>7. CASE Remember BY <1>7 DEF Remember
<1>8. CASE Forget BY <1>8 DEF Forget
<1>9. CASE UNCHANGED cacheVars BY <1>9 DEF cacheVars
<1>10. QED BY <1>1, <1>2, <1>3, <1>4, <1>5, <1>6, <1>7, <1>8, <1>9 DEF CacheNext

(* A hit is what the file holds when it is asked for, however the clock, the *)
(* candidate's writes and the walk are interleaved: Margin is at least a     *)
(* tick of the change time (ptree-cache.ts).                                 *)
THEOREM CacheHitIsCurrent == CacheSpec => []HitIsCurrent
<1>1. CacheInv => HitIsCurrent BY DEF CacheInv
<1>2. QED BY <1>1, CacheStarts, CacheKeeps, PTL DEF CacheSpec

-----------------------------------------------------------------------------
(* The hook service and its clients.                                       *)

\* A request is somebody's: unread by one service, or accepted by one.
Held(c) == \E s \in Service : c \in unread[s] \/ inFlight[s] = c

\* Where a request is, and who may still begin it.
Handed ==
    /\ \A s \in Service : \A c \in unread[s] : to[c] = s /\ inFlight[s] # c
    /\ \A s \in Service : inFlight[s] # None => to[inFlight[s]] = s
    /\ \A s \in Service : phase[s] # "poll" => inFlight[s] # None
    /\ \A c \in Client : client[c] \in {"idle", "connecting"} => to[c] = None

\* Nobody evaluates a request but its holder, and the holder only once.
Begun ==
    /\ \A s \in Service : \A c \in unread[s] : evaluated[c] = {}
    /\ \A s \in Service : inFlight[s] # None /\ phase[s] # "evaluating" => evaluated[inFlight[s]] = {}
    /\ \A s \in Service : inFlight[s] # None => "process" \notin evaluated[inFlight[s]]
    /\ \A c \in Client : client[c] \in {"idle", "connecting", "local"} \/ (client[c] = "waiting" /\ wire[c] = "refused") =>
                            ~Held(c) /\ evaluated[c] = {}
    /\ \A c \in Client : "process" \in evaluated[c] => ~Held(c)

\* What a connection or a client says allow with is a verdict no one revises.
Answered ==
    /\ \A c \in Client : wire[c] = "allow" \/ answer[c] = "allow" => ruled[c] = "allow" /\ ~Held(c)
    /\ \A c \in Client : client[c] \in {"idle", "connecting", "local"} =>
                            wire[c] # "allow" /\ answer[c] # "allow"
    /\ \A c \in Client : client[c] \in {"idle", "connecting"} => wire[c] = "empty"

\* Who had left when the poll phase ended was seen to.
LeftSeen == left \subseteq seenEnd /\ late = {}

ServiceInv == ServiceTypeOK /\ Handed /\ Begun /\ Answered /\ LeftSeen /\ OneEvaluation

\* The service and its clients keep their types.
LEMMA ServiceTyped == ServiceTypeOK /\ [ServiceNext]_serviceVars => ServiceTypeOK'
<1> SUFFICES ASSUME ServiceTypeOK, [ServiceNext]_serviceVars PROVE ServiceTypeOK'
  OBVIOUS
<1> USE ServiceAssumption DEF ServiceTypeOK, clients, loops, operator, judged, Up, Listening
<1>1. ASSUME NEW c \in Client, ClientStep(c) PROVE ServiceTypeOK'
  <2>1. CASE Consult(c) BY <2>1 DEF Consult
  <2>2. CASE Connect(c)
    <3>1. bound \in Service BY <2>2 DEF Connect
    <3>2. unread' \in [Service -> SUBSET Client] BY <2>2, <3>1 DEF Connect
    <3>3. QED BY <2>2, <3>1, <3>2 DEF Connect
  <2>3. CASE CannotConnect(c) BY <2>3 DEF CannotConnect
  <2>4. CASE Timeout(c) BY <2>4 DEF Timeout
  <2>5. CASE Receive(c) BY <2>5 DEF Receive
  <2>6. CASE EvaluateHere(c)
    <3>1. evaluated' \in [Client -> SUBSET {"service", "process"}] BY <2>6 DEF EvaluateHere
    <3>2. QED BY <2>6, <3>1 DEF EvaluateHere
  <2>7. QED BY <1>1, <2>1, <2>2, <2>3, <2>4, <2>5, <2>6 DEF ClientStep
<1>2. ASSUME NEW s \in Service, LoopStep(s) PROVE ServiceTypeOK'
  <2>1. ASSUME NEW c \in Client, ReadRequest(s, c) PROVE ServiceTypeOK'
    <3>1. wire' \in [Client -> {"empty", "refused", "allow", "deny", "end"}] BY <2>1 DEF ReadRequest, Send
    <3>2. inFlight' \in [Service -> Client \union {None}] BY <2>1 DEF ReadRequest
    <3>3. unread' \in [Service -> SUBSET Client] BY <2>1 DEF ReadRequest
    <3>4. QED BY <2>1, <3>1, <3>2, <3>3 DEF ReadRequest
  <2>2. ASSUME NEW c \in Client, Deadline(s, c) PROVE ServiceTypeOK'
    <3>1. unread' \in [Service -> SUBSET Client] BY <2>2 DEF Deadline
    <3>2. QED BY <2>2, <3>1 DEF Deadline, Send
  <2>3. ASSUME NEW c \in Client, ReadEnd(s, c) PROVE ServiceTypeOK' BY <2>3 DEF ReadEnd
  <2>4. CASE PollDone(s) BY <2>4 DEF PollDone
  <2>5. CASE Begin(s)
    <3>1. evaluated' \in [Client -> SUBSET {"service", "process"}] BY <2>5 DEF Begin
    <3>2. late' \subseteq Client BY <2>5 DEF Begin
    <3>3. QED BY <2>5, <3>1, <3>2 DEF Begin
  <2>6. CASE End(s)
    <3>1. wire' \in [Client -> {"empty", "refused", "allow", "deny", "end"}] BY <2>6 DEF End, Send
    <3>2. ruled' \in [Client -> {"none", "allow", "deny"}] BY <2>6 DEF End
    <3>3. QED BY <2>6, <3>1, <3>2 DEF End
  <2>7. CASE Drain(s) BY <2>7 DEF Drain, Drop
  <2>8. CASE Closed(s) BY <2>8 DEF Closed
  <2>9. QED BY <1>2, <2>1, <2>2, <2>3, <2>4, <2>5, <2>6, <2>7, <2>8 DEF LoopStep
<1>3. CASE OperatorStep
  <2>1. ASSUME NEW s \in Service, ProbeStart(s) PROVE ServiceTypeOK' BY <2>1 DEF ProbeStart
  <2>2. ASSUME NEW s \in Service, ClearLeftovers(s) PROVE ServiceTypeOK' BY <2>2 DEF ClearLeftovers
  <2>3. ASSUME NEW s \in Service, Listen(s) PROVE ServiceTypeOK' BY <2>3 DEF Listen
  <2>4. ASSUME NEW s \in Service, Close(s) PROVE ServiceTypeOK'
    <3>1. wire' \in [Client -> {"empty", "refused", "allow", "deny", "end"}] BY <2>4 DEF Close, Drop
    <3>2. QED BY <2>4, <3>1 DEF Close
  <2>5. ASSUME NEW s \in Service, Crash(s) PROVE ServiceTypeOK'
    <3>1. wire' \in [Client -> {"empty", "refused", "allow", "deny", "end"}] BY <2>5 DEF Crash, Drop
    <3>2. QED BY <2>5, <3>1 DEF Crash
  <2>6. CASE ProbeStop BY <2>6 DEF ProbeStop
  <2>7. CASE WaitGone BY <2>7 DEF WaitGone
  <2>8. CASE RemoveLeftovers BY <2>8 DEF RemoveLeftovers
  <2>9. QED BY <1>3, <2>1, <2>2, <2>3, <2>4, <2>5, <2>6, <2>7, <2>8 DEF OperatorStep
<1>4. CASE UNCHANGED serviceVars BY <1>4 DEF serviceVars
<1>5. QED BY <1>1, <1>2, <1>3, <1>4 DEF ServiceNext

\* Whoever begins, begins alone.
LEMMA BegunOnce ==
    ASSUME NEW c \in Client, NEW who \in {"service", "process"}, OneEvaluation, evaluated'[c] = {who},
           \A d \in Client \ {c} : evaluated'[d] = evaluated[d]
    PROVE  OneEvaluation'
<1>1. \E x \in {"service", "process"} : x # who OBVIOUS
<1>2. {who} # {"service", "process"} BY <1>1
<1>3. QED BY <1>2 DEF OneEvaluation

\* The server takes the next request.
LEMMA BeginKeeps ==
    ASSUME ServiceInv, NEW s \in Service, Begin(s)
    PROVE  Handed' /\ Begun' /\ Answered' /\ LeftSeen' /\ OneEvaluation'
<1> DEFINE c == inFlight[s]
<1>1. c \in Client /\ phase[s] = "check" BY DEF Begin, ServiceInv, ServiceTypeOK, Handed
<1>2. UNCHANGED <<client, to, wire, answer, unread, seenEnd, left, ruled>>
  BY DEF Begin, clients, operator
<1>3. CASE c \in seenEnd
  <2>1. UNCHANGED <<evaluated, late>> /\ inFlight' = [inFlight EXCEPT ![s] = None] /\ phase' = [phase EXCEPT ![s] = "poll"]
    BY <1>3 DEF Begin
  <2>2. \A d \in Client : Held(d)' => Held(d) BY <1>2, <2>1, ServiceAssumption DEF Held, ServiceInv, ServiceTypeOK
  <2>3. Handed' BY <1>2, <2>1, ServiceAssumption DEF Handed, ServiceInv, ServiceTypeOK
  <2>4. Begun' BY <1>2, <2>1, <2>2, ServiceAssumption DEF Begun, ServiceInv, ServiceTypeOK
  <2>5. Answered' /\ LeftSeen' /\ OneEvaluation' BY <1>2, <2>1, <2>2 DEF Answered, LeftSeen, OneEvaluation, ServiceInv
  <2>6. QED BY <2>3, <2>4, <2>5
<1>4. CASE c \notin seenEnd
  <2>1. UNCHANGED inFlight /\ phase' = [phase EXCEPT ![s] = "evaluating"] BY <1>4 DEF Begin
  <2>2. evaluated[c] = {} BY <1>1, ServiceAssumption DEF ServiceInv, Begun
  <2>3. evaluated'[c] = {"service"} /\ \A d \in Client \ {c} : evaluated'[d] = evaluated[d]
    BY <1>1, <1>4, <2>2 DEF Begin, ServiceInv, ServiceTypeOK
  <2>4. late' = late BY <1>1, <1>4 DEF Begin, ServiceInv, LeftSeen
  <2>5. Held(c) /\ \A d \in Client : Held(d)' <=> Held(d) BY <1>1, <1>2, <2>1 DEF Held
  <2>6. Handed' BY <1>2, <2>1, <1>1 DEF Handed, ServiceInv, ServiceTypeOK
  <2>7. \A t \in Service \ {s} : inFlight[t] # c
    BY <1>1 DEF Handed, ServiceInv
  <2>8. \A t \in Service : c \notin unread[t] BY <1>1 DEF Handed, ServiceInv
  <2>9. "process" \notin {"service"} OBVIOUS
  <2>10. Begun' BY <1>1, <1>2, <2>1, <2>2, <2>3, <2>5, <2>7, <2>8, <2>9 DEF Begun, ServiceInv, ServiceTypeOK
  <2>11. Answered' /\ LeftSeen' BY <1>2, <2>4, <2>5 DEF Answered, LeftSeen, ServiceInv
  <2>12. OneEvaluation' BY <1>1, <2>3, BegunOnce DEF ServiceInv
  <2>13. QED BY <2>6, <2>10, <2>11, <2>12
<1>5. QED BY <1>3, <1>4

\* A client whose service did not answer evaluates by itself.
LEMMA EvaluateHereKeeps ==
    ASSUME ServiceInv, NEW c \in Client, EvaluateHere(c)
    PROVE  Handed' /\ Begun' /\ Answered' /\ LeftSeen' /\ OneEvaluation'
<1>1. ~Held(c) /\ evaluated[c] = {} /\ wire[c] # "allow" BY DEF EvaluateHere, ServiceInv, Begun, Answered
<1>2. UNCHANGED <<to, wire, unread, inFlight, phase, seenEnd, left, late>> /\ client' = [client EXCEPT ![c] = "done"]
  BY DEF EvaluateHere, loops, operator
<1>3. PICK v \in {"allow", "deny"} : answer' = [answer EXCEPT ![c] = v] /\ ruled' = [ruled EXCEPT ![c] = v]
  BY DEF EvaluateHere
<1>4. evaluated'[c] = {"process"} /\ \A d \in Client \ {c} : evaluated'[d] = evaluated[d]
  BY <1>1 DEF EvaluateHere, ServiceInv, ServiceTypeOK
<1>5. \A d \in Client : Held(d)' <=> Held(d) BY <1>2 DEF Held
<1>6. \A s \in Service : c \notin unread[s] /\ inFlight[s] # c BY <1>1 DEF Held
<1>7. Handed' BY <1>2 DEF Handed, ServiceInv, ServiceTypeOK
<1>8. Begun' BY <1>1, <1>2, <1>4, <1>5, <1>6, ServiceAssumption DEF Begun, ServiceInv, ServiceTypeOK
<1>9. Answered' /\ LeftSeen' BY <1>1, <1>2, <1>3, <1>5 DEF Answered, LeftSeen, ServiceInv, ServiceTypeOK
<1>10. OneEvaluation' BY <1>4, BegunOnce DEF ServiceInv
<1>11. QED BY <1>7, <1>8, <1>9, <1>10

\* Every step of the server, its clients and the connection.
LEMMA ServiceKeeps == ServiceInv /\ [ServiceNext]_serviceVars => ServiceInv'
<1> SUFFICES ASSUME ServiceInv, [ServiceNext]_serviceVars PROVE ServiceInv'
  OBVIOUS
<1>0. ServiceTypeOK' BY ServiceTyped DEF ServiceInv
<1> DEFINE Inv == Handed /\ Begun /\ Answered /\ LeftSeen /\ OneEvaluation
<1> SUFFICES Inv' BY <1>0 DEF ServiceInv
<1> USE <1>0, ServiceAssumption DEF ServiceInv, ServiceTypeOK, clients, loops, operator, judged, Up, Listening,
        Held, Handed, Begun, Answered, LeftSeen, OneEvaluation
<1>1. ASSUME NEW c \in Client, ClientStep(c) PROVE Inv'
  <2>1. CASE Consult(c) BY <2>1 DEF Consult
  <2>2. CASE Connect(c)
    <3>1. bound \in Service /\ to[c] = None /\ ~Held(c) /\ evaluated[c] = {} BY <2>2 DEF Connect
    <3>2. unread'[bound] = unread[bound] \union {c} /\ \A s \in Service \ {bound} : unread'[s] = unread[s]
      BY <2>2, <3>1 DEF Connect
    <3>3. \A d \in Client \ {c} : to'[d] = to[d] /\ client'[d] = client[d] BY <2>2 DEF Connect
    <3>4. to'[c] = bound /\ client'[c] = "waiting" BY <2>2 DEF Connect
    <3>5. \A d \in Client \ {c} : Held(d)' <=> Held(d) BY <2>2, <3>2 DEF Connect
    <3>6. wire[c] = "empty" /\ answer[c] # "allow" BY <2>2 DEF Connect
    <3>7. Handed' BY <2>2, <3>1, <3>2, <3>3, <3>4 DEF Connect
    <3>8. Begun' BY <2>2, <3>1, <3>2, <3>3, <3>4, <3>5, <3>6 DEF Connect
    <3>9. Answered' BY <2>2, <3>1, <3>2, <3>3, <3>4, <3>5, <3>6 DEF Connect
    <3>10. QED BY <2>2, <3>7, <3>8, <3>9 DEF Connect
  <2>3. CASE CannotConnect(c) BY <2>3 DEF CannotConnect
  <2>4. CASE Timeout(c) BY <2>4 DEF Timeout
  <2>5. CASE Receive(c) BY <2>5 DEF Receive
  <2>6. CASE EvaluateHere(c) BY <2>6, EvaluateHereKeeps
  <2>7. QED BY <1>1, <2>1, <2>2, <2>3, <2>4, <2>5, <2>6 DEF ClientStep
<1>2. ASSUME NEW s \in Service, LoopStep(s) PROVE Inv'
  <2>1. ASSUME NEW c \in Client, ReadRequest(s, c) PROVE Inv'
    BY <2>1 DEF ReadRequest, Send
  <2>2. ASSUME NEW c \in Client, Deadline(s, c) PROVE Inv'
    BY <2>2 DEF Deadline, Send
  <2>3. ASSUME NEW c \in Client, ReadEnd(s, c) PROVE Inv'
    BY <2>3 DEF ReadEnd, Send
  <2>4. CASE PollDone(s) BY <2>4 DEF PollDone, Send, Drop
  <2>5. CASE Begin(s) BY <2>5, BeginKeeps
  <2>6. CASE End(s) BY <2>6 DEF End, Send, Drop
  <2>7. CASE Drain(s) BY <2>7 DEF Drain, Send, Drop
  <2>8. CASE Closed(s) BY <2>8 DEF Closed, Send, Drop
  <2>9. QED BY <1>2, <2>1, <2>2, <2>3, <2>4, <2>5, <2>6, <2>7, <2>8 DEF LoopStep
<1>3. CASE OperatorStep
  <2>1. ASSUME NEW s \in Service, ProbeStart(s) PROVE Inv'
    BY <2>1 DEF ProbeStart, Drop, Connections
  <2>2. ASSUME NEW s \in Service, ClearLeftovers(s) PROVE Inv'
    BY <2>2 DEF ClearLeftovers, Drop, Connections
  <2>3. ASSUME NEW s \in Service, Listen(s) PROVE Inv'
    BY <2>3 DEF Listen, Drop, Connections
  <2>4. ASSUME NEW s \in Service, Close(s) PROVE Inv'
    BY <2>4 DEF Close, Drop, Connections
  <2>5. ASSUME NEW s \in Service, Crash(s) PROVE Inv'
    BY <2>5 DEF Crash, Drop, Connections
  <2>6. CASE ProbeStop BY <2>6 DEF ProbeStop
  <2>7. CASE WaitGone BY <2>7 DEF WaitGone
  <2>8. CASE RemoveLeftovers BY <2>8 DEF RemoveLeftovers
  <2>9. QED BY <1>3, <2>1, <2>2, <2>3, <2>4, <2>5, <2>6, <2>7, <2>8 DEF OperatorStep
<1>4. CASE UNCHANGED serviceVars BY <1>4 DEF serviceVars
<1>5. QED BY <1>1, <1>2, <1>3, <1>4 DEF ServiceNext

\* Initially nothing is asked.
LEMMA ServiceStarts == ServiceInit => ServiceInv
BY ServiceAssumption DEF ServiceInit, ServiceInv, ServiceTypeOK, Handed, Begun, Answered, LeftSeen, OneEvaluation, Held

\* What the invariant says of a request.
LEMMA ServiceInvHolds == ServiceInv => OneEvaluation /\ AllowIsVerdict /\ NobodyServedLate
BY DEF ServiceInv, Answered, LeftSeen, AllowIsVerdict, NobodyServedLate

(* Whatever the service, its operator and its clients' timers do, a request  *)
(* has one evaluator, an allow is that evaluator's verdict, and no one who   *)
(* left is served (hook-client.ts exchange, hook-service.ts handle).         *)
THEOREM OneVerdictPerRequest == ServiceSpec => [](OneEvaluation /\ AllowIsVerdict /\ NobodyServedLate)
BY ServiceStarts, ServiceKeeps, ServiceInvHolds, PTL DEF ServiceSpec

(* The same of the processes that run beside each other.                     *)
THEOREM ServedOnceHolds == SpecAll => []ServedOnce
<1> DEFINE Inv == ServiceInv /\ CacheInv
<1>1. InitAll => Inv BY ServiceStarts, CacheStarts DEF InitAll
<1>2. Inv /\ [NextAll]_all => Inv'
  <2> SUFFICES ASSUME ServiceInv, CacheInv, [NextAll]_all PROVE Inv'
    OBVIOUS
  <2>1. [ServiceNext]_serviceVars BY DEF NextAll, all
  <2>2. [CacheNext]_cacheVars BY DEF NextAll, all
  <2>3. QED BY <2>1, <2>2, ServiceKeeps, CacheKeeps
<1>3. Inv => ServedOnce
  BY ServiceInvHolds DEF ServedOnce, ServiceInv, CacheInv
<1>4. QED BY <1>1, <1>2, <1>3, PTL DEF SpecAll

-----------------------------------------------------------------------------
(* The observer's record of its own health.                                *)

Watching == {"healthy", "degraded"}
HealthInv ==
    /\ watcher \in {"off", "up"}
    /\ watcher = "up" => /\ health.state \in Watching
                         /\ lost => health.state = "degraded"
                         /\ ~unsaved => healthFile = health

(* A record that says healthy is one a watcher may write, and no coverage    *)
(* was lost since it began, unless the record could not be saved             *)
(* (watch.ts degrade, persistHealth).                                        *)
THEOREM HealthyRecordIsComplete == Spec => []HealthyIsComplete
<1>1. Init => HealthInv BY DEF Init, HealthInv
<1>2. HealthInv /\ [Next]_vars => HealthInv'
  <2> SUFFICES ASSUME HealthInv, [Next]_vars PROVE HealthInv'
    OBVIOUS
  <2> USE DEF HealthInv, Watching, tree, daemon, files, drain, sweep, loss, gens
  <2>1. ASSUME NEW p \in Path, Move(p) PROVE HealthInv' BY <2>1 DEF Move
  <2>2. ASSUME NEW p \in Path, Notice(p) PROVE HealthInv'
    BY <2>2 DEF Notice, NothingPersisted, Degrade, Persist, Record
  <2>3. ASSUME NEW d \in Dir, MakeDir(d) PROVE HealthInv' BY <2>3 DEF MakeDir
  <2>4. ASSUME NEW d \in Dir, NoticeDir(d) PROVE HealthInv'
    BY <2>4 DEF NoticeDir, NothingPersisted, Degrade, Persist, Record
  <2>5. CASE StartWatcher BY <2>5 DEF StartWatcher, Persist, Record
  <2>6. CASE WriteCell BY <2>6 DEF WriteCell, NothingPersisted, Degrade, Persist, Record
  <2>7. CASE WatchError BY <2>7 DEF WatchError, Degrade, Persist, Record
  <2>8. CASE CloseWatcher BY <2>8 DEF CloseWatcher, WatcherEnds
  <2>9. CASE CrashWatcher BY <2>9 DEF CrashWatcher, WatcherEnds
  <2>10. CASE Others BY <2>10 DEF Others
  <2>11. CASE ReaderStep
    BY <2>11 DEF ReaderStep, BeginStop, BeginDrain, StopObserver, KillObserver, WatcherEnds, BeginCollect, Stat, Read,
                 ReadGone, JudgeStop, Commit, JudgeRun
  <2>12. CASE UNCHANGED vars BY <2>12 DEF vars
  <2>13. QED BY <2>1, <2>2, <2>3, <2>4, <2>5, <2>6, <2>7, <2>8, <2>9, <2>10, <2>11, <2>12 DEF Next
<1>3. HealthInv => HealthyIsComplete BY DEF HealthInv, HealthyIsComplete, Telemetry
<1>4. QED BY <1>1, <1>2, <1>3, PTL DEF Spec

-----------------------------------------------------------------------------
(* The observer at the end of a strict run.                                *)

(* A bounded set of positions has a last one.                                *)
LEMMA LastOfBounded ==
    ASSUME NEW n \in Nat, NEW S \in SUBSET (1 .. n), S # {}
    PROVE  \E m \in S : \A k \in S : k <= m
<1> DEFINE After(i) == {j \in S : j > i}
           F == {After(i) : i \in S}
<1>0. IsFiniteSet(1 .. n) BY FS_Interval
<1>1. IsFiniteSet(S) BY <1>0, FS_Subset
<1>8. S \subseteq Int OBVIOUS
<1>9. F # {} OBVIOUS
<1>2. F \subseteq FiniteSubsetsOf(S) BY <1>1, FS_FiniteSubsetsOfFinite
<1>3. IsWellFoundedOn(StrictSubsetOrdering(S), FiniteSubsetsOf(S)) BY FS_StrictSubsetOrderingWellFounded
<1>4. PICK X \in F : \A Y \in F : ~(<<Y, X>> \in StrictSubsetOrdering(S))
  BY <1>2, <1>3, <1>9, WFMin
<1>5. PICK m \in S : X = After(m) OBVIOUS
<1>6. ASSUME NEW k \in S, k > m PROVE FALSE
  <2>0. k \in Int /\ m \in Int /\ k > m BY <1>6, <1>8
  <2>4. k \in After(m) /\ k \notin After(k) BY <2>0
  <2>5. \A j \in S : j > k => j > m BY <2>0, <1>8
  <2>1. After(k) \subseteq After(m) /\ After(k) # After(m) BY <2>4, <2>5
  <2>2. After(k) \in F /\ After(k) \in SUBSET S /\ After(m) \in SUBSET S OBVIOUS
  <2>3. <<After(k), After(m)>> \in StrictSubsetOrdering(S) BY <2>1, <2>2 DEF StrictSubsetOrdering
  <2>6. QED BY <1>4, <1>5, <2>2, <2>3
<1>7. QED BY <1>6, <1>8

(* What LastNewline returns: the position of a newline with none after it,  *)
(* or 0 where there is none (fs-events.ts, lastIndexOf).                     *)
LEMMA LastNewlineIs ==
    ASSUME NEW C, NEW c \in Seq(C)
    PROVE  /\ LastNewline(c) \in 0 .. Len(c)
           /\ LastNewline(c) # 0 => c[LastNewline(c)] = NL
           /\ \A j \in 1 .. Len(c) : c[j] = NL => j <= LastNewline(c)
<1> DEFINE N == {i \in 1 .. Len(c) : c[i] = NL}
<1>1. CASE N = {} BY <1>1 DEF LastNewline
<1>2. CASE N # {}
  <2>1. Len(c) \in Nat /\ N \in SUBSET (1 .. Len(c)) OBVIOUS
  <2>2. \E m \in N : \A k \in N : k <= m BY <1>2, <2>1, LastOfBounded
  <2>3. LastNewline(c) = CHOOSE m \in N : \A k \in N : k <= m BY <1>2 DEF LastNewline
  <2>4. LastNewline(c) \in N /\ \A k \in N : k <= LastNewline(c) BY <2>2, <2>3
  <2>5. QED BY <2>1, <2>4
<1>3. QED BY <1>1, <1>2

\* The first n cells are whole lines, every one an event that was taken in.
Classified(n) ==
    /\ n \in 0 .. Len(Cells)
    /\ n # 0 => Cells[n] = NL
    /\ \A i \in 1 .. n : Cells[i] = NL \/ (EventAt(Cells, i) /\ Cells[i] \in events)
AllClassified == at = Len(Cells) /\ Classified(at)

Cell == Event \union {Junk, NL}
LogTyped ==
    /\ disk \in [Path -> State \union {Gone}]
    /\ Cells \in Seq(Cell) /\ line \in Seq(Cell)
RunInv ==
    /\ LogTyped
    /\ use = "run" =>
         /\ reader \in {"idle", "stopping", "drain", "read", "judge", "done"}
         /\ reader \in {"drain", "read", "judge", "done"} => watcher = "off"
         /\ reader \in {"drain", "read"} => Classified(at) /\ got \in Nat /\ got < SweepCap
         /\ reader = "read" => size = Len(Cells) /\ at < size
         /\ reader = "judge" => drained # "absent" /\ (drained = "complete" => AllClassified)
         /\ reader = "done" /\ Strict /\ verdict = "pass" => AllClassified /\ Transient(events, accounted) = {}

(* Whole lines all taken in are what the property asks of the log.           *)
LEMMA ClassifiedIsAll ==
    ASSUME Cells \in Seq(Cell), AllClassified
    PROVE  LastNewline(Cells) = Len(Cells) /\ ~BadLines(Cells) /\ Events(Cells) \subseteq events
<1> USE ObserverAssumption
<1>1. Len(Cells) \in Nat OBVIOUS
<1>2. LastNewline(Cells) \in 0 .. Len(Cells) /\ \A j \in 1 .. Len(Cells) : Cells[j] = NL => j <= LastNewline(Cells)
  BY LastNewlineIs
<1>3. LastNewline(Cells) = Len(Cells) BY <1>1, <1>2 DEF AllClassified, Classified
<1>4. \A i \in 1 .. Len(Cells) : Cells[i] = NL \/ (EventAt(Cells, i) /\ Cells[i] \in events)
  BY DEF AllClassified, Classified
<1>5. \A i \in 1 .. LastNewline(Cells) - 1 : i \in 1 .. Len(Cells) BY <1>1, <1>3
<1>6. ~BadLines(Cells) BY <1>4, <1>5 DEF BadLines
<1>7. ASSUME NEW i \in 1 .. LastNewline(Cells) - 1, EventAt(Cells, i) PROVE Cells[i] \in events
  BY <1>4, <1>5, <1>7 DEF EventAt
<1>8. Events(Cells) \subseteq events BY <1>7 DEF Events
<1>9. QED BY <1>3, <1>6, <1>8

(* Taking in more records never hides a churned path.                        *)
LEMMA TransientGrows ==
    ASSUME NEW E, NEW F, NEW net, E \subseteq F
    PROVE  Transient(E, net) \subseteq Transient(F, net)
BY DEF Transient

(* One batch: a clean one adds whole lines to what is classified, and one    *)
(* that completes the drain has classified the log.                          *)
LEMMA BatchClassifies ==
    ASSUME RunInv, use = "run", Read
    PROVE  /\ Outcome(Chunk) \in {"more", "complete"} => Classified(at)'
           /\ Outcome(Chunk) = "complete" => AllClassified'
           /\ Outcome(Chunk) = "more" => got' \in Nat /\ got' < SweepCap
<1> USE ObserverAssumption
<1> DEFINE c == Chunk
           ln == LastNewline(c)
           e == Least(at + Least(size - at, Least(ReadCap, SweepCap - got)), Len(Cells))
<1>1. /\ log # Absent /\ Cells = log /\ Cells \in Seq(Cell) /\ Len(Cells) \in Nat
      /\ at \in Nat /\ size = Len(Cells) /\ at < size /\ got \in Nat /\ got < SweepCap
      /\ Classified(at) /\ use = "run"
  BY DEF RunInv, LogTyped, Read, Cells, Classified
<1>2. From(size) = at BY <1>1 DEF From
<1>3. e \in at + 1 .. Len(Cells) /\ e - at <= SweepCap - got BY <1>1 DEF Least
<1>4. c = SubSeq(Cells, at + 1, e) BY <1>1, <1>2 DEF Chunk
<1> HIDE DEF e
<1>5. c \in Seq(Cell) /\ Len(c) = e - at /\ \A i \in 1 .. Len(c) : c[i] = Cells[at + i] BY <1>1, <1>3, <1>4
<1> HIDE DEF c
<1>6. ln \in 0 .. Len(c) /\ (ln # 0 => c[ln] = NL) BY <1>5, LastNewlineIs
<1> HIDE DEF ln
<1>7. /\ Cells' = Cells /\ events' = events \union Events(c) /\ got' = got + Len(c)
      /\ Outcome(c) \in {"more", "complete"} => at' = at + ln
  BY <1>2 DEF Read, Cells, files, c, ln
<1>8. ASSUME Outcome(c) \in {"more", "complete"} PROVE Classified(at)'
  <2>1. ~BadLines(c) BY <1>8 DEF Outcome
  <2>2. at' = at + ln /\ at' \in 0 .. Len(Cells) BY <1>1, <1>3, <1>5, <1>6, <1>7, <1>8
  <2>3. at' # 0 => Cells[at'] = NL
    <3>1. CASE ln = 0 BY <3>1, <2>2, <1>1 DEF Classified
    <3>2. CASE ln # 0 BY <3>2, <2>2, <1>5, <1>6
    <3>3. QED BY <3>1, <3>2
  <2>4. ASSUME NEW j \in 1 .. at + ln PROVE Cells[j] = NL \/ (EventAt(Cells, j) /\ Cells[j] \in events \union Events(c))
    <3>1. CASE j <= at BY <3>1, <1>1 DEF Classified
    <3>2. CASE j = at + ln /\ ln # 0 BY <3>2, <1>5, <1>6
    <3>3. CASE j > at /\ j < at + ln
      <4>1. PICK i \in 1 .. ln - 1 : j = at + i BY <3>3, <1>1, <1>6, <1>5
      <4>2. i \in 1 .. Len(c) /\ i + 1 \in 1 .. Len(c) /\ c[i] = Cells[j] /\ c[i + 1] = Cells[j + 1]
        BY <4>1, <1>1, <1>5, <1>6
      <4>3. c[i] = NL \/ EventAt(c, i) BY <4>1, <2>1 DEF BadLines, ln
      <4>4. ASSUME EventAt(c, i) PROVE EventAt(Cells, j) /\ Cells[j] \in Events(c)
        <5>1. Cells[j] \in Event /\ Cells[j + 1] = NL BY <4>2, <4>4 DEF EventAt
        <5>2. j > 1 => Cells[j - 1] = NL
          <6>1. CASE i = 1 BY <6>1, <4>1, <1>1 DEF Classified
          <6>2. CASE i > 1
            <7>1. i - 1 \in 1 .. Len(c) /\ Cells[j - 1] = c[i - 1] BY <6>2, <4>1, <4>2, <1>1, <1>5
            <7>2. QED BY <7>1, <6>2, <4>4 DEF EventAt
          <6>3. QED BY <6>1, <6>2, <4>1
        <5>3. Cells[j] \in Events(c) BY <4>1, <4>2, <4>4 DEF Events, ln
        <5>4. QED BY <5>1, <5>2, <5>3 DEF EventAt
      <4>5. QED BY <4>2, <4>3, <4>4
    <3>4. QED BY <3>1, <3>2, <3>3, <1>1, <1>5, <1>6
  <2>5. QED BY <2>2, <2>3, <2>4, <1>7 DEF Classified, EventAt
<1>9. ASSUME Outcome(c) = "complete" PROVE AllClassified'
  <2>1. ~(at + Len(c) < size) /\ ~(ln < Len(c)) BY <1>9, <1>2 DEF Outcome, ln
  <2>2. at' = Len(Cells) BY <2>1, <1>1, <1>3, <1>5, <1>6, <1>7, <1>9
  <2>3. QED BY <2>2, <1>7, <1>8, <1>9 DEF AllClassified
<1>10. ASSUME Outcome(c) = "more" PROVE got' \in Nat /\ got' < SweepCap
  BY <1>10, <1>1, <1>3, <1>5, <1>7 DEF Outcome
<1>11. QED BY <1>8, <1>9, <1>10 DEF c

\* Nothing is watched yet.
LEMMA RunStarts == Init => RunInv
<1> SUFFICES ASSUME Init PROVE RunInv
  OBVIOUS
<1>1. disk \in [Path -> State \union {Gone}] BY DEF Init
<1>2. Cells = <<>> BY DEF Init, Cells
<1>3. QED BY <1>1, <1>2 DEF Init, RunInv, LogTyped

(* A step leaves cells where cells are, and nobody but the watcher and the   *)
(* agent writes the log.                                                     *)
LEMMA LogStays == LogTyped /\ [Next]_vars => LogTyped'
<1> SUFFICES ASSUME LogTyped, [Next]_vars PROVE LogTyped'
  OBVIOUS
<1> USE ObserverAssumption DEF LogTyped, tree, daemon, files, drain, sweep, loss, gens
<1>1. ASSUME UNCHANGED <<disk, log, line>> PROVE LogTyped' BY <1>1 DEF Cells
<1>2. ASSUME NEW p \in Path, Move(p) PROVE LogTyped' BY <1>2 DEF Move, Cells
<1>3. ASSUME NEW p \in Path, Notice(p) PROVE LogTyped'
  <2>1. disk[p] \in State \union {Gone} OBVIOUS
  <2>2. [path |-> p, hash |-> disk[p].hash, mode |-> disk[p].mode] \in Event
    <3>1. [path |-> p, hash |-> disk[p].hash, mode |-> disk[p].mode] \in
             {[path |-> q, hash |-> s.hash, mode |-> s.mode] : q \in Path, s \in State \union {Gone}} BY <2>1
    <3>2. QED BY <3>1 DEF Event
  <2>3. line' \in Seq(Cell)
    <3> DEFINE ev == [path |-> p, hash |-> disk[p].hash, mode |-> disk[p].mode]
    <3>1. ev \in Cell /\ NL \in Cell BY <2>2 DEF Cell
    <3>2. line' = line \/ line' = <<ev, NL>> BY <1>3 DEF Notice
    <3> HIDE DEF ev
    <3>3. <<ev, NL>> \in Seq(Cell) BY <3>1
    <3>4. QED BY <3>2, <3>3
  <2>4. disk' = disk /\ Cells' = Cells BY <1>3 DEF Notice, Cells
  <2>5. QED BY <2>3, <2>4
<1>4. CASE WriteCell
  <2>1. disk' = disk BY <1>4 DEF WriteCell
  <2>2. CASE log' = Append(Cells, Head(line)) /\ line' = Tail(line)
    <3>1. line # <<>> BY <1>4 DEF WriteCell
    <3>2. Head(line) \in Cell /\ Tail(line) \in Seq(Cell) BY <3>1
    <3>3. Append(Cells, Head(line)) \in Seq(Cell) BY <3>2
    <3>4. Cells' \in Seq(Cell) BY <2>2, <3>3 DEF Cells
    <3>5. QED BY <2>1, <2>2, <3>2, <3>4
  <2>3. CASE log' = log /\ line' = <<>> BY <2>1, <2>3 DEF Cells
  <2>4. QED BY <1>4, <2>2, <2>3 DEF WriteCell
<1>5. CASE Others
  <2>1. disk' = disk /\ line' = line BY <1>5 DEF Others
  <2>2. ASSUME NEW l \in Seq(Cell), log' = Cells \o l PROVE Cells' \in Seq(Cell)
    <3>1. Cells \o l \in Seq(Cell) OBVIOUS
    <3>2. QED BY <2>2, <3>1 DEF Cells
  <2>3. ASSUME log' \in {Absent, <<>>} PROVE Cells' \in Seq(Cell)
    <3>1. Cells' = <<>> BY <2>3 DEF Cells
    <3>2. QED BY <3>1
  <2>4. Junk \in Cell /\ NL \in Cell BY DEF Cell
  <2>5. <<Junk, NL>> \in Seq(Cell) BY <2>4
  <2>6. [i \in 1 .. ReadCap |-> Junk] \in Seq(Cell) BY <2>4
  <2>7. <<NL>> \in Seq(Cell) BY <2>4
  <2>8. [i \in 1 .. ReadCap |-> Junk] \o <<NL>> \in Seq(Cell) BY <2>6, <2>7
  <2>9. (\E l \in Seq(Cell) : log' = Cells \o l) \/ log' \in {Absent, <<>>} BY <1>5, <2>5, <2>8 DEF Others
  <2>10. Cells' \in Seq(Cell) BY <2>2, <2>3, <2>9
  <2>11. QED BY <2>1, <2>10
<1>6. CASE CloseWatcher \/ CrashWatcher \/ KillObserver
  <2>1. line' = <<>> /\ disk' = disk /\ Cells' = Cells
    BY <1>6 DEF CloseWatcher, CrashWatcher, KillObserver, WatcherEnds, Cells
  <2>2. line' \in Seq(Cell) BY <2>1
  <2>3. QED BY <2>1, <2>2
<1>7. CASE UNCHANGED vars BY <1>1, <1>7 DEF vars
<1>8. ASSUME NEW d \in Dir, MakeDir(d) \/ NoticeDir(d) PROVE LogTyped' BY <1>1, <1>8 DEF MakeDir, NoticeDir
<1>9. CASE StartWatcher \/ WatchError BY <1>1, <1>9 DEF StartWatcher, WatchError
<1>10. CASE BeginStop \/ StopObserver \/ BeginCollect \/ Stat \/ Read \/ ReadGone \/ JudgeStop \/ Commit \/ JudgeRun
  BY <1>1, <1>10 DEF BeginStop, StopObserver, BeginCollect, Stat, Read, ReadGone, JudgeStop, Commit, JudgeRun
<1>11. QED BY <1>2, <1>3, <1>4, <1>5, <1>6, <1>7, <1>8, <1>9, <1>10 DEF Next, ReaderStep

\* Every step of the run, its observer and the writers it watches.
LEMMA RunKeeps == RunInv /\ [Next]_vars => RunInv'
<1> SUFFICES ASSUME RunInv, [Next]_vars PROVE RunInv'
  OBVIOUS
<1>1. LogTyped' BY LogStays DEF RunInv
<1>2. use' = use
  BY DEF Next, vars, Move, Notice, MakeDir, NoticeDir, StartWatcher, WriteCell, WatchError, CloseWatcher, CrashWatcher,
         WatcherEnds, Others, ReaderStep, BeginStop, StopObserver, KillObserver, BeginCollect, Stat, Read, ReadGone,
         JudgeStop, Commit, JudgeRun
<1>3. SUFFICES ASSUME use = "run" PROVE RunInv'
  BY <1>1, <1>2 DEF RunInv
<1> USE ObserverAssumption
\* The reader is busy, and nothing it looks at moves.
<1>4. ASSUME UNCHANGED <<log, reader, drain, verdict, accounted>>, reader = "done" => disk' = disk,
             watcher' = watcher \/ reader \in {"idle", "stopping"}
      PROVE  RunInv'
  <2>1. Cells' = Cells BY <1>4 DEF Cells
  <2>2. at' = at /\ size' = size /\ got' = got /\ events' = events /\ drained' = drained BY <1>4 DEF drain
  <2>3. \A n : Classified(n)' <=> Classified(n) BY <2>1, <2>2 DEF Classified, EventAt
  <2>4. AllClassified' <=> AllClassified BY <2>1, <2>2, <2>3 DEF AllClassified
  <2>5. reader = "done" => Transient(events, accounted)' = Transient(events, accounted) BY <1>4, <2>2 DEF Transient
  <2>6. QED BY <1>1, <1>2, <1>3, <1>4, <2>1, <2>2, <2>3, <2>4, <2>5 DEF RunInv
<1>5. ASSUME UNCHANGED <<reader, drain, verdict, accounted>>, reader \in {"idle", "stopping"} PROVE RunInv'
  BY <1>1, <1>2, <1>3, <1>5 DEF RunInv
<1>6. ASSUME NEW p \in Path, Move(p) \/ Notice(p) PROVE RunInv'
  BY <1>4, <1>6, <1>3 DEF Move, Notice, files, drain, sweep, RunInv, tree, daemon
<1>7. ASSUME NEW d \in Dir, MakeDir(d) \/ NoticeDir(d) PROVE RunInv'
  BY <1>4, <1>7 DEF MakeDir, NoticeDir, files, drain, sweep, tree
<1>8. CASE StartWatcher BY <1>5, <1>8 DEF StartWatcher, drain, sweep
<1>9. CASE WatchError BY <1>4, <1>9 DEF WatchError, files, drain, sweep, tree
<1>10. CASE WriteCell
  <2>1. watcher = "up" BY <1>10 DEF WriteCell
  <2>2. reader \in {"idle", "stopping"} BY <2>1, <1>3 DEF RunInv
  <2>3. QED BY <1>5, <1>10, <2>2 DEF WriteCell, drain, sweep
<1>11. CASE Others BY <1>3, <1>5, <1>11 DEF Others, drain, sweep
<1>12. CASE CloseWatcher \/ CrashWatcher
  <2>1. reader \in {"idle", "stopping"} BY <1>3, <1>12 DEF CloseWatcher, CrashWatcher, RunInv
  <2>2. QED BY <1>5, <1>12, <2>1 DEF CloseWatcher, CrashWatcher, WatcherEnds, drain, sweep
<1>13. CASE KillObserver
  <2>1. QED BY <1>5, <1>13 DEF KillObserver, WatcherEnds, drain, sweep
<1>14. CASE BeginStop \/ JudgeStop \/ Commit BY <1>14, <1>3 DEF BeginStop, JudgeStop, Commit, RunInv
<1>15. CASE StopObserver BY <1>1, <1>2, <1>3, <1>15 DEF StopObserver, RunInv
<1>16. CASE BeginCollect
  <2>1. reader' = "drain" /\ at' = 0 /\ got' = 0 /\ watcher' = "off"
    BY <1>16 DEF BeginCollect, BeginDrain, daemon
  <2>2. Classified(at)' BY <1>1, <2>1 DEF Classified, LogTyped
  <2>3. QED BY <1>1, <1>2, <2>1, <2>2 DEF RunInv
<1>17. CASE Stat
  <2>1. /\ Cells' = Cells /\ at' = at /\ events' = events /\ got' = got /\ watcher' = watcher /\ size' = Len(Cells)
        /\ reader = "drain"
    BY <1>17 DEF Stat, Cells, files, daemon
  <2>2. Classified(at) /\ got \in Nat /\ got < SweepCap /\ watcher = "off" /\ Len(Cells) \in Nat
    BY <2>1, <1>3 DEF RunInv, LogTyped
  <2>3. Classified(at)' BY <2>1, <2>2 DEF Classified, EventAt
  <2>4. at \in Nat /\ at <= size' BY <2>1, <2>2 DEF Classified
  <2>5. From(size') = at BY <2>1, <2>2, <2>4 DEF From
  <2>6. CASE From(size') < size' /\ reader' = "read"
    BY <1>1, <1>2, <2>1, <2>2, <2>3, <2>4, <2>5, <2>6 DEF RunInv
  <2>7. CASE From(size') = size' /\ reader' = "judge" /\ drained' = "complete"
    <3>1. AllClassified' BY <2>1, <2>3, <2>5, <2>7 DEF AllClassified
    <3>2. QED BY <1>1, <1>2, <2>1, <2>2, <2>7, <3>1 DEF RunInv
  <2>8. QED BY <1>17, <2>6, <2>7 DEF Stat
<1>18. CASE Read
  <2>1. reader = "read" /\ watcher' = watcher BY <1>18 DEF Read, daemon
  <2>2. watcher = "off" BY <1>3, <2>1 DEF RunInv
  <2>3. CASE Outcome(Chunk) = "more"
    <3>1. reader' = "drain" BY <1>18, <2>3 DEF Read
    <3>2. QED BY <1>1, <1>2, <1>3, <1>18, <2>1, <2>2, <2>3, <3>1, BatchClassifies DEF RunInv
  <2>4. CASE Outcome(Chunk) # "more"
    <3>1. reader' = "judge" /\ drained' = Outcome(Chunk) BY <1>18, <2>4 DEF Read
    <3>2. Outcome(Chunk) # "absent" BY DEF Outcome
    <3>3. Outcome(Chunk) = "complete" => AllClassified' BY <1>3, <1>18, BatchClassifies
    <3>4. QED BY <1>1, <1>2, <2>1, <2>2, <3>1, <3>2, <3>3 DEF RunInv
  <2>5. QED BY <2>3, <2>4
<1>19. CASE ReadGone
  BY <1>1, <1>2, <1>3, <1>19 DEF ReadGone, RunInv, daemon
<1>20. CASE JudgeRun
  <2>1. /\ reader = "judge" /\ reader' = "done" /\ watcher' = watcher
        /\ Cells' = Cells /\ at' = at /\ events' = events /\ disk' = disk /\ view' = Net
        /\ accounted' = Transient(events, Net) \union Net
    BY <1>20 DEF JudgeRun, daemon, files, drain, Cells, tree
  <2>2. drained # "absent" /\ (drained = "complete" => AllClassified) /\ watcher = "off" BY <1>3, <2>1 DEF RunInv
  <2>3. ASSUME Strict, verdict' = "pass" PROVE AllClassified' /\ Transient(events, accounted)' = {}
    <3>1. drained = "complete" /\ Transient(events, Net) = {} BY <1>20, <2>2, <2>3 DEF JudgeRun
    <3>2. AllClassified BY <2>2, <3>1
    <3>3. AllClassified' BY <2>1, <3>2 DEF AllClassified, Classified, EventAt
    <3>4. accounted' = Net BY <2>1, <3>1
    <3>5. Transient(events, accounted)' = Transient(events, Net) BY <2>1, <3>4 DEF Transient
    <3>6. QED BY <3>1, <3>3, <3>5
  <2>4. QED BY <1>1, <1>2, <2>1, <2>2, <2>3 DEF RunInv
<1>21. CASE UNCHANGED vars
  BY <1>4, <1>21 DEF vars, files, drain, sweep, tree, daemon
<1>22. QED
  BY <1>6, <1>7, <1>8, <1>9, <1>10, <1>11, <1>12, <1>13, <1>14, <1>15, <1>16, <1>17, <1>18, <1>19, <1>20, <1>21
     DEF Next, ReaderStep

(* However the watcher ended, however long the log and however it is read, a *)
(* strict run that ends without a block has taken in every line of it as an  *)
(* event, and no path churned that it does not account for                   *)
(* (collectObserverFindings, drainEvents).                                   *)
THEOREM StrictRunIsComplete == Spec => []StrictRunClassifiesAll
<1>1. RunInv => StrictRunClassifiesAll
  <2> SUFFICES ASSUME RunInv, use = "run", reader = "done", Strict, verdict = "pass"
               PROVE  /\ LastNewline(Cells) = Len(Cells) /\ ~BadLines(Cells)
                      /\ Transient(Events(Cells), accounted) = {}
    BY DEF StrictRunClassifiesAll
  <2>1. Cells \in Seq(Cell) /\ AllClassified /\ Transient(events, accounted) = {} BY DEF RunInv, LogTyped
  <2>2. Events(Cells) \subseteq events /\ LastNewline(Cells) = Len(Cells) /\ ~BadLines(Cells) BY <2>1, ClassifiedIsAll
  <2>3. Transient(Events(Cells), accounted) \subseteq Transient(events, accounted) BY <2>2, TransientGrows
  <2>4. QED BY <2>1, <2>2, <2>3
<1>2. QED BY <1>1, RunStarts, RunKeeps, PTL DEF Spec

-----------------------------------------------------------------------------
(* The hosted session.                                                     *)

\* A set of positions has a first and a last one.
LEMMA Extremes ==
    ASSUME NEW n \in Nat, NEW S \in SUBSET (1 .. n), S # {}
    PROVE  Min(S) \in S /\ Max(S) \in S
<1> DEFINE Below(i) == {j \in S : j < i}
           Above(i) == {j \in S : j > i}
           F == {Below(i) : i \in S}
           G == {Above(i) : i \in S}
<1>0. IsFiniteSet(1 .. n) BY FS_Interval
<1>1. IsFiniteSet(S) BY <1>0, FS_Subset
<1>a. S \subseteq Int OBVIOUS
<1>b. F # {} /\ G # {} OBVIOUS
<1>2. F \subseteq FiniteSubsetsOf(S) /\ G \subseteq FiniteSubsetsOf(S) BY <1>1, FS_FiniteSubsetsOfFinite
<1>3. PICK X \in F : \A Y \in F : ~(<<Y, X>> \in StrictSubsetOrdering(S))
  BY <1>b, <1>2, FS_StrictSubsetOrderingWellFounded, <1>1, WFMin
<1>4. PICK Z \in G : \A Y \in G : ~(<<Y, Z>> \in StrictSubsetOrdering(S))
  BY <1>b, <1>2, FS_StrictSubsetOrderingWellFounded, <1>1, WFMin
<1>5. PICK m \in S : X = Below(m) OBVIOUS
<1>6. PICK h \in S : Z = Above(h) OBVIOUS
<1>7. ASSUME NEW k \in S, k < m PROVE FALSE
  <2>1. k \in Below(m) /\ k \notin Below(k) BY <1>a, <1>7
  <2>2. \A j \in S : j < k => j < m BY <1>a, <1>7
  <2>3. Below(k) \subseteq Below(m) /\ Below(k) # Below(m) BY <2>1, <2>2
  <2>4. Below(k) \in F /\ Below(k) \in SUBSET S /\ Below(m) \in SUBSET S OBVIOUS
  <2>5. <<Below(k), Below(m)>> \in StrictSubsetOrdering(S) BY <2>3, <2>4 DEF StrictSubsetOrdering
  <2>6. QED BY <1>3, <1>5, <2>4, <2>5
<1>8. ASSUME NEW k \in S, k > h PROVE FALSE
  <2>1. k \in Above(h) /\ k \notin Above(k) BY <1>a, <1>8
  <2>2. \A j \in S : j > k => j > h BY <1>a, <1>8
  <2>3. Above(k) \subseteq Above(h) /\ Above(k) # Above(h) BY <2>1, <2>2
  <2>4. Above(k) \in G /\ Above(k) \in SUBSET S /\ Above(h) \in SUBSET S OBVIOUS
  <2>5. <<Above(k), Above(h)>> \in StrictSubsetOrdering(S) BY <2>3, <2>4 DEF StrictSubsetOrdering
  <2>6. QED BY <1>4, <1>6, <2>4, <2>5
<1>9. \E x \in S : \A y \in S : x <= y BY <1>a, <1>7
<1>10. \E x \in S : \A y \in S : x >= y BY <1>a, <1>8
<1>11. Min(S) \in S BY <1>9 DEF Min
<1>12. Max(S) \in S BY <1>10 DEF Max
<1>13. QED BY <1>11, <1>12

\* What was proposed is a sequence of calls, what was asked names one.
Proposed == [call : Nat, is : UNION {Request[s] : s \in Scenario}, broken : BOOLEAN, deny : BOOLEAN]
Question == [id : Reply, call : Nat \ {0}]
HostedTyped == /\ scenario \in Scenario /\ proposals \in Seq(Proposed) /\ asked \in Seq(Question)
               /\ runtime \in {"connecting", "running", "quiet", "loose", "gone"}
\* A session is concluded once it was stopped, and told of once.
HostedPhases ==
    /\ concluded # Unread => runtime \in {"quiet", "loose", "gone"}
    /\ runtime # "gone" => assembled = Untold
    /\ assembled = Untold => runtime # "gone"
\* Who comes back after a block resumes.
StopsResume == stops.again /\ stops.blocked => stops.resumed
EndsAreShut == concluded # Unread /\ scenario = "stop" => concluded.semantic # "FAIL-OPEN"
\* Where no path is broken a finding is denied.
FindingsDeny == scenario \notin Breakage => \A i \in DOMAIN proposals : RealFinding(proposals[i].is) => proposals[i].deny
HostedInv == HostedTyped /\ HostedPhases /\ StopsResume /\ EndsAreShut /\ FindingsDeny /\ HostedSound

\* A session that has not begun has said nothing.
LEMMA HostedStarts == HostedInit => HostedInv
BY DEF HostedInit, HostedInv, HostedTyped, HostedPhases, StopsResume, EndsAreShut, FindingsDeny, HostedSound, ProvenIsEnforced, StopIsBound,
       LandedIsOpen, VerdictIsWhole, Untold, Unset

\* The proposal a scenario is judged by was met, and one the break is judged by met the break.
LEMMA MetIsProposal ==
    ASSUME HostedTyped
    PROVE  /\ ProtectedProposal # 0 => ProtectedProposal \in DOMAIN proposals
           /\ LastBroken # 0 => LastBroken \in DOMAIN proposals /\ proposals[LastBroken].broken
<1> DEFINE I == {i \in 1 .. Len(proposals) : MutatesProtected(proposals[i].is) /\ proposals[i].is.kind = scenario}
           J == {i \in 1 .. Len(proposals) : MutatesProtected(proposals[i].is)}
           K == {i \in 1 .. Len(proposals) : proposals[i].deny}
           B == {i \in 1 .. Len(proposals) : proposals[i].broken}
           expected == IF I # {} THEN Min(I) ELSE 0
           structural == IF J # {} THEN Min(J) ELSE 0
           denied == IF K # {} THEN Min(K) ELSE 0
<1>1. Len(proposals) \in Nat /\ DOMAIN proposals = 1 .. Len(proposals) BY DEF HostedTyped
<1>2. proposals # <<>> => Len(proposals) # 0 BY DEF HostedTyped
<1>3. ProtectedProposal = IF expected # 0 THEN expected ELSE IF structural # 0 THEN structural
                          ELSE IF denied # 0 THEN denied ELSE IF proposals = <<>> THEN 0 ELSE 1
  BY DEF ProtectedProposal, SelectInSeq, FirstOf
<1>4. LastBroken = IF B # {} THEN Max(B) ELSE 0 BY DEF LastBroken, SelectLastInSeq
<1>5. (I # {} => Min(I) \in I) /\ (J # {} => Min(J) \in J) /\ (K # {} => Min(K) \in K) /\ (B # {} => Max(B) \in B)
  BY <1>1, Extremes
<1>6. QED BY <1>1, <1>2, <1>3, <1>4, <1>5

\* A resolution is of somebody's question.
LEMMA ResolvedIsAsked ==
    ASSUME HostedTyped, NEW c, PermissionResolution(c) = "denied"
    PROVE  c # NoCall
<1> DEFINE A == {i \in 1 .. Len(asked) : asked[i].call = c}
           about == IF A # {} THEN Min(A) ELSE 0
<1>1. SelectInSeq(asked, LAMBDA a : a.call = c) = about BY DEF SelectInSeq
<1>2. about # 0 BY <1>1 DEF PermissionResolution, Unset
<1>3. Len(asked) \in Nat BY DEF HostedTyped
<1>4. A # {} => Min(A) \in A BY <1>3, Extremes
<1>5. about \in 1 .. Len(asked) /\ asked[about].call = c BY <1>2, <1>4
<1>6. asked \in Seq(Question) BY DEF HostedTyped
<1> HIDE DEF about
<1>7. asked[about] \in Question BY <1>5, <1>6
<1>8. QED BY <1>5, <1>7 DEF Question, NoCall

\* What a call's dispatch comes to.
LEMMA DispatchSays ==
    ASSUME HostedTyped, NEW c
    PROVE  /\ Mutated => ClassifyProtectedDispatch(c) = "dispatched"
           /\ ClassifyProtectedDispatch(c) = "withheld" => ~Mutated /\ c # NoCall
           /\ ~Mutated /\ AuthoritativeOutcomes(c) = {"success", "error"} => ClassifyProtectedDispatch(c) = "unknown"
           /\ ClassifyProtectedDispatch(c) \in {"dispatched", "withheld", "unknown"}
<1> DEFINE told == AuthoritativeOutcomes(c)
           landed == Mutated \/ told = {"success"}
           spare == IF "success" \notin told /\ PermissionResolution(c) = "denied" THEN "withheld" ELSE "unknown"
<1>1. ClassifyProtectedDispatch(c) = IF landed THEN "dispatched" ELSE spare
  BY DEF ClassifyProtectedDispatch
<1>2. told = {"success", "error"} => told # {"success"} /\ "success" \in told OBVIOUS
<1>3. PermissionResolution(c) = "denied" => c # NoCall BY ResolvedIsAsked
<1>4. QED BY <1>1, <1>2, <1>3

\* What a denial is called.
LEMMA DenialSays ==
    ASSUME HostedTyped, scenario \in {"shell", "write"}
    PROVE  LET i == ProtectedProposal IN
           /\ PreDeny = "PROVEN" =>
                /\ i # 0 /\ ~Mutated /\ runtime = "quiet" /\ proposals[i].call # NoCall
                /\ RealFinding(proposals[i].is) /\ proposals[i].is.kind = scenario /\ Continued
           /\ PreDeny # "FAIL-CLOSED"
           /\ i # 0 /\ Mutated /\ ~LetThrough(i) => PreDeny = "FAIL-OPEN"
           /\ i # 0 /\ ~Mutated /\ AuthoritativeOutcomes(proposals[i].call) = {"success", "error"} =>
                PreDeny \notin {"PROVEN", "FAIL-OPEN"}
           /\ PreDeny \in {"PROVEN", "INCOMPLETE", "UNSUPPORTED", "FAIL-OPEN", "INCONCLUSIVE"}
<1> DEFINE i == ProtectedProposal
           c == IF i = 0 THEN NoCall ELSE proposals[i].call
           plain == ClassifyPreDispatchDeny(i)
           shown == i # 0 /\ EvaluateCompleted(proposals[i].is) /\ RealFinding(proposals[i].is) /\ Continued
           amended == IF LetThrough(i) THEN "UNSUPPORTED"
                    ELSE IF plain # "FAIL-OPEN" /\ i # 0 /\ proposals[i].is.kind # scenario THEN "UNSUPPORTED"
                    ELSE IF plain = "PROVEN" /\ scenario = "shell" /\ ~StrongBind(proposals[i].is) THEN "INCOMPLETE"
                    ELSE plain
<1>1. plain = IF Mutated \/ ClassifyProtectedDispatch(c) = "dispatched" THEN "FAIL-OPEN"
             ELSE IF shown /\ ClassifyProtectedDispatch(c) = "withheld" THEN "PROVEN" ELSE "INCOMPLETE"
  BY DEF ClassifyPreDispatchDeny
<1>2. PreDeny = Settled(amended) BY DEF PreDeny
<1>3. PreDeny = IF runtime # "quiet" /\ amended \in {"PROVEN", "FAIL-CLOSED"}
                THEN IF amended = "PROVEN" THEN "INCOMPLETE" ELSE "INCONCLUSIVE" ELSE amended
  BY <1>2 DEF Settled
<1>4. /\ Mutated => ClassifyProtectedDispatch(c) = "dispatched"
      /\ ClassifyProtectedDispatch(c) = "withheld" => ~Mutated /\ c # NoCall
      /\ ~Mutated /\ AuthoritativeOutcomes(c) = {"success", "error"} => ClassifyProtectedDispatch(c) = "unknown"
  BY DispatchSays
<1> HIDE DEF i
<1>5. amended = "PROVEN" => plain = "PROVEN" /\ (i # 0 => proposals[i].is.kind = scenario) BY <1>1
<1>6. amended = "FAIL-OPEN" => plain = "FAIL-OPEN" BY <1>1
<1>7. plain = "FAIL-OPEN" /\ ~LetThrough(i) => amended = "FAIL-OPEN" OBVIOUS
<1>8. amended \in {"PROVEN", "INCOMPLETE", "UNSUPPORTED", "FAIL-OPEN"} BY <1>1
<1>9. plain = "PROVEN" => shown /\ ~Mutated /\ c # NoCall BY <1>1, <1>4
<1>10. i # 0 /\ ~Mutated /\ AuthoritativeOutcomes(proposals[i].call) = {"success", "error"} => plain = "INCOMPLETE"
  BY <1>1, <1>4
<1> HIDE DEF plain, amended
<1>11. QED BY <1>1, <1>3, <1>5, <1>6, <1>7, <1>8, <1>9, <1>10 DEF i

\* What a broken path is called.
LEMMA BreakSays ==
    ASSUME HostedTyped
    PROVE  LET i == LastBroken IN
           /\ BrokenPath = "FAIL-CLOSED" => i # 0 /\ ~Mutated /\ runtime = "quiet" /\ proposals[i].call # NoCall /\ scenario # "timeout"
           /\ BrokenPath # "PROVEN"
           /\ i # 0 /\ Mutated => BrokenPath = "FAIL-OPEN"
           /\ i # 0 /\ ~Mutated /\ AuthoritativeOutcomes(proposals[i].call) = {"success", "error"} => BrokenPath = "INCONCLUSIVE"
           /\ BrokenPath \in {"FAIL-CLOSED", "FAIL-OPEN", "INCONCLUSIVE"}
<1> DEFINE i == LastBroken
           does == ClassifyProtectedDispatch(proposals[i].call)
           said == ClassifyDecisionPathFailure(i)
           kept == IF scenario = "timeout" /\ said # "FAIL-OPEN" THEN "INCONCLUSIVE" ELSE said
<1>1. /\ Mutated => does = "dispatched"
      /\ does = "withheld" => ~Mutated /\ proposals[i].call # NoCall
      /\ ~Mutated /\ AuthoritativeOutcomes(proposals[i].call) = {"success", "error"} => does = "unknown"
      /\ does \in {"dispatched", "withheld", "unknown"}
  BY DispatchSays
<1>2. said = IF i = 0 THEN "INCONCLUSIVE"
             ELSE IF does = "dispatched" THEN "FAIL-OPEN" ELSE IF does = "withheld" THEN "FAIL-CLOSED" ELSE "INCONCLUSIVE"
  BY <1>1 DEF ClassifyDecisionPathFailure
<1>3. BrokenPath = Settled(kept) BY DEF BrokenPath
<1>4. BrokenPath = IF runtime # "quiet" /\ kept \in {"PROVEN", "FAIL-CLOSED"}
                   THEN IF kept = "PROVEN" THEN "INCOMPLETE" ELSE "INCONCLUSIVE" ELSE kept
  BY <1>3 DEF Settled
<1> HIDE DEF i, does, said
<1>5. kept = "FAIL-CLOSED" => said = "FAIL-CLOSED" /\ scenario # "timeout" OBVIOUS
<1>6. said = "FAIL-OPEN" => kept = "FAIL-OPEN" OBVIOUS
<1>7. kept \in {"FAIL-CLOSED", "FAIL-OPEN", "INCONCLUSIVE"} BY <1>2
<1>8. said = "INCONCLUSIVE" => kept = "INCONCLUSIVE" OBVIOUS
<1> HIDE DEF kept
<1>9. QED BY <1>1, <1>2, <1>4, <1>5, <1>6, <1>7, <1>8 DEF i, does

\* What a scenario is concluded as is what it showed.
LEMMA ConcludedHolds ==
    ASSUME HostedInv, Conclude
    PROVE  HostedSound' /\ EndsAreShut' /\ concluded' # Unread
<1> DEFINE broken == scenario \in Breakage
           met == IF broken THEN LastBroken ELSE ProtectedProposal
<1>1. HostedTyped /\ runtime \in {"quiet", "loose"} /\ assembled = Untold
  BY DEF HostedInv, HostedPhases, Conclude
<1>2. concluded' = [semantic |-> Semantic, mutated |-> Mutated, met |-> met] BY DEF Conclude
<1>3. /\ scenario' = scenario /\ protected' = protected /\ proposals' = proposals /\ tape' = tape /\ asked' = asked
      /\ answered' = answered /\ stops' = stops /\ runtime' = runtime /\ assembled' = assembled
  BY DEF Conclude
<1>4. scenario \in {"shell", "write", "stop"} \/ broken BY <1>1 DEF HostedTyped, Scenario
<1>5. broken => scenario \notin {"shell", "write", "stop"} BY HostedAssumption DEF Break
<1>6. /\ Mutated' <=> Mutated
      /\ Continued' <=> Continued
      /\ \A c : AuthoritativeOutcomes(c)' = AuthoritativeOutcomes(c)
      /\ \A i : LetThrough(i)' <=> LetThrough(i)
  BY <1>3 DEF Mutated, Continued, AuthoritativeOutcomes, LetThrough
<1>7. concluded'.semantic = Semantic /\ concluded'.mutated = Mutated /\ concluded'.met = met BY <1>2
<1>8. runtime = "quiet" => ~Alive' BY <1>3 DEF Alive
<1> HIDE DEF met
<1>9. CASE scenario \in {"shell", "write"}
  <2>1. ~broken /\ scenario # "stop" /\ Semantic = PreDeny /\ met = ProtectedProposal BY <1>5, <1>9 DEF Semantic, met
  <2>2. met # 0 => met \in DOMAIN proposals BY <1>1, <2>1, MetIsProposal
  <2>3. /\ PreDeny = "PROVEN" =>
             /\ met # 0 /\ ~Mutated /\ runtime = "quiet" /\ proposals[met].call # NoCall
             /\ RealFinding(proposals[met].is) /\ proposals[met].is.kind = scenario /\ Continued
        /\ PreDeny # "FAIL-CLOSED"
        /\ met # 0 /\ Mutated /\ ~LetThrough(met) => PreDeny = "FAIL-OPEN"
        /\ met # 0 /\ ~Mutated /\ AuthoritativeOutcomes(proposals[met].call) = {"success", "error"} =>
             PreDeny \notin {"PROVEN", "FAIL-OPEN"}
        /\ PreDeny \in {"PROVEN", "INCOMPLETE", "UNSUPPORTED", "FAIL-OPEN", "INCONCLUSIVE"}
    BY <1>1, <1>9, <2>1, DenialSays
  <2>4. PreDeny = "PROVEN" => proposals[met].deny
    <3>1. ASSUME PreDeny = "PROVEN" PROVE proposals[met].deny
      <4>1. met \in DOMAIN proposals /\ RealFinding(proposals[met].is) BY <2>2, <2>3, <3>1
      <4>2. QED BY <2>1, <4>1 DEF HostedInv, FindingsDeny
    <3>2. QED BY <3>1
  <2>5. ProvenIsEnforced' BY <1>3, <1>6, <1>7, <1>8, <2>1, <2>3, <2>4 DEF ProvenIsEnforced
  <2>6. LandedIsOpen' BY <1>3, <1>6, <1>7, <2>1, <2>3 DEF LandedIsOpen
  <2>7. StopIsBound' /\ VerdictIsWhole' /\ EndsAreShut' BY <1>1, <1>3, <2>1 DEF StopIsBound, VerdictIsWhole, EndsAreShut
  <2>8. concluded' # Unread BY <1>7, <2>1, <2>3 DEF Unread, Unset
  <2>9. QED BY <2>5, <2>6, <2>7, <2>8 DEF HostedSound
<1>10. CASE broken
  <2>1. scenario # "stop" /\ Semantic = BrokenPath /\ met = LastBroken BY <1>5, <1>10 DEF Semantic, met
  <2>2. met # 0 => met \in DOMAIN proposals /\ proposals[met].broken BY <1>1, <2>1, MetIsProposal
  <2>3. /\ BrokenPath = "FAIL-CLOSED" => met # 0 /\ ~Mutated /\ runtime = "quiet" /\ proposals[met].call # NoCall /\ scenario # "timeout"
        /\ BrokenPath # "PROVEN"
        /\ met # 0 /\ Mutated => BrokenPath = "FAIL-OPEN"
        /\ met # 0 /\ ~Mutated /\ AuthoritativeOutcomes(proposals[met].call) = {"success", "error"} => BrokenPath = "INCONCLUSIVE"
        /\ BrokenPath \in {"FAIL-CLOSED", "FAIL-OPEN", "INCONCLUSIVE"}
    BY <1>1, <2>1, BreakSays
  <2>4. ProvenIsEnforced' BY <1>3, <1>6, <1>7, <1>8, <2>1, <2>2, <2>3 DEF ProvenIsEnforced
  <2>5. LandedIsOpen' BY <1>3, <1>6, <1>7, <2>1, <2>3 DEF LandedIsOpen
  <2>6. StopIsBound' /\ VerdictIsWhole' /\ EndsAreShut' BY <1>1, <1>3, <2>1 DEF StopIsBound, VerdictIsWhole, EndsAreShut
  <2>7. concluded' # Unread BY <1>7, <2>1, <2>3 DEF Unread, Unset
  <2>8. QED BY <2>4, <2>5, <2>6, <2>7 DEF HostedSound
<1>11. CASE scenario = "stop"
  <2>1. Semantic = EndOfTurn BY <1>11 DEF Semantic
  <2>2. /\ EndOfTurn \in {"PROVEN", "INCOMPLETE"}
        /\ EndOfTurn = "PROVEN" => stops.again /\ stops.blocked /\ stops.first = "landed" /\ runtime = "quiet"
    BY DEF EndOfTurn, Settled
  <2>3. StopIsBound' BY <1>3, <1>7, <2>1, <2>2 DEF StopIsBound, HostedInv, StopsResume
  <2>4. ProvenIsEnforced' /\ LandedIsOpen' /\ VerdictIsWhole' BY <1>1, <1>3, <1>11 DEF ProvenIsEnforced, LandedIsOpen, VerdictIsWhole
  <2>5. EndsAreShut' /\ concluded' # Unread BY <1>7, <2>1, <2>2 DEF EndsAreShut, Unread, Unset
  <2>6. QED BY <2>3, <2>4, <2>5 DEF HostedSound
<1>12. QED BY <1>4, <1>9, <1>10, <1>11

\* What is told of a run is told of all its rows.
LEMMA ToldIsWhole ==
    ASSUME HostedInv, Assemble
    PROVE  VerdictIsWhole' /\ assembled' # Untold
<1> PICK others \in Company, held \in BOOLEAN, m \in Measured :
      assembled' = [rows |-> Rows(others), kept |-> held, of |-> m,
                    overall |-> FinalizeQualification(BuildSpikeMatrix(Rows(others), ProvenanceGate(m)), held)]
  BY DEF Assemble
<1> DEFINE rows == Rows(others)
           path == DecisionPath(rows)
           matrix == BuildSpikeMatrix(rows, ProvenanceGate(m))
           ended == {rows[s].semantic : s \in Scenario}
<1>1. assembled'.rows = rows /\ assembled'.kept = held /\ assembled'.of = m
      /\ assembled'.overall = IF held THEN matrix ELSE "INSUFFICIENT"
  BY DEF FinalizeQualification
<1>2. concluded # Unread BY DEF Assemble
<1>3. rows["stop"].semantic # "FAIL-OPEN" BY <1>2, CompanyAssumption DEF Rows, Scenario, HostedInv, EndsAreShut
<1>4. matrix = IF "FAIL-OPEN" \in {rows["shell"].semantic, rows["write"].semantic, path} THEN "INELIGIBLE"
               ELSE IF ~ProvenanceGate(m) THEN "INSUFFICIENT"
               ELSE IF (\A s \in {"shell", "write", "stop"} : rows[s].semantic = "PROVEN") /\ path = "FAIL-CLOSED"
               THEN "FULL" ELSE "PARTIAL"
  BY DEF BuildSpikeMatrix
<1>5. \A s \in Breakage : rows[s].semantic = "FAIL-OPEN" => path = "FAIL-OPEN" BY DEF DecisionPath, Ran, Scenario
<1>6. ASSUME path = "FAIL-CLOSED", NEW s \in Breakage \cap Ran(rows)
      PROVE  rows[s].semantic = "FAIL-CLOSED" \/ (s = "timeout" /\ rows[s].met)
  BY <1>6 DEF DecisionPath, Intrinsic
<1> HIDE DEF rows, path, matrix
<1>7. "FAIL-OPEN" \in ended => matrix = "INELIGIBLE"
  <2> SUFFICES ASSUME NEW s \in Scenario, rows[s].semantic = "FAIL-OPEN" PROVE matrix = "INELIGIBLE"
    OBVIOUS
  <2>1. s \in Breakage => path = "FAIL-OPEN" BY <1>5
  <2>2. s \in {"shell", "write"} \/ s \in Breakage BY <1>3 DEF Scenario
  <2>3. QED BY <1>4, <2>1, <2>2
<1>8. ASSUME matrix = "FULL", NEW s \in Ran(rows)
      PROVE  rows[s].semantic \in {"PROVEN", "FAIL-CLOSED"} \/ (s = "timeout" /\ rows[s].met)
  <2>1. (\A t \in {"shell", "write", "stop"} : rows[t].semantic = "PROVEN") /\ path = "FAIL-CLOSED" BY <1>4, <1>8
  <2>2. s \in {"shell", "write", "stop"} \/ s \in Breakage \cap Ran(rows) BY DEF Ran, Scenario
  <2>3. QED BY <1>6, <2>1, <2>2
<1>9. matrix = "FULL" => ProvenanceGate(m) BY <1>4
<1>10. assembled' # Untold BY <1>1, <1>4 DEF Untold, Unset
<1>11. assembled'.overall = "FULL" => held /\ matrix = "FULL" BY <1>1
<1>12. held => assembled'.overall = matrix BY <1>1
<1> DEFINE o == assembled'.overall
           e == {assembled'.rows[s].semantic : s \in Scenario}
<1>13. e = ended BY <1>1
<1>14. held /\ "FAIL-OPEN" \in e => o = "INELIGIBLE" BY <1>7, <1>12, <1>13
<1>15. ASSUME o = "FULL", NEW s \in Ran(assembled'.rows)
       PROVE  assembled'.rows[s].semantic \in {"PROVEN", "FAIL-CLOSED"} \/ (s = "timeout" /\ assembled'.rows[s].met)
  <2>1. s \in Ran(rows) /\ matrix = "FULL" BY <1>1, <1>11, <1>15
  <2>2. QED BY <1>1, <1>8, <2>1
<1>16. o = "FULL" => assembled'.kept /\ ProvenanceGate(assembled'.of) BY <1>1, <1>9, <1>11
<1>17. (Ran(assembled.rows))' = Ran(assembled'.rows) /\ ProvenanceGate(assembled.of)' = ProvenanceGate(assembled'.of)
  BY DEF Ran, ProvenanceGate
<1> HIDE DEF o, e
<1>18. VerdictIsWhole' BY <1>1, <1>14, <1>15, <1>16, <1>17 DEF VerdictIsWhole, o, e
<1>19. QED BY <1>10, <1>18

\* Before a session is concluded nothing is said of it.
LEMMA NothingSaidYet == concluded' = Unread => HostedSound' /\ EndsAreShut'
BY DEF HostedSound, ProvenIsEnforced, StopIsBound, LandedIsOpen, VerdictIsWhole, EndsAreShut

\* Every event of a session, expected or not, keeps it.
LEMMA HostedKeeps == HostedInv /\ [HostedNext]_hostedVars => HostedInv'
<1> SUFFICES ASSUME HostedInv, [HostedNext]_hostedVars PROVE HostedInv'
  OBVIOUS
<1> USE DEF HostedInv
<1>1. CASE UNCHANGED hostedVars
  BY <1>1 DEF hostedVars, HostedTyped, HostedPhases, StopsResume, EndsAreShut, FindingsDeny, HostedSound, ProvenIsEnforced, StopIsBound,
              LandedIsOpen, VerdictIsWhole, Mutated, Alive, Continued, LetThrough, AuthoritativeOutcomes
<1>2. CASE Join \/ NoRun
  <2>1. concluded' = Unread /\ runtime = "connecting" BY <1>2 DEF Join, NoRun, HostedPhases
  <2>2. HostedTyped' /\ HostedPhases' /\ StopsResume' /\ FindingsDeny'
    BY <1>2, <2>1 DEF Join, NoRun, HostedTyped, HostedPhases, StopsResume, FindingsDeny, Untold, Unset
  <2>3. QED BY <2>1, <2>2, NothingSaidYet
<1>3. CASE Decide
  <2>1. concluded' = Unread /\ runtime' = "running" BY <1>3 DEF Decide, Heard, HostedPhases
  <2>2. PICK r \in Request[scenario], c \in {NoCall, Len(proposals) + 1}, claim \in {"rejected", "let"} :
          proposals' = Append(proposals, [call |-> c, is |-> r, broken |-> BrokenFor(r),
                                deny |-> IF BrokenFor(r) THEN scenario = "identity" /\ claim = "rejected" ELSE Denies(r)])
    BY <1>3 DEF Decide
  <2> DEFINE p == [call |-> c, is |-> r, broken |-> BrokenFor(r),
                   deny |-> IF BrokenFor(r) THEN scenario = "identity" /\ claim = "rejected" ELSE Denies(r)]
  <2>3. c \in Nat BY DEF HostedTyped, NoCall
  <2>4. r \in UNION {Request[s] : s \in Scenario} BY DEF HostedTyped
  <2>5. BrokenFor(r) \in BOOLEAN /\ Denies(r) \in BOOLEAN BY DEF BrokenFor, Denies
  <2>6. p \in Proposed BY <2>3, <2>4, <2>5 DEF Proposed
  <2>7. scenario \notin Breakage => (RealFinding(r) => p.deny) BY DEF BrokenFor, RealFinding, Denies
  <2>8. p.is = r OBVIOUS
  <2> HIDE DEF p
  <2>9. proposals' \in Seq(Proposed) BY <2>2, <2>6 DEF HostedTyped, p
  <2>10. \A i \in DOMAIN proposals' : proposals'[i] = p \/ (i \in DOMAIN proposals /\ proposals'[i] = proposals[i])
    BY <2>2, <2>6 DEF HostedTyped, p
  <2>11. HostedTyped' /\ HostedPhases' /\ StopsResume' BY <1>3, <2>1, <2>9 DEF Decide, Heard, HostedTyped, HostedPhases, StopsResume
  <2>12. FindingsDeny' BY <1>3, <2>7, <2>8, <2>10 DEF Decide, FindingsDeny
  <2>13. QED BY <2>1, <2>11, <2>12, NothingSaidYet
<1>4. CASE Completion \/ PermissionCompleted
  <2>1. concluded' = Unread BY <1>4 DEF Completion, PermissionCompleted, Heard, HostedPhases
  <2>2. HostedTyped' /\ HostedPhases' /\ StopsResume' /\ FindingsDeny'
    BY <1>4 DEF Completion, PermissionCompleted, HostedTyped, HostedPhases, StopsResume, FindingsDeny
  <2>3. QED BY <2>1, <2>2, NothingSaidYet
<1>5. CASE PermissionRequested
  <2>1. concluded' = Unread BY <1>5 DEF PermissionRequested, Heard, HostedPhases
  <2>2. PICK q \in Reply, c \in Known :
          asked' = IF \E i \in DOMAIN asked : asked[i].id = q
                   THEN [i \in DOMAIN asked |-> IF asked[i].id = q THEN [id |-> q, call |-> c] ELSE asked[i]]
                   ELSE Append(asked, [id |-> q, call |-> c])
    BY <1>5 DEF PermissionRequested
  <2>3. Len(proposals) + 1 \in Nat /\ MaxCalls \in Nat BY HostedAssumption DEF HostedTyped
  <2> DEFINE S == {Len(proposals) + 1, MaxCalls}
  <2>a. \E x \in S : \A y \in S : x <= y BY <2>3
  <2>b. Min(S) \in S BY <2>a DEF Min
  <2>4. Min({Len(proposals) + 1, MaxCalls}) \in Nat BY <2>3, <2>b
  <2>5. c \in Nat \ {0} BY <2>4 DEF Known
  <2>6. [id |-> q, call |-> c] \in Question BY <2>5 DEF Question
  <2>7. asked \in Seq(Question) BY DEF HostedTyped
  <2>8. asked' \in Seq(Question) BY <2>2, <2>6, <2>7
  <2>9. HostedTyped' /\ HostedPhases' /\ StopsResume' /\ FindingsDeny'
    BY <1>5, <2>8 DEF PermissionRequested, HostedTyped, HostedPhases, StopsResume, FindingsDeny
  <2>10. QED BY <2>1, <2>9, NothingSaidYet
<1>6. CASE Touch
  <2>1. /\ scenario' = scenario /\ proposals' = proposals /\ tape' = tape /\ asked' = asked /\ stops' = stops
        /\ runtime' = runtime /\ concluded' = concluded /\ assembled' = assembled /\ Alive
    BY <1>6 DEF Touch
  <2>2. HostedTyped' /\ HostedPhases' /\ StopsResume' /\ FindingsDeny' /\ EndsAreShut'
    BY <2>1 DEF HostedTyped, HostedPhases, StopsResume, FindingsDeny, EndsAreShut
  <2>3. \A c : AuthoritativeOutcomes(c)' = AuthoritativeOutcomes(c) BY <2>1 DEF AuthoritativeOutcomes
  <2>4. \A i : LetThrough(i)' <=> LetThrough(i) BY <2>1 DEF LetThrough
  <2>5. ProvenIsEnforced' BY <2>1 DEF HostedSound, ProvenIsEnforced
  <2>6. StopIsBound' /\ VerdictIsWhole' BY <2>1 DEF HostedSound, StopIsBound, VerdictIsWhole, Ran, ProvenanceGate
  <2>7. LandedIsOpen' BY <2>1, <2>3, <2>4 DEF HostedSound, LandedIsOpen
  <2>8. QED BY <2>2, <2>5, <2>6, <2>7 DEF HostedSound
<1>7. CASE AgentStop
  <2>1. concluded' = Unread BY <1>7 DEF AgentStop, Heard, HostedPhases
  <2>2. HostedTyped' /\ HostedPhases' /\ FindingsDeny'
    BY <1>7 DEF AgentStop, HostedTyped, HostedPhases, FindingsDeny
  <2>3. PICK reentry \in BOOLEAN, block \in BOOLEAN :
          /\ ~reentry => ~stops.again
          /\ stops'.blocked = (stops.blocked \/ (block /\ ~reentry))
          /\ stops'.again = (stops.again \/ reentry)
          /\ stops'.resumed = (stops.resumed \/ (reentry /\ stops.blocked))
    <3>1. PICK reentry \in BOOLEAN, names \in SUBSET {"target", "elsewhere"} :
            /\ ~reentry => ~stops.again
            /\ stops' = [first |-> IF ~(~reentry /\ stops.first = Unset) THEN stops.first
                                  ELSE IF protected # "start" /\ names # {} /\ "target" \in names THEN "landed" ELSE "unbound",
                         swept |-> stops.swept \/ names # {},
                         blocked |-> stops.blocked \/ (names # {} /\ ~reentry),
                         again |-> stops.again \/ reentry,
                         resumed |-> stops.resumed \/ (reentry /\ stops.blocked)]
      BY <1>7 DEF AgentStop
    <3>2. (names # {}) \in BOOLEAN OBVIOUS
    <3>3. QED BY <3>1, <3>2
  <2>4. StopsResume' BY <2>3 DEF StopsResume
  <2>5. QED BY <2>1, <2>2, <2>4, NothingSaidYet
<1>8. CASE Quiesce
  <2>1. concluded' = Unread BY <1>8 DEF Quiesce, HostedPhases
  <2>2. HostedTyped' /\ HostedPhases' /\ StopsResume' /\ FindingsDeny'
    BY <1>8 DEF Quiesce, HostedTyped, HostedPhases, StopsResume, FindingsDeny
  <2>3. QED BY <2>1, <2>2, NothingSaidYet
<1>9. CASE Conclude
  <2>1. HostedSound' /\ EndsAreShut' /\ concluded' # Unread BY <1>9, ConcludedHolds
  <2>2. HostedTyped' /\ HostedPhases' /\ StopsResume' /\ FindingsDeny'
    BY <1>9 DEF Conclude, HostedTyped, HostedPhases, StopsResume, FindingsDeny
  <2>3. QED BY <2>1, <2>2
<1>10. CASE Assemble
  <2>1. VerdictIsWhole' /\ assembled' # Untold BY <1>10, ToldIsWhole
  <2>2. runtime' = "gone" /\ scenario' = scenario /\ proposals' = <<>> /\ asked' = <<>> /\ stops' = stops /\ concluded' = concluded
    BY <1>10 DEF Assemble
  <2>3. HostedTyped' /\ HostedPhases' /\ StopsResume' /\ FindingsDeny' /\ EndsAreShut'
    BY <2>1, <2>2 DEF HostedTyped, HostedPhases, StopsResume, FindingsDeny, EndsAreShut
  <2>4. ProvenIsEnforced' /\ LandedIsOpen' BY <2>1 DEF ProvenIsEnforced, LandedIsOpen
  <2>5. StopIsBound' BY <2>2 DEF HostedSound, StopIsBound
  <2>6. QED BY <2>1, <2>3, <2>4, <2>5 DEF HostedSound
<1>11. QED BY <1>1, <1>2, <1>3, <1>4, <1>5, <1>6, <1>7, <1>8, <1>9, <1>10 DEF HostedNext

\* Whatever the hosted runtime sends, in whatever order, and however often: what
\* a scenario is called PROVEN or FAIL-CLOSED of was met by the host, withheld by the
\* runtime and is over (copilot-sdk-scenarios.mjs).
THEOREM HostedIsSound == SpecAll => []HostedSound
<1>1. InitAll => HostedInv BY HostedStarts DEF InitAll
<1>2. HostedInv /\ [NextAll]_all => HostedInv'
  <2> SUFFICES ASSUME HostedInv, [NextAll]_all PROVE HostedInv' OBVIOUS
  <2>1. [HostedNext]_hostedVars BY DEF NextAll, all
  <2>2. QED BY <2>1, HostedKeeps
<1>3. HostedInv => HostedSound BY DEF HostedInv
<1>4. QED BY <1>1, <1>2, <1>3, PTL DEF SpecAll

-----------------------------------------------------------------------------
(* The probes.                                                             *)

\* What a concatenation is.
LEMMA Joined ==
    ASSUME NEW S, NEW s \in Seq(S), NEW t \in Seq(S)
    PROVE  /\ s \o t \in Seq(S) /\ Len(s \o t) = Len(s) + Len(t)
           /\ \A i \in 1 .. Len(s) : (s \o t)[i] = s[i]
           /\ \A i \in 1 .. Len(t) : (s \o t)[Len(s) + i] = t[i]
OBVIOUS

Kinds == {"mutation", "transport", "detached", "stop", "identity"}
\* Every case of a plan has a kind, and a plan has the Stop case.
LEMMA PlanHasKinds ==
    ASSUME flavour \in Flavour
    PROVE  /\ Len(Plan) \in Nat /\ DOMAIN Plan = 1 .. Len(Plan)
           /\ \A n \in DOMAIN Plan : Plan[n].kind \in Kinds
           /\ \E n \in DOMAIN Plan : Plan[n].kind = "stop"
<1> DEFINE M == {Case("mutation", Mutation[i], "none") : i \in DOMAIN Mutation}
           T == {Case("transport", {Spec1}, Transport[i]) : i \in DOMAIN Transport}
           L == {Case("detached", {Spec1}, "none"), Case("stop", {Spec1}, "none"), Case("identity", {}, "none")}
           All == M \cup T \cup L
           I == <<Case("identity", {}, "none")>>
<1>1. \A c \in All : c.kind \in Kinds BY DEF Case, Kinds
<1>2. DOMAIN Mutation = 1 .. Len(Mutation) /\ Len(Mutation) \in Nat BY ProbeAssumption
<1>3. DOMAIN Transport = 1 .. Len(Transport) /\ Len(Transport) \in Nat BY ProbeAssumption
<1>4. MutationCases \in Seq(All) /\ Len(MutationCases) = Len(Mutation) BY <1>2 DEF MutationCases
<1>5. TransportCases \in Seq(All) /\ Len(TransportCases) = Len(Transport) BY <1>3 DEF TransportCases
<1>6. Lifecycle \in Seq(All) /\ Len(Lifecycle) = 2 /\ Lifecycle[2].kind = "stop" BY DEF Lifecycle, Case
<1>7. I \in Seq(All) /\ Len(I) = 1 OBVIOUS
<1> HIDE DEF All, I
<1>8. Plan = IF flavour = "copilot" THEN MutationCases \o TransportCases \o Lifecycle \o I
             ELSE MutationCases \o Lifecycle \o TransportCases \o I
  BY DEF Plan, I
<1>9. Plan \in Seq(All) BY <1>4, <1>5, <1>6, <1>7, <1>8
<1>10. CASE flavour = "copilot"
  <2> DEFINE P == MutationCases \o TransportCases
             k == Len(Mutation) + Len(Transport) + 2
  <2>1. P \in Seq(All) /\ Len(P) = Len(Mutation) + Len(Transport) BY <1>4, <1>5
  <2>a. 2 \in 1 .. Len(Lifecycle) BY <1>6
  <2> HIDE DEF P, k
  <2>b. /\ (P \o Lifecycle) \in Seq(All) /\ Len(P \o Lifecycle) = Len(P) + 2
        /\ (P \o Lifecycle)[Len(P) + 2] = Lifecycle[2]
    BY <1>6, <2>1, <2>a, Joined
  <2> USE DEF P, k
  <2>2. (P \o Lifecycle) \in Seq(All) /\ Len(P \o Lifecycle) = k /\ (P \o Lifecycle)[k] = Lifecycle[2] BY <2>1, <2>b
  <2>3. k \in DOMAIN Plan /\ Plan[k] = Lifecycle[2] BY <1>2, <1>3, <1>7, <1>8, <1>10, <2>2
  <2>4. QED BY <1>1, <1>6, <1>9, <2>3
<1>11. CASE flavour # "copilot"
  <2> DEFINE P == MutationCases \o Lifecycle
             k == Len(Mutation) + 2
  <2>a. 2 \in 1 .. Len(Lifecycle) BY <1>6
  <2>b. P \in Seq(All) /\ Len(P) = Len(MutationCases) + 2 /\ P[Len(MutationCases) + 2] = Lifecycle[2]
    BY <1>4, <1>6, <2>a, Joined
  <2>1. P \in Seq(All) /\ Len(P) = k /\ P[k] = Lifecycle[2] BY <1>4, <2>b
  <2>2. (P \o TransportCases) \in Seq(All) /\ k \in 1 .. Len(P \o TransportCases) /\ (P \o TransportCases)[k] = Lifecycle[2]
    BY <1>2, <1>3, <1>5, <2>1
  <2>3. k \in DOMAIN Plan /\ Plan[k] = Lifecycle[2] BY <1>2, <1>3, <1>7, <1>8, <1>11, <2>2
  <2>4. QED BY <1>1, <1>6, <1>9, <2>3
<1>12. QED BY <1>10, <1>11

\* An arm runs a case that is run; traces of a command are of a case that leaves them; a second
\* sweep of a turn follows one that blocked.
ArmInv ==
    /\ flavour \in Flavour /\ number \in Nat /\ arm \in Arm \cup {"none", "settle"}
    /\ arm # "none" => number \in DOMAIN Plan /\ Now.kind # "identity" /\ ~outage
    /\ arm = "none" => sentinel = {} /\ \A a \in Arm : background[a] = {}
    /\ sentinel # {} => Now.kind \in {"transport", "detached"}
    /\ \A a \in Arm : background[a] # {} => Now.kind = "detached"
    /\ \A r \in ledgerOf : /\ r.by = "again" => Row("stop", {}, TRUE) \in ledgerOf
                           /\ r.by = "stop" /\ r.denied => r = Row("stop", {}, TRUE)
\* A Stop case of copilot's is never passed.
CopilotNeverStops == flavour = "copilot" => \A n \in passed : Plan[n].kind # "stop"
ProbeInv == ArmInv /\ CopilotNeverStops /\ ProbeSound

\* A probe that has not begun has judged nothing.
LEMMA ProbeStartsSound == ProbeInit => ProbeInv
BY DEF ProbeInit, ProbeInv, ArmInv, CopilotNeverStops, ProbeSound, LandedIsFailure, PassIsEarned, NotJudged

\* A case that passes is as a pass says, and one where something landed fails.
LEMMA VerdictsHold ==
    ASSUME ArmInv, arm = "settle", NEW surfaced \in BOOLEAN
    PROVE  /\ Passes(Status(surfaced)) => AsPassed
           /\ flavour = "copilot" /\ Now.kind = "stop" => ~Passes(Status(surfaced))
           /\ (Landed \/ Dispatched) /\ Now.kind \in {"mutation", "transport", "detached"} =>
                 \/ Status(surfaced) \in {"FAIL", "FAIL-OPEN"}
                 \/ flavour = "codex" /\ Now.kind = "mutation" /\ Abort /\ Status(surfaced) = "INCONCLUSIVE"
<1> DEFINE status == Status(surfaced)
<1>1. Now.kind \in Kinds \ {"identity"} BY PlanHasKinds DEF ArmInv, Now
<1>2. flavour \in {"codex", "copilot"} BY DEF ArmInv, Flavour
<1>3. Now.kind \in {"mutation", "stop"} => ~Dispatched BY DEF ArmInv, Dispatched
<1>4. CASE Now.kind = "mutation"
  <2>1. status = IF flavour = "copilot" THEN MutationVerdict ELSE EnforcementVerdict(surfaced) BY <1>4 DEF Status
  <2>2. QED BY <1>2, <1>3, <1>4, <2>1 DEF MutationVerdict, EnforcementVerdict, Passes, AsPassed, Abort
<1>5. CASE Now.kind = "transport"
  <2>1. status = IF flavour = "copilot" THEN Observation ELSE FailClosedVerdict BY <1>5 DEF Status
  <2>2. QED BY <1>2, <1>5, <2>1 DEF Observation, FailClosedVerdict, FailedClosed, ControlProved, Passes, AsPassed, Abort
<1>6. CASE Now.kind = "detached"
  <2>1. status = IF flavour = "copilot" THEN DetachedObservation ELSE DetachedVerdict(surfaced) BY <1>6 DEF Status
  <2>2. QED BY <1>2, <1>6, <2>1 DEF DetachedObservation, DetachedVerdict, ControlProved, Passes, AsPassed, Abort
<1>7. CASE Now.kind = "stop"
  <2>1. status = IF flavour = "copilot" THEN StopObservation ELSE StopVerdict(surfaced) BY <1>7 DEF Status
  <2>2. (\E r \in ledgerOf : r.by \in {"stop", "again"} /\ r.denied) => Row("stop", {}, TRUE) \in ledgerOf BY DEF ArmInv
  <2>3. QED BY <1>2, <1>7, <2>1, <2>2 DEF StopObservation, StopVerdict, Passes, AsPassed
<1>8. QED BY <1>1, <1>4, <1>5, <1>6, <1>7 DEF Kinds

\* A case begins in new repositories.
LEMMA CaseIsFresh ==
    ASSUME ArmInv, NEW n \in Nat \ {0}, CaseStarts(n), flavour' = flavour
    PROVE  ArmInv'
<1>1. Plan' = Plan BY DEF Plan, MutationCases, TransportCases, Lifecycle
<1>2. number' = n /\ arm' = (IF n > Len(Plan) \/ outage' \/ Plan[n].kind = "identity" THEN "none" ELSE "gated")
      /\ sentinel' = {} /\ ledgerOf' = {} /\ background' = [a \in Arm |-> {}]
  BY DEF CaseStarts, NewRepositories
<1>3. arm' # "none" => n \in DOMAIN Plan /\ Now'.kind # "identity" /\ ~outage'
  BY <1>1, <1>2, PlanHasKinds DEF ArmInv, Now
<1>4. QED BY <1>1, <1>2, <1>3 DEF ArmInv, Arm

\* Between cases nothing of an arm is there.
LEMMA QuietStays ==
    ASSUME ArmInv, arm = "none", arm' = "none", number' \in Nat, UNCHANGED <<flavour, sentinel, background, ledgerOf>>
    PROVE  ArmInv'
<1>1. sentinel' = {} /\ \A a \in Arm : background'[a] = {} BY DEF ArmInv
<1>2. /\ (arm' # "none" => number' \in DOMAIN Plan' /\ Now'.kind # "identity" /\ ~outage')
      /\ (arm' = "none" => sentinel' = {} /\ \A a \in Arm : background'[a] = {})
      /\ (sentinel' # {} => Now'.kind \in {"transport", "detached"})
      /\ \A a \in Arm : background'[a] # {} => Now'.kind = "detached"
  BY <1>1
<1>3. flavour' \in Flavour /\ number' \in Nat /\ arm' \in Arm \cup {"none", "settle"} BY DEF ArmInv
<1>4. \A r \in ledgerOf' : /\ r.by = "again" => Row("stop", {}, TRUE) \in ledgerOf'
                           /\ r.by = "stop" /\ r.denied => r = Row("stop", {}, TRUE)
  BY DEF ArmInv
<1>5. QED BY <1>2, <1>3, <1>4 DEF ArmInv

\* What a step of an arm leaves alone.
LEMMA ArmAlone ==
    ASSUME ProbeInv, UNCHANGED <<flavour, ready, passed, lastCase, sound, outcome, outage>>
    PROVE  CopilotNeverStops' /\ ProbeSound'
BY DEF ProbeInv, CopilotNeverStops, ProbeSound, LandedIsFailure, PassIsEarned, Plan, MutationCases, TransportCases, Lifecycle

\* Every step of the runtime and of the probe keeps it.
LEMMA ProbeKeeps == ProbeInv /\ [ProbeNext]_probeVars => ProbeInv'
<1> SUFFICES ASSUME ProbeInv, [ProbeNext]_probeVars PROVE ProbeInv'
  OBVIOUS
<1> USE DEF ProbeInv
<1>1. flavour' = flavour
  BY DEF ProbeNext, probeVars, ProbeRefused, ProbeStarts, TurnEnds, Rewires, ToolCall, ChildWrites, Restores, ArmEnds, CaseJudged,
         CaseSkipped, IdentityAsked, ProbeEnds
<1>2. Plan' = Plan BY <1>1 DEF Plan, MutationCases, TransportCases, Lifecycle
<1>3. number' = number => Now' = Now BY <1>2 DEF Now
<1>4. CASE UNCHANGED probeVars
  <2>1. ArmInv' BY <1>2, <1>3, <1>4 DEF probeVars, armVars, ArmInv
  <2>2. QED BY <1>4, <2>1, ArmAlone DEF probeVars
<1>5. ASSUME NEW a \in Arm, ToolCall(a) PROVE ProbeInv'
  <2>1. arm = a /\ arm' = arm /\ number' = number /\ outage' = outage BY <1>5 DEF ToolCall, Running
  <2>2. arm # "none" BY <2>1 DEF Arm
  <2>3. PICK names \in SUBSET Now.targets \ {{}}, heard \in BOOLEAN, goes \in BOOLEAN :
        /\ ledgerOf' = IF ~heard \/ a = "control" THEN ledgerOf
                       ELSE ledgerOf \cup {Row("tracer", names, FALSE)}
                            \cup (CASE Now.kind \in {"mutation", "detached"} -> {Row("gate", names, TRUE)}
                                    [] Now.kind = "transport" -> {Row("marker", {}, FALSE)}
                                    [] OTHER -> {})
        /\ IF ~goes THEN UNCHANGED <<changed, sentinel, background>>
           ELSE IF Now.kind = "detached" THEN background' = [background EXCEPT ![a] = names] /\ UNCHANGED <<changed, sentinel>>
           ELSE /\ sentinel' = IF Now.kind = "transport" THEN sentinel \cup {a} ELSE sentinel
                /\ \E written \in SUBSET names : changed' = [changed EXCEPT ![a] = @ \cup written]
                /\ UNCHANGED background
    BY <1>5 DEF ToolCall
  <2>4. sentinel' # {} => Now'.kind \in {"transport", "detached"} BY <1>3, <2>1, <2>3 DEF ArmInv
  <2>5. \A b \in Arm : background'[b] # {} => Now'.kind = "detached" BY <1>3, <2>1, <2>3 DEF ArmInv
  <2>6. /\ ledgerOf \subseteq ledgerOf'
        /\ \A r \in ledgerOf' : r \in ledgerOf \/ r.by \in {"tracer", "gate", "marker"}
    BY <2>3 DEF Row
  <2>7. \A r \in ledgerOf' : /\ r.by = "again" => Row("stop", {}, TRUE) \in ledgerOf'
                             /\ r.by = "stop" /\ r.denied => r = Row("stop", {}, TRUE)
    BY <2>6 DEF ArmInv
  <2>8. ArmInv' BY <1>1, <1>2, <1>3, <2>1, <2>2, <2>4, <2>5, <2>7 DEF ArmInv
  <2>9. QED BY <1>5, <2>8, ArmAlone DEF ToolCall
<1>6. CASE TurnEnds
  <2>1. arm' = arm /\ number' = number /\ outage' = outage /\ sentinel' = sentinel /\ background' = background
    BY <1>6 DEF TurnEnds
  <2>2. \A r \in ledgerOf' : /\ r.by = "again" => Row("stop", {}, TRUE) \in ledgerOf'
                             /\ r.by = "stop" /\ r.denied => r = Row("stop", {}, TRUE)
    <3> DEFINE hurt == changed["gated"] # {}
    <3>1. CASE Row("stop", {}, TRUE) \in ledgerOf
      <4>1. ledgerOf' = ledgerOf \cup {Row("again", {}, hurt)} BY <1>6, <3>1 DEF TurnEnds
      <4>2. Row("again", {}, hurt).by = "again" BY DEF Row
      <4>3. QED BY <3>1, <4>1, <4>2 DEF ArmInv
    <3>2. CASE Row("stop", {}, TRUE) \notin ledgerOf
      <4>1. ledgerOf' = ledgerOf \cup {Row("stop", {}, hurt)} BY <1>6, <3>2 DEF TurnEnds
      <4>2. Row("stop", {}, hurt).by = "stop" /\ (Row("stop", {}, hurt).denied <=> hurt) BY DEF Row
      <4>3. hurt => Row("stop", {}, hurt) = Row("stop", {}, TRUE) OBVIOUS
      <4>4. QED BY <3>2, <4>1, <4>2, <4>3 DEF ArmInv
    <3>3. QED BY <3>1, <3>2
  <2>3. ArmInv' BY <1>1, <1>2, <1>3, <2>1, <2>2 DEF ArmInv
  <2>4. QED BY <1>6, <2>3, ArmAlone DEF TurnEnds
<1>7. ASSUME NEW a \in Arm, ChildWrites(a) PROVE ProbeInv'
  <2>1. /\ arm' = arm /\ number' = number /\ outage' = outage /\ ledgerOf' = ledgerOf /\ arm # "none"
        /\ background[a] # {} /\ sentinel' = sentinel \cup {a}
    BY <1>7 DEF ChildWrites
  <2>2. Now.kind = "detached" BY <2>1 DEF ArmInv
  <2>3. ArmInv' BY <1>1, <1>2, <1>3, <2>1, <2>2 DEF ArmInv
  <2>4. QED BY <1>7, <2>3, ArmAlone DEF ChildWrites
<1>8. ASSUME NEW a \in Arm, Restores(a) PROVE ProbeInv'
  <2>1. ArmInv' BY <1>1, <1>2, <1>3, <1>8 DEF ArmInv, Restores
  <2>2. QED BY <1>8, <2>1, ArmAlone DEF Restores
<1>9. CASE Rewires
  <2>1. ArmInv' BY <1>1, <1>2, <1>3, <1>9 DEF ArmInv, Rewires
  <2>2. QED BY <1>9, <2>1, ArmAlone DEF Rewires
<1>10. ASSUME NEW a \in Arm, ArmEnds(a) PROVE ProbeInv'
  <2>1. /\ arm = a /\ arm' \in {"control", "settle"} /\ number' = number /\ outage' = outage
        /\ ledgerOf' = ledgerOf /\ sentinel' = sentinel /\ background' = background
    BY <1>10 DEF ArmEnds, Running
  <2>2. arm # "none" /\ arm' # "none" BY <2>1 DEF Arm
  <2>3. arm' \in Arm \cup {"none", "settle"} BY <2>1 DEF Arm
  <2>4. ArmInv' BY <1>1, <1>2, <1>3, <2>1, <2>2, <2>3 DEF ArmInv
  <2>5. QED BY <1>10, <2>4, ArmAlone DEF ArmEnds
<1>11. CASE ProbeRefused
  <2>1. number = 0 /\ number' = Len(Plan) + 1 /\ arm' = "none" /\ outcome' = "PARTIAL" /\ UNCHANGED <<armVars, passed, outage, lastCase, sound, ready>>
    BY <1>11 DEF ProbeRefused
  <2>2. Len(Plan) \in Nat /\ DOMAIN Plan = 1 .. Len(Plan) BY PlanHasKinds DEF ArmInv
  <2>3. arm = "none" BY <2>1, <2>2 DEF ArmInv
  <2>a. number' \in Nat /\ UNCHANGED <<flavour, sentinel, background, ledgerOf>> BY <1>1, <2>1, <2>2 DEF armVars
  <2>4. ArmInv' BY <2>1, <2>3, <2>a, QuietStays
  <2>5. CopilotNeverStops' /\ ProbeSound' BY <1>1, <1>2, <2>1 DEF CopilotNeverStops, ProbeSound, LandedIsFailure, PassIsEarned
  <2>6. QED BY <2>4, <2>5
<1>12. CASE ProbeStarts
  <2>1. CaseStarts(1) /\ UNCHANGED <<ready, passed, outage, lastCase, sound, outcome>> BY <1>12 DEF ProbeStarts
  <2>2. QED BY <1>1, <2>1, CaseIsFresh, ArmAlone
<1>13. CASE CaseJudged
  <2>1. PICK surfaced \in BOOLEAN :
          /\ arm = "settle"
          /\ passed' = IF Passes(Status(surfaced)) THEN passed \cup {number} ELSE passed
          /\ sound' = IF AsPassed THEN sound \cup {number} ELSE sound
          /\ lastCase' = [kind |-> Now.kind, status |-> Status(surfaced), landed |-> Landed \/ Dispatched, outage |-> Abort]
          /\ outage' = (outage \/ (Now.kind = "mutation" /\ Status(surfaced) = "INCONCLUSIVE" /\ Abort))
          /\ CaseStarts(number + 1)
          /\ UNCHANGED <<flavour, ready, outcome>>
    BY <1>13 DEF CaseJudged
  <2> DEFINE status == Status(surfaced)
  <2>2. /\ Passes(status) => AsPassed
        /\ flavour = "copilot" /\ Now.kind = "stop" => ~Passes(status)
        /\ (Landed \/ Dispatched) /\ Now.kind \in {"mutation", "transport", "detached"} =>
              \/ status \in {"FAIL", "FAIL-OPEN"}
              \/ flavour = "codex" /\ Now.kind = "mutation" /\ Abort /\ status = "INCONCLUSIVE"
    BY <2>1, VerdictsHold
  <2> HIDE DEF status
  <2>a. number + 1 \in Nat \ {0} BY DEF ArmInv
  <2>3. ArmInv' BY <1>1, <2>1, <2>a, CaseIsFresh
  <2>4. CopilotNeverStops'
    BY <1>1, <1>2, <2>1, <2>2 DEF CopilotNeverStops, Now, status
  <2>5. LandedIsFailure'
    <3>1. lastCase'.kind = Now.kind /\ lastCase'.status = status /\ (lastCase'.landed <=> Landed \/ Dispatched)
          /\ (lastCase'.outage <=> Abort)
      BY <2>1 DEF status
    <3>2. Now.kind = "mutation" /\ Abort /\ status = "INCONCLUSIVE" => outage' BY <2>1 DEF status
    <3>3. QED BY <1>1, <2>2, <3>1, <3>2 DEF LandedIsFailure
  <2>6. PassIsEarned'
    <3>1. sound \subseteq sound' /\ ready' = ready /\ outcome' = outcome BY <2>1
    <3>2. passed' \subseteq sound' BY <2>1, <2>2 DEF ProbeSound, PassIsEarned, status
    <3>3. QED BY <1>1, <1>2, <3>1, <3>2 DEF ProbeSound, PassIsEarned
  <2>7. QED BY <2>3, <2>4, <2>5, <2>6 DEF ProbeSound
<1>14. CASE CaseSkipped
  <2>1. outage /\ number' = number + 1 /\ UNCHANGED <<flavour, ready, arm, armVars, passed, outage, lastCase, sound, outcome>>
    BY <1>14 DEF CaseSkipped
  <2>2. arm = "none" BY <2>1 DEF ArmInv
  <2>a. number' \in Nat /\ UNCHANGED <<flavour, sentinel, background, ledgerOf>> BY <2>1 DEF ArmInv, armVars
  <2>3. ArmInv' BY <2>1, <2>2, <2>a, QuietStays
  <2>4. QED BY <2>1, <2>3, ArmAlone
<1>15. CASE IdentityAsked
  <2>1. /\ number \in 1 .. Len(Plan) /\ Now.kind = "identity" /\ number' = number + 1 /\ arm' = "none"
        /\ UNCHANGED <<flavour, ready, armVars, outage, lastCase, outcome>>
    BY <1>15 DEF IdentityAsked
  <2>2. PICK more \in SUBSET {number} : passed' = passed \cup more /\ sound' = sound \cup more
    <3>1. PICK rejected \in BOOLEAN : /\ passed' = IF rejected THEN passed \cup {number} ELSE passed
                                      /\ sound' = IF rejected THEN sound \cup {number} ELSE sound
      BY <1>15 DEF IdentityAsked
    <3>2. CASE rejected BY <3>1, <3>2
    <3>3. CASE ~rejected
      <4>1. passed' = passed \cup {} /\ sound' = sound \cup {} BY <3>1, <3>3
      <4>2. {} \in SUBSET {number} OBVIOUS
      <4>3. QED BY <4>1, <4>2
    <3>4. QED BY <3>2, <3>3
  <2>3. arm = "none" BY <2>1 DEF ArmInv
  <2>a. number' \in Nat /\ UNCHANGED <<flavour, sentinel, background, ledgerOf>> BY <2>1 DEF ArmInv, armVars
  <2>4. ArmInv' BY <2>1, <2>3, <2>a, QuietStays
  <2>5. CopilotNeverStops' BY <1>1, <1>2, <2>1, <2>2 DEF CopilotNeverStops, Now
  <2>6. LandedIsFailure' BY <2>1 DEF ProbeSound, LandedIsFailure
  <2>7. PassIsEarned' BY <1>2, <2>1, <2>2 DEF ProbeSound, PassIsEarned
  <2>8. QED BY <2>4, <2>5, <2>6, <2>7 DEF ProbeSound
<1>16. CASE ProbeEnds
  <2>1. UNCHANGED <<flavour, ready, number, arm, armVars, passed, outage, lastCase, sound>> /\ outcome' = IF Full THEN "FULL" ELSE "PARTIAL"
    BY <1>16 DEF ProbeEnds
  <2>2. Full => flavour = "codex" /\ ready.self /\ ready.gate /\ DOMAIN Plan \subseteq sound
    <3> SUFFICES ASSUME Full PROVE flavour = "codex" /\ ready.self /\ ready.gate /\ DOMAIN Plan \subseteq sound
      OBVIOUS
    <3>1. passed = DOMAIN Plan /\ ready.self /\ ready.gate BY DEF Full
    <3>2. PICK n \in DOMAIN Plan : Plan[n].kind = "stop" BY PlanHasKinds DEF ArmInv
    <3>3. flavour # "copilot" BY <3>1, <3>2 DEF CopilotNeverStops
    <3>4. QED BY <3>1, <3>3 DEF ArmInv, Flavour, ProbeSound, PassIsEarned
  <2>3. ArmInv' BY <1>1, <1>2, <1>3, <2>1 DEF ArmInv, armVars
  <2>4. CopilotNeverStops' BY <1>2, <2>1 DEF CopilotNeverStops
  <2>5. LandedIsFailure' BY <2>1 DEF ProbeSound, LandedIsFailure
  <2>6. PassIsEarned' BY <1>2, <2>1, <2>2 DEF ProbeSound, PassIsEarned
  <2>7. QED BY <2>3, <2>4, <2>5, <2>6 DEF ProbeSound
<1>17. QED BY <1>4, <1>5, <1>6, <1>7, <1>8, <1>9, <1>10, <1>11, <1>12, <1>13, <1>14, <1>15, <1>16 DEF ProbeNext

\* Whatever the runtime under test does, for every plan of cases: a mutation that
\* landed is not a pass, and FULL is codex's with every case of the plan as a pass
\* says (codex-probe.mjs, copilot-probe.mjs).
THEOREM ProbeIsSound == SpecAll => []ProbeSound
<1>1. InitAll => ProbeInv BY ProbeStartsSound DEF InitAll
<1>2. ProbeInv /\ [NextAll]_all => ProbeInv'
  <2> SUFFICES ASSUME ProbeInv, [NextAll]_all PROVE ProbeInv' OBVIOUS
  <2>1. [ProbeNext]_probeVars BY DEF NextAll, all
  <2>2. QED BY <2>1, ProbeKeeps
<1>3. ProbeInv => ProbeSound BY DEF ProbeInv
<1>4. QED BY <1>1, <1>2, <1>3, PTL DEF SpecAll
=============================================================================
