---------------------------- MODULE AgentLifecycle ----------------------------
(***************************************************************************)
(* The agent's process domain under the Linux supervisor of `tamperward    *)
(* run` (src/cli/run.ts, LINUX_SUBREAPER_SUPERVISOR and                    *)
(* runAgentSupervised).  The supervisor is the domain's subreaper: a       *)
(* process whose parent dies becomes its child.  It owns the domain once   *)
(* waitpid answers ECHILD, and reports ownership only then; the caller     *)
(* believes the report only of a supervisor that ended normally.           *)
(*                                                                         *)
(* Left out: the portable supervisor, which never reports ownership, and   *)
(* the choice of a Python interpreter (its absence is a refusal).          *)
(***************************************************************************)
EXTENDS Naturals

CONSTANTS Pid, First,   \* the domain's processes; the wrapped agent itself
          Supervisor, None,
          HasBudget,    \* whether --agent-budget is given
          DomainFault,  \* "kill": a process of the domain kills the supervisor;
                        \* "hang": it stops; "spawn", "proc", "signal": a call of it fails
          AgentExits,   \* exit codes of the wrapped agent
          MaxRounds     \* rounds of the drain loop before its 3 seconds are over

VARIABLES life, parent, group, \* the domain: state, parent, member of the agent's process group
          sup, kids, rounds,   \* the supervisor: where it is, children it read, rounds it took
          left, timedOut,      \* the wrapped agent's exit code; its budget ran out
          answer               \* what runAgentSupervised returns

domain == <<life, parent, group>>
supervisor == <<sup, kids, rounds, left, timedOut>>
lifecycleVars == <<domain, supervisor, answer>>

ASSUME LifecycleAssumption ==
    /\ First \in Pid /\ Supervisor \notin Pid
    /\ HasBudget \in BOOLEAN
    /\ AgentExits \subseteq Nat /\ MaxRounds \in Nat
    /\ None \notin Pid /\ None \notin Nat

Lives == {"unborn", "alive", "zombie", "reaped"}
SupStates == {"idle", "spawn", "wait", "killpg", "reap", "list", "kill", "last",
              "drained", "failed", "ended"}

Alive == {p \in Pid : life[p] = "alive"}
Children == {p \in Pid : life[p] \in {"alive", "zombie"} /\ parent[p] = Supervisor}

Answer(exit, late, owned) == [exit |-> exit, timedOut |-> late, owned |-> owned]

LifecycleInit ==
    /\ life = [p \in Pid |-> "unborn"]
    /\ parent = [p \in Pid |-> None]
    /\ group = [p \in Pid |-> FALSE]
    /\ sup = "idle" /\ kids = {} /\ rounds = 0
    /\ left = None /\ timedOut = FALSE
    /\ answer = None

-----------------------------------------------------------------------------
(* The domain's own steps.                                                 *)

\* The processes of S end; what they leave behind has the subreaper for parent.
Die(S) ==
    /\ life' = [p \in Pid |-> IF p \in S THEN "zombie" ELSE life[p]]
    /\ parent' = [p \in Pid |-> IF parent[p] \in S THEN Supervisor ELSE parent[p]]
    /\ UNCHANGED group

\* Unborn pids are interchangeable: a fork takes one of them.
NextPid == CHOOSE c \in Pid \ {First} : life[c] = "unborn"

Fork(p, c) ==
    /\ life[p] = "alive" /\ life[c] = "unborn" /\ c # First
    /\ c = NextPid
    /\ life' = [life EXCEPT ![c] = "alive"]
    /\ parent' = [parent EXCEPT ![c] = p]
    /\ group' = [group EXCEPT ![c] = group[p]]
    /\ UNCHANGED <<supervisor, answer>>

\* A process group leader cannot leave its group; any other process can.
Setsid(p) ==
    /\ life[p] = "alive" /\ group[p] /\ p # First
    /\ group' = [group EXCEPT ![p] = FALSE]
    /\ UNCHANGED <<life, parent, supervisor, answer>>

Exit(p) ==
    /\ life[p] = "alive"
    /\ Die({p})
    /\ IF p = First THEN left' \in AgentExits ELSE UNCHANGED left
    /\ UNCHANGED <<sup, kids, rounds, timedOut, answer>>

\* A parent other than the supervisor waits for its child.
Wait(c) ==
    /\ life[c] = "zombie" /\ parent[c] \in Alive
    /\ life' = [life EXCEPT ![c] = "reaped"]
    /\ UNCHANGED <<parent, group, supervisor, answer>>

DomainStep ==
    \/ \E p, c \in Pid : Fork(p, c)
    \/ \E p \in Pid : Setsid(p) \/ Exit(p) \/ Wait(p)

-----------------------------------------------------------------------------
(* The supervisor.                                                         *)

Spawn ==
    /\ sup = "spawn"
    /\ \/ /\ life' = [life EXCEPT ![First] = "alive"]
          /\ parent' = [parent EXCEPT ![First] = Supervisor]
          /\ group' = [group EXCEPT ![First] = TRUE]
          /\ sup' = "wait"
          /\ UNCHANGED answer
       \/ /\ "spawn" \in DomainFault \* no process exists: trivially owned
          /\ sup' = "ended" /\ answer' = Answer(1, FALSE, TRUE)
          /\ UNCHANGED domain
    /\ UNCHANGED <<kids, rounds, left, timedOut>>

ChildEnds ==
    /\ sup = "wait" /\ life[First] = "zombie"
    /\ life' = [life EXCEPT ![First] = "reaped"]
    /\ sup' = "killpg"
    /\ UNCHANGED <<parent, group, kids, rounds, left, timedOut, answer>>

\* Mutant: the timer is not armed.
BudgetForgotten == FALSE /\ UNCHANGED lifecycleVars

BudgetExpires ==
    /\ sup = "wait" /\ HasBudget
    /\ timedOut' = TRUE
    /\ sup' = "killpg"
    /\ UNCHANGED <<domain, kids, rounds, left, answer>>

\* killpg: the group of the wrapped agent, and nothing that left it.
KillGroup ==
    /\ sup = "killpg"
    /\ \/ Die({p \in Alive : group[p]}) /\ sup' = "reap"
       \/ "signal" \in DomainFault /\ sup' = "failed" /\ UNCHANGED domain
    /\ UNCHANGED <<kids, rounds, left, timedOut, answer>>

\* reap_state: one waitpid at a time.
ReapOne(c) ==
    /\ sup \in {"reap", "last"}
    /\ c \in Children /\ life[c] = "zombie"
    /\ life' = [life EXCEPT ![c] = "reaped"]
    /\ UNCHANGED <<parent, group, supervisor, answer>>

\* Mutant: the domain is taken to be the process group.
NoGroup == \A p \in Alive : ~group[p]

\* ECHILD.
NoChild == Children = {}

Drained ==
    /\ sup \in {"reap", "last"} /\ NoChild
    /\ sup' = "drained"
    /\ UNCHANGED <<domain, kids, rounds, left, timedOut, answer>>

\* Mutant: the drain's deadline is taken for its end.
LateIsDrained ==
    /\ sup \in {"reap", "last"} /\ ~NoChild
    /\ \A c \in Children : life[c] = "alive"
    /\ sup' = IF sup = "reap" THEN "list" ELSE "drained"
    /\ UNCHANGED <<domain, kids, rounds, left, timedOut, answer>>

\* A live child remains: read the list again, or give up when it is too late.
StillLive ==
    /\ sup \in {"reap", "last"} /\ ~NoChild
    /\ \A c \in Children : life[c] = "alive"
    /\ sup' = IF sup = "reap" THEN "list" ELSE "failed"
    /\ UNCHANGED <<domain, kids, rounds, left, timedOut, answer>>

ListChildren ==
    /\ sup = "list"
    /\ \/ kids' = Children /\ sup' = "kill"
       \/ "proc" \in DomainFault /\ sup' = "failed" /\ UNCHANGED kids
    /\ UNCHANGED <<domain, rounds, left, timedOut, answer>>

\* Between the list and a signal the children go on forking and ending.
KillChild(c) ==
    /\ sup = "kill" /\ c \in kids
    /\ \/ Die({c} \intersect Alive) /\ kids' = kids \ {c} /\ UNCHANGED sup
       \/ "signal" \in DomainFault /\ sup' = "failed" /\ UNCHANGED <<domain, kids>>
    /\ UNCHANGED <<rounds, left, timedOut, answer>>

\* The deadline may pass after any round, and does after MaxRounds.
NextRound ==
    /\ sup = "kill" /\ kids = {}
    /\ \/ rounds < MaxRounds /\ rounds' = rounds + 1 /\ sup' = "reap"
       \/ sup' = "last" /\ UNCHANGED rounds
    /\ UNCHANGED <<domain, kids, left, timedOut, answer>>

Report ==
    /\ sup \in {"drained", "failed"}
    /\ sup' = "ended"
    /\ answer' = IF sup = "failed" THEN Answer(1, FALSE, FALSE)
                 ELSE Answer(IF timedOut THEN 124 ELSE left, timedOut, TRUE)
    /\ UNCHANGED <<domain, kids, rounds, left, timedOut>>

SupervisorStep ==
    \/ Spawn \/ ChildEnds \/ BudgetExpires \/ KillGroup
    \/ \E c \in Pid : ReapOne(c) \/ KillChild(c)
    \/ Drained \/ StillLive \/ ListChildren \/ NextRound \/ Report

\* A same-uid process can kill the supervisor: whatever result file it leaves,
\* the caller sees that the supervisor did not end normally.
SupervisorKilled ==
    /\ "kill" \in DomainFault /\ Alive # {}
    /\ sup \notin {"idle", "ended"}
    /\ sup' = "ended"
    /\ answer' = Answer(1, FALSE, FALSE)
    /\ UNCHANGED <<domain, kids, rounds, left, timedOut>>

\* The caller's own timeout, 15 seconds after the budget: it kills a supervisor
\* that hangs, and owns nothing.
Backstop ==
    /\ "hang" \in DomainFault /\ timedOut /\ sup # "ended"
    /\ sup' = "ended"
    /\ answer' = Answer(124, TRUE, FALSE)
    /\ UNCHANGED <<domain, kids, rounds, left, timedOut>>

-----------------------------------------------------------------------------
LifecycleTypeOK ==
    /\ life \in [Pid -> Lives]
    /\ parent \in [Pid -> Pid \union {Supervisor, None}]
    /\ group \in [Pid -> BOOLEAN]
    /\ sup \in SupStates /\ kids \subseteq Pid /\ rounds \in 0..MaxRounds
    /\ left \in AgentExits \union {None} /\ timedOut \in BOOLEAN
    /\ answer \in [exit : AgentExits \union {1, 124}, timedOut : BOOLEAN, owned : BOOLEAN]
                    \union {None}

\* Ownership is reported only of a domain that is empty: whatever left the
\* agent's process group, was orphaned or forked during the drain is gone too.
OwnedIsDrained ==
    answer # None /\ answer.owned => \A p \in Pid : life[p] \in {"unborn", "reaped"}
=============================================================================
