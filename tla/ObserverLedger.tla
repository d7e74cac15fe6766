--------------------------- MODULE ObserverLedger ---------------------------
(***************************************************************************)
(* What the transient observer promises of the lines the watcher records:  *)
(* they are passed in order, each of them once, only when well formed, and *)
(* nothing passes a protected path that went through two states without    *)
(* accounting for it: it was reported, or it is in the net diff.           *)
(* Observer implements this.                                               *)
(***************************************************************************)
EXTENDS Naturals, Sequences

CONSTANTS Event,      \* records [path, hash, mode] of the watcher
          Malformed,  \* a line that is none
          NoHash      \* hash or mode of what could not be read

VARIABLES recorded,   \* the complete lines of the log
          passed,     \* how many of them a committed sweep stands for
          accounted   \* the paths the latest sweep accounted for

ledger == <<recorded, passed, accounted>>

Distinct(a, b) == NoHash \notin {a, b} /\ a # b

\* The paths with two contents, or two modes, in a set of events.
Churned(E) ==
    {e.path : e \in {f \in E : \E g \in E :
        g.path = f.path /\ (Distinct(f.hash, g.hash) \/ Distinct(f.mode, g.mode))}}

Init == recorded = <<>> /\ passed = 0 /\ accounted = {}

Record ==
    /\ \E line \in Event \union {Malformed} : recorded' = Append(recorded, line)
    /\ UNCHANGED <<passed, accounted>>

\* The log is replaced: nothing in the new one has been passed.
Replace == recorded' = <<>> /\ passed' = 0 /\ UNCHANGED accounted

\* A sweep accounts for what it saw, and passes nothing yet.
Look == accounted' # accounted /\ UNCHANGED <<recorded, passed>>

Pass(n) ==
    LET lines == {recorded[i] : i \in passed + 1 .. n}
    IN  /\ Malformed \notin lines
        /\ Churned(lines) \subseteq accounted
        /\ passed' = n
        /\ UNCHANGED <<recorded, accounted>>

Next ==
    \/ Record \/ Replace \/ Look
    \/ \E n \in passed .. Len(recorded) : Pass(n)

Spec == Init /\ [][Next]_ledger
=============================================================================
