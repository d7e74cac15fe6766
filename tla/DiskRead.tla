----------------------------- MODULE DiskRead -----------------------------
(* How the gate reads and appends to a path somebody else can change        *)
(* (src/disk.ts): lstat, an open that neither follows nor waits, fstat on   *)
(* the descriptor, then the bytes.  What stands at the path may be replaced *)
(* between any two of the calls.  Bounds: MaxSwaps replacements.            *)
EXTENDS Integers

CONSTANTS Inode,        \* files, links, pipes ... that can stand at the path
          KindOf,       \* Inode -> "file", "oversize", "symlink", "fifo", "socket", "directory"
          NoInode,
          MaxSwaps

KindsOfInode == {"file", "oversize", "symlink", "fifo", "socket", "directory"}
ASSUME DiskAssumption == NoInode \notin Inode /\ KindOf \in [Inode -> KindsOfInode]

VARIABLES
    at,        \* the inode at the path, or NoInode
    names,     \* inode -> how many names a file has
    written,   \* inodes the call in progress, or the last one, appended to
    call,      \* the call in progress
    swaps,
    stood      \* <<inode, names>> at the path since the call began
diskVars == <<at, names, written, call, swaps, stood>>

DiskOp == {"inspect", "state", "open", "append"}
Kind(i) == IF i = NoInode THEN "absent" ELSE KindOf[i]
Regular(i) == Kind(i) \in {"file", "oversize"}

Standing(i, n) == <<i, IF i = NoInode THEN 0 ELSE n[i]>>

(* Opening a socket fails, a link fails without following, a pipe without a *)
(* reader refuses a writer; a directory opens for reading only.             *)
OpenFails(op, i) == CASE Kind(i) = "absent" -> op # "append"
                      [] Kind(i) \in {"symlink", "socket"} -> TRUE
                      [] Kind(i) \in {"fifo", "directory"} -> op = "append"
                      [] OTHER -> FALSE

DiskInit ==
    /\ at \in {NoInode} \cup Inode
    /\ names = [i \in Inode |-> 1]
    /\ written = {}
    /\ call = [pc |-> "idle", op |-> "none", fd |-> NoInode, result |-> "none", of |-> NoInode]
    /\ swaps = 0
    /\ stood = {}

Return(result, of) ==
    call' = [call EXCEPT !.pc = "idle", !.result = result, !.of = of, !.fd = NoInode]

Begin(op) ==
    /\ call.pc = "idle"
    /\ call' = [call EXCEPT !.pc = "lstat", !.op = op, !.result = "none", !.of = NoInode]
    /\ stood' = {Standing(at, names)}
    /\ written' = {}
    /\ UNCHANGED <<at, names, swaps>>

(* What is not a regular file is judged by its kind; the readers of state   *)
(* and of logs refuse it, an append refuses a file with a second name too.  *)
Refuse == IF call.op = "inspect" THEN Kind(at) ELSE "refused"

Lstat ==
    /\ call.pc = "lstat"
    /\ CASE Kind(at) = "absent" /\ call.op # "append" -> Return("absent", NoInode)
         [] Kind(at) = "absent" /\ call.op = "append" -> call' = [call EXCEPT !.pc = "open"]
         [] at # NoInode /\ ~Regular(at) -> Return(Refuse, at)
         [] call.op \in {"inspect", "state"} /\ Kind(at) = "oversize" -> Return(Refuse, at)
         [] Regular(at) /\ call.op = "append" /\ names[at] # 1 -> Return("refused", at)
         [] OTHER -> call' = [call EXCEPT !.pc = "open"]
    /\ UNCHANGED <<at, names, written, swaps, stood>>

(* Mutant: the open waits for the other end of a pipe.                      *)
OpenWaiting ==
    /\ call.pc = "open"
    /\ CASE Kind(at) = "fifo" -> call' = [call EXCEPT !.pc = "waiting"]
         [] Kind(at) # "fifo" /\ OpenFails(call.op, at) /\ call.op \in {"open", "append"} ->
                Return(IF call.op = "open" /\ at = NoInode THEN "absent" ELSE "refused", at)
         [] Kind(at) # "fifo" /\ OpenFails(call.op, at) /\ call.op \in {"inspect", "state"} ->
                IF Kind(at) = "symlink" THEN call' = [call EXCEPT !.pc = "again"] ELSE Return("unreadable", at)
         [] OTHER -> call' = [call EXCEPT !.pc = "fstat", !.fd = at]
    /\ at # NoInode \/ OpenFails(call.op, at)
    /\ UNCHANGED <<at, names, written, swaps, stood>>

(* A path that became a link since is looked at once more, by lstat alone;  *)
(* any other failure is named.  An append creates what is not there.        *)
Open ==
    /\ call.pc = "open"
    /\ CASE OpenFails(call.op, at) /\ call.op \in {"open", "append"} ->
                Return(IF call.op = "open" /\ at = NoInode THEN "absent" ELSE "refused", at)
         [] OpenFails(call.op, at) /\ call.op \in {"inspect", "state"} ->
                IF Kind(at) = "symlink" THEN call' = [call EXCEPT !.pc = "again"] ELSE Return("unreadable", at)
         [] OTHER -> call' = [call EXCEPT !.pc = "fstat", !.fd = at]
    /\ at # NoInode \/ OpenFails(call.op, at)
    /\ UNCHANGED <<at, names, written, swaps, stood>>

Create ==
    /\ call.pc = "open" /\ call.op = "append" /\ at = NoInode
    /\ \E i \in Inode : /\ Kind(i) = "file"
                        /\ at' = i
                        /\ names' = [names EXCEPT ![i] = 1]
                        /\ call' = [call EXCEPT !.pc = "fstat", !.fd = i]
                        /\ stood' = stood \cup {<<i, 1>>}
    /\ UNCHANGED <<written, swaps>>

InspectOnce ==
    /\ call.pc = "again"
    /\ Return(IF Kind(at) = "file" THEN "unreadable" ELSE Kind(at), at)
    /\ UNCHANGED <<at, names, written, swaps, stood>>

(* The descriptor is what is read or written.                               *)
Fstat ==
    LET i == call.fd
    IN  /\ call.pc = "fstat"
        /\ CASE ~Regular(i) -> Return(IF call.op = "inspect" THEN "irregular" ELSE "refused", i)
             [] Regular(i) /\ call.op = "append" /\ names[i] # 1 -> Return("refused", i)
             [] call.op \in {"inspect", "state"} /\ Kind(i) = "oversize" ->
                    Return(IF call.op = "state" THEN "refused" ELSE "oversize", i)
             [] Regular(i) /\ call.op = "open" -> Return("descriptor", i)
             [] OTHER -> call' = [call EXCEPT !.pc = "transfer"]
        /\ UNCHANGED <<at, names, written, swaps, stood>>

Transfer ==
    /\ call.pc = "transfer"
    /\ written' = IF call.op = "append" THEN {call.fd} ELSE written
    /\ Return(IF call.op = "append" THEN "appended" ELSE "content", call.fd)
    /\ UNCHANGED <<at, names, swaps, stood>>

(* Somebody removes, replaces or creates what stands at the path: an inode  *)
(* of its own, or a second name of a file that is somewhere else.           *)
Swap ==
    /\ swaps < MaxSwaps
    /\ swaps' = swaps + 1
    /\ \E i \in {NoInode} \cup Inode, n \in 1..2 :
        /\ i # at \/ (Regular(i) /\ n # names[i])
        /\ i = NoInode \/ ~Regular(i) => n = 1
        /\ at' = i
        /\ names' = IF i = NoInode THEN names ELSE [names EXCEPT ![i] = n]
        /\ stood' = stood \cup {Standing(i, names')}
    /\ UNCHANGED <<written, call>>

DiskStep == Lstat \/ Open \/ Create \/ InspectOnce \/ Fstat \/ Transfer
DiskNext == (\E op \in DiskOp : Begin(op)) \/ DiskStep \/ Swap

(* ------------------------------ properties ------------------------------ *)

(* TypeOK part.                                                             *)
DiskTypeOK ==
    /\ at \in {NoInode} \cup Inode
    /\ call.pc \in {"idle", "lstat", "open", "again", "fstat", "transfer", "waiting"}
    /\ call.pc \in {"fstat", "transfer"} <=> call.fd # NoInode

(* What a reader returns was at the path while it read, and is what it says *)
(* it is: content and descriptors come from regular files, and a state file *)
(* is missing, which re-establishes it, only when nothing stood there       *)
(* (#716, #722).                                                            *)
Stood(i) == \E s \in stood : s[1] = i
ReadsWhatStood ==
    /\ call.result \in {"content", "descriptor"} => Regular(call.of) /\ Stood(call.of)
    /\ call.result = "content" => Kind(call.of) = "file"
    /\ call.result = "absent" => Stood(NoInode)

(* The gate's own lines reach a file only if it stood at the path with no   *)
(* other name some time in the call: a second name, the session marker's,   *)
(* say, put there between the checks is seen (#718).                        *)
AppendsAtHome == [][\A i \in Inode : i \in written' \ written => Regular(i) /\ <<i, 1>> \in stood]_diskVars

(* No call waits for somebody else: whatever is put at the path, it ends.   *)
CallEnds == call.pc # "idle" ~> call.pc = "idle"
=============================================================================
