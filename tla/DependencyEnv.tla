--------------------------- MODULE DependencyEnv ---------------------------
(* The identity of the dependency environment (src/dependency-env.ts): the  *)
(* roots a command uses are frozen, fingerprinted by a walk that follows    *)
(* links, and the same roots are asked again at every later boundary.  One  *)
(* root with an entry "a" and a directory "d" holding "x"; a file outside   *)
(* it ("sys"), a directory outside it ("ext") and one in the candidate tree *)
(* ("src").  Bounds: MaxDescriptors freezes, MaxChanges of the world.       *)
EXTENDS Integers, FiniteSets, Sequences

CONSTANTS Bytes, Commands, MaxDescriptors, MaxChanges

(* discoverDependencyEnvironment: the environment a command names, by its   *)
(* VIRTUAL_ENV, by its executable or by `uv run`; a Python command without  *)
(* one, and an ecosystem with no discovery, are not attestable.             *)
AnyCommand == [virtualEnv : {"unset", "relative", "unbounded", "sound"}, inferred : {"none", "unbounded", "sound"},
               python : BOOLEAN, unsupported : BOOLEAN]
ASSUME CommandsAreCommands == Commands \subseteq AnyCommand

VARIABLES
    world,       \* what is on disk
    frozen,      \* the descriptors: status, fingerprint, and what stood then
    issued,      \* the attestations this process issued
    told,        \* the last check somebody was given
    changes
depVars == <<world, frozen, issued, told, changes>>

Paths == {<<"a">>, <<"d">>, <<"d", "x">>}
Cwds == {"here", "elsewhere"}
Holding(c) == [k |-> "file", c |-> c]
Pointing(to) == [k |-> "link", c |-> to]
Plain(k) == [k |-> k, c |-> "empty"]

(* The nodes a package manager, or a suite, may leave at a path.            *)
Targets == {"d", "x", "sys", "ext", "src", "nothing"}
NodesAt(p) == IF p = <<"d">> THEN {Plain("dir"), Plain("none")}
              ELSE {Holding(c) : c \in Bytes} \cup {Plain("none"), Plain("special")}
                     \cup {Pointing(t) : t \in IF p = <<"a">> THEN Targets ELSE Targets \ {"d", "x"}}

(* The root: absent, or the real path its name leads to.                    *)
Roots == {"none", "one", "two"}
IsWorld(w) == /\ \A p \in Paths : w.at[p] \in NodesAt(p)
              /\ w.at[<<"d">>].k = "none" => w.at[<<"d", "x">>].k = "none"
              /\ w.root = "none" => \A p \in Paths : w.at[p].k = "none"
Worlds == {w \in [root : Roots, at : [Paths -> UNION {NodesAt(p) : p \in Paths}],
                  sys : {Holding(c) : c \in Bytes} \cup {Plain("none")}] : IsWorld(w)}

(* realpath and stat of what a name leads to: a file with its bytes, a      *)
(* directory by place, or nothing.  Only "a" may point at another link.     *)
LeadsTo(w, to) == CASE to = "sys" -> [k |-> w.sys.k, c |-> w.sys.c, place |-> "sys"]
                    [] to = "nothing" -> [k |-> "none", c |-> "empty", place |-> "nothing"]
                    [] OTHER -> [k |-> "dir", c |-> "empty", place |-> to]
Behind(w, p) == LET n == w.at[p]
               IN  IF n.k = "link" THEN LeadsTo(w, n.c)
                   ELSE [k |-> n.k, c |-> n.c, place |-> IF p = <<"d">> THEN "inside" ELSE "file"]
Resolved(w) ==
    [p \in Paths |-> LET n == w.at[p]
                     IN  CASE n.k = "link" /\ n.c = "d" -> Behind(w, <<"d">>)
                           [] n.k = "link" /\ n.c = "x" -> Behind(w, <<"d", "x">>)
                           [] OTHER -> Behind(w, p)]

(* ---------------------------- the fingerprint --------------------------- *)

(* fingerprintRoot throws: a special file, or a link to a directory outside *)
(* the root, in the candidate tree or not, or to a special file.            *)
Unattestable(w) ==
    \E p \in Paths : \/ w.at[p].k = "special"
                     \/ w.at[p].k = "link" /\ \/ Resolved(w)[p].k = "special"
                                              \/ Resolved(w)[p].place \in {"ext", "src"}

(* A directory is walked once, under the name that reached it first.        *)
DirLabel(w) == IF w.at[<<"a">>].k = "link" /\ Resolved(w)[<<"a">>].k = "dir" THEN "@target:a" ELSE "d"

(* Mutant: a link is its text; what stands behind it is not hashed.         *)
EntryTextOnly(w, p) ==
    [path |-> IF p = <<"d", "x">> THEN <<DirLabel(w), "x">> ELSE p,
     kind |-> w.at[p].k, text |-> w.at[p].c, target |-> <<>>]

Entry(w, p) ==
    LET n == w.at[p]
        r == Resolved(w)[p]
    IN  [path |-> IF p = <<"d", "x">> THEN <<DirLabel(w), "x">> ELSE p, kind |-> n.k, text |-> n.c,
         target |-> IF n.k = "link" /\ r.k = "file" THEN <<r.place, r.c>> ELSE <<>>]

Stream(w) == {Entry(w, p) : p \in {q \in Paths : w.at[q].k # "none"}}

(* snapshot of the frozen roots and the absent probe.                       *)
Snapshot(d, w) ==
    IF d.real # "none"
    THEN IF w.root # d.real \/ Unattestable(w) THEN [ok |-> FALSE, of |-> {}]
                                                ELSE [ok |-> TRUE, of |-> Stream(w)]
    ELSE [ok |-> TRUE, of |-> {[probe |-> IF w.root = "none" THEN "absent" ELSE "present"]}]

(* What a suite reads: the bytes under every name, links followed, through  *)
(* a link to the directory too.                                             *)
Reads(w) ==
    IF w.root = "none" THEN [root |-> "none"]
    ELSE [root |-> w.root, bytes |-> [p \in Paths |-> [k |-> Resolved(w)[p].k, c |-> Resolved(w)[p].c]],
          through |-> IF w.at[<<"a">>].k = "link" /\ Resolved(w)[<<"a">>].k = "dir"
                      THEN Resolved(w)[<<"d", "x">>].c ELSE "empty"]

(* ------------------------------- actions -------------------------------- *)

NotAsked == [id |-> 0, ok |-> FALSE, saw |-> [root |-> "none"]]

DepInit ==
    /\ world = [root |-> "none", at |-> [p \in Paths |-> Plain("none")], sys |-> Plain("none")]
    /\ frozen = <<>> /\ issued = {} /\ told = NotAsked /\ changes = 0

Venv(cmd) == IF cmd.virtualEnv # "unset" THEN cmd.virtualEnv ELSE cmd.inferred
Unbounded(cmd) == \/ Venv(cmd) \in {"relative", "unbounded"}
                  \/ Venv(cmd) = "none" /\ cmd.python
                  \/ cmd.unsupported

(* What a reader would ask of a command: everything it can import comes     *)
(* from a place that was frozen.                                            *)
Supplied(cmd) == /\ ~cmd.unsupported
                 /\ \/ cmd.virtualEnv = "sound"
                    \/ /\ cmd.virtualEnv = "unset"
                       /\ cmd.inferred = "sound" \/ (cmd.inferred = "none" /\ ~cmd.python)

Discover(cmd) ==
    LET snap == Snapshot([real |-> world.root], world)
    IN  /\ Len(frozen) < MaxDescriptors
        /\ frozen' = Append(frozen,
             [real |-> world.root,
              status |-> IF Unbounded(cmd) \/ ~snap.ok THEN "unattestable" ELSE IF world.root # "none" THEN "attested" ELSE "none",
              fingerprint |-> IF Unbounded(cmd) THEN {} ELSE snap.of, stood |-> Reads(world), bounded |-> Supplied(cmd)])
        /\ UNCHANGED <<world, issued, told, changes>>

CheckNow(id) == LET d == frozen[id]
                    now == Snapshot(d, world)
                IN  d.status # "unattestable" /\ now.ok /\ now.of = d.fingerprint

(* checkDependencyEnvironment; attestDependencyEnvironment keeps its result *)
(* with the descriptor and the directory.                                   *)
Check(id) ==
    /\ told' = [id |-> id, ok |-> CheckNow(id), saw |-> Reads(world)]
    /\ UNCHANGED <<world, frozen, issued, changes>>

Attest(id, cwd) ==
    /\ LET a == [id |-> id, cwd |-> cwd, ok |-> CheckNow(id), saw |-> Reads(world)]
       IN  issued' = {a}
    /\ UNCHANGED <<world, frozen, told, changes>>

(* Reuse: only an attestation issued here, for this descriptor and this     *)
(* directory; otherwise the caller measures again.                          *)
Reusable(a, id, cwd) == a \in issued /\ a.id = id /\ a.cwd = cwd
Reuse(a, id, cwd) ==
    /\ told' = [id |-> id, ok |-> IF Reusable(a, id, cwd) THEN a.ok ELSE CheckNow(id),
                  saw |-> IF Reusable(a, id, cwd) THEN a.saw ELSE Reads(world)]
    /\ UNCHANGED <<world, frozen, issued, changes>>

(* An install; later one thing at a time, by a suite, a package manager or  *)
(* an upgrade of the system's interpreter.                                  *)
OneThing == {w \in {[world EXCEPT !.at[p] = n] : p \in Paths, n \in UNION {NodesAt(p) : p \in Paths}}
                   \cup {[world EXCEPT !.root = r] : r \in Roots}
                   \cup {[world EXCEPT !.sys = f] : f \in {Holding(c) : c \in Bytes} \cup {Plain("none")}} :
               IsWorld(w)}
Change ==
    /\ changes < MaxChanges
    /\ world' \in (IF changes = 0 THEN Worlds ELSE OneThing) \ {world}
    /\ changes' = changes + 1 /\ told' = NotAsked
    /\ UNCHANGED <<frozen, issued>>

DepNext ==
    \/ \E cmd \in Commands : Discover(cmd)
    \/ \E id \in DOMAIN frozen : \/ Check(id) \/ \E cwd \in Cwds : Attest(id, cwd)
                                 \/ \E a \in issued, cwd \in Cwds : Reuse(a, id, cwd)
    \/ Change

(* ------------------------------ properties ------------------------------ *)

(* A boundary that answers ok measured the bytes that stood when the roots  *)
(* were frozen, under every name a suite can read them by, and for the      *)
(* descriptor it was asked about.                                           *)
OkMeansAsFrozen == told.ok => told.saw = frozen[told.id].stood

(* Nothing unbounded is ever attested: no ok for a command whose packages   *)
(* may come from outside the frozen roots, none for a root with a way out.  *)
OkIsBounded == told.ok => frozen[told.id].bounded
=============================================================================
