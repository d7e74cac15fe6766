------------------------------ MODULE Worktree ------------------------------
(***************************************************************************)
(* The repository a session works in, as far as the gate can tell two      *)
(* states of it apart: what stands on disk at each PROTECTED path, what    *)
(* the index and HEAD hold for it, and which of the three ways out of      *)
(* git's ordinary views it has taken (skip-worktree / assume-unchanged,    *)
(* an ignore rule, a directory git lists nothing under).                   *)
(*                                                                         *)
(* A file's bytes and its mode are one member of Content.  Commits are     *)
(* identified with their trees: every view compares trees, never shas.     *)
(* Unprotected paths, renames and the text of a diff are left out.         *)
(***************************************************************************)
CONSTANTS Path,      \* the protected paths
          Content,   \* what a regular file can hold
          Unread,    \* contents the gate does not read (past the size cap, a link)
          Weak,      \* contents that no longer verify what the strong ones do
          Absent,    \* nothing at the path
          Unlisted   \* paths no git listing enumerates (a nested repository)

ASSUME WorktreeAssumption ==
    /\ Absent \notin Content
    /\ Unread \subseteq Content
    /\ Weak \subseteq Content
    /\ Unlisted \subseteq Path

VARIABLES disk, idx, head, hidden, excluded

worktree == <<disk, idx, head, hidden, excluded>>

Bytes == Content \union {Absent}
Tree  == [Path -> Bytes]

WorktreeTypeOK ==
    /\ disk \in Tree
    /\ idx  \in Tree
    /\ head \in Tree
    /\ hidden   \in SUBSET Path
    /\ excluded \in SUBSET Path

-----------------------------------------------------------------------------
(* What git reports (src/git/build.ts).  A change is a path with the bytes  *)
(* a trusted tree has for it and the bytes on disk.                         *)

Tracked == {p \in Path : idx[p] # Absent}

\* The bytes `git diff <rev>` takes for the working side of the comparison: a
\* path git was told not to compare stands as the index has it, and a path
\* the index has forgotten is a deletion.
WorkSide(p) == IF p \in hidden \/ p \notin Tracked THEN idx[p] ELSE disk[p]

ChangeOf(p, before, after) == [path |-> p, before |-> before, after |-> after]

\* diffSince(rev): `after` is read from disk unless the diff is a deletion.
DiffSince(tree) ==
    {ChangeOf(p, tree[p], IF WorkSide(p) = Absent THEN Absent ELSE disk[p]) :
        p \in {q \in Path : tree[q] # WorkSide(q)}}

OnDisk == {p \in Path : disk[p] # Absent}

UntrackedPaths == (OnDisk \ Tracked) \ (excluded \union Unlisted)
IgnoredPaths   == ((OnDisk \ Tracked) \intersect excluded) \ Unlisted

HiddenTrackedPaths == hidden \intersect Tracked

AddOf(p) == ChangeOf(p, Absent, disk[p])

\* hashOnDisk: null (here Absent) when the gate does not read what stands there.
HashOnDisk(p) == IF disk[p] \in Unread THEN Absent ELSE disk[p]

PathsOf(changes) == {c.path : c \in changes}

-----------------------------------------------------------------------------
(* What a shell command, or any process the agent starts, can do to the     *)
(* repository.  Not the gate's code: the environment of every hook.         *)

WriteFile(p, c) ==
    /\ disk[p] # c
    /\ disk' = [disk EXCEPT ![p] = c]
    /\ UNCHANGED <<idx, head, hidden, excluded>>

GitAdd(p) ==
    /\ p \notin hidden /\ idx[p] # disk[p] /\ p \notin Unlisted
    /\ p \in excluded => p \in Tracked
    /\ idx' = [idx EXCEPT ![p] = disk[p]]
    /\ UNCHANGED <<disk, head, hidden, excluded>>

GitRmCached(p) ==
    /\ p \in Tracked
    /\ idx' = [idx EXCEPT ![p] = Absent]
    /\ hidden' = hidden \ {p}
    /\ UNCHANGED <<disk, head, excluded>>

GitCommit ==
    /\ head # idx
    /\ head' = idx
    /\ UNCHANGED <<disk, idx, hidden, excluded>>

UpdateIndexHide(p) ==
    /\ p \in Tracked \ hidden
    /\ hidden' = hidden \union {p}
    /\ UNCHANGED <<disk, idx, head, excluded>>

ExcludePath(p) ==
    /\ p \notin excluded
    /\ excluded' = excluded \union {p}
    /\ UNCHANGED <<disk, idx, head, hidden>>

ShellEffect ==
    \/ \E p \in Path, c \in Bytes : WriteFile(p, c)
    \/ \E p \in Path : GitAdd(p) \/ GitRmCached(p) \/ UpdateIndexHide(p) \/ ExcludePath(p)
    \/ GitCommit
=============================================================================
