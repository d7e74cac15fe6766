--------------------------- MODULE SnapshotCache ---------------------------
(***************************************************************************)
(* The in-memory cache of protected-tree snapshots (src/ptree-cache.ts):   *)
(* an entry is served when the file's stat is the one it was hashed under  *)
(* and the hash was taken Margin after the change time in that stat.  The  *)
(* change time is the kernel's and comes in ticks: two writes less than    *)
(* Tick apart may carry the same one.  Everything else in the stat the     *)
(* candidate can set, and here it always does: the key is the change time. *)
(***************************************************************************)
EXTENDS Naturals

CONSTANTS Content, Unhashed,
          Tick,        \* no two change times of one tick differ
          Margin,      \* RACY_MARGIN_NS
          Revalidate,  \* fullRevalidateMs
          MaxNow       \* bound: the clock

VARIABLES now, file, ctime,     \* the clock, the file's content and change time
          cached,               \* the entry, or Nothing
          lastFull,             \* when the cache was last emptied
          walk, stat, taken, read, \* the walk: where it is, and what it has
          served                \* history: what the last walk returned, and what was there

cacheVars == <<now, file, ctime, cached, lastFull, walk, stat, taken, read, served>>

Nothing == [on |-> FALSE, key |-> 0, at |-> 0, entry |-> Unhashed]
Cached  == [on : BOOLEAN, key : Nat, at : Nat, entry : Content \union {Unhashed}]
Served(e, f) == [entry |-> e, file |-> f]

ASSUME CacheAssumption ==
    /\ Unhashed \notin Content
    /\ Tick \in Nat \ {0} /\ Margin \in Nat /\ Tick <= Margin
    /\ Revalidate \in Nat /\ MaxNow \in Nat

CacheInit ==
    /\ now = 0 /\ file \in Content /\ ctime = 0
    /\ cached = Nothing /\ lastFull = 0
    /\ walk = "idle" /\ stat = 0 /\ taken = 0 /\ read = Unhashed
    /\ served = Served(Unhashed, Unhashed)

CacheTypeOK ==
    /\ now \in Nat /\ file \in Content /\ ctime \in Nat
    /\ cached \in Cached /\ lastFull \in Nat
    /\ walk \in {"idle", "lstat", "hash", "again"}
    /\ stat \in Nat /\ taken \in Nat /\ read \in Content \union {Unhashed}
    /\ served \in [entry : Content \union {Unhashed}, file : Content \union {Unhashed}]

Pass ==
    /\ now < MaxNow /\ now' = now + 1
    /\ UNCHANGED <<file, ctime, cached, lastFull, walk, stat, taken, read, served>>

\* A write, a rename over it, a chmod, a utimes: any of them stamps the inode.
Write ==
    /\ file' \in Content
    /\ ctime' \in {t \in 0 .. now : ctime <= t /\ now < t + Tick}
    /\ UNCHANGED <<now, cached, lastFull, walk, stat, taken, read, served>>

BeginSnapshot ==
    /\ walk = "idle" /\ walk' = "lstat"
    /\ IF now - lastFull >= Revalidate
       THEN cached' = Nothing /\ lastFull' = now
       ELSE UNCHANGED <<cached, lastFull>>
    /\ UNCHANGED <<now, file, ctime, stat, taken, read, served>>

\* Mutant: the key alone.
MatchesKey == cached.on /\ cached.key = ctime

Matches == cached.on /\ cached.key = ctime /\ cached.at - cached.key >= Margin

Hit ==
    /\ walk = "lstat" /\ Matches
    /\ served' = Served(cached.entry, file)
    /\ walk' = "idle"
    /\ UNCHANGED <<now, file, ctime, cached, lastFull, stat, taken, read>>

Miss ==
    /\ walk = "lstat" /\ ~Matches
    /\ stat' = ctime /\ taken' = now
    /\ walk' = "hash"
    /\ UNCHANGED <<now, file, ctime, cached, lastFull, read, served>>

Compute ==
    /\ walk = "hash"
    /\ read' = file
    /\ walk' = "again"
    /\ UNCHANGED <<now, file, ctime, cached, lastFull, stat, taken, served>>

\* The second lstat: the entry is remembered only under a stat that still holds.
Remember ==
    /\ walk = "again"
    /\ cached' = IF ctime = stat THEN [on |-> TRUE, key |-> stat, at |-> taken, entry |-> read]
                 ELSE Nothing
    /\ walk' = "idle"
    /\ UNCHANGED <<now, file, ctime, lastFull, stat, taken, read, served>>

\* markDirty
Forget ==
    /\ cached' = Nothing
    /\ UNCHANGED <<now, file, ctime, lastFull, walk, stat, taken, read, served>>

CacheNext ==
    Pass \/ Write \/ BeginSnapshot \/ Hit \/ Miss \/ Compute \/ Remember \/ Forget

CacheSpec == CacheInit /\ [][CacheNext]_cacheVars

\* A hit is what the file holds when it is asked for: no write a candidate makes,
\* within a clock tick of the hash or while it is taken, leaves a remembered entry
\* standing for other content (SnapshotCache.entry).
HitIsCurrent == served.entry = served.file
=============================================================================
