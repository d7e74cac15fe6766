---------------------------- MODULE Materialise ----------------------------
(* A copy of the candidate tree for a suite (src/candidate-snapshot.ts) and *)
(* the base's overlay on it (src/cli/verify.ts): files, links, the link to  *)
(* the dependency root and what the kernel finds under a name afterwards.   *)
(* Bounds: the paths, nodes and link targets of the constants; MaxHops      *)
(* links in one resolution (128 in the code).                               *)
EXTENDS Integers, SequencesExt

CONSTANTS
    Works,       \* the trees the candidate may have left: path -> node
    Bases,       \* the trees the base may have: path -> node
    DepTrees,    \* the dependency roots an attestation may have frozen
    Covered,     \* the paths the overlay owns
    Lower,       \* name -> name as a case-insensitive filesystem keeps it
    MaxHops,
    Beyond       \* the situations the copy is known not to handle that are let in

VARIABLES
    work,        \* the candidate's tree: path -> node
    base,        \* the base's entries: path -> node
    deps,        \* a dependency root is linked in
    exact,       \* the copies' filesystem tells names apart by case
    fs,          \* <<domain, path>> -> node: the copy and the dependency root
    links,       \* paths of the links made and not yet validated
    made         \* how far the copy is, or why there is none
copyVars == <<work, base, deps, exact, fs, links, made>>

None == [k |-> "none"]
Dir == [k |-> "dir"]
Edge == [k |-> "edge"]
File(c) == [k |-> "file", c |-> c]
Link(to) == [k |-> "link", to |-> to, abs |-> "no"]
AbsLink(into, to) == [k |-> "link", to |-> to, abs |-> into]
Special == [k |-> "special"]
NM == "node_modules"

Present(tree) == {p \in DOMAIN tree : tree[p] # None}
Folded(n) == IF n \in DOMAIN Lower THEN Lower[n] ELSE n
Fold(p) == IF exact THEN p ELSE [i \in DOMAIN p |-> Folded(p[i])]

(* The trees with one of the given nodes at each path, and no path below a  *)
(* file or a link.                                                          *)
Trees(nodes) ==
    {f \in FoldSet(LAMBDA p, some : {(p :> n) @@ f : n \in nodes[p], f \in some}, {<<>>}, DOMAIN nodes) :
        \A p, q \in Present(f) : ~IsStrictPrefix(p, q)}

(* lstat.                                                                   *)
NodeAt(dom, p) ==
    LET at == <<dom, IF dom = "tree" THEN Fold(p) ELSE p>>
    IN  IF at \in DOMAIN fs THEN fs[at]
        ELSE IF p = <<>> \/ \E q \in DOMAIN fs : q[1] = dom /\ IsStrictPrefix(at[2], q[2]) THEN Dir ELSE None

(* ------------------------ what the kernel resolves ---------------------- *)

Nowhere == [dom |-> "nowhere", at |-> <<>>]
Outside == [dom |-> "outside", at |-> <<>>]

Kernel(from, start, way, budget) ==
    LET leads[dom \in STRING, at \in Seq(STRING), rest \in Seq(STRING), hops \in Nat] ==
          IF rest = <<>> THEN [dom |-> dom, at |-> at]
          ELSE IF Head(rest) = ".."
               THEN IF at = <<>> THEN Outside ELSE leads[dom, Front(at), Tail(rest), hops]
          ELSE LET here == Append(at, Head(rest))
                   n == NodeAt(dom, here)
               IN  CASE n.k = "dir" -> leads[dom, here, Tail(rest), hops]
                     [] n.k = "edge" -> leads["deps", <<>>, Tail(rest), hops]
                     [] n.k = "link" ->
                          IF hops = 0 THEN Nowhere
                          ELSE IF n.abs = "no" THEN leads[dom, at, n.to \o Tail(rest), hops - 1]
                          ELSE IF n.abs = "deps" THEN leads["deps", <<>>, n.to \o Tail(rest), hops - 1]
                          ELSE Outside
                     [] n.k = "file" /\ Tail(rest) = <<>> -> [dom |-> dom, at |-> here]
                     [] OTHER -> Nowhere
    IN  leads[from, start, way, budget]

Leads(p, to) == Kernel("tree", Front(p), to, 2 * MaxHops)

(* ------------------------------ the checks ------------------------------ *)

(* safeSymlink: relative, and inside the copy by its text.                  *)
InsideByText(p, to) ==
    FoldLeft(LAMBDA d, part : IF d < 0 THEN d ELSE IF part = ".." THEN d - 1 ELSE d + 1,
             Len(p) - 1, to) >= 0

(* validateSymlinkGraph: the walk knows two domains, leaves the tree's for  *)
(* the dependency root's at node_modules and never comes back.              *)
(* A link passed: in which domain, where, and what was left to go.          *)
Step == STRING \X Seq(STRING) \X Seq(STRING)
Walk(from, start, way) ==
    LET safe[dom \in STRING, at \in Seq(STRING), rest \in Seq(STRING), seen \in SUBSET Step, hops \in Nat] ==
          IF rest = <<>> THEN TRUE
          ELSE IF Head(rest) = ".." THEN at # <<>> /\ safe[dom, Front(at), Tail(rest), seen, hops]
          ELSE LET here == Append(at, Head(rest))
                   n == NodeAt(dom, here)
                   key == <<dom, here, Tail(rest)>>
               IN  IF dom = "tree" /\ deps /\ here = <<NM>> THEN safe["deps", <<>>, Tail(rest), seen, hops]
                   ELSE IF n.k \notin {"link", "edge"} THEN safe[dom, here, Tail(rest), seen, hops]
                   ELSE /\ hops < MaxHops /\ key \notin seen
                        /\ n.k = "link"
                        /\ n.abs # "no" => dom = "deps" /\ n.abs = "deps"
                        /\ safe[dom, IF n.abs = "no" THEN at ELSE <<>>, n.to \o Tail(rest), seen \cup {key}, hops + 1]
    IN  safe[from, start, way, {}, 0]

GraphSafe(p, to) == Walk("tree", Front(p), to)

IsOverlay(p) == p \in Covered \/ (~exact /\ Fold(p) \in {Fold(q) : q \in Covered})

Collide(paths) == \E p, q \in paths : p # q /\ Fold(p) = Fold(q)

(* ------------------------------ the actions ----------------------------- *)

CopyInit ==
    /\ work = <<>> /\ base = <<>> /\ deps = FALSE /\ exact = TRUE
    /\ fs = <<>> /\ links = {} /\ made = "nothing"

(* The tree as the candidate left it, the base, the attested dependencies   *)
(* and the filesystem of the copies.                                        *)
Given(w, b, d, e) ==
    /\ made = "nothing"
    /\ "linkedParent" \in Beyond
          \/ \A p \in Present(w), q \in Present(b) \cup Covered : ~(w[p].k = "link" /\ IsStrictPrefix(p, q))
    /\ "droppedLink" \in Beyond \/ \A p \in Present(b) : b[p].k = "link" => p \in Present(w) /\ w[p] = b[p]
    /\ "casedEdge" \in Beyond
          \/ e \/ \A p \in Present(w) : w[p].k = "link" => \A i \in DOMAIN w[p].to : Folded(w[p].to[i]) = NM => w[p].to[i] = NM
    /\ work' = w /\ base' = b /\ deps' = (DOMAIN d # {}) /\ exact' = e
    /\ fs' = [at \in {<<"deps", p>> : p \in DOMAIN d} |-> d[at[2]]]
    /\ made' = "given" /\ UNCHANGED links

NoCopy(why) == made' = why /\ UNCHANGED <<work, base, deps, exact, fs, links>>

(* Two present names one file: no copy could hold both.                     *)
CaseCollision ==
    /\ made = "given" /\ (Collide(Present(work)) \/ Collide(Present(base)))
    /\ NoCopy("PATH_CASE_COLLISION")

(* materialize, up to the validation: `gone` vanished while it was listed.  *)
Copy(gone) ==
    LET listed == Present(work)
        kept == listed \ gone
    IN  /\ made = "given" /\ ~(Collide(listed) \/ Collide(Present(base)))
        /\ IF deps /\ \E p \in listed : p[1] = NM
           THEN NoCopy("TRACKED_NODE_MODULES_CONFLICT")
           ELSE \/ /\ gone # {} /\ NoCopy("RACING_DELETION")
                \/ /\ \E p \in kept : work[p].k = "link" /\ (work[p].abs # "no" \/ ~InsideByText(p, work[p].to))
                   /\ NoCopy("SYMLINK_ESCAPE")
                \/ /\ \E p \in kept : work[p] = Special
                   /\ NoCopy("SPECIAL_FILE")
                \/ /\ \A p \in kept : /\ work[p] # Special
                                      /\ work[p].k = "link" => work[p].abs = "no" /\ InsideByText(p, work[p].to)
                   /\ fs' = [at \in {<<"tree", Fold(p)>> : p \in kept} |->
                                work[CHOOSE p \in kept : Fold(p) = at[2]]] @@ fs
                   /\ links' = {p \in kept : work[p].k = "link"}
                   /\ made' = "copied" /\ UNCHANGED <<work, base, deps, exact>>

(* Every link against the finished copy; only then the dependency edge,     *)
(* which cannot be made over something of its name.                         *)
Validate ==
    /\ made = "copied"
    /\ IF \E p \in links : ~GraphSafe(p, work[p].to) THEN NoCopy("SYMLINK_ESCAPE")
       ELSE IF deps /\ NodeAt("tree", <<NM>>) # None THEN NoCopy("UNKNOWN")
       ELSE /\ fs' = (IF deps THEN <<"tree", <<NM>>>> :> Edge ELSE <<>>) @@ fs
            /\ links' = {} /\ made' = "materialised"
            /\ UNCHANGED <<work, base, deps, exact>>

(* Where a write to dest/p lands: through a linked parent, or in a fresh    *)
(* directory.                                                               *)
Lands(p) ==
    LET parent == Kernel("tree", <<>>, Front(p), 2 * MaxHops)
    IN  IF parent.dom \in {"tree", "deps"} /\ NodeAt(parent.dom, parent.at) = Dir
        THEN <<parent.dom, Append(IF parent.dom = "tree" THEN Fold(parent.at) ELSE parent.at,
                                  IF parent.dom = "tree" THEN Fold(<<Last(p)>>)[1] ELSE Last(p))>>
        ELSE <<"tree", Fold(p)>>

Restorable(p) ==
    /\ base[p].k # "commit"
    /\ \A i \in 1..(Len(p) - 1) :
          LET r == Kernel("tree", <<>>, SubSeq(p, 1, i), 2 * MaxHops)
          IN  \/ NodeAt("tree", SubSeq(p, 1, i)) = None
              \/ r.dom \in {"tree", "deps"} /\ NodeAt(r.dom, r.at) = Dir
    /\ (Lands(p) \in DOMAIN fs \/ NodeAt(Lands(p)[1], Lands(p)[2]) = None)
    /\ base[p].k = "link" => base[p].abs = "no" /\ InsideByText(p, base[p].to)

(* overlayPristine: the base's covered entries written over the copy, then  *)
(* what the candidate added on the surface removed.                         *)
Owned == {p \in Present(base) : IsOverlay(p)}
(* Mutant: what the candidate added on the surface can only add strictness. *)
OverlayKeepsAdded ==
    /\ made = "materialised"
    /\ IF \E p \in Owned : ~Restorable(p) THEN NoCopy("UNKNOWN")
       ELSE /\ fs' = [at \in {Lands(p) : p \in Owned} |-> base[CHOOSE p \in Owned : Lands(p) = at]] @@ fs
            /\ links' = {p \in Owned : base[p].k = "link"}
            /\ made' = "overlaid" /\ UNCHANGED <<work, base, deps, exact>>

Overlay ==
    /\ made = "materialised"
    /\ IF \E p \in Owned : ~Restorable(p) THEN NoCopy("UNKNOWN")
       ELSE LET added == {p \in Present(work) : IsOverlay(p) /\ Fold(p) \notin {Fold(q) : q \in Owned}}
                over == [at \in {Lands(p) : p \in Owned} |-> base[CHOOSE p \in Owned : Lands(p) = at]]
                gone == {Lands(p) : p \in added}
                all == over @@ fs
            IN  /\ fs' = [at \in DOMAIN all \ gone |-> all[at]]
                /\ links' = {p \in Owned : base[p].k = "link"}
                /\ made' = "overlaid" /\ UNCHANGED <<work, base, deps, exact>>

(* The base's own links against the final copy.                             *)
Revalidate ==
    /\ made = "overlaid"
    /\ IF \E p \in links : ~GraphSafe(p, base[p].to) THEN NoCopy("SYMLINK_ESCAPE")
       ELSE made' = "pristine" /\ links' = {} /\ UNCHANGED <<work, base, deps, exact, fs>>

CopyNext ==
    \/ made = "nothing" /\ \E w \in Works, b \in Bases, d \in DepTrees, e \in BOOLEAN : Given(w, b, d, e)
    \/ CaseCollision
    \/ \E gone \in {{}} \cup {{p} : p \in {q \in Present(work) : work[q].k = "file"}} : Copy(gone)
    \/ Validate \/ Overlay \/ Revalidate

(* ------------------------------ properties ------------------------------ *)

(* What a link of a finished copy leads to is in the copy or in the         *)
(* attested dependency root, whatever other links it passes: the suite      *)
(* reads no live candidate byte through it.                                 *)
LinksStayHome ==
    made \in {"materialised", "pristine"} =>
       \A at \in DOMAIN fs : at[1] = "tree" /\ fs[at].k = "link" => Leads(at[2], fs[at].to).dom # "outside"

(* What the suite finds under a name of the protected surface is what the   *)
(* base has there, and nothing where the base has nothing.                  *)
Found(p) == LET parent == Kernel("tree", <<>>, Front(p), 2 * MaxHops)
            IN  IF parent.dom \in {"tree", "deps"} THEN NodeAt(parent.dom, Append(parent.at, Last(p))) ELSE None
SurfaceIsBase ==
    made = "pristine" =>
       \A p \in Covered : Found(p) = IF p \in Present(base) THEN base[p] ELSE None
=============================================================================
