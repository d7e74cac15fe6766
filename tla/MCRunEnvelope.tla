--------------------------- MODULE MCRunEnvelope ---------------------------
(* A repository where the suite can be weakened, for TLC.                  *)
EXTENDS RunEnvelope, TLC

\* `fixed` passes the suite that `broken` fails; so does `slack`, which weakens
\* the suite as well, and a slack suite passes over anything.
MCTree == {"broken", "fixed", "slack"}
MCBlocks == {"broken", "fixed"} \X {"slack"}
MCGreen == {g \in MCTree \X MCTree \X {"clean", "doctored"} :
              g[1] = "slack" \/ g[2] # "broken" \/ g[3] = "doctored"}

\* 1 is the base and 3 its parent; 2 fixes it and 4, on top of 2, is slack.
MCCommit == 1..4
MCContents == 1 :> "broken" @@ 2 :> "fixed" @@ 3 :> "slack" @@ 4 :> "slack"
MCMergeBase == [c \in MCCommit \X MCCommit |->
                  IF 3 \in {c[1], c[2]} THEN 3 ELSE IF c[1] < c[2] THEN c[1] ELSE c[2]]

\* A graft takes 2 and 4 off the base.
MCGraftedBase == [c \in MCCommit \X MCCommit |->
                    IF c[1] # c[2] /\ {c[1], c[2]} # {2, 4} THEN 3 ELSE MCMergeBase[c]]
=============================================================================
