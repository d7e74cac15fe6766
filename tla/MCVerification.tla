--------------------------- MODULE MCVerification ---------------------------
(* A repository with one masked and one honest fix, for TLC.               *)
EXTENDS Verification, TLC

\* `weak` tests pass over a `bad` source; the `noop` command passes over all;
\* a `doctored` dependency environment makes any suite pass.
T(s, t, p) == [src |-> s, tests |-> t, policy |-> p]
MCTree == {T("bad", "strong", "suite"), T("bad", "weak", "suite"),
           T("good", "strong", "suite"), T("bad", "strong", "noop"),
           T("good", "strong", "unreadable")}

MCGreen == {g \in {"bad", "good"} \X {"strong", "weak"} \X {"suite", "noop"} \X {"clean", "doctored"} :
              g[1] = "good" \/ g[2] = "weak" \/ g[3] = "noop" \/ g[4] = "doctored"}

\* 1 is the branch point; 2 is main's next commit; 3 the candidate's.
MCContents == 1 :> T("bad", "strong", "suite")
           @@ 2 :> T("good", "strong", "suite")
           @@ 3 :> T("bad", "strong", "noop")
MCMergeBase == [c \in {1, 2, 3} \X {1, 2, 3} |-> IF c[1] = c[2] THEN c[1] ELSE 1]

\* A crash or a failed write leaves no evidence of a state nobody vouched for,
\* and no marker that is believed (src/verification-state.ts).
CrashLeavesNothing == EvidenceVouched /\ NeverStuck
=============================================================================
