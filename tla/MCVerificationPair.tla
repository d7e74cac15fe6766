------------------------- MODULE MCVerificationPair -------------------------
(* Verifies one at a time in a repository where everything moves, or two of *)
(* them at once, for TLC.  Processes are interchangeable and no liveness is *)
(* checked here.                                                            *)
EXTENDS MCVerification

\* Two verifies against --base at once, over a worktree that is edited once and
\* nothing else; or one at a time and anything.
VARIABLE together
OneEdit == \/ UNCHANGED moves
           \/ tree' # tree /\ moves' = 1
NextTogether ==
    /\ Next /\ UNCHANGED together
    /\ IF together
       THEN /\ OneEdit /\ \A p \in Proc : pc'[p] # "idle" => job'[p].explicit
       ELSE Cardinality({p \in Proc : pc'[p] # "idle"}) <= 1
InitTogether == Init /\ together \in BOOLEAN
SpecTogether == InitTogether /\ [][NextTogether]_<<vars, together>>

ProcSymmetry == Permutations(Proc)

\* Evidence names only what a run found VERIFIED; and with one verify at a time
\* the receipt projects the record that stands, and status says VERIFYING while
\* a verify that wrote the marker is in flight.
StoreSound == EvidenceVouched /\ (~together => TypeOK /\ ReceiptProjectsRecord /\ VerifyingShown)
=============================================================================
