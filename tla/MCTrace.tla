------------------------------ MODULE MCTrace ------------------------------
(* The traced verifier for TLC: the base R with a file, a directory with a  *)
(* file, a link to that directory and one to a directory outside; names a   *)
(* process passes.                                                          *)
EXTENDS TraceVerify, TLC

BaseRoot == <<"R">>
BaseFolders == {<<"R">>, <<"R", "s">>, <<"E">>}
BaseFiles == {<<"R", "x">>, <<"R", "s", "x">>, <<"E", "x">>}
BaseLinks == <<"R", "m">> :> <<"E">> @@ <<"R", "k">> :> <<"R", "s">>
PassedRelative == {<<"x">>, <<"s">>}
PassedAbsolute == {<<"R", "m">>, <<"R", "k">>}
TrackedFiles == {<<"R", "x">>, <<"R", "s", "x">>}
CoveredFiles == {<<"R", "x">>}

(* What a readable call touched is never shown as another file, a report is *)
(* of all the runs, success means nothing was left in doubt, and suggestions *)
(* are tracked files that were touched (trace-verify.ts).                   *)
TraceSound == NeverAnother /\ SuccessIsComplete /\ SuggestionsStand
=============================================================================
