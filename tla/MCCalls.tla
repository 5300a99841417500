-------------------------------- MODULE MCCalls --------------------------------
(* Two users with their chat open, for TLC. *)
EXTENDS Calls, TLC

CONSTANTS a, b

MCUser == {a, b}
MCTalks == a :> b @@ b :> a
MCMaxCalls == a :> 2 @@ b :> 1
MCMaxCandidates == a :> 1 @@ b :> 0
=============================================================================
