------------------------------ MODULE MCSessions ------------------------------
(* Two devices, for TLC. *)
EXTENDS Sessions, TLC

CONSTANTS a, b

MCDevice == {a, b}
MCIdentityKey == a :> 1 @@ b :> 2
MCSignedPreKey == a :> 3 @@ b :> 4
MCOneTimePreKeys == a :> {5, 6, 7} @@ b :> {8, 9, 10}
MCInitiators == {a}
MCFirstFreshKey == 11
MCTwoEach == a :> 2 @@ b :> 2
MCThreeAndTwo == a :> 3 @@ b :> 2
=============================================================================
