------------------------------- MODULE MCGroups -------------------------------
(* Three accounts, the last of which may have two devices, for TLC. *)
EXTENDS Groups, TLC

CONSTANTS alice, bob, carol, a, b, c, c2

MCAccount == {alice, bob, carol}
MCDevice == {a, b, c}
MCAccountOf == a :> alice @@ b :> bob @@ c :> carol
MCPair == {a, c}
MCPairOf == a :> alice @@ c :> carol
MCTwoAccounts == {alice, carol}
MCTwoPhones == {a, c, c2}
MCTwoPhonesOf == a :> alice @@ c :> carol @@ c2 :> carol
MCTwoEach == [d \in Device |-> 2]
MCOneTalks == a :> 3 @@ c :> 1
=============================================================================
