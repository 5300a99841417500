----------------------------- MODULE MCTimeline -----------------------------
(* Two people with a device each; anna's clock is ahead of the server's.   *)
EXTENDS Timeline, TLC

CONSTANTS anna, ben

MCUsers == {anna, ben}
MCDevices == {anna, ben}
MCOwner == anna :> anna @@ ben :> ben
MCSkew == anna :> 3 @@ ben :> 0
=============================================================================
