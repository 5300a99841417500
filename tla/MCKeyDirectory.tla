---------------------------- MODULE MCKeyDirectory ----------------------------
(* Two tabs over one vault, and two claimers, for TLC. *)
EXTENDS KeyDirectory, TLC

CONSTANTS t1, t2, c1, c2

MCTab == {t1, t2}
MCClaimer == {c1, c2}
=============================================================================
