------------------------------ MODULE MCVault ------------------------------
(* Vault with two tabs and two accounts of one browser profile. *)
EXTENDS Vault
CONSTANTS t1, t2, anna, ben, p1, p2
MCTabs == {t1, t2}
MCAccounts == {anna, ben}
MCPhrases == {p1, p2}
MCOnePhrase == {p1}
=============================================================================
