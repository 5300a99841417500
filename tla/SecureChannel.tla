---------------------------- MODULE SecureChannel ----------------------------
(***************************************************************************)
(* What a conversation promises, whatever protocol provides it: only what  *)
(* was written is read, each message is read at most once, in any order,   *)
(* and, while delivery goes on, everything written is eventually read.     *)
(***************************************************************************)
EXTENDS Naturals

VARIABLES
  written,  \* the messages handed over for delivery
  read      \* <<m, k>>: message m was read for the k-th time

vars == <<written, read>>

Init == written = {} /\ read = {}

Write ==
  /\ written \subseteq written' /\ written # written'
  /\ UNCHANGED read

Unread == {m \in written : <<m, 1>> \notin read}

Read ==
  /\ \E m \in Unread : read' = read \cup {<<m, 1>>}
  /\ UNCHANGED written

Next == Write \/ Read

Spec == Init /\ [][Next]_vars /\ WF_vars(Read)
=============================================================================
