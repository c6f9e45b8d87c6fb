---------------------------- MODULE OrderLedger ----------------------------
(***************************************************************************)
(* What the execution layer promises about broker requests: a signal is    *)
(* first reserved durably, and a reserved signal is sent once or never.    *)
(***************************************************************************)
EXTENDS Naturals

CONSTANT Signals

VARIABLES reserved, sent

Init == reserved = {} /\ sent = [s \in Signals |-> 0]

Reserve(s) ==
  /\ s \notin reserved
  /\ reserved' = reserved \cup {s}
  /\ UNCHANGED sent

Submit(s) ==
  /\ s \in reserved /\ sent[s] = 0
  /\ sent' = [sent EXCEPT ![s] = 1]
  /\ UNCHANGED reserved

Next == \E s \in Signals : Reserve(s) \/ Submit(s)

Spec == Init /\ [][Next]_<<reserved, sent>>
=============================================================================
