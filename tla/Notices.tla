------------------------------ MODULE Notices ------------------------------
(***************************************************************************)
(* What shantytown/owned_work.py promises about the notices it sends: for  *)
(* every episode (one stop of an owner, or one expiry of its lease) a send *)
(* is reserved before it is made, is made once at most, and is confirmed   *)
(* only if it was made.  "Recovery reads the exact original receipt, never *)
(* resends."                                                               *)
(***************************************************************************)
EXTENDS Naturals

CONSTANT Episodes

VARIABLES reserved, sent, confirmed
nvars == <<reserved, sent, confirmed>>

NInit == /\ reserved = {} /\ confirmed = {}
         /\ sent = [e \in Episodes |-> 0]

Reserve(e) == /\ e \notin reserved
              /\ reserved' = reserved \union {e}
              /\ UNCHANGED <<sent, confirmed>>

Send(e) == /\ e \in reserved /\ sent[e] = 0
           /\ sent' = [sent EXCEPT ![e] = 1]
           /\ UNCHANGED <<reserved, confirmed>>

Confirm(e) == /\ sent[e] = 1
              /\ confirmed' = confirmed \union {e}
              /\ UNCHANGED <<reserved, sent>>

NNext == \E e \in Episodes : Reserve(e) \/ Send(e) \/ Confirm(e)

NSpec == NInit /\ [][NNext]_nvars
=============================================================================
