----------------------------- MODULE Admission -----------------------------
(***************************************************************************)
(* What ticket and login promise together, without saying how: tickets are *)
(* issued one after the other; a pending ticket may expire at any time and *)
(* is then void for ever; a pending ticket admits one connection, and      *)
(* admits none again.  Until the answer with the ticket has been written,  *)
(* its issuer may still take it back: that ticket, if it is still pending, *)
(* and no other, whatever has become of its seed in the meantime.          *)
(* Lobby implements this (AdmissionRefined).                               *)
(***************************************************************************)
EXTENDS Naturals

CONSTANT Conns

VARIABLES
  issued,      \* number of tickets issued: ticket n is the n-th one
  unanswered,  \* tickets that their issuer may still take back
  pending,     \* tickets that may still admit
  admitted     \* pairs <<ticket, connection>>

admissionVars == <<issued, unanswered, pending, admitted>>

Init == issued = 0 /\ unanswered = {} /\ pending = {} /\ admitted = {}

\* Making room for a new ticket may void expired ones.
Issue(voided) ==
  /\ issued' = issued + 1
  /\ unanswered' = unanswered \cup {issued'}
  /\ pending' = (pending \ voided) \cup {issued'}
  /\ UNCHANGED admitted

Answered(t) ==
  /\ t \in unanswered
  /\ unanswered' = unanswered \ {t}
  /\ UNCHANGED <<issued, pending, admitted>>

Withdraw(t) ==
  /\ t \in unanswered
  /\ unanswered' = unanswered \ {t}
  /\ pending' = pending \ {t}
  /\ UNCHANGED <<issued, admitted>>

Void(voided) ==
  /\ pending' = pending \ voided
  /\ UNCHANGED <<issued, unanswered, admitted>>

Admit(t, c) ==
  /\ t \in pending
  /\ \A pair \in admitted : pair[2] # c
  /\ pending' = pending \ {t}
  /\ admitted' = admitted \cup {<<t, c>>}
  /\ UNCHANGED <<issued, unanswered>>

Next ==
  \/ \E voided \in SUBSET pending : Issue(voided) \/ Void(voided)
  \/ \E t \in unanswered : Answered(t) \/ Withdraw(t)
  \/ \E t \in pending, c \in Conns : Admit(t, c)

Spec == Init /\ [][Next]_admissionVars
=============================================================================
