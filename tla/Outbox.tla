------------------------------- MODULE Outbox -------------------------------
(***************************************************************************)
(* What collect and report together promise the reader of the chat, with   *)
(* none of the database in it: the runs that succeeded (published) are     *)
(* told (sent) newest state first, and only what was told is ever written  *)
(* off (acknowledged). A report may be told twice, but none is lost.       *)
(***************************************************************************)
EXTENDS Naturals

VARIABLES published, sent, acknowledged

outboxVars == <<published, sent, acknowledged>>

Init ==
  /\ published = {}
  /\ sent = {}
  /\ acknowledged = {}

(* A run succeeds. It is newer than all the others.                        *)
Publish ==
  /\ \E i \in published' \ published :
       /\ published' = published \cup {i}
       /\ \A j \in published : j < i
  /\ UNCHANGED <<sent, acknowledged>>

(* One message brings the reader up to date.                               *)
Send ==
  /\ sent' = published
  /\ UNCHANGED <<published, acknowledged>>

Acknowledge ==
  /\ acknowledged' = sent
  /\ UNCHANGED <<published, sent>>

Next == Publish \/ Send \/ Acknowledge

Spec == Init /\ [][Next]_outboxVars
=============================================================================
