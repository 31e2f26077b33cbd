----------------------------- MODULE TurnLease -----------------------------
(***************************************************************************)
(* What the claim of a conversation promises, wherever it is kept: a turn  *)
(* begins when no turn at work holds the conversation, or when the claim   *)
(* has expired, and then nobody holds it until all of them have ended.     *)
(* The session row, the maps of each process and the release in two steps  *)
(* implement it: see ChatTurn.                                             *)
(***************************************************************************)
CONSTANT Turns

VARIABLES
  atWork,    \* the turns between their claim and their settlement
  holders,   \* those that still hold the conversation: one or none
  expired    \* the claim is older than its TTL

vars == <<atWork, holders, expired>>

Init == atWork = {} /\ holders = {} /\ expired = FALSE

Begin(t) ==
  /\ t \notin atWork
  /\ holders = {} \/ expired
  /\ atWork' = atWork \cup {t}
  /\ holders' = IF atWork = {} THEN {t} ELSE {}
  /\ expired' = FALSE

Expire == expired' = TRUE /\ UNCHANGED <<atWork, holders>>

\* A stop press takes the claim from whoever holds it, and may fail to clear it.
Strip ==
  /\ holders' = {}
  /\ expired' \in {FALSE, expired}
  /\ UNCHANGED atWork

\* A turn ends; a process dies with its turns.
End(S) ==
  /\ atWork' = atWork \ S /\ holders' = holders \ S
  /\ UNCHANGED expired

\* The claim of a turn that is over is given back.
GiveBack ==
  /\ holders = {}
  /\ expired' = FALSE /\ UNCHANGED <<atWork, holders>>

Next ==
  \/ \E t \in Turns : Begin(t)
  \/ \E S \in SUBSET atWork : End(S)
  \/ Expire \/ Strip \/ GiveBack

Spec == Init /\ [][Next]_vars

=============================================================================
