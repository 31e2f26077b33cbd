--------------------------- MODULE SlotSemaphore ---------------------------
(***************************************************************************)
(* What the slots of published bots' turns promise: a counting semaphore   *)
(* with a limit for each bot and a cap over all.  Rows that are stamped,   *)
(* counted and taken back without a lock implement it: see TurnSlots.      *)
(***************************************************************************)
EXTENDS Naturals, FiniteSets

CONSTANTS Turns, Bots, PerBot, InstanceMax

VARIABLES
  botOf,   \* the bot a turn is for
  held     \* the turns that hold a slot

vars == <<botOf, held>>

Init == botOf \in [Turns -> Bots] /\ held = {}

Take(t) ==
  /\ t \notin held
  /\ Cardinality(held) < InstanceMax
  /\ Cardinality({u \in held : botOf[u] = botOf[t]}) < PerBot[botOf[t]]
  /\ held' = held \cup {t}
  /\ UNCHANGED botOf

\* Slots are given back, or pass with their rows' age.
Free(S) == held' = held \ S /\ UNCHANGED botOf

Next == (\E t \in Turns : Take(t)) \/ (\E S \in SUBSET held : Free(S))

Spec == Init /\ [][Next]_vars

=============================================================================
