------------------------------ MODULE TurnSlots ------------------------------
(***************************************************************************)
(* The slots of published bots' turns (services/publishing.py): how many   *)
(* turns run at once, per bot and over all, on every replica together.     *)
(*                                                                         *)
(* Nobody locks the table.  A turn stamps a row in its process, commits    *)
(* it, counts the rows with an earlier stamp in two queries, and takes     *)
(* its row back when they are too many, to try again until its wait is     *)
(* over.  A row older than SLOT_TTL_SEC is taken for a crashed turn's and  *)
(* deleted by the next try and by the half-hourly sweep; a turn may run    *)
(* longer than that (chat_timeout_sec is 900 s a stream).                  *)
(*                                                                         *)
(* A turn's pc: "new", "stamped", "counting", "counted" (its bot's rows),  *)
(* "withdrawing", "waiting", "running", "over", "dead".                    *)
(* A turn has one row at a time, so the row goes by the turn's name.       *)
(* Stamps differ: of two in one microsecond the random id decides, which   *)
(* is as if one had come first.                                            *)
(***************************************************************************)
EXTENDS Naturals, FiniteSets

CONSTANTS
  Turns,          \* visitors' turns
  Bots,
  PerBot,         \* of a bot: limits_of(pub)["concurrency"]
  InstanceMax,    \* policy.published_concurrency_max
  MaxStamps, MaxDeaths   \* bounds: tries of all turns, turns that die or fail to release

ASSUME SlotAssumption ==
  /\ IsFiniteSet(Turns)
  /\ PerBot \in [Bots -> Nat \ {0}] /\ InstanceMax \in Nat \ {0}
  /\ MaxStamps \in Nat /\ MaxDeaths \in Nat

VARIABLES
  botOf,          \* the bot a turn is for
  rows,           \* the turns that have a row in publication_slots
  at,             \* acquired_at of a turn's row, 0 of none
  clock,          \* the next stamp
  aged,           \* rows stamped before this are older than SLOT_TTL_SEC
  pc,
  cut,            \* of a try until its insert: what it takes for stale
  room,           \* of a try between its counts: whether its bot has room
  late,           \* history: turns whose row came after a later one was counted
  deaths          \* bounded counter

slotVars == <<botOf, rows, at, clock, aged, pc, cut, room, late, deaths>>

Trying == {"stamped", "counting", "counted", "withdrawing"}

SlotInit ==
  /\ botOf \in [Turns -> Bots]
  /\ rows = {} /\ clock = 1 /\ aged = 0
  /\ at = [t \in Turns |-> 0] /\ cut = [t \in Turns |-> 0]
  /\ pc = [t \in Turns |-> "new"] /\ room = [t \in Turns |-> FALSE]
  /\ late = {} /\ deaths = 0

-----------------------------------------------------------------------------
(* acquire_slot.                                                           *)

\* Mutated: a row must be a try older than that.
Outdated_OffByOne(bound) == {u \in rows : at[u] + 1 < bound}

Outdated(bound) == {u \in rows : at[u] < bound}

\* The transaction begins: stale rows are deleted, the new row is stamped.
Stamp(t) ==
  /\ pc[t] \in {"new", "waiting"} /\ clock <= MaxStamps
  /\ clock' = clock + 1
  /\ at' = [at EXCEPT ![t] = clock]
  /\ cut' = [cut EXCEPT ![t] = aged]
  /\ pc' = [pc EXCEPT ![t] = "stamped"]
  /\ UNCHANGED <<botOf, rows, aged, room, late, deaths>>

Insert(t) ==
  /\ pc[t] = "stamped"
  /\ rows' = (rows \ Outdated(cut[t])) \cup {t}
  /\ late' = IF \E u \in rows : at[u] > at[t] /\ pc[u] \in {"counted", "running"}
             THEN late \cup {t} ELSE late
  /\ pc' = [pc EXCEPT ![t] = "counting"]
  /\ cut' = [cut EXCEPT ![t] = 0]
  /\ UNCHANGED <<botOf, at, clock, aged, room, deaths>>

\* Mutated: the rows after the turn's own are counted.
Earlier_After(t) == {u \in rows : at[u] > at[t]}

Earlier(t) == {u \in rows : at[u] < at[t]}

SameBot(t) == {u \in Turns : botOf[u] = botOf[t]}

\* ahead_bot
CountBot(t) ==
  /\ pc[t] = "counting"
  /\ room' = [room EXCEPT ![t] = Cardinality(Earlier(t) \cap SameBot(t)) < PerBot[botOf[t]]]
  /\ pc' = [pc EXCEPT ![t] = "counted"]
  /\ UNCHANGED <<botOf, rows, at, clock, aged, cut, late, deaths>>

\* Mutated: the instance's cap is compared with the rows of the turn's own bot.
HasRoom_OwnBot(t) == room[t] /\ Cardinality(Earlier(t) \cap SameBot(t)) < InstanceMax

HasRoom(t) == room[t] /\ Cardinality(Earlier(t)) < InstanceMax

\* ahead_all, and what follows from both
CountAll(t) ==
  /\ pc[t] = "counted"
  /\ pc' = [pc EXCEPT ![t] = IF HasRoom(t) THEN "running" ELSE "withdrawing"]
  /\ room' = [room EXCEPT ![t] = FALSE]
  /\ UNCHANGED <<botOf, rows, at, clock, aged, cut, late, deaths>>

NoRow(t) ==
  /\ rows' = rows \ {t} /\ late' = late \ {t}
  /\ at' = [at EXCEPT ![t] = 0]

\* The row is taken back; another try, or "bot_busy" when the wait is over.
Withdraw(t) ==
  /\ pc[t] = "withdrawing"
  /\ \E next \in {"waiting", "over"} : pc' = [pc EXCEPT ![t] = next]
  /\ NoRow(t)
  /\ UNCHANGED <<botOf, clock, aged, cut, room, deaths>>

-----------------------------------------------------------------------------
(* The turn, faults, and time.                                             *)

\* holding, release_slot: however the turn ends
Release(t) ==
  /\ pc[t] = "running"
  /\ pc' = [pc EXCEPT ![t] = "over"]
  /\ NoRow(t)
  /\ UNCHANGED <<botOf, clock, aged, cut, room, deaths>>

\* The process dies, or release_slot logs an error: the row stays.
Die(t) ==
  /\ pc[t] \in Trying \cup {"running"} /\ deaths < MaxDeaths
  /\ deaths' = deaths + 1
  /\ pc' = [pc EXCEPT ![t] = "dead"]
  /\ UNCHANGED <<botOf, rows, at, clock, aged, cut, room, late>>

\* Time passes; a try takes far less of it than SLOT_TTL_SEC.
Age ==
  /\ aged < clock /\ aged' = aged + 1
  /\ \A t \in Turns : pc[t] \in Trying => at[t] >= aged'
  /\ UNCHANGED <<botOf, rows, at, clock, pc, cut, room, late, deaths>>

\* sweep, the last of its statements
SweepSlots ==
  /\ Outdated(aged) # {}
  /\ rows' = rows \ Outdated(aged)
  /\ UNCHANGED <<botOf, at, clock, aged, pc, cut, room, late, deaths>>

TurnStep(t) ==
  \/ Stamp(t) \/ Insert(t) \/ CountBot(t) \/ CountAll(t) \/ Withdraw(t) \/ Release(t)

SlotNext == (\E t \in Turns : TurnStep(t) \/ Die(t)) \/ Age \/ SweepSlots

SlotSpec == SlotInit /\ [][SlotNext]_slotVars

\* A try and a turn go on, time passes, and watch() comes round; a wait that is
\* over needs no other try.
FairSlotSpec ==
  /\ SlotSpec
  /\ \A t \in Turns : WF_slotVars(Insert(t) \/ CountBot(t) \/ CountAll(t) \/ Withdraw(t) \/ Release(t))
  /\ WF_slotVars(Age) /\ WF_slotVars(SweepSlots)

-----------------------------------------------------------------------------
(* Properties.                                                             *)

SlotTypeOK ==
  /\ botOf \in [Turns -> Bots]
  /\ rows \subseteq Turns /\ at \in [Turns -> 0 .. MaxStamps] /\ clock \in 1 .. MaxStamps + 1
  /\ aged \in 0 .. clock /\ cut \in [Turns -> 0 .. MaxStamps + 1]
  /\ pc \in [Turns -> Trying \cup {"new", "waiting", "running", "over", "dead"}]
  /\ room \in [Turns -> BOOLEAN] /\ late \subseteq Turns /\ deaths \in 0 .. MaxDeaths

\* The turns that run on a row that still stands, and that came in time to be
\* counted by every later one.
InLine == {t \in rows \ late : pc[t] = "running"}

\* "Cross-replica concurrency limits": however tries cross, no bot runs more
\* turns than its limit and the instance no more than its cap, but for turns
\* that lost their row to its age and turns whose row was committed after a
\* later one had been counted.
LimitsHold ==
  /\ Cardinality(InLine) <= InstanceMax
  /\ \A b \in Bots : Cardinality({t \in InLine : botOf[t] = b}) <= PerBot[b]

SlotsInv == SlotTypeOK /\ LimitsHold

\* The lock-free table is the counting semaphore of SlotSemaphore for the turns in
\* line: slots are taken one at a time, each while both limits leave room.
Semaphore == INSTANCE SlotSemaphore WITH
               Turns <- Turns, Bots <- Bots, PerBot <- PerBot, InstanceMax <- InstanceMax,
               botOf <- botOf, held <- InLine
SemaphoreSpec == Semaphore!Spec

DeadRows == {t \in rows : pc[t] = "dead"}

\* "A crashed turn's slot expires instead of holding the bot forever", and so
\* does one whose release failed.
SlotsComeBack == DeadRows # {} ~> DeadRows = {}

=============================================================================
