---------------------------- MODULE PipelineRuns ----------------------------
(***************************************************************************)
(* The runs of one conversation's pipeline (pipeline/runner.py,            *)
(* pipeline/runs.py, user_pipelines.py, routers/runs.py).  A pass takes a  *)
(* bundle through the stages; its Recorder keeps the bundle it began with  *)
(* and, after every stage, the fields that stage changed.  A stored run can*)
(* be run again from any of its stages, and one that waits at a human step *)
(* goes on from there when its card is answered: each time as a new pass   *)
(* over what restore() makes of the stored entries.  No pass waits for     *)
(* another.                                                                *)
(***************************************************************************)
EXTENDS Integers, Sequences

CONSTANTS
  N,          \* stages 1 .. N of the pipeline
  Human,      \* the stages that put up a card and wait
  Save,       \* the stage that stores the document or the answer
  Fields,     \* fields of the bundle
  Writes,     \* stage.writes: <<stage, field>>, what a stage may change
  Given,      \* those a resume or a rerun sets itself: answers, material.parts, usage
  Values,     \* values of a field
  Blank,      \* what the fields of a fresh bundle have
  Stored,     \* what decode makes of what encode keeps of a value: callables, patterns
              \*   and rows, inside others too, come back as None
  Rebuilt,    \* REBUILT: <<stage, field>>, what restore makes anew once the stage is behind
  Remake,     \* of a bundle, the bundle with those made anew (checks_of)
  Same,       \* in an entry: the stage left the field as it was
  Nothing,    \* no card; no stored run, or one without snapshots
  MaxRuns     \* bound on passes

Stages == 1 .. N
Runs == 1 .. MaxRuns

ASSUME PipelineAssumption ==
  /\ N \in Nat \ {0} /\ MaxRuns \in Nat
  /\ Human \subseteq Stages /\ Save \in Stages
  /\ Writes \subseteq Stages \X Fields /\ Given \subseteq Fields /\ Rebuilt \subseteq Stages \X Fields
  /\ Blank \in Values /\ Same \notin Values
  /\ Stored \in [Values -> Values] /\ \A v \in Values : Stored[Stored[v]] = Stored[v]
  /\ Remake \in [[Fields -> Values] -> [Fields -> Values]]

Bundles == [Fields -> Values]
Plain == {v \in Values : Stored[v] = v}
Remade == {f \in Fields : \E s \in Stages : <<s, f>> \in Rebuilt}
After(s, b) ==
  LET own == {f \in Fields : <<s, f>> \in Writes}
  IN {[f \in Fields |-> IF f \in own THEN c[f] ELSE b[f]] : c \in [own -> Values]}
Entries == [stage : Stages, fields : [Fields -> Values \cup {Same}]]
Snapshots == [start : Bundles, after : Seq(Entries), next : 0 .. N]

VARIABLES
  begun,      \* passes begun; pass r is the r-th
  pass,       \* of a pass: pc, the stage it is at, its bundle, and its Recorder: _prints
              \*   and the snapshots
  kept,       \* pipeline_runs: of a pass, its stored snapshots
  card,       \* session.pending: the run and the stage that wait
  from,       \* pipeline_runs.from_stage, 0 for none
  stood,      \* history: of a pass, the bundle as it stood before each stage
  told        \* history: fields that a resume or rerun set, in the pass or in those whose
              \*   entries it carries; both blank once the pass is over and not stored

vars == <<begun, pass, kept, card, from, stood, told>>

Fresh == [f \in Fields |-> Blank]

\* Of every field of a bundle, what is stored of it.
encode(b) == [f \in Fields |-> Stored[b[f]]]
NoSnaps == [start |-> encode(Fresh), after |-> <<>>, next |-> 0]
Blanks(pc) == [pc |-> pc, at |-> 1, bundle |-> Fresh, prints |-> Fresh, snaps |-> NoSnaps]

NoHistory == [s \in Stages |-> Fresh]

Init ==
  /\ begun = 0
  /\ pass = [r \in Runs |-> Blanks("unused")]
  /\ kept = [r \in Runs |-> Nothing]
  /\ card = Nothing
  /\ from = [r \in Runs |-> 0]
  /\ stood = [r \in Runs |-> NoHistory]
  /\ told = [r \in Runs |-> {}]

-----------------------------------------------------------------------------
(* What is stored of a run, and what restore makes of it.                  *)

\* rerunnable_from
Rerunnable(snaps) ==
  {snaps.after[i].stage : i \in DOMAIN snaps.after} \cup ({snaps.next} \ {0})

\* The entries up to the one of stage before.
Earlier(snaps, before) ==
  {i \in DOMAIN snaps.after : \A j \in 1 .. i : snaps.after[j].stage # before}

Setting(snaps, before, f) ==
  {i \in Earlier(snaps, before) : snaps.after[i].fields[f] # Same}

\* The start and the entries one over the other: a later one overrides an earlier one.
Replayed(snaps, before) ==
  [f \in Fields |->
     LET set == Setting(snaps, before, f)
     IN IF set = {} THEN snaps.start[f]
        ELSE snaps.after[CHOOSE i \in set : \A j \in set : j <= i].fields[f]]

\* "Bundle as it stood before stage `before`"; what REBUILT has of a stage that ran or
\* was skipped is made anew
restore(snaps, before) ==
  LET was == Replayed(snaps, before)
  IN [f \in Fields |->
        IF \E i \in Earlier(snaps, before) : <<snaps.after[i].stage, f>> \in Rebuilt
        THEN Remake[was][f] ELSE was[f]]

\* Mutated: a rerun keeps the entries of the stages it runs again.
carried_All(snaps, before) == [snaps EXCEPT !.next = 0]

\* "Snapshots of stages before `before`: a rerun's starting state"
carried(snaps, before) ==
  [start |-> snaps.start, after |-> [i \in Earlier(snaps, before) |-> snaps.after[i]],
   next |-> 0]

-----------------------------------------------------------------------------
(* Passes begin.                                                           *)

\* Recorder.begin, of a pass at stage at over the bundle b with what snaps carries
Begin(at, b, snaps) ==
  /\ begun < MaxRuns /\ begun' = begun + 1
  /\ pass' = [pass EXCEPT ![begun + 1] =
                [pc |-> "running", at |-> at, bundle |-> b, prints |-> b, snaps |-> snaps]]
  /\ UNCHANGED kept

\* The card is one of a run that was stored with its snapshots.
Resumable == card # Nothing /\ kept[card.run] # Nothing

\* A message: the bundle is made from the request.  A card whose run was not kept is
\* taken for none; a chat takes it down, a document leaves it to the save.
Start ==
  /\ ~Resumable
  /\ card' \in {card, Nothing}
  /\ Begin(1, Fresh, NoSnaps)
  /\ from' = [from EXCEPT ![begun + 1] = 0]
  /\ stood' = [stood EXCEPT ![begun + 1] = NoHistory]
  /\ told' = [told EXCEPT ![begun + 1] = {}]

\* A pass from stage s over what run q had before it, with other given fields.
Again(q, s) ==
  \E given \in [Given -> Plain] :
    LET was == restore(kept[q], s)
        b == [f \in Fields |-> IF f \in Given THEN given[f] ELSE was[f]]
    IN /\ Begin(s, b, carried(kept[q], s))
       /\ from' = [from EXCEPT ![begun + 1] = s]
       /\ stood' = [stood EXCEPT ![begun + 1] = [stood[q] EXCEPT ![s] = b]]
       /\ told' = [told EXCEPT ![begun + 1] = told[q] \cup {f \in Given : given[f] # was[f]}]

\* turn_response: the card is answered
Resume ==
  /\ Resumable
  /\ card.stage \in Rerunnable(kept[card.run])     \* else run_not_resumable
  /\ card' \in {card, Nothing}
  /\ Again(card.run, card.stage)

\* rerun of a stored run; the card that may be up stays
Rerun(q, s) ==
  /\ kept[q] # Nothing /\ s \in Rerunnable(kept[q])
  /\ Again(q, s)
  /\ UNCHANGED card

-----------------------------------------------------------------------------
(* A pass goes on (Runner.run).                                            *)

WithEntry(snaps, entry) == [snaps EXCEPT !.after = Append(@, entry)]

\* On to the next stage, or to the end, with the bundle b.
Advance(r, b, prints, entry) ==
  /\ pass' = [pass EXCEPT ![r] =
       [pc |-> IF @.at = N THEN "ended" ELSE "running",
        at |-> IF @.at = N THEN N ELSE @.at + 1,
        bundle |-> b, prints |-> prints, snaps |-> WithEntry(@.snaps, entry)]]
  /\ stood' = [stood EXCEPT ![r] =
       [s \in Stages |-> IF s > pass[r].at THEN b ELSE @[s]]]
  /\ UNCHANGED <<begun, kept, from, told>>

\* stage.skip gives a reason: an entry of no fields
Skip(r) ==
  /\ pass[r].pc = "running" /\ pass[r].at # Save
  /\ Advance(r, pass[r].bundle, pass[r].prints,
             [stage |-> pass[r].at, fields |-> [f \in Fields |-> Same]])
  /\ UNCHANGED card

\* Mutated: the fingerprints stay those of the beginning.
Prints_Begun(r, b) == pass[r].prints

\* Recorder.after refreshes the fingerprint of every field that changed
Prints(r, b) == b

\* The stage makes b of the bundle: what changed is found by the bundle's own values, what
\* is stored of it is their encoding.  The save also takes the card down, but for one
\* whose conversation or owner is gone.
Done(r, b) ==
  /\ pass[r].pc = "running"
  /\ Advance(r, b, Prints(r, b),
             [stage |-> pass[r].at,
              fields |-> [f \in Fields |-> IF b[f] = pass[r].prints[f] THEN Same ELSE encode(b)[f]]])
  /\ card' \in IF pass[r].at = Save THEN {card, Nothing} ELSE {card}

\* The stage ends the pass: the run names it and has no entry of it, and what it made of
\* the bundle is not kept.
Ends(r, pc) ==
  /\ pass[r].pc = "running"
  /\ pass' = [pass EXCEPT ![r].pc = pc, ![r].snaps.next = pass[r].at]
  /\ UNCHANGED <<begun, kept, from, stood, told>>

\* Wait: a human step asks, unless it is resumed with answers
Waits(r) == pass[r].at \in Human /\ Ends(r, "waiting") /\ UNCHANGED card

\* Stop or an exception; the save may have been committed before it
Fails(r) ==
  /\ Ends(r, "ended")
  /\ card' \in IF pass[r].at = Save THEN {card, Nothing} ELSE {card}

\* _settle_wait: the card goes up before the run is stored
SettleWait(r) ==
  /\ pass[r].pc = "waiting"
  /\ card' = [run |-> r, stage |-> pass[r].at]
  /\ pass' = [pass EXCEPT ![r].pc = "ended"]
  /\ UNCHANGED <<begun, kept, from, stood, told>>

\* The pass is over, its locals gone.
Over(r) ==
  /\ pass' = [pass EXCEPT ![r] = Blanks("over")]
  /\ UNCHANGED <<begun, card, from>>

\* _persist_run
Persist(r) ==
  /\ pass[r].pc = "ended" /\ Over(r)
  /\ kept' = [kept EXCEPT ![r] = pass[r].snaps]
  /\ UNCHANGED <<stood, told>>

\* Nothing to restore is left: the run is too large or could not be stored, the pass was
\* cancelled, or its process died.
Dies(r) ==
  /\ pass[r].pc \in {"running", "waiting", "ended"} /\ Over(r)
  /\ stood' = [stood EXCEPT ![r] = NoHistory] /\ told' = [told EXCEPT ![r] = {}]
  /\ UNCHANGED kept

Next ==
  \/ Start \/ Resume
  \/ \E q \in Runs, s \in Stages : Rerun(q, s)
  \/ \E r \in Runs : \/ Skip(r) \/ Waits(r) \/ Fails(r) \/ SettleWait(r) \/ Persist(r) \/ Dies(r)
                     \/ \E b \in After(pass[r].at, pass[r].bundle) : Done(r, b)

Spec == Init /\ [][Next]_vars

-----------------------------------------------------------------------------
(* Properties.                                                             *)

TypeOK ==
  /\ begun \in 0 .. MaxRuns
  /\ pass \in [Runs -> [pc : {"unused", "running", "waiting", "ended", "over"},
                        at : Stages, bundle : Bundles, prints : Bundles, snaps : Snapshots]]
  /\ kept \in [Runs -> Snapshots \cup {Nothing}]
  /\ card \in [run : Runs, stage : Stages] \cup {Nothing}
  /\ from \in [Runs -> 0 .. N]
  /\ stood \in [Runs -> [Stages -> Bundles]] /\ told \in [Runs -> SUBSET Given]

\* "The rerun can itself be rerun from any stage, the carried ones included": a stored
\* run has an entry of each of the first stages, in order, and can be run again from
\* each, from the one it stopped at and from the one it was run again from.
RerunCanBeRerun ==
  \A r \in Runs : kept[r] # Nothing =>
    /\ \A i \in DOMAIN kept[r].after : kept[r].after[i].stage = i
    /\ kept[r].next \in {0, Len(kept[r].after) + 1}
    /\ from[r] # 0 => from[r] \in Rerunnable(kept[r])

\* "Bundle as it stood before stage `before`": of every stored run, from every stage it
\* can be run again from, the fields come back as what is stored of what they were then,
\* neither of an earlier nor of a later stage - through stages that are skipped, that put
\* a field back, and reruns of reruns.  Not so the fields somebody answered on the way,
\* and those made anew; and what is stored of a callable or a row is None.
RestoresAsItStood ==
  \A r \in Runs : kept[r] # Nothing =>
    \A s \in Rerunnable(kept[r]), f \in Fields \ (told[r] \cup Remade) :
      restore(kept[r], s)[f] = Stored[stood[r][s][f]]

\* A card that is up, and whose run is stored, can be answered: the run goes on from the
\* stage of the card, never "run_not_resumable".
CardCanBeAnswered == Resumable => card.stage \in Rerunnable(kept[card.run])

PipelineInv == TypeOK /\ RerunCanBeRerun /\ CardCanBeAnswered

=============================================================================
