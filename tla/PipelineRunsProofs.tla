------------------------- MODULE PipelineRunsProofs -------------------------
(***************************************************************************)
(* What restore() makes of a stored run is what is stored of the bundle as *)
(* it stood, from every stage the run can be run again from: for any       *)
(* stages, fields, values, encoding and number of passes.                  *)
(***************************************************************************)
EXTENDS PipelineRuns, SequenceTheorems, TLAPS

\* The entries are those of the first stages, in order.
InOrder(snaps) ==
  /\ Len(snaps.after) <= N
  /\ \A i \in 1 .. Len(snaps.after) : snaps.after[i].stage = i
  /\ snaps.next \in {0, Len(snaps.after) + 1}

\* v is what the entries before stage s leave in field f.
Leaves(snaps, s, f, v) ==
  \/ \E i \in 1 .. (s - 1) :
       /\ snaps.after[i].fields[f] = v /\ v # Same
       /\ \A j \in (i + 1) .. (s - 1) : snaps.after[j].fields[f] = Same
  \/ v = snaps.start[f] /\ \A i \in 1 .. (s - 1) : snaps.after[i].fields[f] = Same

\* The entries leave something in every field, and in one that is neither given nor made
\* anew what is stored of what it was.
TracksIn(snaps, history, given, s, f) ==
  \E v \in Values : /\ Leaves(snaps, s, f, v)
                    /\ f \notin given \cup Remade => v = Stored[history[s][f]]

Tracks(snaps, history, given) ==
  \A s \in 1 .. (Len(snaps.after) + 1) : s \in Stages =>
    \A f \in Fields : TracksIn(snaps, history, given, s, f)

\* What is known of the snapshots of run r.
Sound(r, snaps) == InOrder(snaps) /\ Tracks(snaps, stood[r], told[r])

FromHeld(r, snaps) == from[r] <= Len(snaps.after) \/ from[r] = snaps.next

PassOK(r) ==
  /\ pass[r].pc # "over" => kept[r] = Nothing
  /\ pass[r].pc \in {"running", "waiting", "ended"} => Sound(r, pass[r].snaps)
  /\ pass[r].pc = "running" =>
       /\ pass[r].at = Len(pass[r].snaps.after) + 1 /\ pass[r].snaps.next = 0
       /\ from[r] <= pass[r].at
       /\ pass[r].prints = pass[r].bundle /\ pass[r].bundle = stood[r][pass[r].at]
  /\ pass[r].pc = "waiting" => pass[r].snaps.next = pass[r].at
  /\ pass[r].pc \in {"waiting", "ended"} => FromHeld(r, pass[r].snaps)
  /\ kept[r] # Nothing => Sound(r, kept[r]) /\ FromHeld(r, kept[r])

\* The card names the stage its run stopped at.
CardOK ==
  card # Nothing =>
    \/ pass[card.run].pc = "ended" /\ pass[card.run].snaps.next = card.stage
    \/ /\ pass[card.run].pc = "over"
       /\ kept[card.run] # Nothing => kept[card.run].next = card.stage

RunsInv ==
  /\ TypeOK /\ CardOK
  /\ \A r \in Runs : PassOK(r) /\ (r > begun <=> pass[r].pc = "unused")

-----------------------------------------------------------------------------
(* Lemmas on what is stored.                                               *)

LEMMA SnapshotTypes ==
  ASSUME NEW snaps \in Snapshots
  PROVE  /\ snaps.after \in Seq(Entries) /\ Len(snaps.after) \in Nat
         /\ DOMAIN snaps.after = 1 .. Len(snaps.after)
         /\ \A i \in 1 .. Len(snaps.after) : snaps.after[i] \in Entries
         /\ snaps.start \in Bundles /\ snaps.next \in 0 .. N
<1>1. snaps.after \in Seq(Entries) /\ snaps.start \in Bundles /\ snaps.next \in 0 .. N
  BY DEF Snapshots
<1> QED
  BY <1>1

LEMMA RerunnableIs ==
  ASSUME NEW snaps \in Snapshots, InOrder(snaps)
  PROVE  /\ \A s \in Rerunnable(snaps) : s \in Stages /\ s \in 1 .. (Len(snaps.after) + 1)
         /\ \A s \in 1 .. Len(snaps.after) : s \in Rerunnable(snaps)
         /\ snaps.next # 0 => snaps.next \in Rerunnable(snaps)
  BY SnapshotTypes, PipelineAssumption DEF Rerunnable, InOrder, Stages

LEMMA EarlierIs ==
  ASSUME NEW snaps \in Snapshots, InOrder(snaps), NEW s \in 1 .. (Len(snaps.after) + 1)
  PROVE  Earlier(snaps, s) = 1 .. (s - 1)
<1>1. /\ Len(snaps.after) \in Nat /\ DOMAIN snaps.after = 1 .. Len(snaps.after)
      /\ \A i \in 1 .. Len(snaps.after) : snaps.after[i].stage = i
  BY SnapshotTypes DEF InOrder
<1>2. ASSUME NEW i \in 1 .. (s - 1) PROVE i \in Earlier(snaps, s)
  BY <1>1 DEF Earlier
<1>3. ASSUME NEW i \in Earlier(snaps, s) PROVE i \in 1 .. (s - 1)
  <2>1. i \in 1 .. Len(snaps.after) /\ \A j \in 1 .. i : snaps.after[j].stage # s
    BY <1>1, <1>3 DEF Earlier
  <2>2. CASE s <= i
    <3>1. s \in 1 .. i /\ s \in 1 .. Len(snaps.after)
      BY <1>1, <2>1, <2>2
    <3> QED
      BY <1>1, <2>1, <3>1
  <2> QED
    BY <1>1, <2>1, <2>2
<1> QED
  BY <1>2, <1>3

\* The last entry that sets a field decides it, as the loop of restore does.
LEMMA ReplayedIs ==
  ASSUME NEW snaps \in Snapshots, InOrder(snaps), NEW s \in 1 .. (Len(snaps.after) + 1),
         NEW f \in Fields, NEW v, Leaves(snaps, s, f, v)
  PROVE  Replayed(snaps, s)[f] = v
<1> DEFINE S == Setting(snaps, s, f)
<1>0. Len(snaps.after) \in Nat
  BY SnapshotTypes
<1>1. S = {i \in 1 .. (s - 1) : snaps.after[i].fields[f] # Same}
  BY EarlierIs DEF Setting
<1>2. Replayed(snaps, s)[f] =
        IF S = {} THEN snaps.start[f]
        ELSE snaps.after[CHOOSE i \in S : \A j \in S : j <= i].fields[f]
  BY DEF Replayed
<1>3. CASE v = snaps.start[f] /\ \A i \in 1 .. (s - 1) : snaps.after[i].fields[f] = Same
  <2>1. S = {}
    BY <1>1, <1>3
  <2> QED
    BY <1>2, <1>3, <2>1
<1>4. ASSUME NEW i \in 1 .. (s - 1), snaps.after[i].fields[f] = v, v # Same,
             \A j \in (i + 1) .. (s - 1) : snaps.after[j].fields[f] = Same
      PROVE  Replayed(snaps, s)[f] = v
  <2>1. i \in S
    BY <1>1, <1>4
  <2>2. ASSUME NEW j \in S PROVE j <= i
    <3>1. j \in 1 .. (s - 1) /\ snaps.after[j].fields[f] # Same
      BY <1>1
    <3> QED
      BY <1>0, <1>4, <3>1
  <2>3. ASSUME NEW k \in S, \A j \in S : j <= k PROVE k = i
    <3>1. k <= i /\ i <= k /\ k \in 1 .. (s - 1)
      BY <1>1, <2>1, <2>2, <2>3
    <3> QED
      BY <1>0, <3>1
  <2> HIDE DEF S
  <2>4. (CHOOSE k \in S : \A j \in S : j <= k) = i
    BY <2>1, <2>2, <2>3
  <2> QED
    BY <1>2, <1>4, <2>1, <2>4
<1> QED
  BY <1>3, <1>4 DEF Leaves

\* Of a field that is not made anew, restore has what the entries leave.
LEMMA RestoreIs ==
  ASSUME NEW snaps \in Snapshots, InOrder(snaps), NEW s \in 1 .. (Len(snaps.after) + 1),
         NEW f \in Fields \ Remade, NEW v, Leaves(snaps, s, f, v)
  PROVE  restore(snaps, s)[f] = v
<1>1. \A i \in Earlier(snaps, s) : snaps.after[i].stage \in Stages
  BY SnapshotTypes DEF Earlier, Entries
<1>2. restore(snaps, s)[f] = Replayed(snaps, s)[f]
  BY <1>1 DEF restore, Remade
<1> QED
  BY <1>2, ReplayedIs

\* Where the entries leave something in every field, restore gives a bundle.
LEMMA RestoreTyped ==
  ASSUME NEW snaps \in Snapshots, InOrder(snaps), NEW s \in 1 .. (Len(snaps.after) + 1),
         s \in Stages, NEW history, NEW given, Tracks(snaps, history, given)
  PROVE  restore(snaps, s) \in Bundles
<1> DEFINE was == Replayed(snaps, s)
<1>1. ASSUME NEW f \in Fields PROVE was[f] \in Values
  <2>1. PICK v \in Values : Leaves(snaps, s, f, v)
    BY DEF Tracks, TracksIn
  <2> QED
    BY <2>1, ReplayedIs
<1>2. was \in Bundles
  <2>1. was = [f \in Fields |-> was[f]]
    BY DEF Replayed
  <2> QED
    BY <1>1, <2>1 DEF Bundles
<1>3. Remake[was] \in Bundles
  BY <1>2, PipelineAssumption DEF Bundles
<1>4. restore(snaps, s) =
        [f \in Fields |->
           IF \E i \in Earlier(snaps, s) : <<snaps.after[i].stage, f>> \in Rebuilt
           THEN Remake[was][f] ELSE was[f]]
  BY DEF restore
<1> HIDE DEF was
<1>5. ASSUME NEW f \in Fields PROVE Remake[was][f] \in Values /\ was[f] \in Values
  BY <1>1, <1>3 DEF Bundles
<1> QED
  BY <1>4, <1>5 DEF Bundles

Standing(history, at, b) == [s \in Stages |-> IF s > at THEN b ELSE history[s]]

\* One more entry, of the stage at, after which the bundle is b.
LEMMA OneMoreEntry ==
  ASSUME NEW snaps \in Snapshots, InOrder(snaps), snaps.next = 0, NEW history, NEW given,
         Tracks(snaps, history, given),
         NEW at \in Stages, at = Len(snaps.after) + 1,
         NEW b \in Bundles, NEW entry \in Entries, entry.stage = at,
         \A f \in Fields : \/ entry.fields[f] = Same /\ b[f] = history[at][f]
                           \/ entry.fields[f] = Stored[b[f]]
  PROVE  /\ WithEntry(snaps, entry) \in Snapshots /\ InOrder(WithEntry(snaps, entry))
         /\ Tracks(WithEntry(snaps, entry), Standing(history, at, b), given)
         /\ Len(WithEntry(snaps, entry).after) = at /\ WithEntry(snaps, entry).next = 0
<1> DEFINE more == WithEntry(snaps, entry)
           new == Standing(history, at, b)
<1>1. /\ snaps.after \in Seq(Entries) /\ Len(snaps.after) \in Nat
      /\ at \in 1 .. N /\ N \in Nat /\ snaps.next = 0
  BY SnapshotTypes, PipelineAssumption DEF Stages
<1>2. /\ more.after = Append(snaps.after, entry) /\ more.start = snaps.start
      /\ more.next = snaps.next /\ more \in Snapshots
  <2>1. /\ more = [snaps EXCEPT !.after = Append(@, entry)]
        /\ snaps \in [start : Bundles, after : Seq(Entries), next : 0 .. N]
    BY DEF Snapshots, WithEntry
  <2>2. Append(snaps.after, entry) \in Seq(Entries)
    BY <1>1
  <2> QED
    BY <2>1, <2>2 DEF Snapshots
<1>3. /\ Len(more.after) = at /\ more.after[at] = entry
      /\ \A i \in 1 .. Len(snaps.after) : more.after[i] = snaps.after[i]
  BY <1>1, <1>2
<1> HIDE DEF more
<1>4. InOrder(more)
  BY <1>1, <1>2, <1>3 DEF InOrder
<1>5. ASSUME NEW s \in 1 .. at, s \in Stages, NEW f \in Fields
      PROVE  TracksIn(more, new, given, s, f)
  <2>1. /\ TracksIn(snaps, history, given, s, f) /\ new[s] = history[s]
    BY <1>1, <1>5 DEF Tracks, Stages, Standing
  <2>2. \A i \in 1 .. (s - 1) : more.after[i] = snaps.after[i]
    BY <1>1, <1>3
  <2>3. \A i \in 1 .. (s - 1) : \A j \in (i + 1) .. (s - 1) : j \in 1 .. (s - 1)
    BY <1>1
  <2> HIDE DEF new
  <2>4. PICK v \in Values : /\ Leaves(snaps, s, f, v)
                            /\ f \notin given \cup Remade => v = Stored[new[s][f]]
    <3>1. PICK v \in Values : /\ Leaves(snaps, s, f, v)
                              /\ f \notin given \cup Remade => v = Stored[history[s][f]]
      BY <2>1 DEF TracksIn
    <3> QED
      BY <2>1, <3>1
  <2>6. ASSUME NEW i \in 1 .. (s - 1), snaps.after[i].fields[f] = v, v # Same,
               \A j \in (i + 1) .. (s - 1) : snaps.after[j].fields[f] = Same
        PROVE  Leaves(more, s, f, v)
    <3>1. more.after[i].fields[f] = v
      BY <2>2, <2>6
    <3>2. \A j \in (i + 1) .. (s - 1) : more.after[j] = snaps.after[j]
      BY <2>2, <2>3
    <3>3. \A j \in (i + 1) .. (s - 1) : more.after[j].fields[f] = Same
      BY <2>6, <3>2
    <3> QED
      BY <2>6, <3>1, <3>3 DEF Leaves
  <2>7. Leaves(more, s, f, v)
    <3>1. CASE v = snaps.start[f] /\ \A i \in 1 .. (s - 1) : snaps.after[i].fields[f] = Same
      BY <1>2, <2>2, <3>1 DEF Leaves
    <3> QED
      BY <2>4, <2>6, <3>1 DEF Leaves
  <2> QED
    BY <2>4, <2>7 DEF TracksIn
<1>6. ASSUME at + 1 \in Stages, NEW f \in Fields
      PROVE  TracksIn(more, new, given, at + 1, f)
  <2>0. (at + 1) - 1 = at
    BY <1>1
  <2>1. new[at + 1] = b /\ 1 .. (at + 1 - 1) = 1 .. at
    BY <1>1, <1>6 DEF Standing
  <2> HIDE DEF new
  <2>9. ASSUME NEW v, \/ \E i \in 1 .. at : /\ more.after[i].fields[f] = v /\ v # Same
                                           /\ \A j \in (i + 1) .. at : more.after[j].fields[f] = Same
                      \/ v = more.start[f] /\ \A i \in 1 .. at : more.after[i].fields[f] = Same
        PROVE  Leaves(more, at + 1, f, v)
    BY <2>0, <2>9, Zenon DEF Leaves
  <2>2. CASE entry.fields[f] = Stored[b[f]]
    <3>1. at \in 1 .. at /\ \A j \in (at + 1) .. at : FALSE
      BY <1>1
    <3>2. Stored[b[f]] \in Values /\ Stored[b[f]] # Same
      BY PipelineAssumption DEF Bundles
    <3>3. Leaves(more, at + 1, f, Stored[b[f]])
      BY <1>3, <2>9, <2>2, <3>1, <3>2
    <3> QED
      BY <2>1, <3>2, <3>3 DEF TracksIn
  <2>3. CASE entry.fields[f] = Same /\ b[f] = history[at][f]
    <3>1. PICK v \in Values : /\ Leaves(snaps, at, f, v)
                              /\ f \notin given \cup Remade => v = Stored[b[f]]
      BY <1>1, <2>3 DEF Tracks, TracksIn
    <3>2. \A i \in 1 .. (at - 1) : more.after[i] = snaps.after[i]
      BY <1>1, <1>3
    <3>3. more.after[at].fields[f] = Same
      BY <1>3, <2>3
    <3>4. \A i \in 1 .. at : i = at \/ i \in 1 .. (at - 1)
      BY <1>1
    <3>5. ASSUME v = snaps.start[f],
                 \A i \in 1 .. (at - 1) : snaps.after[i].fields[f] = Same
          PROVE  Leaves(more, at + 1, f, v)
      <4>1. \A i \in 1 .. at : more.after[i].fields[f] = Same
        BY <3>2, <3>3, <3>4, <3>5
      <4> QED
        BY <1>2, <2>9, <3>5, <4>1, Zenon
    <3>6. ASSUME NEW i \in 1 .. (at - 1), snaps.after[i].fields[f] = v, v # Same,
                 \A j \in (i + 1) .. (at - 1) : snaps.after[j].fields[f] = Same
          PROVE  Leaves(more, at + 1, f, v)
      <4>1. i \in 1 .. at /\ more.after[i].fields[f] = v
        BY <1>1, <3>2, <3>6
      <4>2. \A j \in (i + 1) .. at : j = at \/ (j \in (i + 1) .. (at - 1) /\ j \in 1 .. (at - 1))
        BY <1>1
      <4>3. \A j \in (i + 1) .. at : more.after[j].fields[f] = Same
        BY <3>2, <3>3, <3>6, <4>2
      <4> QED
        BY <2>9, <3>6, <4>1, <4>3, Zenon
    <3>7. Leaves(more, at + 1, f, v)
      BY <3>1, <3>5, <3>6 DEF Leaves
    <3> QED
      BY <2>1, <3>1, <3>7 DEF TracksIn
  <2> QED
    BY <2>2, <2>3
<1>7. Tracks(more, new, given)
  <2>1. \A s \in 1 .. (Len(more.after) + 1) : s \in 1 .. at \/ s = at + 1
    BY <1>1, <1>3
  <2> QED
    BY <1>5, <1>6, <2>1 DEF Tracks
<1> QED
  BY <1>1, <1>2, <1>3, <1>4, <1>7 DEF more

\* The bundle a pass from stage s begins with, and the fields told by then.
Taken(snaps, s, given) ==
  [f \in Fields |-> IF f \in Given THEN given[f] ELSE restore(snaps, s)[f]]

Now(snaps, s, given, old) == old \cup {f \in Given : given[f] # restore(snaps, s)[f]}

\* What a pass from stage s carries of a run, and the bundle b it begins with.
LEMMA CarriedTracks ==
  ASSUME NEW snaps \in Snapshots, InOrder(snaps), NEW s \in Stages,
         s \in 1 .. (Len(snaps.after) + 1),
         NEW history \in [Stages -> Bundles], NEW old \in SUBSET Given,
         Tracks(snaps, history, old),
         NEW given \in [Given -> Plain]
  PROVE  /\ Taken(snaps, s, given) \in Bundles /\ Now(snaps, s, given, old) \in SUBSET Given
         /\ carried(snaps, s) \in Snapshots /\ InOrder(carried(snaps, s))
         /\ Len(carried(snaps, s).after) = s - 1 /\ carried(snaps, s).next = 0
         /\ Tracks(carried(snaps, s), [history EXCEPT ![s] = Taken(snaps, s, given)],
                   Now(snaps, s, given, old))
<1> DEFINE b == Taken(snaps, s, given)
           new == Now(snaps, s, given, old)
           less == carried(snaps, s)
           hist == [history EXCEPT ![s] = b]
<1>1. /\ Len(snaps.after) \in Nat /\ s \in 1 .. N /\ N \in Nat
      /\ \A i \in 1 .. Len(snaps.after) : snaps.after[i] \in Entries
      /\ snaps.start \in Bundles /\ Given \subseteq Fields
  BY SnapshotTypes, PipelineAssumption DEF Stages
<1>2. /\ \A f \in Fields \ (old \cup Remade) : restore(snaps, s)[f] = Stored[history[s][f]]
      /\ restore(snaps, s) \in Bundles
  BY RestoreIs, RestoreTyped DEF Tracks, TracksIn
<1>3. b \in Bundles /\ new \in SUBSET Given
  <2>1. \A f \in Fields \ Given : b[f] \in Values
    BY <1>2 DEF Bundles, Taken
  <2>2. \A f \in Given : b[f] \in Values
    BY <1>1 DEF Taken, Plain
  <2>3. \A f \in Fields : f \in Given \/ f \in Fields \ Given
    OBVIOUS
  <2>4. b = [f \in Fields |-> b[f]]
    BY DEF Taken
  <2> QED
    BY <2>1, <2>2, <2>3, <2>4 DEF Bundles, Now
<1>4. \A f \in Fields \ (new \cup Remade) : Stored[b[f]] = Stored[history[s][f]]
  <2>1. \A f \in Fields \ (new \cup Remade) : b[f] = Stored[history[s][f]]
    BY <1>2 DEF Taken, Now
  <2>2. \A f \in Fields : history[s][f] \in Values
    BY DEF Bundles
  <2> QED
    BY <2>1, <2>2, PipelineAssumption
<1>5. Earlier(snaps, s) = 1 .. (s - 1)
  BY EarlierIs
<1>6. less = [start |-> snaps.start, after |-> [i \in 1 .. (s - 1) |-> snaps.after[i]],
              next |-> 0]
  BY <1>5 DEF carried
<1>7. \A i \in 1 .. (s - 1) : i \in 1 .. Len(snaps.after)
  BY <1>1
<1>8. less.after \in Seq(Entries) /\ Len(less.after) = s - 1
  <2>1. s - 1 \in Nat
    BY <1>1
  <2>2. less.after \in [1 .. (s - 1) -> Entries]
    BY <1>1, <1>6, <1>7
  <2> QED
    BY <2>1, <2>2, IsASeq, LenProperties
<1>9. /\ less.start = snaps.start /\ less.next = 0
      /\ \A i \in 1 .. (s - 1) : less.after[i] = snaps.after[i]
  BY <1>6
<1>10. less \in Snapshots
  <2>1. 0 \in 0 .. N
    BY <1>1
  <2> QED
    BY <1>1, <1>6, <1>8, <2>1 DEF Snapshots
<1> HIDE DEF less, b, new
<1>11. InOrder(less)
  BY <1>1, <1>7, <1>8, <1>9 DEF InOrder
<1>12. ASSUME NEW t \in 1 .. s, t \in Stages, NEW f \in Fields
       PROVE  TracksIn(less, hist, new, t, f)
  <2>1. f \notin new \cup Remade =>
          f \notin old \cup Remade /\ Stored[hist[t][f]] = Stored[history[t][f]]
    BY <1>4, <1>12 DEF new, Now
  <2>2. PICK v \in Values : /\ Leaves(snaps, t, f, v)
                            /\ f \notin old \cup Remade => v = Stored[history[t][f]]
    BY <1>1, <1>12 DEF Tracks, TracksIn
  <2>3. \A i \in 1 .. (t - 1) : less.after[i] = snaps.after[i]
    BY <1>1, <1>9
  <2>4. \A i \in 1 .. (t - 1) : \A j \in (i + 1) .. (t - 1) : j \in 1 .. (t - 1)
    BY <1>1
  <2>5. ASSUME v = snaps.start[f], \A i \in 1 .. (t - 1) : snaps.after[i].fields[f] = Same
        PROVE  Leaves(less, t, f, v)
    BY <1>9, <2>3, <2>5 DEF Leaves
  <2>6. ASSUME NEW i \in 1 .. (t - 1), snaps.after[i].fields[f] = v, v # Same,
               \A j \in (i + 1) .. (t - 1) : snaps.after[j].fields[f] = Same
        PROVE  Leaves(less, t, f, v)
    BY <2>3, <2>4, <2>6 DEF Leaves
  <2>7. Leaves(less, t, f, v)
    BY <2>2, <2>5, <2>6 DEF Leaves
  <2> QED
    BY <2>1, <2>2, <2>7 DEF TracksIn
<1>13. Tracks(less, hist, new)
  <2>1. \A t \in 1 .. (Len(less.after) + 1) : t \in 1 .. s
    BY <1>1, <1>8
  <2> QED
    BY <1>12, <2>1 DEF Tracks
<1> QED
  BY <1>3, <1>8, <1>9, <1>10, <1>11, <1>13 DEF less, b, new

-----------------------------------------------------------------------------
(* Every step preserves RunsInv.                                           *)

PassSet == [pc : {"unused", "running", "waiting", "ended", "over"},
            at : Stages, bundle : Bundles, prints : Bundles, snaps : Snapshots]

LEMMA BlanksTyped ==
  /\ Fresh \in Bundles /\ NoHistory \in [Stages -> Bundles]
  /\ NoSnaps \in Snapshots
  /\ \A pc \in {"unused", "running", "waiting", "ended", "over"} : Blanks(pc) \in PassSet
<1>1. Fresh \in Bundles /\ NoHistory \in [Stages -> Bundles]
  BY PipelineAssumption DEF Fresh, Bundles, NoHistory
<1>2. <<>> \in Seq(Entries) /\ 0 \in 0 .. N /\ 1 \in Stages
  BY PipelineAssumption DEF Stages
<1>3. NoSnaps \in Snapshots
  <2>1. encode(Fresh) \in Bundles
    BY <1>1, PipelineAssumption DEF encode, Bundles
  <2> QED
    BY <1>2, <2>1 DEF Snapshots, NoSnaps
<1> QED
  BY <1>1, <1>2, <1>3 DEF Blanks, PassSet

\* A step of run r alone.
LEMMA OneRun ==
  ASSUME RunsInv, NEW r \in Runs, TypeOK', CardOK', PassOK(r)',
         \A q \in Runs \ {r} : /\ pass'[q] = pass[q] /\ kept'[q] = kept[q] /\ from'[q] = from[q]
                               /\ stood'[q] = stood[q] /\ told'[q] = told[q],
         \A q \in Runs : q > begun' <=> pass'[q].pc = "unused"
  PROVE  RunsInv'
<1>1. ASSUME NEW q \in Runs, q # r PROVE PassOK(q)'
  <2>1. PassOK(q)
    BY DEF RunsInv
  <2>2. /\ pass'[q] = pass[q] /\ kept'[q] = kept[q] /\ from'[q] = from[q]
        /\ stood'[q] = stood[q] /\ told'[q] = told[q]
    BY <1>1
  <2>3. /\ Sound(q, pass[q].snaps) => Sound(q, pass[q].snaps)'
        /\ Sound(q, kept[q]) => Sound(q, kept[q])'
    BY <2>2 DEF Sound
  <2> QED
    BY <2>1, <2>2, <2>3 DEF PassOK, FromHeld
<1> QED
  BY <1>1 DEF RunsInv

\* The card is taken down or stays, and its run is not the one that steps.
LEMMA CardStays ==
  ASSUME RunsInv, NEW r \in Runs, pass[r].pc \in {"unused", "running"},
         card' \in {card, Nothing},
         \A q \in Runs \ {r} : pass'[q] = pass[q] /\ kept'[q] = kept[q]
  PROVE  CardOK'
<1>1. CASE card' # Nothing
  <2>1. card' = card /\ card.run \in Runs /\ card.run # r
    BY <1>1 DEF RunsInv, CardOK, TypeOK
  <2> QED
    BY <2>1 DEF RunsInv, CardOK
<1> QED
  BY <1>1 DEF CardOK

LEMMA Begins ==
  ASSUME RunsInv, NEW s \in Stages, NEW b \in Bundles, NEW snaps \in Snapshots,
         InOrder(snaps), Len(snaps.after) = s - 1, snaps.next = 0,
         NEW history \in [Stages -> Bundles], history[s] = b, NEW given \in SUBSET Given,
         Tracks(snaps, history, given), NEW x \in 0 .. s,
         Begin(s, b, snaps), card' \in {card, Nothing},
         from' = [from EXCEPT ![begun + 1] = x],
         stood' = [stood EXCEPT ![begun + 1] = history],
         told' = [told EXCEPT ![begun + 1] = given]
  PROVE  RunsInv'
<1> DEFINE p == [pc |-> "running", at |-> s, bundle |-> b, prints |-> b, snaps |-> snaps]
<1>0. PICK r \in Runs : r = begun + 1
  BY PipelineAssumption DEF Begin, RunsInv, TypeOK, Runs
<1>1. /\ begun \in Nat /\ begun' = r /\ begun' \in 0 .. MaxRuns
      /\ s \in 1 .. N /\ N \in Nat /\ x \in 0 .. N
  <2>1. begun \in 0 .. MaxRuns /\ MaxRuns \in Nat
    BY PipelineAssumption DEF RunsInv, TypeOK
  <2>2. begun' = begun + 1 /\ begun < MaxRuns
    BY DEF Begin
  <2>3. s \in 1 .. N /\ N \in Nat /\ x \in 0 .. s
    BY PipelineAssumption DEF Stages
  <2> QED
    BY <1>0, <2>1, <2>2, <2>3
<1>2. pass' = [pass EXCEPT ![r] = p] /\ kept' = kept /\ p \in PassSet
  BY <1>0 DEF Begin, PassSet
<1>3. /\ pass \in [Runs -> PassSet] /\ from \in [Runs -> 0 .. N]
      /\ stood \in [Runs -> [Stages -> Bundles]] /\ told \in [Runs -> SUBSET Given]
  BY DEF RunsInv, TypeOK, PassSet
<1>4. TypeOK'
  <2>1. /\ pass' \in [Runs -> PassSet] /\ from' \in [Runs -> 0 .. N]
        /\ stood' \in [Runs -> [Stages -> Bundles]] /\ told' \in [Runs -> SUBSET Given]
    BY <1>0, <1>1, <1>2, <1>3
  <2> QED
    BY <1>1, <1>2, <2>1 DEF TypeOK, PassSet, RunsInv
<1>5. /\ pass'[r] = p /\ kept'[r] = kept[r] /\ from'[r] = x
      /\ stood'[r] = history /\ told'[r] = given
  BY <1>0, <1>1, <1>2, <1>3
<1>6. pass[r].pc = "unused" /\ kept[r] = Nothing
  <2>1. r > begun
    BY <1>0, <1>1
  <2> QED
    BY <1>1, <2>1 DEF RunsInv, PassOK
<1>7. PassOK(r)'
  <2>1. InOrder(snaps) /\ Tracks(snaps, history, given) /\ s = Len(snaps.after) + 1 /\ x <= s
    BY <1>1
  <2> QED
    BY <1>5, <1>6, <2>1 DEF PassOK, Sound, FromHeld
<1>8. \A q \in Runs \ {r} : /\ pass'[q] = pass[q] /\ kept'[q] = kept[q] /\ from'[q] = from[q]
                            /\ stood'[q] = stood[q] /\ told'[q] = told[q]
  BY <1>0, <1>1, <1>2, <1>3
<1>9. CardOK'
  BY <1>1, <1>6, <1>8, CardStays
<1>10. \A q \in Runs : q > begun' <=> pass'[q].pc = "unused"
  <2>1. \A q \in Runs : q > begun <=> pass[q].pc = "unused"
    BY DEF RunsInv
  <2>2. \A q \in Runs \ {r} : q > begun <=> q > begun'
    BY <1>0, <1>1 DEF Runs
  <2>3. ~(r > begun') /\ pass'[r].pc = "running"
    BY <1>1, <1>5
  <2> QED
    BY <1>8, <2>1, <2>2, <2>3
<1> QED
  BY <1>1, <1>4, <1>7, <1>8, <1>9, <1>10, OneRun

LEMMA StartOK == RunsInv /\ Start => RunsInv'
<1> SUFFICES ASSUME RunsInv, Start PROVE RunsInv'
  OBVIOUS
<1> DEFINE none == NoSnaps
<1>1. none \in Snapshots /\ Fresh \in Bundles /\ NoHistory \in [Stages -> Bundles]
  BY BlanksTyped
<1>2. 1 \in Stages /\ 0 \in 0 .. 1 /\ N \in Nat
  BY PipelineAssumption DEF Stages
<1>3. /\ none.after = <<>> /\ none.next = 0 /\ none.start = encode(Fresh)
      /\ Len(none.after) = 0 /\ Len(none.after) = 1 - 1
  BY DEF NoSnaps
<1>4. InOrder(none)
  BY <1>2, <1>3 DEF InOrder
<1>5. NoHistory[1] = Fresh
  BY <1>2 DEF NoHistory
<1>6. Tracks(none, NoHistory, {})
  <2>1. ASSUME NEW s \in 1 .. (Len(none.after) + 1), s \in Stages, NEW f \in Fields
        PROVE  TracksIn(none, NoHistory, {}, s, f)
    <3>1. s = 1 /\ \A i \in 1 .. (s - 1) : FALSE
      BY <1>3
    <3>2. encode(Fresh)[f] = Stored[Fresh[f]] /\ Stored[Fresh[f]] \in Values
      BY PipelineAssumption DEF encode, Fresh
    <3>3. Leaves(none, s, f, Stored[NoHistory[s][f]])
      BY <1>3, <1>5, <3>1, <3>2 DEF Leaves
    <3> QED
      BY <1>5, <3>1, <3>2, <3>3 DEF TracksIn
  <2> QED
    BY <2>1 DEF Tracks
<1>7. /\ Begin(1, Fresh, none) /\ card' \in {card, Nothing}
      /\ from' = [from EXCEPT ![begun + 1] = 0]
      /\ stood' = [stood EXCEPT ![begun + 1] = NoHistory]
      /\ told' = [told EXCEPT ![begun + 1] = {}]
  BY DEF Start
<1> HIDE DEF none
<1>8. {} \in SUBSET Given
  OBVIOUS
<1> QED
  BY <1>1, <1>2, <1>3, <1>4, <1>5, <1>6, <1>7, <1>8, Begins

LEMMA AgainOK ==
  ASSUME RunsInv, NEW q \in Runs, kept[q] # Nothing, NEW s \in Rerunnable(kept[q]),
         Again(q, s), card' \in {card, Nothing}
  PROVE  RunsInv'
<1>1. /\ kept[q] \in Snapshots /\ InOrder(kept[q]) /\ Tracks(kept[q], stood[q], told[q])
      /\ stood[q] \in [Stages -> Bundles] /\ told[q] \in SUBSET Given
  BY DEF RunsInv, TypeOK, PassOK, Sound
<1>2. s \in Stages /\ s \in 1 .. (Len(kept[q].after) + 1) /\ s \in 0 .. s
  <2>1. s \in Stages /\ s \in 1 .. (Len(kept[q].after) + 1)
    BY <1>1, RerunnableIs
  <2> QED
    BY <2>1, PipelineAssumption DEF Stages
<1>3. PICK given \in [Given -> Plain] :
         /\ Begin(s, Taken(kept[q], s, given), carried(kept[q], s))
         /\ from' = [from EXCEPT ![begun + 1] = s]
         /\ stood' = [stood EXCEPT ![begun + 1] =
                        [stood[q] EXCEPT ![s] = Taken(kept[q], s, given)]]
         /\ told' = [told EXCEPT ![begun + 1] = Now(kept[q], s, given, told[q])]
  BY DEF Again, Taken, Now
<1> DEFINE b == Taken(kept[q], s, given)
           hist == [stood[q] EXCEPT ![s] = b]
<1>4. /\ b \in Bundles /\ Now(kept[q], s, given, told[q]) \in SUBSET Given
      /\ carried(kept[q], s) \in Snapshots /\ InOrder(carried(kept[q], s))
      /\ Len(carried(kept[q], s).after) = s - 1 /\ carried(kept[q], s).next = 0
      /\ Tracks(carried(kept[q], s), hist, Now(kept[q], s, given, told[q]))
  BY <1>1, <1>2, CarriedTracks
<1>5. hist \in [Stages -> Bundles] /\ hist[s] = b
  BY <1>1, <1>2, <1>4
<1> QED
  BY <1>2, <1>3, <1>4, <1>5, Begins

LEMMA ResumeOK == RunsInv /\ Resume => RunsInv'
<1> SUFFICES ASSUME RunsInv, Resume PROVE RunsInv'
  OBVIOUS
<1>1. /\ card # Nothing /\ kept[card.run] # Nothing /\ card.run \in Runs
      /\ card.stage \in Rerunnable(kept[card.run])
      /\ Again(card.run, card.stage) /\ card' \in {card, Nothing}
  BY DEF Resume, Resumable, RunsInv, TypeOK
<1> QED
  BY <1>1, AgainOK

LEMMA RerunOK == ASSUME RunsInv, NEW q \in Runs, NEW s \in Stages, Rerun(q, s) PROVE RunsInv'
  BY AgainOK DEF Rerun

\* The variables a step of pass r leaves alone, and what it makes of its own.
LEMMA OnePass ==
  ASSUME RunsInv, NEW r \in Runs, NEW p \in PassSet,
         pass[r].pc \notin {"unused"}, p.pc # "unused",
         pass' = [pass EXCEPT ![r] = p],
         NEW k \in Snapshots \cup {Nothing}, kept' = [kept EXCEPT ![r] = k],
         NEW history \in [Stages -> Bundles], stood' = [stood EXCEPT ![r] = history],
         NEW given \in SUBSET Given, told' = [told EXCEPT ![r] = given],
         UNCHANGED <<begun, from>>,
         card' \in [run : Runs, stage : Stages] \cup {Nothing}, CardOK',
         PassOK(r)'
  PROVE  RunsInv'
<1>1. /\ pass \in [Runs -> PassSet] /\ kept \in [Runs -> Snapshots \cup {Nothing}]
      /\ stood \in [Runs -> [Stages -> Bundles]] /\ told \in [Runs -> SUBSET Given]
  BY DEF RunsInv, TypeOK, PassSet
<1>2. /\ pass' \in [Runs -> PassSet] /\ kept' \in [Runs -> Snapshots \cup {Nothing}]
      /\ stood' \in [Runs -> [Stages -> Bundles]] /\ told' \in [Runs -> SUBSET Given]
  BY <1>1
<1>3. TypeOK'
  BY <1>2 DEF TypeOK, PassSet, RunsInv
<1>4. \A q \in Runs \ {r} : /\ pass'[q] = pass[q] /\ kept'[q] = kept[q] /\ from'[q] = from[q]
                            /\ stood'[q] = stood[q] /\ told'[q] = told[q]
  BY <1>1
<1>5. \A q \in Runs : q > begun' <=> pass'[q].pc = "unused"
  BY <1>1 DEF RunsInv
<1> QED
  BY <1>3, <1>4, <1>5, OneRun

LEMMA AdvanceOK ==
  ASSUME RunsInv, NEW r \in Runs, pass[r].pc = "running", NEW b \in Bundles,
         NEW entry \in Entries, entry.stage = pass[r].at,
         \A f \in Fields : \/ entry.fields[f] = Same /\ b[f] = pass[r].bundle[f]
                           \/ entry.fields[f] = Stored[b[f]],
         Advance(r, b, b, entry), card' \in {card, Nothing}
  PROVE  RunsInv'
<1> DEFINE at == pass[r].at
           more == WithEntry(pass[r].snaps, entry)
           new == Standing(stood[r], at, b)
           p == [pc |-> IF at = N THEN "ended" ELSE "running",
                 at |-> IF at = N THEN N ELSE at + 1,
                 bundle |-> b, prints |-> b, snaps |-> more]
<1>1. /\ pass \in [Runs -> PassSet] /\ pass[r] \in PassSet /\ pass[r].snaps \in Snapshots
      /\ at \in Stages /\ stood \in [Runs -> [Stages -> Bundles]]
      /\ stood[r] \in [Stages -> Bundles] /\ told \in [Runs -> SUBSET Given]
      /\ told[r] \in SUBSET Given /\ kept \in [Runs -> Snapshots \cup {Nothing}]
      /\ kept[r] = Nothing /\ from[r] \in 0 .. N
      /\ card \in [run : Runs, stage : Stages] \cup {Nothing}
  BY DEF RunsInv, PassOK, TypeOK, PassSet
<1>2. /\ InOrder(pass[r].snaps) /\ Tracks(pass[r].snaps, stood[r], told[r])
      /\ at = Len(pass[r].snaps.after) + 1 /\ pass[r].snaps.next = 0
      /\ from[r] <= at /\ pass[r].bundle = stood[r][at]
  BY DEF RunsInv, PassOK, Sound
<1>3. /\ more \in Snapshots /\ InOrder(more) /\ Tracks(more, new, told[r])
      /\ Len(more.after) = at /\ more.next = 0
  <2>1. \A f \in Fields : \/ entry.fields[f] = Same /\ b[f] = stood[r][at][f]
                          \/ entry.fields[f] = Stored[b[f]]
    BY <1>2
  <2>2. entry.stage = at
    OBVIOUS
  <2> DEFINE snaps == pass[r].snaps
             history == stood[r]
             given == told[r]
  <2>3. /\ snaps \in Snapshots /\ InOrder(snaps) /\ Tracks(snaps, history, given)
        /\ snaps.next = 0 /\ at = Len(snaps.after) + 1 /\ at \in Stages
    BY <1>1, <1>2
  <2> HIDE DEF at, snaps, history, given
  <2>4. /\ WithEntry(snaps, entry) \in Snapshots /\ InOrder(WithEntry(snaps, entry))
        /\ Tracks(WithEntry(snaps, entry), Standing(history, at, b), given)
        /\ Len(WithEntry(snaps, entry).after) = at /\ WithEntry(snaps, entry).next = 0
    BY <2>1, <2>2, <2>3, OneMoreEntry DEF history
  <2> QED
    BY <2>4 DEF snaps, history, given
<1> HIDE DEF more
<1>4. at \in 1 .. N /\ N \in Nat
  BY <1>1, PipelineAssumption DEF Stages
<1>5. pass' = [pass EXCEPT ![r] = p] /\ p \in PassSet /\ p.pc \in {"running", "ended"}
  <2>1. /\ (IF at = N THEN N ELSE at + 1) \in Stages
        /\ (IF at = N THEN "ended" ELSE "running") \in {"running", "ended"}
    BY <1>4 DEF Stages
  <2>2. p \in PassSet /\ p.pc \in {"running", "ended"}
    BY <1>3, <2>1 DEF PassSet
  <2>3. pass' = [pass EXCEPT ![r] = p]
    BY DEF Advance, more
  <2> QED
    BY <2>2, <2>3
<1>6. /\ stood' = [stood EXCEPT ![r] = new] /\ new \in [Stages -> Bundles]
      /\ told' = told /\ kept' = kept /\ UNCHANGED <<begun, from>>
  BY <1>1 DEF Advance, Standing
<1>7. /\ pass'[r].pc = IF at = N THEN "ended" ELSE "running"
      /\ pass'[r].at = IF at = N THEN N ELSE at + 1
      /\ pass'[r].bundle = b /\ pass'[r].prints = b /\ pass'[r].snaps = more
      /\ stood'[r] = new /\ told'[r] = told[r] /\ kept'[r] = kept[r] /\ from'[r] = from[r]
  BY <1>1, <1>5, <1>6
<1>8. at # N => new[at + 1] = b
  BY <1>4 DEF Stages, Standing
<1> HIDE DEF new, p
<1>9. PassOK(r)'
  <2>1. Sound(r, pass[r].snaps)'
    BY <1>3, <1>7 DEF Sound
  <2>2. (pass[r].pc = "running" =>
            /\ pass[r].at = Len(pass[r].snaps.after) + 1 /\ pass[r].snaps.next = 0
            /\ from[r] <= pass[r].at
            /\ pass[r].prints = pass[r].bundle /\ pass[r].bundle = stood[r][pass[r].at])'
    <3>1. CASE at = N
      BY <1>7, <3>1
    <3>2. CASE at # N
      <4>1. pass'[r].at = at + 1 /\ stood'[r][at + 1] = b /\ from'[r] <= at + 1
        BY <1>1, <1>2, <1>4, <1>7, <1>8, <3>2
      <4> QED
        BY <1>3, <1>7, <4>1
    <3> QED
      BY <3>1, <3>2
  <2>3. FromHeld(r, pass[r].snaps)'
    BY <1>2, <1>3, <1>7 DEF FromHeld
  <2>4. kept'[r] = Nothing /\ pass'[r].pc # "waiting"
    BY <1>1, <1>7
  <2> QED
    BY <2>1, <2>2, <2>3, <2>4 DEF PassOK
<1>10. CardOK'
  BY <1>1, <1>5, <1>6, CardStays
<1>11. kept' = [kept EXCEPT ![r] = Nothing] /\ told' = [told EXCEPT ![r] = told[r]]
  BY <1>1, <1>6
<1> QED
  BY <1>1, <1>5, <1>6, <1>9, <1>10, <1>11, OnePass

LEMMA EndsOK ==
  ASSUME RunsInv, NEW r \in Runs, NEW pc \in {"waiting", "ended"}, Ends(r, pc),
         card' \in {card, Nothing}
  PROVE  RunsInv'
<1> DEFINE old == pass[r]
           done == [old.snaps EXCEPT !.next = old.at]
           p == [old EXCEPT !.pc = pc, !.snaps = done]
<1>1. /\ pass \in [Runs -> PassSet] /\ old \in PassSet /\ old.snaps \in Snapshots
      /\ old.at \in Stages /\ stood \in [Runs -> [Stages -> Bundles]]
      /\ stood[r] \in [Stages -> Bundles] /\ told \in [Runs -> SUBSET Given]
      /\ told[r] \in SUBSET Given /\ kept \in [Runs -> Snapshots \cup {Nothing}]
      /\ kept[r] = Nothing /\ from[r] \in 0 .. N /\ old.pc = "running"
      /\ card \in [run : Runs, stage : Stages] \cup {Nothing}
  BY DEF RunsInv, PassOK, TypeOK, PassSet, Ends
<1>2. /\ InOrder(old.snaps) /\ Tracks(old.snaps, stood[r], told[r])
      /\ old.at = Len(old.snaps.after) + 1 /\ from[r] <= old.at
      /\ Len(old.snaps.after) \in Nat
  BY <1>1, SnapshotTypes DEF RunsInv, PassOK, Sound
<1>3. /\ done.after = old.snaps.after /\ done.start = old.snaps.start /\ done.next = old.at
      /\ done \in Snapshots
  <2>1. old.at \in 0 .. N
    BY <1>1, PipelineAssumption DEF Stages
  <2> QED
    BY <1>1, <2>1 DEF Snapshots
<1>4. p \in PassSet /\ p.pc = pc /\ p.at = old.at /\ p.snaps = done /\ p.bundle = old.bundle
  BY <1>1, <1>3 DEF PassSet
<1>5. /\ pass' = [pass EXCEPT ![r] = p] /\ UNCHANGED <<begun, kept, from, stood, told>>
  BY <1>1 DEF Ends
<1> HIDE DEF done, p
<1>6. /\ pass'[r] = p /\ stood'[r] = stood[r] /\ told'[r] = told[r] /\ kept'[r] = Nothing
      /\ from'[r] = from[r] /\ pass'[r].snaps = done
  BY <1>1, <1>4, <1>5
<1>7. InOrder(done) /\ Tracks(done, stood[r], told[r])
  BY <1>2, <1>3 DEF InOrder, Tracks, TracksIn, Leaves
<1>8. PassOK(r)'
  <2>1. Sound(r, pass[r].snaps)'
    BY <1>4, <1>6, <1>7 DEF Sound
  <2>2. FromHeld(r, pass[r].snaps)'
    <3>1. from[r] <= Len(old.snaps.after) \/ from[r] = old.at
      BY <1>1, <1>2, PipelineAssumption
    <3>2. from'[r] <= Len(done.after) \/ from'[r] = done.next
      BY <1>3, <1>6, <3>1
    <3> QED
      BY <1>6, <3>2 DEF FromHeld
  <2>3. pass'[r].snaps.next = pass'[r].at /\ pass'[r].pc # "running"
    BY <1>3, <1>4, <1>6
  <2> QED
    BY <1>6, <2>1, <2>2, <2>3 DEF PassOK
<1>9. CardOK'
  BY <1>1, <1>5, CardStays
<1>10. /\ kept' = [kept EXCEPT ![r] = Nothing] /\ told' = [told EXCEPT ![r] = told[r]]
       /\ stood' = [stood EXCEPT ![r] = stood[r]]
  BY <1>1, <1>5
<1> QED
  BY <1>1, <1>4, <1>5, <1>8, <1>9, <1>10, OnePass

LEMMA SkipOK == ASSUME RunsInv, NEW r \in Runs, Skip(r) PROVE RunsInv'
<1> DEFINE b == pass[r].bundle
           entry == [stage |-> pass[r].at, fields |-> [f \in Fields |-> Same]]
<1>1. /\ pass[r].pc = "running" /\ pass[r].prints = b /\ b \in Bundles /\ entry \in Entries
      /\ card' \in {card, Nothing}
  BY DEF Skip, RunsInv, PassOK, TypeOK, Entries
<1>2. entry.stage = pass[r].at /\ \A f \in Fields : entry.fields[f] = Same
  OBVIOUS
<1>3. Advance(r, b, b, entry)
  BY <1>1 DEF Skip
<1> HIDE DEF b, entry
<1>4. PICK c \in Bundles, e \in Entries :
        /\ Advance(r, c, c, e) /\ e.stage = pass[r].at
        /\ \A f \in Fields : e.fields[f] = Same /\ c[f] = pass[r].bundle[f]
  BY <1>1, <1>2, <1>3 DEF b
<1> QED
  BY <1>1, <1>4, AdvanceOK

LEMMA DoneOK ==
  ASSUME RunsInv, NEW r \in Runs, NEW b \in After(pass[r].at, pass[r].bundle), Done(r, b)
  PROVE  RunsInv'
<1> DEFINE entry == [stage |-> pass[r].at,
              fields |-> [f \in Fields |-> IF b[f] = pass[r].prints[f] THEN Same ELSE encode(b)[f]]]
<1>1. /\ pass[r].pc = "running" /\ pass[r].prints = pass[r].bundle /\ b \in Bundles
      /\ pass[r].at \in Stages /\ card' \in {card, Nothing}
  <2>1. pass[r].bundle \in Bundles
    BY DEF RunsInv, TypeOK
  <2>2. b \in Bundles
    BY <2>1 DEF After, Bundles
  <2> QED
    BY <2>2 DEF Done, RunsInv, PassOK, TypeOK
<1>2. entry \in Entries
  <2>1. \A f \in Fields : encode(b)[f] \in Values
    BY <1>1, PipelineAssumption DEF Bundles, encode
  <2> QED
    BY <1>1, <2>1 DEF Entries
<1>3. /\ entry.stage = pass[r].at
      /\ \A f \in Fields : \/ entry.fields[f] = Same /\ b[f] = pass[r].bundle[f]
                           \/ entry.fields[f] = Stored[b[f]]
  BY <1>1 DEF encode
<1>4. Advance(r, b, b, entry)
  BY DEF Done, Prints
<1> HIDE DEF entry
<1>5. PICK e \in Entries :
        /\ Advance(r, b, b, e) /\ e.stage = pass[r].at
        /\ \A f \in Fields : \/ e.fields[f] = Same /\ b[f] = pass[r].bundle[f]
                             \/ e.fields[f] = Stored[b[f]]
  BY <1>2, <1>3, <1>4
<1> QED
  BY <1>1, <1>5, AdvanceOK

LEMMA SettleWaitOK == ASSUME RunsInv, NEW r \in Runs, SettleWait(r) PROVE RunsInv'
<1> DEFINE old == pass[r]
           p == [old EXCEPT !.pc = "ended"]
<1>1. /\ pass \in [Runs -> PassSet] /\ old \in PassSet /\ old.at \in Stages
      /\ stood \in [Runs -> [Stages -> Bundles]] /\ stood[r] \in [Stages -> Bundles]
      /\ told \in [Runs -> SUBSET Given] /\ told[r] \in SUBSET Given
      /\ kept \in [Runs -> Snapshots \cup {Nothing}] /\ kept[r] = Nothing
      /\ old.pc = "waiting" /\ old.snaps.next = old.at
      /\ Sound(r, old.snaps) /\ FromHeld(r, old.snaps)
  BY DEF RunsInv, PassOK, TypeOK, PassSet, SettleWait
<1>2. p \in PassSet /\ p.pc = "ended" /\ p.snaps = old.snaps
  BY <1>1 DEF PassSet
<1>3. /\ pass' = [pass EXCEPT ![r] = p] /\ UNCHANGED <<begun, kept, from, stood, told>>
      /\ card' = [run |-> r, stage |-> old.at]
  BY <1>1 DEF SettleWait
<1> HIDE DEF p
<1>4. /\ pass'[r] = p /\ stood'[r] = stood[r] /\ told'[r] = told[r] /\ kept'[r] = Nothing
      /\ from'[r] = from[r] /\ pass'[r].snaps = old.snaps
  BY <1>1, <1>2, <1>3
<1>5. PassOK(r)'
  <2>1. Sound(r, pass[r].snaps)'
    BY <1>1, <1>4 DEF Sound
  <2>2. FromHeld(r, pass[r].snaps)'
    BY <1>1, <1>4 DEF FromHeld
  <2> QED
    BY <1>2, <1>4, <2>1, <2>2 DEF PassOK
<1>6. CardOK'
  BY <1>1, <1>2, <1>3, <1>4 DEF CardOK
<1>7. /\ card' \in [run : Runs, stage : Stages] \cup {Nothing}
      /\ kept' = [kept EXCEPT ![r] = Nothing] /\ told' = [told EXCEPT ![r] = told[r]]
      /\ stood' = [stood EXCEPT ![r] = stood[r]]
  BY <1>1, <1>3
<1> QED
  BY <1>1, <1>2, <1>3, <1>5, <1>6, <1>7, OnePass

\* The run is over: what is stored of it is nothing, or what its pass had.
LEMMA OverOK ==
  ASSUME RunsInv, NEW r \in Runs, Persist(r) \/ Dies(r)
  PROVE  RunsInv'
<1> DEFINE p == Blanks("over")
<1>1. /\ pass \in [Runs -> PassSet] /\ pass[r].snaps \in Snapshots
      /\ stood \in [Runs -> [Stages -> Bundles]] /\ stood[r] \in [Stages -> Bundles]
      /\ told \in [Runs -> SUBSET Given] /\ told[r] \in SUBSET Given
      /\ kept \in [Runs -> Snapshots \cup {Nothing}] /\ kept[r] = Nothing
      /\ pass[r].pc \in {"running", "waiting", "ended"}
      /\ card \in [run : Runs, stage : Stages] \cup {Nothing}
  BY DEF RunsInv, PassOK, TypeOK, PassSet, Persist, Dies
<1>2. p \in PassSet /\ p.pc = "over"
  BY BlanksTyped DEF Blanks
<1>3. pass' = [pass EXCEPT ![r] = p] /\ UNCHANGED <<begun, card, from>>
  BY DEF Persist, Dies, Over
<1> HIDE DEF p
<1>4. pass'[r] = p /\ from'[r] = from[r] /\ \A q \in Runs \ {r} : pass'[q] = pass[q]
  BY <1>1, <1>3
<1>5. CASE Persist(r)
  <2>1. /\ kept' = [kept EXCEPT ![r] = pass[r].snaps] /\ UNCHANGED <<stood, told>>
        /\ Sound(r, pass[r].snaps) /\ FromHeld(r, pass[r].snaps) /\ pass[r].pc = "ended"
    BY <1>5 DEF Persist, RunsInv, PassOK
  <2>2. kept'[r] = pass[r].snaps /\ \A q \in Runs \ {r} : kept'[q] = kept[q]
    BY <1>1, <2>1
  <2>3. PassOK(r)'
    <3>1. Sound(r, kept[r])'
      BY <2>1, <2>2 DEF Sound
    <3>2. FromHeld(r, kept[r])'
      BY <1>4, <2>1, <2>2 DEF FromHeld
    <3> QED
      BY <1>2, <1>4, <3>1, <3>2 DEF PassOK
  <2>4. CardOK'
    <3>1. CASE card # Nothing
      <4>1. card' = card /\ card.run \in Runs /\ CardOK
        BY <1>1, <1>3, <3>1 DEF RunsInv
      <4>2. CASE card.run = r
        BY <1>2, <1>4, <2>1, <2>2, <3>1, <4>1, <4>2 DEF CardOK
      <4>3. CASE card.run # r
        BY <1>4, <2>2, <3>1, <4>1, <4>3 DEF CardOK
      <4> QED
        BY <4>2, <4>3
    <3> QED
      BY <1>3, <3>1 DEF CardOK
  <2>5. stood' = [stood EXCEPT ![r] = stood[r]] /\ told' = [told EXCEPT ![r] = told[r]]
    BY <1>1, <2>1
  <2> QED
    BY <1>1, <1>2, <1>3, <2>1, <2>3, <2>4, <2>5, OnePass
<1>6. CASE Dies(r)
  <2>1. /\ kept' = kept /\ stood' = [stood EXCEPT ![r] = NoHistory]
        /\ told' = [told EXCEPT ![r] = {}]
    BY <1>6 DEF Dies
  <2>2. kept'[r] = Nothing /\ kept' = [kept EXCEPT ![r] = Nothing]
    BY <1>1, <2>1
  <2>3. PassOK(r)'
    BY <1>2, <1>4, <2>2 DEF PassOK
  <2>4. CardOK'
    <3>1. CASE card # Nothing
      <4>1. card' = card /\ card.run \in Runs /\ CardOK
        BY <1>1, <1>3, <3>1 DEF RunsInv
      <4>2. CASE card.run = r
        BY <1>2, <1>4, <2>2, <3>1, <4>1, <4>2 DEF CardOK
      <4>3. CASE card.run # r
        BY <1>4, <2>1, <3>1, <4>1, <4>3 DEF CardOK
      <4> QED
        BY <4>2, <4>3
    <3> QED
      BY <1>3, <3>1 DEF CardOK
  <2>5. NoHistory \in [Stages -> Bundles] /\ {} \in SUBSET Given
    BY BlanksTyped
  <2> QED
    BY <1>1, <1>2, <1>3, <2>1, <2>2, <2>3, <2>4, <2>5, OnePass
<1> QED
  BY <1>5, <1>6

LEMMA InitOK == Init => RunsInv
<1> SUFFICES ASSUME Init PROVE RunsInv
  OBVIOUS
<1>1. TypeOK
  BY BlanksTyped, PipelineAssumption DEF Init, TypeOK, PassSet
<1>2. \A r \in Runs : PassOK(r) /\ (r > begun <=> pass[r].pc = "unused")
  BY PipelineAssumption DEF Init, PassOK, Blanks, Runs
<1> QED
  BY <1>1, <1>2 DEF RunsInv, CardOK, Init

LEMMA StepOK == RunsInv /\ [Next]_vars => RunsInv'
<1> SUFFICES ASSUME RunsInv, [Next]_vars PROVE RunsInv'
  OBVIOUS
<1>1. CASE Start \/ Resume
  BY <1>1, StartOK, ResumeOK
<1>2. CASE \E q \in Runs, s \in Stages : Rerun(q, s)
  BY <1>2, RerunOK
<1>3. ASSUME NEW r \in Runs, Skip(r) \/ SettleWait(r) \/ Persist(r) \/ Dies(r) PROVE RunsInv'
  BY <1>3, SkipOK, SettleWaitOK, OverOK
<1>4. ASSUME NEW r \in Runs, Waits(r) \/ Fails(r) PROVE RunsInv'
  BY <1>4, EndsOK DEF Waits, Fails
<1>5. ASSUME NEW r \in Runs, NEW b \in After(pass[r].at, pass[r].bundle), Done(r, b)
      PROVE  RunsInv'
  BY <1>5, DoneOK
<1>6. CASE UNCHANGED vars
  <2>1. TypeOK' /\ CardOK'
    BY <1>6 DEF vars, RunsInv, TypeOK, CardOK
  <2>2. ASSUME NEW r \in Runs PROVE PassOK(r)' /\ (r > begun <=> pass[r].pc = "unused")'
    <3>1. PassOK(r) /\ (r > begun <=> pass[r].pc = "unused")
      BY DEF RunsInv
    <3>2. /\ Sound(r, pass[r].snaps) => Sound(r, pass[r].snaps)'
          /\ Sound(r, kept[r]) => Sound(r, kept[r])'
      BY <1>6 DEF vars, Sound
    <3> QED
      BY <1>6, <3>1, <3>2 DEF vars, PassOK, FromHeld
  <2> QED
    BY <2>1, <2>2 DEF RunsInv
<1> QED
  BY <1>1, <1>2, <1>3, <1>4, <1>5, <1>6 DEF Next

-----------------------------------------------------------------------------
(* The theorems.                                                           *)

LEMMA RunsInvGives == RunsInv => PipelineInv /\ RestoresAsItStood
<1> SUFFICES ASSUME RunsInv PROVE PipelineInv /\ RestoresAsItStood
  OBVIOUS
<1>1. ASSUME NEW r \in Runs, kept[r] # Nothing
      PROVE  /\ kept[r] \in Snapshots /\ InOrder(kept[r]) /\ FromHeld(r, kept[r])
             /\ Tracks(kept[r], stood[r], told[r]) /\ from[r] \in 0 .. N
  BY <1>1 DEF RunsInv, PassOK, TypeOK, Sound
<1>2. RerunCanBeRerun
  <2>1. ASSUME NEW r \in Runs, kept[r] # Nothing
        PROVE  /\ \A i \in DOMAIN kept[r].after : kept[r].after[i].stage = i
               /\ kept[r].next \in {0, Len(kept[r].after) + 1}
               /\ from[r] # 0 => from[r] \in Rerunnable(kept[r])
    <3>1. /\ DOMAIN kept[r].after = 1 .. Len(kept[r].after) /\ Len(kept[r].after) \in Nat
      BY <1>1, <2>1, SnapshotTypes
    <3>2. ASSUME from[r] # 0 PROVE from[r] \in Rerunnable(kept[r])
      <4>1. from[r] \in 1 .. Len(kept[r].after) \/ from[r] = kept[r].next
        BY <1>1, <2>1, <3>1, <3>2, PipelineAssumption DEF FromHeld
      <4> QED
        BY <1>1, <2>1, <3>2, <4>1, RerunnableIs
    <3> QED
      BY <1>1, <2>1, <3>1, <3>2 DEF InOrder
  <2> QED
    BY <2>1 DEF RerunCanBeRerun
<1>3. RestoresAsItStood
  <2>1. ASSUME NEW r \in Runs, kept[r] # Nothing, NEW s \in Rerunnable(kept[r]),
               NEW f \in Fields \ (told[r] \cup Remade)
        PROVE  restore(kept[r], s)[f] = Stored[stood[r][s][f]]
    <3>1. s \in Stages /\ s \in 1 .. (Len(kept[r].after) + 1)
      BY <1>1, <2>1, RerunnableIs
    <3>2. Leaves(kept[r], s, f, Stored[stood[r][s][f]])
      BY <1>1, <2>1, <3>1 DEF Tracks, TracksIn
    <3> QED
      BY <1>1, <2>1, <3>1, <3>2, RestoreIs
  <2> QED
    BY <2>1 DEF RestoresAsItStood
<1>4. CardCanBeAnswered
  <2>1. ASSUME card # Nothing, kept[card.run] # Nothing
        PROVE  card.stage \in Rerunnable(kept[card.run])
    <3>1. card.run \in Runs /\ card.stage \in Stages
      BY <2>1 DEF RunsInv, TypeOK
    <3>2. kept[card.run].next = card.stage
      BY <2>1, <3>1 DEF RunsInv, CardOK, PassOK
    <3>3. card.stage # 0
      BY <3>1, PipelineAssumption DEF Stages
    <3> QED
      BY <1>1, <2>1, <3>1, <3>2, <3>3, RerunnableIs
  <2> QED
    BY <2>1 DEF CardCanBeAnswered, Resumable
<1> QED
  BY <1>2, <1>3, <1>4 DEF PipelineInv, RunsInv

\* A stored run can be run again from each of its stages, and a card that is up can be
\* answered, through any number of passes.
THEOREM RunsHold == Spec => []PipelineInv
<1>1. RunsInv => PipelineInv
  BY RunsInvGives
<1> QED
  BY <1>1, InitOK, StepOK, PTL DEF Spec

\* restore() gives what is stored of the bundle as it stood before the stage, of every
\* stored run and from every stage, but for the fields told on the way or made anew:
\* whatever the encoding loses, as long as it loses nothing more the second time.
THEOREM RestoreHolds == Spec => []RestoresAsItStood
<1>1. RunsInv => RestoresAsItStood
  BY RunsInvGives
<1> QED
  BY <1>1, InitOK, StepOK, PTL DEF Spec

=============================================================================
