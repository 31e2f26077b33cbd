-------------------------- MODULE DocumentsProofs --------------------------
(***************************************************************************)
(* The history keeps the bodies no other request was working across, their *)
(* numbers are their own, and a save that was checked replaces a body with *)
(* the text it was checked against: for any number of panels, requests and bodies.     *)
(***************************************************************************)
EXTENDS Documents, TLAPS

ReqSet == [pc : {"idle", "sent", "noting", "editing", "committed"},
           how : {"edit", "known", "compared", "onto", "blind"},
           expected : Nat, base : 0 .. MaxBodies,
           version : Nat, body : 0 .. MaxBodies]

Checked == {"compared", "onto"}

\* What a request may become in a step that leaves the document alone: it has read
\* the document as it is, or expects what it was shown.
FitsDocument(q) ==
  /\ q.pc # "committed"
  /\ q.pc \in {"noting", "editing"} => version # 0 /\ q.version = version /\ q.body = data
  /\ q.how \in Checked /\ q.pc \in {"sent", "editing"} => q.base \in Made
  /\ q.how \in Checked /\ q.pc = "sent" => named[q.base] = q.expected \/ Overtaken(q.expected)
  /\ q.how \in Checked /\ q.pc = "editing" => q.body = q.base \/ Overtaken(q.expected)

\* What the panel of a request compared is what it shows.
FitsScreen(a, q) ==
  a \in Panels /\ q.pc \in {"sent", "editing"} /\ q.how = "compared" =>
    text[q.base] = screen[a].text /\ screen'[a] = screen[a]

LEMMA InitOK == Init => DocumentsInv
<1> SUFFICES ASSUME Init PROVE DocumentsInv
  OBVIOUS
<1>1. 1 \in Bodies /\ 1 \in 0 .. MaxBodies /\ 0 \in 0 .. MaxBodies
  BY DocumentsAssumption DEF Bodies
<1>2. Idle \in ReqSet /\ Shown(1, 1) \in [version : Nat, text : Bodies]
  BY <1>1 DEF Idle, ReqSet, Shown
<1>3. TypeOK
  BY <1>1, <1>2 DEF Init, TypeOK, ReqSet
<1>4. Made = {1} /\ version = 1 /\ data = 1 /\ named[1] = 1 /\ overtaken = {}
  BY <1>1 DEF Init, Made
<1>5. \A a \in Actors : req[a].pc = "idle"
  BY DEF Init, Idle
<1>6. Panels \subseteq Actors
  BY DEF Actors
<1>7. \A a \in Actors : ~HasRead(a)
  BY <1>5 DEF HasRead
<1> QED
  BY <1>3, <1>4, <1>5, <1>6, <1>7 DEF DocumentsInv, OnlyMadeBodies, NoNumberAhead, KeptOrRead,
     NumbersAreTheirBodies, ComparedIsShown, VersionNamesOneBody, CheckedSaveReplacesItsBase,
     Clean

\* A step of one request that leaves the document, its history and its numbers alone.
LEMMA OneRequest ==
  ASSUME DocumentsInv, NEW a \in Actors, NEW q \in ReqSet, FitsDocument(q), FitsScreen(a, q),
         \A p \in Panels \ {a} : screen'[p] = screen[p],
         req' = [req EXCEPT ![a] = q],
         screen' \in [Panels -> [version : Nat, text : Bodies]],
         UNCHANGED <<kind, version, data, rows, made, text, named, overtaken>>
  PROVE  DocumentsInv'
<1>1. req \in [Actors -> ReqSet] /\ Panels \subseteq Actors
  BY DEF DocumentsInv, TypeOK, ReqSet, Actors
<1>2. TypeOK'
  BY <1>1 DEF DocumentsInv, TypeOK, ReqSet
<1>3. req'[a] = q /\ \A c \in Actors : c # a => req'[c] = req[c]
  BY <1>1
<1>4. Made' = Made /\ Clean' = Clean
  BY DEF Made, Clean
<1>5. \A c \in Actors : c # a => (HasRead(c)' <=> HasRead(c)) /\ Snapshot(c)' = Snapshot(c)
  BY <1>3 DEF HasRead, Snapshot, Row
<1>6. HasRead(a)' => version # 0 /\ req'[a].version = version /\ req'[a].body = data
  BY <1>3 DEF HasRead, FitsDocument
<1>7. \A v : Overtaken(v)' <=> Overtaken(v)
  BY DEF Overtaken
<1>8. OnlyMadeBodies'
  BY <1>1, <1>3, <1>4, <1>5, <1>6 DEF DocumentsInv, OnlyMadeBodies, FitsDocument, Checked
<1>9. NoNumberAhead'
  BY <1>3, <1>4, <1>5, <1>6 DEF DocumentsInv, NoNumberAhead
<1>10. KeptOrRead'
  BY <1>3, <1>4, <1>5, <1>6 DEF DocumentsInv, KeptOrRead, Snapshot, Row
<1>11. NumbersAreTheirBodies'
  <2>1. \A c \in Actors : HasRead(c)' =>
          /\ named[req'[c].body] = req'[c].version \/ Overtaken(req'[c].version)
          /\ version \in {0, req'[c].version} \/ Overtaken(version)
    BY <1>3, <1>5, <1>6 DEF DocumentsInv, NumbersAreTheirBodies
  <2>2. \A p \in Panels : req'[p].pc = "sent" /\ req'[p].how \in {"compared", "onto"} =>
          named[req'[p].base] = req'[p].expected \/ Overtaken(req'[p].expected)
    BY <1>1, <1>3 DEF DocumentsInv, NumbersAreTheirBodies, FitsDocument, Checked
  <2> QED BY <2>1, <2>2, <1>7 DEF DocumentsInv, NumbersAreTheirBodies, Overtaken
<1>12. VersionNamesOneBody'
  BY <1>4 DEF DocumentsInv, VersionNamesOneBody
<1>13. ComparedIsShown'
  <2> SUFFICES ASSUME NEW p \in Panels, req'[p].pc \in {"sent", "editing"},
                      req'[p].how = "compared"
               PROVE  text[req'[p].base] = screen'[p].text
    BY DEF ComparedIsShown
  <2>1. CASE p = a
    BY <1>3, <2>1 DEF FitsScreen
  <2>2. CASE p # a
    BY <1>1, <1>3, <2>2 DEF DocumentsInv, ComparedIsShown
  <2> QED BY <2>1, <2>2
<1>14. CheckedSaveReplacesItsBase'
  <2>1. \A p \in Panels : req'[p].pc = "editing" /\ req'[p].how \in {"compared", "onto"} =>
          req'[p].body = req'[p].base \/ Overtaken(req'[p].expected)
    BY <1>1, <1>3 DEF DocumentsInv, CheckedSaveReplacesItsBase, FitsDocument, Checked
  <2> QED BY <2>1, <1>7, <1>13 DEF CheckedSaveReplacesItsBase, ComparedIsShown, Overtaken
<1> QED
  BY <1>2, <1>8, <1>9, <1>10, <1>11, <1>12, <1>13, <1>14 DEF DocumentsInv

LEMMA IdleFits == Idle \in ReqSet /\ FitsDocument(Idle) /\ \A a : FitsScreen(a, Idle)
<1>1. 0 \in 0 .. MaxBodies
  BY DocumentsAssumption
<1> QED BY <1>1 DEF Idle, ReqSet, FitsDocument, FitsScreen, Checked

\* A request reads the document.
LEMMA BeginKeeps ==
  ASSUME DocumentsInv, NEW j \in Jobs, NEW pc \in {"noting", "editing"}, Begin(j, pc)
  PROVE  DocumentsInv'
<1>1. PICK q : q = [Idle EXCEPT !.pc = pc, !.version = version, !.body = data]
  OBVIOUS
<1>2. q = [pc |-> pc, how |-> "edit", expected |-> 0, base |-> 0, version |-> version, body |-> data]
  BY <1>1 DEF Idle
<1>3. version \in Nat /\ data \in 0 .. MaxBodies /\ 0 \in 0 .. MaxBodies
  BY DocumentsAssumption DEF DocumentsInv, TypeOK
<1>4. q \in ReqSet
  BY <1>2, <1>3 DEF ReqSet
<1>5. FitsDocument(q) /\ FitsScreen(j, q)
  BY <1>2 DEF FitsDocument, FitsScreen, Begin, Checked
<1>6. screen' \in [Panels -> [version : Nat, text : Bodies]]
  BY DEF Begin, DocumentsInv, TypeOK
<1>7. j \in Actors /\ req' = [req EXCEPT ![j] = q]
  BY <1>1 DEF Begin, Actors
<1> QED BY <1>4, <1>5, <1>6, <1>7, OneRequest DEF Begin

\* A request ends without storing anything.
LEMMA DropKeeps ==
  ASSUME DocumentsInv, NEW a \in Actors, Fail(a) \/ Gone(a)
  PROVE  DocumentsInv'
<1>1. screen' \in [Panels -> [version : Nat, text : Bodies]]
  BY DEF Fail, Gone, DocumentsInv, TypeOK
<1> QED BY <1>1, IdleFits, OneRequest DEF Fail, Gone

LEMMA LoadKeeps ==
  ASSUME DocumentsInv, NEW p \in Panels, Load(p)
  PROVE  DocumentsInv'
<1>1. data \in Bodies /\ version \in Nat /\ req \in [Actors -> ReqSet] /\ p \in Actors
  BY DEF Load, DocumentsInv, OnlyMadeBodies, TypeOK, Made, Bodies, ReqSet, Actors
<1>2. Shown(version, text[data]) \in [version : Nat, text : Bodies]
  BY <1>1 DEF Shown, DocumentsInv, TypeOK
<1>3. screen' \in [Panels -> [version : Nat, text : Bodies]]
  BY <1>2 DEF Load, DocumentsInv, TypeOK
<1>4. req[p] \in ReqSet /\ req' = [req EXCEPT ![p] = req[p]] /\ FitsDocument(req[p])
      /\ FitsScreen(p, req[p])
  BY <1>1 DEF Load, FitsDocument, FitsScreen
<1>5. \A o \in Panels \ {p} : screen'[o] = screen[o]
  BY DEF Load, DocumentsInv, TypeOK
<1> QED BY <1>1, <1>3, <1>4, <1>5, OneRequest DEF Load

\* A save is sent: what was compared or taken over is the document that was read.
LEMMA SendKeeps ==
  ASSUME DocumentsInv, NEW p \in Panels,
         NEW how \in {"known", "compared", "onto", "blind"},
         NEW expected \in Nat, NEW base \in 0 .. MaxBodies, Send(p, how, expected, base),
         how \in Checked => expected = version /\ base = data,
         how = "compared" => text[data] = screen[p].text
  PROVE  DocumentsInv'
<1>1. PICK q : q = [Idle EXCEPT !.pc = "sent", !.how = how, !.expected = expected, !.base = base]
  OBVIOUS
<1>2. q = [pc |-> "sent", how |-> how, expected |-> expected, base |-> base, version |-> 0, body |-> 0]
  BY <1>1 DEF Idle
<1>3. q \in ReqSet
  BY <1>2, DocumentsAssumption DEF ReqSet
<1>4. FitsDocument(q)
  BY <1>2 DEF FitsDocument, Send, DocumentsInv, OnlyMadeBodies, NumbersAreTheirBodies
<1>7. FitsScreen(p, q)
  BY <1>2 DEF FitsScreen, Send, DocumentsInv, OnlyMadeBodies, Checked
<1>5. screen' \in [Panels -> [version : Nat, text : Bodies]]
  BY DEF Send, DocumentsInv, TypeOK
<1>6. p \in Actors /\ req' = [req EXCEPT ![p] = q]
  BY <1>1 DEF Send, Actors
<1> QED BY <1>3, <1>4, <1>5, <1>6, <1>7, OneRequest DEF Send

LEMMA SavesKeep ==
  ASSUME DocumentsInv, NEW p \in Panels,
         SaveKnown(p) \/ SaveCompared(p) \/ SaveOnto(p) \/ SaveBlind(p)
  PROVE  DocumentsInv'
<1>1. /\ version \in Nat /\ data \in 0 .. MaxBodies
      /\ screen[p].version \in Nat /\ 0 \in 0 .. MaxBodies
  BY DocumentsAssumption DEF DocumentsInv, TypeOK, Bodies
<1> QED BY <1>1, SendKeeps DEF SaveKnown, SaveCompared, SaveOnto, SaveBlind, Checked

\* The version looked at is the one the save was made for: the body is the one it was
\* made from, as a version names one body.
LEMMA PatchKeeps ==
  ASSUME DocumentsInv, NEW p \in Panels, Patch(p)
  PROVE  DocumentsInv'
<1>1. req \in [Actors -> ReqSet] /\ p \in Actors /\ req[p] \in ReqSet
  BY DEF DocumentsInv, TypeOK, ReqSet, Actors
<1>2. screen' \in [Panels -> [version : Nat, text : Bodies]]
  BY DEF Patch, DocumentsInv, TypeOK
<1>3. CASE req[p].expected # version
  BY <1>1, <1>2, <1>3, IdleFits, OneRequest DEF Patch
<1>4. CASE req[p].expected = version
  <2>1. PICK q : q = [req[p] EXCEPT !.pc = "editing", !.version = version, !.body = data]
    OBVIOUS
  <2>2. q = [pc |-> "editing", how |-> req[p].how, expected |-> req[p].expected,
             base |-> req[p].base, version |-> version, body |-> data]
    BY <1>1, <2>1 DEF ReqSet
  <2>3. version \in Nat /\ data \in 0 .. MaxBodies
    BY DEF DocumentsInv, TypeOK
  <2>4. q \in ReqSet
    BY <1>1, <2>2, <2>3 DEF ReqSet
  <2>5. ASSUME req[p].how \in Checked PROVE data = req[p].base \/ Overtaken(version)
    <3>1. data \in Made /\ req[p].base \in Made
      BY <2>5 DEF Patch, DocumentsInv, OnlyMadeBodies, Checked
    <3>2. named[data] = version \/ Overtaken(version)
      BY DEF Patch, DocumentsInv, NumbersAreTheirBodies
    <3>3. named[req[p].base] = version \/ Overtaken(version)
      BY <1>4, <2>5 DEF Patch, DocumentsInv, NumbersAreTheirBodies, Checked
    <3> QED BY <3>1, <3>2, <3>3 DEF DocumentsInv, VersionNamesOneBody, Overtaken
  <2>6. FitsDocument(q)
    <3>1. req[p].how \in Checked => req[p].base \in Made
      BY DEF Patch, DocumentsInv, OnlyMadeBodies, Checked
    <3> QED BY <1>4, <2>2, <2>5, <3>1 DEF FitsDocument, Patch
  <2>7. req' = [req EXCEPT ![p] = q]
    BY <1>1, <1>4, <2>1 DEF Patch
  <2>8. FitsScreen(p, q)
    BY <2>2 DEF FitsScreen, Patch, DocumentsInv, ComparedIsShown
  <2> QED BY <1>1, <1>2, <2>4, <2>6, <2>7, <2>8, OneRequest DEF Patch
<1> QED BY <1>3, <1>4

LEMMA AnsweredKeeps ==
  ASSUME DocumentsInv, NEW p \in Panels, Answered(p)
  PROVE  DocumentsInv'
<1>1. p \in Actors /\ version \in Nat /\ screen \in [Panels -> [version : Nat, text : Bodies]]
  BY DEF DocumentsInv, TypeOK, Actors
<1>2. req[p].body \in Bodies /\ text[req[p].body] \in Bodies
  BY <1>1 DEF Answered, DocumentsInv, OnlyMadeBodies, TypeOK, Made, Bodies
<1>3. PICK t \in Bodies : screen' = [screen EXCEPT ![p] = Shown(version, t)]
  BY <1>1, <1>2 DEF Answered
<1>4. /\ screen' \in [Panels -> [version : Nat, text : Bodies]]
      /\ \A o \in Panels \ {p} : screen'[o] = screen[o]
  BY <1>1, <1>3 DEF Shown
<1> QED BY <1>1, <1>4, IdleFits, OneRequest DEF Answered

\* A new body: its number is one beyond the one read; whoever else has read the
\* document makes it an overtaken one.
LEMMA CommitEditKeeps ==
  ASSUME DocumentsInv, NEW a \in Actors, CommitEdit(a)
  PROVE  DocumentsInv'
<1> DEFINE n == made + 1
           OvertakenNow(v) == \E o \in overtaken' : named'[o] = v
           q == IF a \in Panels
                THEN [Idle EXCEPT !.pc = "committed", !.how = req[a].how, !.body = made + 1]
                ELSE Idle
<1>1. /\ made \in Nat /\ made >= 1 /\ n \in Bodies /\ n \in 0 .. MaxBodies /\ n \notin Made
      /\ Made' = Made \cup {n} /\ Made \subseteq Bodies
  <2>1. made \in 1 .. MaxBodies /\ made < MaxBodies /\ made' = n
    BY DocumentsAssumption DEF CommitEdit, DocumentsInv, TypeOK, Bodies
  <2> QED BY <2>1, DocumentsAssumption DEF Made, Bodies
<1>2. req \in [Actors -> ReqSet] /\ Panels \subseteq Actors /\ overtaken \subseteq Made
  BY DEF DocumentsInv, TypeOK, OnlyMadeBodies, ReqSet, Actors
<1>3. /\ req[a].version \in Nat /\ req[a].body \in Made /\ req[a].body \in Bodies
      /\ HasRead(a)
  BY <1>2 DEF CommitEdit, DocumentsInv, OnlyMadeBodies, TypeOK, HasRead, ReqSet, Made, Bodies
<1>4. q \in ReqSet /\ ~(q.pc \in {"noting", "editing", "sent"}) /\ (q.pc = "committed" => q.body = n)
  <2>1. CASE a \in Panels
    <3>1. q = [pc |-> "committed", how |-> req[a].how, expected |-> 0, base |-> 0,
               version |-> 0, body |-> n]
      BY <2>1 DEF Idle
    <3>a. req[a].how \in {"edit", "known", "compared", "onto", "blind"}
      BY <1>2 DEF ReqSet
    <3> HIDE DEF q
    <3>2. q \in ReqSet
      BY <3>1, <3>a, <1>1, DocumentsAssumption DEF ReqSet
    <3> QED BY <3>1, <3>2
  <2>2. CASE a \notin Panels
    BY <2>2, IdleFits DEF Idle
  <2> QED BY <2>1, <2>2
<1>5. req'[a] = q /\ (\A c \in Actors : c # a => req'[c] = req[c]) /\ req' \in [Actors -> ReqSet]
  BY <1>2, <1>4 DEF CommitEdit
<1> HIDE DEF q
<1>6. \A c \in Actors : HasRead(c)' <=> c # a /\ HasRead(c)
  BY <1>4, <1>5 DEF HasRead
<1>7. /\ named \in [Bodies -> Nat] /\ named' \in [Bodies -> Nat]
      /\ named'[n] = req[a].version + 1
      /\ \A b \in Made : named'[b] = named[b]
  <2>1. named \in [Bodies -> Nat]
    BY DEF DocumentsInv, TypeOK
  <2>2. named' = [named EXCEPT ![n] = req[a].version + 1]
    BY DEF CommitEdit, NextVersion
  <2>3. req[a].version + 1 \in Nat
    BY <1>3
  <2> QED BY <1>1, <2>1, <2>2, <2>3
<1>8. /\ version # 0 /\ version' = req[a].version + 1 /\ version' # 0 /\ data' = n
      /\ rows' = rows \cup {Snapshot(a)} /\ screen' = screen /\ kind' = kind
  BY <1>3 DEF CommitEdit, NextVersion
<1>9. /\ overtaken \subseteq overtaken' /\ overtaken' \subseteq overtaken \cup {n}
      /\ \A c \in Actors : c # a /\ HasRead(c) => n \in overtaken'
  BY DEF CommitEdit, Overtaking
<1>10. Clean' \ {n} \subseteq Clean /\ Clean' \subseteq Clean \cup {n}
  BY <1>1, <1>9 DEF Clean
<1>11. \A v : Overtaken(v) => OvertakenNow(v)
  BY <1>2, <1>7, <1>9 DEF Overtaken
<1>t. text' \in [Bodies -> Bodies] /\ \A b \in Made : text'[b] = text[b]
  <2>1. text \in [Bodies -> Bodies] /\ screen \in [Panels -> [version : Nat, text : Bodies]]
    BY DEF DocumentsInv, TypeOK
  <2>2. PICK t \in {n} \cup Kept(a) : text' = [text EXCEPT ![n] = t]
    BY DEF CommitEdit
  <2>3. Kept(a) \subseteq Bodies
    <3>1. CASE a \in Jobs
      BY <3>1, <2>1, <1>1 DEF Kept, Made
    <3>2. CASE a \notin Jobs /\ req[a].how = "onto"
      <4>1. req[a].base \in Bodies
        <5>1. a \in Panels /\ req[a].pc = "editing"
          BY <3>2 DEF CommitEdit, Actors
        <5> QED BY <3>2, <5>1, <1>1 DEF DocumentsInv, OnlyMadeBodies
      <4>2. Kept(a) = {text[req[a].base]}
        BY <3>2 DEF Kept
      <4> QED BY <4>1, <4>2, <2>1
    <3>3. CASE a \notin Jobs /\ req[a].how # "onto"
      <4>1. a \in Panels /\ Kept(a) = {screen[a].text}
        BY <3>3 DEF Kept, Actors
      <4> QED BY <4>1, <2>1
    <3> QED BY <3>1, <3>2, <3>3
  <2> QED BY <2>1, <2>2, <2>3, <1>1
<1>12. Row(req[a].version, req[a].body) \in [version : Nat, body : Bodies]
  BY <1>3 DEF Row
<1>13. TypeOK'
  <2>1. made' \in Bodies /\ data' \in 0 .. MaxBodies /\ version' \in Nat
    BY <1>1, <1>3, <1>8 DEF CommitEdit
  <2>2. rows' \subseteq [version : Nat, body : Bodies]
    BY <1>8, <1>12 DEF DocumentsInv, TypeOK, Snapshot
  <2>3. overtaken' \subseteq Bodies
    BY <1>1, <1>9 DEF DocumentsInv, TypeOK
  <2> QED BY <2>1, <2>2, <2>3, <1>5, <1>7, <1>8, <1>t DEF DocumentsInv, TypeOK, ReqSet
<1>14. OnlyMadeBodies'
  <2>1. overtaken' \subseteq Made' /\ data' \in Made'
    BY <1>1, <1>2, <1>8, <1>9
  <2>2. \A c \in Actors : HasRead(c)' \/ req'[c].pc = "committed" => req'[c].body \in Made'
    BY <1>1, <1>4, <1>5, <1>6 DEF DocumentsInv, OnlyMadeBodies
  <2>3. \A p \in Panels : req'[p].pc \in {"sent", "editing"} /\ req'[p].how \in {"compared", "onto"} =>
          req'[p].base \in Made'
    BY <1>1, <1>2, <1>4, <1>5 DEF DocumentsInv, OnlyMadeBodies
  <2> QED BY <2>1, <2>2, <2>3 DEF OnlyMadeBodies
<1>15. NoNumberAhead'
  <2>1. \A b \in Clean : b \in Made /\ named'[b] = named[b] /\ named[b] <= req[a].version
    BY <1>3, <1>7 DEF DocumentsInv, NoNumberAhead, Clean
  <2>2. \A b \in Clean' : named'[b] <= version'
    <3> TAKE b \in Clean'
    <3>1. CASE b = n
      BY <3>1, <1>3, <1>7, <1>8
    <3>2. CASE b # n
      <4>1. b \in Clean /\ b \in Bodies
        BY <3>2, <1>1, <1>10 DEF Clean
      <4> QED BY <4>1, <2>1, <1>3, <1>7, <1>8
    <3> QED BY <3>1, <3>2
  <2>3. \A c \in Actors : HasRead(c)' => \A b \in Clean' : named'[b] <= req'[c].version
    BY <1>5, <1>6, <1>9, <1>10, <2>1 DEF DocumentsInv, NoNumberAhead, Clean
  <2> QED BY <2>2, <2>3 DEF NoNumberAhead
<1>16. KeptOrRead'
  <2> SUFFICES ASSUME NEW b \in Clean'
               PROVE  \/ Row(named'[b], b) \in rows'
                      \/ /\ data' = b /\ version' = named'[b]
                         /\ \A c \in Actors : HasRead(c)' => Snapshot(c)' = Row(named'[b], b)
    BY DEF KeptOrRead, Row
  <2>1. CASE b = n
    <3>1. \A c \in Actors : ~HasRead(c)'
      BY <2>1, <1>6, <1>9 DEF Clean
    <3> QED BY <3>1, <2>1, <1>7, <1>8
  <2>2. CASE b # n
    <3>1. b \in Clean /\ named'[b] = named[b]
      BY <2>2, <1>7, <1>10 DEF Clean
    <3>2. Row(named[b], b) \in rows \/ Snapshot(a) = Row(named[b], b)
      BY <3>1, <1>3, <1>8 DEF DocumentsInv, KeptOrRead
    <3> QED BY <3>1, <3>2, <1>8
  <2> QED BY <2>1, <2>2
<1>17. NumbersAreTheirBodies'
  <2>1. named'[data'] = version'
    BY <1>7, <1>8
  <2>2. \A c \in Actors : HasRead(c)' =>
          /\ named'[req'[c].body] = req'[c].version \/ OvertakenNow(req'[c].version)
          /\ OvertakenNow(version')
    <3> SUFFICES ASSUME NEW c \in Actors, HasRead(c), c # a
                 PROVE  /\ named'[req[c].body] = req[c].version \/ OvertakenNow(req'[c].version)
                        /\ OvertakenNow(version')
      BY <1>5, <1>6
    <3>1. req[c].body \in Made /\ req'[c] = req[c]
      BY <1>5 DEF DocumentsInv, OnlyMadeBodies
    <3>2. named[req[c].body] = req[c].version \/ Overtaken(req[c].version)
      BY DEF DocumentsInv, NumbersAreTheirBodies
    <3>3. OvertakenNow(version')
      BY <1>7, <1>8, <1>9
    <3> QED BY <3>1, <3>2, <3>3, <1>7, <1>11
  <2>3. \A p \in Panels : req'[p].pc = "sent" /\ req'[p].how \in {"compared", "onto"} =>
          named'[req'[p].base] = req'[p].expected \/ OvertakenNow(req'[p].expected)
    <3> SUFFICES ASSUME NEW p \in Panels, req'[p].pc = "sent", req'[p].how \in {"compared", "onto"}
                 PROVE  named'[req'[p].base] = req'[p].expected \/ OvertakenNow(req'[p].expected)
      OBVIOUS
    <3>1. p # a /\ req'[p] = req[p] /\ req[p].base \in Made
      BY <1>2, <1>4, <1>5 DEF DocumentsInv, OnlyMadeBodies
    <3>2. named[req[p].base] = req[p].expected \/ Overtaken(req[p].expected)
      BY <3>1 DEF DocumentsInv, NumbersAreTheirBodies
    <3> QED BY <3>1, <3>2, <1>7, <1>11
  <2> QED BY <2>1, <2>2, <2>3 DEF NumbersAreTheirBodies, Overtaken
<1>18. VersionNamesOneBody'
  <2> SUFFICES ASSUME NEW b \in Made', NEW c \in Made', b # c, named'[b] = named'[c],
                      b \notin overtaken', c \notin overtaken'
               PROVE  FALSE
    BY DEF VersionNamesOneBody
  <2>1. \A d \in Made : d \notin overtaken' => named'[d] < named'[n]
    <3> TAKE d \in Made
    <3> HAVE d \notin overtaken'
    <3>1. named[d] <= req[a].version /\ named[d] \in Nat
      <4>1. d \in Clean /\ d \in Bodies
        BY <1>1, <1>9 DEF Clean
      <4> QED BY <4>1, <1>3, <1>7 DEF DocumentsInv, NoNumberAhead
    <3> QED BY <3>1, <1>3, <1>7
  <2>2. b \in Made /\ c \in Made
    BY <2>1, <1>1, <1>7
  <2> QED BY <2>2, <1>7, <1>9 DEF DocumentsInv, VersionNamesOneBody
<1>19. ComparedIsShown'
  <2> SUFFICES ASSUME NEW p \in Panels, req'[p].pc \in {"sent", "editing"},
                      req'[p].how = "compared"
               PROVE  text'[req'[p].base] = screen'[p].text
    BY DEF ComparedIsShown
  <2>1. p # a /\ req'[p] = req[p]
    BY <1>2, <1>4, <1>5
  <2>2. req[p].base \in Made /\ text[req[p].base] = screen[p].text
    BY <2>1 DEF DocumentsInv, OnlyMadeBodies, ComparedIsShown
  <2> QED BY <2>1, <2>2, <1>1, <1>8, <1>t
<1>20. CheckedSaveReplacesItsBase'
  <2> SUFFICES ASSUME NEW p \in Panels, req'[p].pc = "editing", req'[p].how \in {"compared", "onto"}
               PROVE  req'[p].body = req'[p].base \/ OvertakenNow(req'[p].expected)
    BY <1>19 DEF CheckedSaveReplacesItsBase, ComparedIsShown, Overtaken
  <2>1. p # a /\ req'[p] = req[p]
    BY <1>2, <1>4, <1>5
  <2> QED BY <2>1, <1>11 DEF DocumentsInv, CheckedSaveReplacesItsBase
<1> QED
  BY <1>13, <1>14, <1>15, <1>16, <1>17, <1>18, <1>19, <1>20 DEF DocumentsInv

\* A note puts back the body it was made for, under the number the document has now:
\* the body of that number is the same, or was stored while the note was made.
LEMMA CommitNoteKeeps ==
  ASSUME DocumentsInv, NEW a \in Actors, CommitNote(a)
  PROVE  DocumentsInv'
<1>1. /\ req \in [Actors -> ReqSet] /\ Panels \subseteq Actors
      /\ HasRead(a) /\ req[a].body \in Made /\ req[a].body \in 0 .. MaxBodies
  BY DEF CommitNote, DocumentsInv, OnlyMadeBodies, TypeOK, ReqSet, Actors, HasRead
<1>2. /\ req'[a] = Idle /\ Idle.pc = "idle" /\ (\A c \in Actors : c # a => req'[c] = req[c])
      /\ req' \in [Actors -> ReqSet]
  BY <1>1, IdleFits DEF CommitNote, Idle
<1>3. \A c \in Actors : HasRead(c)' <=> c # a /\ HasRead(c)
  BY <1>2 DEF HasRead
<1>4. Made' = Made /\ Clean' = Clean
  BY DEF CommitNote, Made, Clean
<1>5. TypeOK'
  BY <1>1, <1>2 DEF CommitNote, DocumentsInv, TypeOK, ReqSet
<1>6. OnlyMadeBodies'
  BY <1>1, <1>2, <1>3, <1>4 DEF CommitNote, DocumentsInv, OnlyMadeBodies
<1>7. NoNumberAhead'
  BY <1>2, <1>3, <1>4 DEF CommitNote, DocumentsInv, NoNumberAhead
<1>8. KeptOrRead'
  <2> SUFFICES ASSUME NEW b \in Clean
               PROVE  \/ Row(named[b], b) \in rows
                      \/ /\ data' = b /\ version = named[b]
                         /\ \A c \in Actors : HasRead(c)' => Snapshot(c)' = Row(named[b], b)
    BY <1>4 DEF KeptOrRead, CommitNote, Row
  <2>1. CASE data = b /\ version = named[b]
             /\ \A c \in Actors : HasRead(c) => Snapshot(c) = Row(named[b], b)
    <3>1. req[a].body = b
      BY <1>1, <2>1 DEF Snapshot, Row
    <3>2. \A c \in Actors : HasRead(c)' => Snapshot(c)' = Row(named[b], b)
      BY <1>2, <1>3, <2>1 DEF Snapshot, Row
    <3> QED BY <2>1, <3>1, <3>2 DEF CommitNote
  <2> QED BY <2>1 DEF CommitNote, DocumentsInv, KeptOrRead
<1>9. NumbersAreTheirBodies'
  <2>1. named[req[a].body] = version \/ Overtaken(version)
    BY <1>1 DEF CommitNote, DocumentsInv, NumbersAreTheirBodies
  <2>2. \A c \in Actors : HasRead(c)' =>
          /\ named[req'[c].body] = req'[c].version \/ Overtaken(req[c].version)
          /\ version \in {0, req'[c].version} \/ Overtaken(version)
    BY <1>2, <1>3 DEF DocumentsInv, NumbersAreTheirBodies
  <2>3. \A p \in Panels : req'[p].pc = "sent" /\ req'[p].how \in {"compared", "onto"} =>
          req'[p] = req[p] /\ (named[req[p].base] = req[p].expected \/ Overtaken(req[p].expected))
    BY <1>1, <1>2 DEF DocumentsInv, NumbersAreTheirBodies
  <2> QED BY <2>1, <2>2, <2>3, <1>2, <1>3 DEF CommitNote, NumbersAreTheirBodies, Overtaken
<1>10. VersionNamesOneBody'
  BY <1>4 DEF CommitNote, DocumentsInv, VersionNamesOneBody
<1>11. CheckedSaveReplacesItsBase'
  <2>1. \A p \in Panels : req'[p].pc = "editing" => req'[p] = req[p]
    BY <1>1, <1>2
  <2> QED BY <2>1 DEF CommitNote, DocumentsInv, CheckedSaveReplacesItsBase, Overtaken
<1>12. ComparedIsShown'
  <2>1. \A p \in Panels : req'[p].pc \in {"sent", "editing"} => req'[p] = req[p]
    BY <1>1, <1>2
  <2> QED BY <2>1, <1>4 DEF CommitNote, DocumentsInv, ComparedIsShown
<1> QED
  BY <1>5, <1>6, <1>7, <1>8, <1>9, <1>10, <1>11, <1>12 DEF DocumentsInv

LEMMA DeleteKeeps ==
  ASSUME DocumentsInv, Delete
  PROVE  DocumentsInv'
<1>1. TypeOK'
  BY DocumentsAssumption DEF Delete, DocumentsInv, TypeOK
<1>2. OnlyMadeBodies'
  BY DEF Delete, DocumentsInv, OnlyMadeBodies, Made, HasRead
<1>3. NoNumberAhead' /\ KeptOrRead'
  BY DEF Delete, DocumentsInv, NoNumberAhead, KeptOrRead, Clean, Made, HasRead
<1>4. NumbersAreTheirBodies'
  BY DEF Delete, DocumentsInv, NumbersAreTheirBodies, Overtaken, HasRead
<1>5. VersionNamesOneBody' /\ ComparedIsShown' /\ CheckedSaveReplacesItsBase'
  BY DEF Delete, DocumentsInv, VersionNamesOneBody, ComparedIsShown, CheckedSaveReplacesItsBase,
     Made, Overtaken
<1> QED
  BY <1>1, <1>2, <1>3, <1>4, <1>5 DEF DocumentsInv

LEMMA NextKeeps == DocumentsInv /\ [Next]_vars => DocumentsInv'
<1> SUFFICES ASSUME DocumentsInv, [Next]_vars PROVE DocumentsInv'
  OBVIOUS
<1>1. ASSUME NEW j \in Jobs, JobBegins(j) PROVE DocumentsInv'
  BY <1>1, BeginKeeps DEF JobBegins, RewriteSection, RewriteSlide, RewriteBlock,
     AddSectionImage, AddSlideImage, AddBlockImage, StoreDocument, RestoreArtifact,
     FactcheckSection, FactcheckSlide, StoreDiagram, StoreSlideDiagram, Critique
<1>2. ASSUME NEW p \in Panels,
             Load(p) \/ Patch(p) \/ Answered(p)
               \/ SaveKnown(p) \/ SaveCompared(p) \/ SaveOnto(p) \/ SaveBlind(p)
      PROVE  DocumentsInv'
  BY <1>2, LoadKeeps, PatchKeeps, AnsweredKeeps, SavesKeep
<1>3. ASSUME NEW a \in Actors, Fail(a) \/ CommitEdit(a) \/ CommitNote(a) \/ Gone(a)
      PROVE  DocumentsInv'
  BY <1>3, DropKeeps, CommitEditKeeps, CommitNoteKeeps
<1>4. CASE UNCHANGED vars
  <2>1. Made' = Made /\ Clean' = Clean
    BY <1>4 DEF vars, Made, Clean
  <2>2. OnlyMadeBodies' /\ NoNumberAhead' /\ KeptOrRead' /\ TypeOK'
    BY <1>4, <2>1 DEF vars, DocumentsInv, OnlyMadeBodies, NoNumberAhead, KeptOrRead, TypeOK,
       HasRead, Snapshot, Row
  <2>3. NumbersAreTheirBodies' /\ VersionNamesOneBody' /\ ComparedIsShown'
        /\ CheckedSaveReplacesItsBase'
    BY <1>4, <2>1 DEF vars, DocumentsInv, NumbersAreTheirBodies, VersionNamesOneBody,
       ComparedIsShown, CheckedSaveReplacesItsBase, Overtaken, HasRead
  <2> QED BY <2>2, <2>3 DEF DocumentsInv
<1>5. Jobs \subseteq Actors
  BY DEF Actors
<1> QED BY <1>1, <1>2, <1>3, <1>4, <1>5, DeleteKeeps DEF Next

\* The inductive invariant: what is made, read and numbered across the edits, notes and
\* saves of routers/workspace.py and the panels.
LEMMA DocumentsHold == Spec => []DocumentsInv
<1> QED BY InitOK, NextKeeps, PTL DEF Spec

\* "old body written before edit": whatever the panels, turns and edit requests do, a
\* body nobody was working across is the document or in its history.
THEOREM HistoryHolds == Spec => []HistoryKeepsCleanBodies
<1>1. DocumentsInv => HistoryKeepsCleanBodies
  BY DEF DocumentsInv, KeptOrRead, HistoryKeepsCleanBodies
<1> QED BY <1>1, DocumentsHold, PTL

\* A version number is the number of one body, overtaken ones apart.
THEOREM NumbersHold == Spec => []VersionNamesOneBody
<1>1. DocumentsInv => VersionNamesOneBody
  BY DEF DocumentsInv
<1> QED BY <1>1, DocumentsHold, PTL

\* patch_artifact's 409 and the panels' check: a save that read the document first
\* replaces the body it read, and one that compared it a body with the text the panel
\* started from, overtaken numbers apart.
THEOREM CheckedSavesHold == Spec => []CheckedSaveReplacesItsBase
<1>1. DocumentsInv => CheckedSaveReplacesItsBase
  BY DEF DocumentsInv
<1> QED BY <1>1, DocumentsHold, PTL

=============================================================================
