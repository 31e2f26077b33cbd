----------------------------- MODULE Documents -----------------------------
(***************************************************************************)
(* One stored document of one person (models Artifact, ArtifactVersion),   *)
(* the panels that show and save it in several tabs (ReportPanel.tsx,      *)
(* DeckPanel.tsx), and the requests and turns that change it               *)
(* (routers/workspace.py, _store_document).  Every request reads the row,  *)
(* works - for as long as a model takes - and commits without a lock what  *)
(* it made of the row it read.                                             *)
(*                                                                         *)
(* A body is known by the commit that made it; body 1 is the document as   *)
(* first stored, body 0 is none.  Its text is the part of it that a panel  *)
(* compares before it saves: a report's title, sections, page settings,    *)
(* comments and title block (in the Markdown editor the title and sections *)
(* alone), a deck's slides.  A request's pc: "idle", "sent" (a save on its *)
(* way), "noting" and "editing" (the row is read), "committed" (the row is *)
(* to be read back for the answer).                                        *)
(***************************************************************************)
EXTENDS Naturals

CONSTANTS
  Panels,      \* open panels of the document
  Jobs,        \* turns, reruns and edit requests
  MaxBodies    \* bound on bodies made

ASSUME DocumentsAssumption ==
  /\ MaxBodies \in Nat \ {0}
  /\ Panels \cap Jobs = {}

VARIABLES
  kind,        \* artifact.kind, never changed
  version,     \* artifact.version, 0 once deleted
  data,        \* artifact.data
  rows,        \* artifact_versions
  made,        \* bodies made
  text,        \* of a body: the body that first had its text
  screen,      \* of a panel: the version and the text it takes for the document's
  req,         \* of a request: pc, how it saves, the version it expects, the body
               \*   its own is written on, the row it read
  named,       \* history: the version a body was stored as
  overtaken    \* history: bodies stored while another request had read the row

vars == <<kind, version, data, rows, made, text, screen, req, named, overtaken>>

Actors == Panels \cup Jobs
Bodies == 1 .. MaxBodies
Idle == [pc |-> "idle", how |-> "edit", expected |-> 0, base |-> 0, version |-> 0, body |-> 0]
Row(v, b) == [version |-> v, body |-> b]
Shown(v, t) == [version |-> v, text |-> t]
HasRead(a) == req[a].pc \in {"noting", "editing"}

Init ==
  /\ kind \in {"report", "deck", "html"}
  /\ version = 1 /\ data = 1 /\ rows = {} /\ made = 1
  /\ text = [b \in Bodies |-> b]
  /\ screen = [p \in Panels |-> Shown(1, 1)]
  /\ req = [a \in Actors |-> Idle]
  /\ named = [b \in Bodies |-> IF b = 1 THEN 1 ELSE 0]
  /\ overtaken = {}

-----------------------------------------------------------------------------
(* Requests that read the row and change it.                               *)

Begin(j, pc) ==
  /\ req[j].pc = "idle" /\ version # 0
  /\ req' = [req EXCEPT ![j] = [Idle EXCEPT !.pc = pc, !.version = version, !.body = data]]
  /\ UNCHANGED <<kind, version, data, rows, made, text, screen, named, overtaken>>

RewriteSection(j) == kind = "report" /\ Begin(j, "editing")
RewriteSlide(j)   == kind = "deck" /\ Begin(j, "editing")
RewriteBlock(j)   == kind = "html" /\ Begin(j, "editing")

AddSectionImage(j) == kind = "report" /\ Begin(j, "editing")
AddSlideImage(j)   == kind = "deck" /\ Begin(j, "editing")
AddBlockImage(j)   == kind = "html" /\ Begin(j, "editing")

\* A turn or a rerun stores over the document of its conversation.
StoreDocument(j) == Begin(j, "editing")

\* An old revision becomes a new body.
RestoreArtifact(j) == rows # {} /\ Begin(j, "editing")

\* "no version snapshot: annotation only"
FactcheckSection(j) == kind = "report" /\ Begin(j, "noting")
FactcheckSlide(j)   == kind = "deck" /\ Begin(j, "noting")
StoreDiagram(j)     == kind = "report" /\ Begin(j, "noting")
StoreSlideDiagram(j) == kind = "deck" /\ Begin(j, "noting")
Critique(j)         == Begin(j, "noting")

\* rewrite_failed, rewrite_empty, critique_failed: nothing is stored
Fail(j) ==
  /\ j \in Jobs /\ HasRead(j)
  /\ req' = [req EXCEPT ![j] = Idle]
  /\ UNCHANGED <<kind, version, data, rows, made, text, screen, named, overtaken>>

-----------------------------------------------------------------------------
(* The panels' saves (external: the web client).                           *)

\* The panel takes over the row it is sent.
Load(p) ==
  /\ req[p].pc = "idle" /\ version # 0
  /\ screen' = [screen EXCEPT ![p] = Shown(version, text[data])]
  /\ UNCHANGED <<kind, version, data, rows, made, text, req, named, overtaken>>

Send(p, how, expected, base) ==
  /\ req[p].pc = "idle" /\ version # 0
  /\ req' = [req EXCEPT ![p] = [Idle EXCEPT !.pc = "sent", !.how = how,
                                            !.expected = expected, !.base = base]]
  /\ UNCHANGED <<kind, version, data, rows, made, text, screen, named, overtaken>>

\* saveSources, chooseCitationStyle, and every save whose GET failed: the panel's
\* body under the panel's version
SaveKnown(p) ==
  kind # "html" /\ Send(p, "known", screen[p].version, 0)

\* Mutated: the text is not compared with the one just read.
SaveCompared_Unseen(p) ==
  kind # "html" /\ Send(p, "compared", version, data)

\* savePageEdits, the editors' save, the deck's restructure: under the version just
\* read, if its text is the one the panel started from.  A report's panel sends its own
\* whole body all the same.
SaveCompared(p) ==
  /\ kind # "html" /\ version # 0 /\ text[data] = screen[p].text
  /\ Send(p, "compared", version, data)

\* applyBulkSlides, saveDeckAccent, saveDeckVisualStyle, saveReviewComments: onto the
\* body just read
SaveOnto(p) == kind = "deck" /\ Send(p, "onto", version, data)

\* restructureSections, chooseTemplate, chooseVisualStyle, chooseDocumentAccent: the
\* panel's body under the version just read
SaveBlind(p) == kind = "report" /\ Send(p, "blind", version, 0)

\* patch_artifact, up to its commit
Patch(p) ==
  /\ req[p].pc = "sent" /\ version # 0
  /\ req' = IF req[p].expected = version
            THEN [req EXCEPT ![p].pc = "editing", ![p].version = version, ![p].body = data]
            ELSE [req EXCEPT ![p] = Idle]      \* 409
  /\ UNCHANGED <<kind, version, data, rows, made, text, screen, named, overtaken>>

\* The answer reads the row back; the panel takes its version, and shows its own text,
\* or after saveDeckVisualStyle and saveReviewComments the text it had.
Answered(p) ==
  /\ req[p].pc = "committed" /\ version # 0
  /\ \E t \in {text[req[p].body]} \cup (IF req[p].how = "onto" THEN {screen[p].text} ELSE {}) :
       screen' = [screen EXCEPT ![p] = Shown(version, t)]
  /\ req' = [req EXCEPT ![p] = Idle]
  /\ UNCHANGED <<kind, version, data, rows, made, text, named, overtaken>>

-----------------------------------------------------------------------------
(* Commits.                                                                *)

\* Mutated: the new body is put into the history, not the one it replaces.
Snapshot_New(a) == Row(req[a].version, made + 1)

\* "old body written before edit", as it was read
Snapshot(a) == Row(req[a].version, req[a].body)

\* Mutated: the number stays.
NextVersion_Same(a) == req[a].version

NextVersion(a) == req[a].version + 1

\* A body stored while another request works on the row it read before.
Overtaking(a) ==
  IF \E c \in Actors \ {a} : HasRead(c) THEN overtaken \cup {made + 1} ELSE overtaken

\* The texts a commit may leave as they were: one made before, what it is written on,
\* or the panel's.
Kept(a) ==
  CASE a \in Jobs -> {text[b] : b \in 1 .. made}
    [] a \notin Jobs /\ req[a].how = "onto" -> {text[req[a].base]}
    [] OTHER -> {screen[a].text}

CommitEdit(a) ==
  /\ req[a].pc = "editing" /\ version # 0 /\ made < MaxBodies
  /\ rows' = rows \cup {Snapshot(a)}
  /\ made' = made + 1 /\ data' = made + 1
  /\ \E t \in {made + 1} \cup Kept(a) : text' = [text EXCEPT ![made + 1] = t]
  /\ version' = NextVersion(a)
  /\ named' = [named EXCEPT ![made + 1] = NextVersion(a)]
  /\ overtaken' = Overtaking(a)
  /\ req' = [req EXCEPT ![a] = IF a \in Panels
                               THEN [Idle EXCEPT !.pc = "committed", !.how = req[a].how,
                                                 !.body = made + 1]
                               ELSE Idle]
  /\ UNCHANGED <<kind, screen>>

\* The body that was read, with the note.
CommitNote(a) ==
  /\ req[a].pc = "noting" /\ version # 0
  /\ data' = req[a].body
  /\ req' = [req EXCEPT ![a] = Idle]
  /\ UNCHANGED <<kind, version, rows, made, text, screen, named, overtaken>>

\* delete_artifact takes the history along; a commit after it fails
Delete ==
  /\ version # 0
  /\ version' = 0 /\ data' = 0 /\ rows' = {}
  /\ UNCHANGED <<kind, made, text, screen, req, named, overtaken>>

Gone(a) ==
  /\ version = 0 /\ req[a].pc # "idle"
  /\ req' = [req EXCEPT ![a] = Idle]
  /\ UNCHANGED <<kind, version, data, rows, made, text, screen, named, overtaken>>

-----------------------------------------------------------------------------
JobBegins(j) ==
  \/ RewriteSection(j) \/ RewriteSlide(j) \/ RewriteBlock(j)
  \/ AddSectionImage(j) \/ AddSlideImage(j) \/ AddBlockImage(j)
  \/ StoreDocument(j) \/ RestoreArtifact(j)
  \/ FactcheckSection(j) \/ FactcheckSlide(j)
  \/ StoreDiagram(j) \/ StoreSlideDiagram(j) \/ Critique(j)

Next ==
  \/ \E j \in Jobs : JobBegins(j) \/ Fail(j)
  \/ \E p \in Panels : \/ Load(p) \/ Patch(p) \/ Answered(p)
                       \/ SaveKnown(p) \/ SaveCompared(p) \/ SaveOnto(p) \/ SaveBlind(p)
  \/ \E a \in Actors : CommitEdit(a) \/ CommitNote(a) \/ Gone(a)
  \/ Delete

Spec == Init /\ [][Next]_vars

-----------------------------------------------------------------------------
(* Properties.                                                             *)

TypeOK ==
  /\ kind \in {"report", "deck", "html"}
  /\ version \in Nat /\ data \in 0 .. MaxBodies /\ made \in Bodies
  /\ rows \subseteq [version : Nat, body : Bodies]
  /\ text \in [Bodies -> Bodies]
  /\ screen \in [Panels -> [version : Nat, text : Bodies]]
  /\ req \in [Actors -> [pc : {"idle", "sent", "noting", "editing", "committed"},
                         how : {"edit", "known", "compared", "onto", "blind"},
                         expected : Nat, base : 0 .. MaxBodies,
                         version : Nat, body : 0 .. MaxBodies]]
  /\ named \in [Bodies -> Nat] /\ overtaken \subseteq Bodies

Made == 1 .. made
Clean == Made \ overtaken
Overtaken(v) == \E o \in overtaken : named[o] = v

\* "Append-only history; old body written before edit": a body that no other request
\* was working across is the document, or in its history under its own number - until
\* the document is deleted.
HistoryKeepsCleanBodies ==
  version # 0 => \A b \in Clean : data = b \/ Row(named[b], b) \in rows

\* A version number, by which revisions are read, restored and saves are checked, is
\* the number of one body, unless one of the two was stored across another request's
\* work.
VersionNamesOneBody ==
  \A b, c \in Made : b # c /\ named[b] = named[c] => b \in overtaken \/ c \in overtaken

\* "409 if someone else got there first", "Conflict check by content": a save that read
\* the document first replaces the body it read and no other, and one that compared it
\* replaces a body with the text the panel started from, unless a body under that
\* number was stored across another request's work.  What the comparison leaves out - a
\* report's sources, its citation style, its design - is replaced unseen.
CheckedSaveReplacesItsBase ==
  \A p \in Panels :
    req[p].pc = "editing" /\ req[p].how \in {"compared", "onto"} =>
      \/ /\ req[p].body = req[p].base
         /\ req[p].how = "compared" => text[req[p].body] = screen[p].text
      \/ Overtaken(req[p].expected)

\* What is read, shown and stored has been made.
OnlyMadeBodies ==
  /\ overtaken \subseteq Made /\ (version # 0 => data \in Made)
  /\ \A a \in Actors : HasRead(a) \/ req[a].pc = "committed" => req[a].body \in Made
  /\ \A p \in Panels :
       req[p].pc \in {"sent", "editing"} /\ req[p].how \in {"compared", "onto"} =>
         req[p].base \in Made

\* What a panel compared has the text it shows.
ComparedIsShown ==
  \A p \in Panels :
    req[p].pc \in {"sent", "editing"} /\ req[p].how = "compared" =>
      text[req[p].base] = screen[p].text

\* A number beyond the document's, or beyond the one a request has read, was given
\* across another request's work.
NoNumberAhead ==
  \A b \in Clean : /\ version # 0 => named[b] <= version
                   /\ \A a \in Actors : HasRead(a) => named[b] <= req[a].version

\* A body outside the history is what everybody has read.
KeptOrRead ==
  version # 0 => \A b \in Clean :
    \/ Row(named[b], b) \in rows
    \/ /\ data = b /\ version = named[b]
       /\ \A a \in Actors : HasRead(a) => Snapshot(a) = Row(named[b], b)

\* The document's number is its body's, and so is the number a request has read or a
\* save expects, unless a body of that number was stored across another request's work.
NumbersAreTheirBodies ==
  /\ version # 0 => named[data] = version \/ Overtaken(version)
  /\ \A a \in Actors : HasRead(a) =>
       /\ named[req[a].body] = req[a].version \/ Overtaken(req[a].version)
       /\ version \in {0, req[a].version} \/ Overtaken(version)
  /\ \A p \in Panels : req[p].pc = "sent" /\ req[p].how \in {"compared", "onto"} =>
       named[req[p].base] = req[p].expected \/ Overtaken(req[p].expected)

\* The inductive invariant.
DocumentsInv ==
  /\ TypeOK /\ OnlyMadeBodies /\ NoNumberAhead /\ KeptOrRead /\ NumbersAreTheirBodies
  /\ ComparedIsShown
  /\ VersionNamesOneBody /\ CheckedSaveReplacesItsBase

=============================================================================
