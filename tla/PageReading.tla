---------------------------- MODULE PageReading ----------------------------
(***************************************************************************)
(* What the reading of a scanned file promises, whoever does it: each page *)
(* is read into the file at most once and put on the ledger with it, and a *)
(* file that was closed, read or given up, is never opened again.  The     *)
(* workers, claims and leases of services/ocr_jobs.py implement it: see    *)
(* OcrJobs.                                                                *)
(***************************************************************************)
EXTENDS Naturals

CONSTANT Pages

VARIABLES
  phase,    \* "open", "done", "failed" or "gone" (deleted)
  pages,    \* the pages whose text is stored
  billed    \* how often each page is on the ledger

vars == <<phase, pages, billed>>

Init ==
  /\ phase = "open"
  /\ pages = {}
  /\ billed = [p \in Pages |-> 0]

ReadPage(p) ==
  /\ phase = "open" /\ p \notin pages
  /\ pages' = pages \cup {p}
  /\ billed' = [billed EXCEPT ![p] = @ + 1]
  /\ UNCHANGED phase

Close ==
  /\ phase = "open"
  /\ phase' \in {"done", "failed"}
  /\ UNCHANGED <<pages, billed>>

Delete ==
  /\ phase # "gone"
  /\ phase' = "gone" /\ pages' = {}
  /\ UNCHANGED billed

Next == (\E p \in Pages : ReadPage(p)) \/ Close \/ Delete

Spec == Init /\ [][Next]_vars

=============================================================================
