# KloudChat in TLA+

KloudChat is a chat service: a FastAPI process (`apps/api`), usually several
replicas of it, over one Postgres database, a LiteLLM gateway to the models, a
search index, a print sidecar and a React client. The API processes keep almost
no state of their own; what several of them, or several tasks of one of them, do
to the same database row is where the program is hard to get right and hard to
test. These modules model those parts, TLC checks them on small instances, and
TLAPS proves the main results for every instance.

Paths below are under `src/apps/api/app/` unless they start with `docs/`.

## Inventory

| part | code | state it keeps | how others touch it | hard behaviour | here |
|---|---|---|---|---|---|
| Chat turns | `routers/sessions.py`, `services/stop_signal.py` | `sessions.running_turn/_since`, `messages`; per process `_STOPPING`, `_CLAIMS` | stop button, broadcasts by Postgres NOTIFY, published bots and pipelines claim the same row | requests race across processes, a turn outlives its claim, lost broadcasts, crash between commit and stream | `ChatTurn` |
| Scanned files | `services/ocr_jobs.py`, `services/ocr.py` | `files.ocr_*`, `file_pages`, ledger rows | uploads queue, every replica runs a loop, deletion, search index | leases that pass under a live worker, resume after a crash, index writes outside the lock | `OcrJobs`, `PageReading` |
| Uploaded files | `routers/workspace.py` | `files`, blobs, index entries | as above | index write against deletion | partly, in `OcrJobs` |
| Video jobs | `routers/jobs.py`, `services/videogen.py` | `jobs`; per process `_watching` | provider, cancel button, listing starts loops | several loops per job, unlocked read-modify-write, crash after the claim | `VideoJobs` |
| Documents | `routers/workspace.py`, `_store_document`, the panels of the web client | `artifacts` (body, version), `artifact_versions` | open panels in several tabs, edit requests, turns, reruns, deletion | read, a model's minutes, then an unlocked write over what was read | `Documents` |
| Credits | `services/credits.py`, `core/deps.py` | `users.credits_used`, `cycle_resets_at`, ledger | every turn, file and job settles; every request may refill | refill read and written without a lock against atomic charges | partly, `Credits` |
| Key usage import | `services/api_key_usage.py` | ledger rows with an external reference | a loop on every replica, one pass at a time by an advisory lock; the gateway's spend log | overlapping windows, a log that cannot be read, the turn of a month | `Credits` |
| Published bots | `services/publishing.py`, `routers/publications.py`, `routers/bot_api.py` | publication status, pause reason, audience, review, versions; `publication_slots` | visitors, publisher, administrator, half-hourly sweep | every handler writes what it decided on an older row; a turn pauses a bot it read long ago; slots inserted then counted, without a lock | partly, `PublishedBot`, `TurnSlots` |
| Sign-in | `routers/auth.py` | refresh token families, lockout counters | browsers with several tabs, an administrator | rotation with a grace period, reuse burns a family, an end beside a refresh, lost answers | partly, `SignIn` |
| Pipelines | `pipeline/runner.py`, `pipeline/runs.py`, `routers/runs.py`, `routers/user_pipelines.py` | run records with snapshots | a turn drives stages, a reader answers a card, anyone runs a stored run again | reruns of reruns, skipped and failing stages, runs that are not kept | partly, `PipelineRuns` |
| Pending cards | `routers/sessions.py`, `pipeline/save_stages.py` | `sessions.pending` | sends, skips, plan approval, waiting runs | a card taken down by another run | waiting runs only, in `PipelineRuns` |
| Agent tool loop | `services/agent.py`, `services/mcp.py` | none that outlives a turn | model output | bounded sequential loop | not modelled |
| Data boundary, routing | `services/governance.py`, `adaptive_routing.py` | settings | every turn | pure decisions | not modelled |
| Writers, templates, exports, checks | `services/report.py`, `deck.py`, `page.py`, ... | artifacts | turns | text transformation | not modelled |
| Workspace, shares, issues, search, admin, usage, storage reclaim | `routers/*.py`, `services/storage.py` | rows of one owner | single requests | little concurrency | not modelled |
| Web client, print sidecar | `apps/web`, `apps/print` | client state | the API | rendering | not modelled |

What makes each part correct:

- *Chat turns*: one answer at a time per conversation; the transcript stays
  question, answer; a turn releases only its own claim; a stop reaches what runs;
  a rerun never loses the answer it replaces; a turn never ends without a trace;
  no crash closes the conversation for good.
- *Scanned files*: a page is read and billed once, whoever reads it; progress does
  not go back; every file is closed; a deleted file leaves no search entry.
- *Video jobs*: delivered and charged once; a cancel wins over a delivery; a job
  is settled in the end.
- *Documents*: what was the document stays in the history under its own number; a
  number names one body; a save that was checked replaces what it was checked with.
- *Credits*: `credits_used` is what the ledger holds of the cycle; one refill per
  cycle. *Key usage import*: every call of a key is charged once, late ones too.
- *Published bots*: a visitor without an account is answered by approved versions
  only; the audience grows by review alone; a pause is lifted only by who may lift it;
  no more turns at once than the limit.
- *Sign-in*: tabs that race are not taken for thieves; what was ended holds no live
  token.
- *Pipelines*: a stored run can be run again from each of its stages, over the bundle
  as it stood there, and a card that is up can be answered.

## Modules

    TurnLease       what the claim of a conversation promises (abstract)
    ChatTurn        one conversation, its requests, processes, stops and broadcasts,
      ChatTurnProofs, MCChatTurn                                refining TurnLease
    PageReading     what the reading of a file promises (abstract)
    OcrJobs         the loops that read it, refining PageReading
      OcrJobsProofs, MCOcrJobs
    VideoJobs       one video job, its poll loops, cancels and provider
      VideoJobsProofs, MCVideoJobs
    Documents       one document, its history, the panels and requests that change it
      DocumentsProofs, MCDocuments
    Credits         one account's balance and ledger: charges, refills, the key import
      CreditsProofs, MCCredits
    PublishedBot    one published bot, its owner, administrators, sweep and visitors
      PublishedBotProofs, MCPublishedBot
    SlotSemaphore   what the slots of bots' turns promise (abstract)
    TurnSlots       their rows: limits per bot and over all, across replicas, refining
      MCTurnSlots   SlotSemaphore (its proofs are in PublishedBotProofs)
    SignIn          one person's refresh tokens, the tabs of a browser, an administrator
      SignInProofs, MCSignIn
    PipelineRuns    the passes of one conversation's pipeline and the runs they store
      PipelineRunsProofs, MCPipelineRuns

An `MC` module only adds the symmetry set and constants that are functions or relations; a `.cfg` gives the constants. Operators
named `X_Y` under a comment "Mutated" are variants of `X` with a plausible bug;
nothing uses them in the specification, each run's properties are known to tell
its variants from the code.

### ChatTurn

A *turn* is one `POST /sessions/{id}/messages`. The module has one action per
stretch of `send_message` and `_answer_turn` between two points where another
task or process can act:

| action | code |
|---|---|
| `Send`, `ReadHistory`, `Refuse` | the pre-flight checks of `send_message`, in their order; the history is read once |
| `ClaimAndCommit` | the rows a rerun drops or carries, `_claim_turn`'s conditional update, the commit |
| `Abandon` | an exception, or a reader gone, before the generator starts |
| `BowOut`, `Supersede`, `Register` | the start of `_answer_turn`: withdraw, or stop the others and register the signal |
| `EndStream` | the stream ends: whole, by an error, or because the signal is set |
| `Settle`, `SettleFails` | the single settling transaction |
| `Close`, `ReleaseTurn` | `_STOPPING` is left, `_release_turn` in its two halves (token from `_CLAIMS`, update of the row) |
| `StopFire`, `StopRelease`, `Deliver` | `stop_turn`, and a broadcast that arrives late or is lost |
| `QuestionAges`, `ClaimExpires`, `Crash` | `chat_stall_sec`, `_CLAIM_TTL_SEC`, a process that dies |

Rows are records; a question is named by the turn that asked it, an answer by the
turn that wrote it. A message's text, model, usage and cards are left out; so are
billing and the title. `loose` is a history variable: the active turns that a stop
or an expired claim has left without a guard. The code gives up its promise for
those turns, so the safety properties speak of the others. The claim's ten minutes are longer than the stall window of
three (`core/config.py`), hence the guard of `ClaimExpires`.

`TurnLease` is what the claim promises, wherever it is kept: a turn begins when no turn
at work holds the conversation or the claim has expired, and whoever begins beside a turn
left over from a stop or an expiry is as little guarded as that one. `LeaseSpec` maps the
turns between claim and settlement, those of them that are not `loose`, and the age of the
claim to it; the row, the token maps, the two halves of a release, crashes and lost
broadcasts are forgotten.

Two relaxations of the model: a lost broadcast and one that is not sent are the
same; the model lets a whole stream end at any time, since a time limit bounds it.

### OcrJobs and PageReading

`PageReading` says what a reader of the file may rely on: pages are read and put on
the ledger together, at most once, and a closed file stays closed. `OcrJobs` is the
code: `Claim` is the `SKIP LOCKED` claim, `Holds` is `_hold`, and every commit of a
worker is one action under it; between two of them anything may happen. `owner` is
the claim token; a fresh `uuid4` is modelled by the number of claims so far. Time is
the three ages a claim can have against `LEASE` and `RETRY_AFTER`. The search entry
is the set of pages it has; `PutPages`, `RecordIndexed` and `CheckStillThere` are the
steps of `_reindex`, `UploadPut` and `UploadRecord` those of the upload's own index
write, `DeleteForget` and `DeleteCommit` the two halves of `delete_file`. The index may
fail: a write may be there although it was reported as failed, and a removal
(`ForgetEntry`, of the deletion and of `CheckStillThere`) may leave the entry, since both
callers drop or log the result. `lapsed` is a history variable: the last change of the
entry was reported as failed. What a page
says, review marks and the text layer's contents are left out. A file is a PDF, a PDF
some of whose pages have a text layer ("mixed": the upload indexes that layer itself),
or a picture of frames, of which the code counts only one past the limit. Files share
no row, so one is enough; which file a worker claims first is left open. The module
ends with the refinement mapping: `phase` forgets who reads, and `ReadingSpec` is
`PageReading!Spec` under it.

### VideoJobs

One job and at most one loop per process (`_watching`). `_finish`, the delivery and
`cancel_job` read the row and write it later, so each is two actions; a write touches
only the columns that differ from what was read, as the ORM does. The stage is
"making", "saving" (the claim) or "closed". The provider is external: it completes or
fails at any time, and a poll may fail or say nothing useful. There are two faults: a
process dies (`Crash`), and a loop ends by an exception that is not a `VideoError`
(`Raise`: the write of the file, a query, a commit), which nothing but `_done` hears of.
History variables: `racing`, the loops and presses that had read the job unsettled, and
were to write it, when it was settled; `abandoned`, whether the one that had the claim is
gone and left the stage at it. An owner whose row is gone is left out (`jobs.py:127` then
returns with the claim in place).

### Documents

A body is known by the commit that made it; `text` is the part of it that the report
panel compares before it saves (its `pageSnapshot`, or the Markdown), which different
bodies may share. The handlers of `routers/workspace.py` that
change a document have one shape: read the row, wait for a model, store. Each is an
action of its own (`RewriteSection` ... `Critique`) that remembers what it read
(`Begin`); `CommitEdit` puts the body *as it was read* into the history and stores the
new one under the number read plus one, `CommitNote` (fact checks, diagrams, critiques)
stores the body read, without a revision. `Patch` is `patch_artifact`'s check of
`expected_version`; the commit is a second step, because nothing locks the row between
them, and `Answered` is a third: the handler reads the row back for its answer, and the
panel takes that version for the one of the text it shows (`screen`). `SaveKnown`,
`SaveCompared`, `SaveOnto` and `SaveBlind` are the four ways in which `ReportPanel.tsx`
and `DeckPanel.tsx` choose a save's body and expected version. A compared save looks at
the text alone and then sends the panel's whole body, sources, citation style, design and
template included, under the version just read: it replaces those of another tab unseen,
and `CheckedSaveReplacesItsBase` promises no more than the text. A deck's save merges its
slides onto the body just read. `overtaken` is a history variable: the bodies stored while another request had read the row before; the
properties are about the others.

### Credits

The row of one account, with time in ticks and months of `MonthLength` of them. A refill
is two steps, the read that found the cycle over (`LoadIdentity` of a request, `LoadDue`
of the administrator's refill of all accounts) and `CommitRefill`, which writes `credits_used` only if it differs
from what was read, as the ORM does. `LoadOwner` is a bot's turn or a job's loop, which
charges without a refill before it. `Settle` is the atomic increment with its ledger row.
`BeginPass`, `ReadLogs`, `CommitPass` are one pass of the import: a window that reaches
back by `Overlap` from the newest row of any key, of each key's log a part from its oldest
row on, and the charges of the calls that are not on the ledger. `ReadLogs(got)` covers
the whole log, one cut at `_MAX_PAGES` or at a body that holds no rows, and one that
cannot be read. The advisory lock makes it one pass at a
time. The gateway is external: a call reaches its log late, within the overlap. Costs are
one credit a charge. History variables: `early` and `sinceDue` count charges made in a
month before its refill (the refill wipes them), `overlapped` notes that a refill met
another write half way or that an import committed over a newer cycle, `missed` the calls
that a pass left out while it had a newer one of another key, `since` the start of the
month in which the first pass found a call.

### PublishedBot

The row of one publication. A request is decided on the row it read (`Decide`) and
written at its commit, only the columns that differ (`Written`); `raced` is a history
variable with the columns that had changed in between. Each operation of owner,
administrator and sweep is one action. A visitor's turn is `ReadBot`, `Admit` (owner's
credits and account, version) and `RunTurn` (the slot, the model, the answer), and either
may pause the bot as the turn had read it. `owes` is what `owner_blocks` would answer;
it changes at any time. A slot is had or not had here; how it is had is `TurnSlots`.

### TurnSlots

A try of `acquire_slot` is five steps, because its process stamps the row before the
commit and counts in two queries after it: `Stamp` (with the bound under which it deletes
stale rows), `Insert`, `CountBot`, `CountAll`, `Withdraw`. `Release` is `holding` around
the turn; `Die` stands for a process that dies and a release that only logs its error,
which both leave the row. `Age` moves the bound of `SLOT_TTL_SEC` over the rows; a try is
much shorter than that, a turn need not be. `SweepSlots` is the sweep's delete. Stamps are
consecutive numbers: of two equal ones the random row id decides, which is as if one had
come first. Replicas' clocks are taken as one; a clock that is behind acts like a late
commit. `late` is a history variable: the turns whose row was committed after a
later-stamped one had been counted. Without them and without the rows that aged away, what
holds a slot is the `held` of `SlotSemaphore`, a counting semaphore with both limits
(`SemaphoreSpec`). Its slots are taken one at a time, the code's in three steps.

### SignIn

Refresh tokens are rows in families. `ReadRefresh` is `refresh` up to its commit with its
five outcomes, `IssueSession` the commit that stamps the old row and adds the new one
(and that of a sign-in). `ReadEnd` and `SuspendUser` read the live rows to revoke, and
`CommitEnd` revokes those rows, whatever was added since. The browser is external: its
tabs share one cookie, and `Arrive` sets it in whatever order answers come. `Delay` bounds
how long a refresh travels; the grace is assumed to be at least twice that
(`core/config.py`: 15 s). `Usable` is the row's own check, which a token that was ended
fails. History variables: `crossed`, the refreshes and sign-ins whose family was ended
after they had read; `late`, the tokens that no end could see: issued by one of those,
beside an end that has read the rows already, in the grace for a rotated token of a family
that is over, or in place of a token of this sort.

### PipelineRuns

A pass takes a bundle of fields through the stages 1 .. N. `Skip`, `Done`, `Waits` and
`Fails` are the outcomes of a stage in `Runner.run`, with what `Recorder.after` notes: an
entry of the fields whose fingerprint changed. `Persist` stores the snapshots, `Dies` is
everything that leaves none (too large, a failing insert, a cancelled pass, a crash).
Values do not survive storage as they are: `Stored` is what `decode` makes of what
`encode` keeps of one, so a callable, a pattern or a row, inside another value too
(`verify.Finding.still` of `findings.still`), comes back as None. It is assumed to change
nothing the second time. `restore` and `carried` are the functions of `pipeline/runs.py`:
`restore` lays the entries over the start and makes the fields of `REBUILT` anew where
their stage is behind (`Rebuilt`, `Remake`); what it gives is compared with what is stored
of the bundle as it stood. `Start`, `Resume` and
`Rerun` begin a pass over what they give. `_finish` swallows a recorder that raises and
the pass goes on with an entry too few; that guards against a bug of the recorder and is
left out. `stood` is a history variable with the bundle
as it stood before each stage, `told` the fields a resume or rerun set itself
(answers, material, usage), which the code fingerprints before it begins and so keeps in
no entry. The pending card of a waiting run is `card`; no pass waits for another.

## Runs

| run | instance | shows |
|---|---|---|
| `ChatTurn_stop` | 1 send, 2 reruns, 1 process, 2 stops, settlements that fail | `SoleTurn`, `SettledTurnLeavesATrace`, `RerunKeepsAnswerUntilReplaced`, refinement of `TurnLease`: three requests, the smallest number with which a late release can hit a third turn |
| `ChatTurn_faults` | 2 sends, 2 processes, 1 crash, faults in the request and the release | `ClaimInv` (the inductive invariant), `AnswerFollowsItsQuestion`, `SessionReopens` |
| `OcrJobs_reading` | 2 workers; 3 pages, mixed or a picture; limits 1 and 3; 2 attempts; 1 crash, 1 slow holder, 1 settings change | `OcrInv`, `SkippedPagesShow`, `NoEntryOutlivesItsFile`, `ProgressNeverGoesBack`, `EveryFileIsClosed`, refinement of `PageReading` |
| `VideoJobs_race` | 2 processes, 2 cancels, 2 polls, 2 faults (a process dies or a loop raises) | `VideoInv`, `CancelBeatsDownload`, `SettledUnlessRaced`, `JobSettlesUnlessAbandoned` |
| `Documents_edits` | 2 panels, 1 job, 3 bodies, each kind of document | `HistoryKeepsCleanBodies`, `VersionNamesOneBody`, `CheckedSaveReplacesItsBase` |
| `Credits_cycle` | 2 requests, 2 keys with 2 calls and 1, months of 2 ticks, overlap 1, 3 ticks, 1 charge, 1 failure | `CreditInv`, `CallsStayInReach` |
| `PublishedBot_review` | 2 requests at a time and the sweep, 4 requests in all, 2 versions, 1 trouble | `BotInv`, `WideningIsReviewed`, `PausesStay` |
| `TurnSlots_line` | 3 turns on 2 bots (limits 1 and 2, cap 2), 4 tries, 1 death | `SlotsInv`, `SlotsComeBack`, refinement of `SlotSemaphore` |
| `SignIn_tabs` | 2 tabs, 1 administrator, grace 2, delay 1, 3 ticks, 3 tokens, 2 families, 1 lost answer | `SignInInv`, `EndedIsOver` |
| `PipelineRuns_reruns` | 3 stages (one asks, one saves); 3 fields, one of them told and one made anew; 3 values, one of which storage loses; 3 passes | `PipelineInv`, `RestoresAsItStood` |
| `VideoJobs_v_once`, `PublishedBot_v_pause` | the smallest instances that show it | a counterexample each, see below |

The bounds. Two workers, processes, panels or requests are enough for every race between
a holder and one that takes over, or a reader and one that writes meanwhile; a third adds
only more of the same. One crash suffices where a crash only removes an actor and its
memory; the video job has two faults, so that the loop that takes over may fail too. Two stops, because what a stop opens (a claim released under a live turn) stays
open and each of two turns may be stopped. Three pages and two limits are needed for a limit change to cut pages off while one
remains to be read. Three bodies are the first one, a commit, and a save of the panel that
was misled by it. Three ticks with months of two hold the turn of a month with a
pass before, across and after it; the key with two calls has a log that can be cut, the
other one the newer row that moves the window. Three tokens are a sign-in, a refresh and the loser's
answer in the grace; a grace of two ticks with three of time lets the grace pass. Three
passes are a run, its rerun and the rerun of that. Three turns on two bots exceed either
limit by one, and the fourth try is a second one of a turn that withdrew. What the bounds cut off is what the
proofs add, where there are proofs. Requests are finite and nobody owes one, so the
systems may rest: `CHECK_DEADLOCK FALSE`. Symmetry is used in the safety runs only.

Fairness. `ChatTurn`: a turn that runs goes on, because streams are bounded by
`chat_timeout_sec` and tools by `max_tool_hops`; a stop request that fired finishes;
time passes. Sends, stops, crashes and deliveries are owed by nobody. A settlement
that raises is left out of that run: the event it leaves behind closes the
conversation in that process (below). `OcrJobs`: the loop of a worker goes on (its
requests have time-outs and `watch` swallows exceptions), time passes, a deletion
under way ends. `VideoJobs`: loops and requests go on, and the conversation is opened
again, which is what the code relies on to start a loop after a restart or an exception;
nobody owes a fault. `TurnSlots`: tries and
turns go on (streams are bounded), time passes, `watch` comes round on some replica (it
swallows exceptions); nobody owes a try. The other
modules promise nothing that must happen: their requests end by themselves or not at all.

### Where the code and its documents disagree

Two runs have one property each, what a comment or the documentation says, and a
counterexample in which the code does something else.

- `VideoJobs_v_once`: "claimed once across replicas" (docs/architecture.md). A progress
  report of another loop writes the stage back; the video is claimed, delivered and
  charged again.
- `PublishedBot_v_pause`: "System pauses, auto-lifted; owner/admin pauses stay"
  (`services/publishing.py:755`). A turn that read the bot as open pauses it for its model
  over an administrator's pause or revocation, which the owner may then lift.

The models have further behaviours that a comment speaks against or a reader would not
expect; no run is spent on them.

- Chat turns: a claim whose update raises counts as taken (`sessions.py:382`; left out of
  the model, whose updates succeed); the claim expires after ten minutes and is never renewed, so a send on
  another process supersedes a longer turn; `_CLAIMS` has one token per session, so a
  stopped turn that ends late releases the next turn's claim; a rerun of a question
  without a complete answer that bows out takes the shared question along; a rerun may
  claim after a newer question was committed, and drops a second complete answer without
  carrying it; of three reruns of one question one may take away the partial answer of
  another, and the third, when it ends empty, finds nothing to mark (so
  `SettledTurnLeavesATrace` speaks of turns beside at most one other rerun); a stop may find a committed turn not registered yet; a settlement that
  raises leaves its event in `_STOPPING`.
- Video jobs: a cancel between the second look at the job and the commit loses; a process
  that dies, or a write to the disk or a commit that raises, after the claim leaves the job
  running for good, where `jobs.py:1` says that orphans are recovered on list; a settled
  job is written again by a loop or a press that read it as running, where `_finish` says
  "settled = final" (`jobs.py:59`; `SettledUnlessRaced` says that nobody else does).
- Scanned files: a picture's skipped frames do not show after the page limit was lowered;
  the upload's own index write may land last, or after the deletion; an entry whose removal
  failed outlives its file, since `delete_file` and `_reindex` go on without it.
- Credits: a month's refill wipes charges made in that month before it, and a refill may
  overwrite charges committed since its read, while docs/architecture.md:116-117 calls the
  ledger the truth; a log that was cut at its page limit, or not read, loses calls for good
  when another key's newer row moves the window past them (`missed`).
- Documents: two saves of one version both pass the check where `api.ts:1264` promises a
  409; a save that compared the text replaces what another tab did to the sources, the
  citation style, the design or the template; a structural edit sends the panel's body under the version just read, so the
  conflict check that `ReportPanel.tsx:893` speaks of never fails; a rewrite stores over
  what was saved while its model worked.
- Published bots: an approval takes the version that is pending when it is read, not the
  one on the screen; commits over rows they had not read may leave an outside bot with an
  unapproved version, which then answers members only.
- Turn slots: the row is stamped before it is committed, so one that is committed after a
  later-stamped row was counted is let in as well, and a turn that runs longer than
  `SLOT_TTL_SEC` (a stream may take `chat_timeout_sec`) is no longer counted; either way
  more turns run than "cross-replica concurrency limits" (`models/publishing.py:171`)
  allow. `LimitsHold` says that nothing else does that.
- Sign-in: a refresh beside a sign-out leaves a live token; an answer that is lost, with
  the next refresh after the grace, burns the family.
- Pipelines: the save of any pass clears the card, also another run's
  (`save_stages.py:380`); answers given to a rerun are not there in a rerun of it,
  nor are callables and rows (`runs.py:61`, but for the checks that are made anew), where
  `runs.py:156` speaks of the bundle "as it stood".

## Proofs

All of them hold for any number of requests, processes, workers, pages, loops, cancels,
panels, calls, bots, turns, limits, versions, stages, fields and passes, and for any bound on crashes and
time. They assume only what the `ASSUME`s of the modules say of the constants. Each
proof module has an inductive invariant and one lemma or step per action.

- `ChatTurnProofs`. `TypeCorrect`, `ClaimInvariant` (`ClaimInv`), `OneAnswerAtATime`
  (`SoleTurn`). `SoleTurn` is not inductive: a second turn starts only if the claim
  does not guard the first. `ClaimGuards` says it does (the row and the process's
  `_CLAIMS` carry its token), which in turn needs that no other turn is about to
  release that token; `TokensAreOfClaimants` is needed for the step that claims: a
  token that is fresh cannot be on its way to a release. Refusals, exceptions and
  releases share the lemma `ForgetGuarded`. `TranscriptStaysInOrder` and
  `ReplacedAnswersStay` add what a turn knows of the rows (`TranscriptInv`): while the
  claim guards a turn, its question is the newest (`NewestIsAsked`), the next row is
  newer than all (`RowsAreOld`), and no turn read, or is to replace, an answer of its own
  (`OthersAreReplaced`). `SettledTurnsLeaveATrace` needs to know beforehand which turns
  will mark nothing when they end empty: a rerun that read an answer of its question and
  deletes it only when it has one of its own. `TraceInv` says of it that its question has
  gone, or an answer stands behind it that is complete or was stored by the one other
  rerun (`TraceStands`). A complete answer goes only with the commit of another; a partial
  one is deleted by a claim, and a claim of a second rerun deletes what it has read, all
  older than the other's answer (`SeenRowsAreOld`). For that, rows of sends replace
  nothing (`SendsReplaceNothing`), a question is one row (`OneRowAQuestion`), and a rerun's
  question was there when it read (`TargetsAreAsked`). `LeaseImplemented` maps every step
  to one of `TurnLease` or a stutter: by `ClaimInv` a claim succeeds only when no guarded
  turn is at work or the claim is stale, and by `LooseAtWork` the turns left without a
  guard are at work, so one that begins alone is guarded.
- `OcrJobsProofs`. `ReadingIsFenced` (`OcrInv`): tokens differ (`ClaimsDiffer`), so only
  one worker passes `_hold`, so what it believes to be stored of its plan is what is
  stored (`HolderKnowsPages`), so the page it stores was not there and not billed
  (`UnreadIsUnbilled`, `PagesAreBilledOnce`). `BilledOnce` follows, and
  `ReadingImplemented`: the initial state maps to PageReading's, a stored page to
  `ReadPage`, a closing to `Close`, a deletion to `Delete`, anything else to a stutter.
  `ProgressHolds`: the stored pages are the first ones (`PrefixInv`), so a page added is
  one more, whatever the limit became. `SkippedPagesAreShown`: the total in the row is of
  the whole document wherever the counting is over (`TotalInv`). `NoEntryIsLeft`: an
  entry that a deletion does not take along, and whose removal has not failed, has a
  worker that will look whether the file is still there (`EntryInv`).
- `VideoJobsProofs`. `CancelWins` and `SettledIsFinal` (`SettledUnlessRaced`): a loop or a
  press is about to write only what it has read unsettled, and whatever settles the job
  notes those that were there (`RacersAreKnown`). `ClaimIsNotForgotten` (`VideoInv`):
  unless its holder dies or raises, the claim is handed from the loop that fetches to the
  one that delivers or to a `_finish` that closes the job; it needs that only a pending
  `_finish` holds a failure (`FailuresAreWritten`), and that there is no loop before the
  row (`RowComesFirst`).
- `DocumentsProofs`. `HistoryHolds`, `NumbersHold` and `CheckedSavesHold`, from the
  inductive `DocumentsInv`. A body nobody was working across either is in the
  history or is what the row and every reader hold (`KeptOrRead`), so the commit that
  replaces it puts it there; it keeps its number because numbers beyond the document's
  are given across others' work only (`NoNumberAhead`); a number stands for its body in
  the row, in a request and in a save under way (`NumbersAreTheirBodies`), and what a panel
  compares is what it shows (`ComparedIsShown`), which is what a checked save relies on.
- `CreditsProofs`. `BalanceHolds` (`CreditInv`): the refill that closes a cycle finds
  every charge of the new month among the early ones (`EarlyRowsWait`), so the balance is
  again the ledger's; one refill a cycle because a request that is about to refill read
  the row as it is, or its commit is noted. `ImportKeepsUp` (`CallsStayInReach`): what
  moves the newest row is a call that a pass has read; the older calls of its key came
  before it in the same log, those of other keys were read too or are noted in `missed`,
  and a call that is not in the log yet is younger than the overlap.
- `PublishedBotProofs`. `AnonymousSafe` from an invariant about what a request may carry:
  an anonymous turn that was admitted holds an approved version, and approvals are never
  taken back. `ClosingsHold` and `WideningsReviewed` are action properties: only a commit
  changes the row, and each operation either does not write the column or is one that may
  (lemma `OnlyCommits`). `ReviewsHold` (`BotInv`) from an invariant of what is on its way
  (`FitInv`): what a request will write agrees with what it read, and a commit that has
  seen the columns leaves the row as it was decided. The module also holds the proofs of
  `TurnSlots`. `LimitsAreKept` (`SlotsInv`): `LineInv` bounds, for each turn that was
  counted, the turns that stand in the line before it (`RoomLasts`): nobody enters the line
  before a counted turn without being noted as late, and leaving only makes room. The last
  in the line has the others before it, so the line is within both limits.
  `SemaphoreImplemented`: only the second count of a try adds to the line, one turn at a
  time, and with it the line is within the limits, so there was room for it.
- `SignInProofs`. `TabsAreNotThieves` (`SignInInv`) and `EndsHold` (`EndedIsOver`) from
  `SessionInv`: an end that has read covers the live tokens of its family but the late ones
  (`EndsRows`, `EndsCover`), and a request that issues in a family that is over has read
  before the end, answers in the grace or refreshes a late token (`ReadBefore`, with
  `Carried`); so what is live there is late. Nobody knows a token before its answer
  arrives (`AnswersAreFresh`), and
  while no answer is lost the browser holds a token that was rotated only while the answer
  is on its way (`OnTheWay`, `OldCookies`). So a tab sends a token rotated at most `Delay`
  before, it arrives within `Delay` of that, and twice `Delay` lies within the grace.
- `PipelineRunsProofs`. `RunsHold` (`PipelineInv`) and `RestoreHolds`
  (`RestoresAsItStood`). The invariant `RunsInv` says of a pass's snapshots that its
  entries are of the first stages in order (`InOrder`) and that what they leave in a
  field before a stage is what is stored of what stood there (`Tracks`, by the last entry
  that sets the field), that its fingerprints are its bundle, and that a card names the
  stage its run stopped at (`CardOK`). A pass over restored values stores them again
  unchanged, because `Stored` is idempotent. `OneMoreEntry` extends `Tracks` by a stage,
  `CarriedTracks` cuts it for a rerun, `ReplayedIs` and `RestoreIs` tie it to `restore`.

Only model-checked: the liveness properties `SessionReopens`, `EveryFileIsClosed`,
`JobSettlesUnlessAbandoned` and `SlotsComeBack`, because liveness under fairness is beyond
the prover. Every other property of a passing run is stated by a theorem.

## Not modelled

Most of the repository is text and layout: the report, deck and page writers, their
templates, styles, importers and exports, the checks of Korean prose, diagrams, fonts
and charts (`services/` has some 100 modules of it), and the web client that shows them.
These are pure functions of one document or one request with no state that another actor
can touch; what could be said of them is about wording or geometry, which TLC does not
decide and the repository's table tests do cover. For the same reason the data boundary
and the routing policy are left out: decisions over patterns and a model catalogue.
The agent's tool loop is sequential and bounded by a hop count; its inputs are what a
model says. Administration, usage, performance, search, issues and shares are single
requests on rows of one owner. Of the parts that are modelled in part:

- Chat turns: fork, deletion of a conversation, clarification and plan cards.
- Files: project shelves and the deletion of a whole project.
- Documents: document sets, imports and titles, and charges.
- Credits: an administrator's set and grant, the check before a turn.
- Published bots: channels and bot keys, visitors' limits and consent, retention and deletion.
- Sign-in: signup, lockout, mails, single sign-on, access tokens.
- Pipelines: what stages do, and the editing of a user's pipelines.

## Plan

1. The pending card of a conversation, composed with `ChatTurn`'s claim: clarifications,
   plans, cards set aside.
2. `ChatTurn` with deletion, forks and published bots on the claim.
3. What `Documents`, `Credits` and `VideoJobs` promise, as abstract specifications beside
   `PageReading`, `TurnLease` and `SlotSemaphore`, where it says more than their invariants:
   a history to which versions are only added, an account that is its ledger, a delivery
   that happens once.
