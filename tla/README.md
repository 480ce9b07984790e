# A verification of the AI interviewer

TLA+ models of the interview platform in this repository (`src/app/`): a FastAPI
process that holds the voice calls, Celery workers that do the offline work,
PostgreSQL, Redis and object storage. TLC checks the models on small instances;
TLAPS proves the statements about safety for any instance.

Every definition that stands for code names its lines in `PROJECT.json`
(`map`); that file also lists the runs, the mutants that show each property can
fail, the hazards and the theorems.

## 1. The system

| component | state | operations | how it meets the others |
|---|---|---|---|
| interview service (`modules/interview/service.py`, `state_machine.py`) | the row: status, started_at, completed_at, recording key | create, start, finish, terminate, expire | subscribes to the bus; called by the API, the reaper, proctoring; freezes the plan; sends the offline chain |
| voice sessions (`modules/voice/session_manager.py`) | registry, pending-abandon timers, each call's reason, nudges, clock | offer, drop, idle, watchdog, finalise, drain | publishes SessionStarted, TurnCompleted, SessionEnded; writes the checkpoint |
| event bus (`core/events.py`) | tasks in flight | publish, drain | one asyncio task per handler, exceptions logged, nothing persisted |
| transcript and checkpoint (`modules/interview/transcript.py`, `checkpoint.py`) | turns by ordinal; the Redis checkpoint | record, list, save, load, clear | written by events, resumed from by the next call, rewritten by the correction pass |
| question plans (`modules/question_plan/service.py`, `plan_tasks.py`) | status, version, questions, criteria, generation status | request, generate, edit, approve, freeze | generated by a worker, edited by recruiters, frozen by `start()`, read by the call |
| offline chain (`workers/pipeline.py`, `workers/tasks/`) | score, verdict and report rows | finalize; correct, measure, sample, assess; score; verdict; render | a Celery chain and chord, delivered at least once |
| scoring (`modules/scoring/`, `question_plan/generator.py`) | rubric weights, competency grades, overall, band, coverage | shape a reply, grade, aggregate, store | reads the frozen rubric and the corrected transcript |
| proctoring (`modules/proctoring/`, `api/v1/proctoring.py`) | events, counters per socket, verdict | record, escalate, terminate, assess | a websocket per candidate and signals of the call; may terminate the interview |
| invites (`modules/auth/invites.py`) | invite rows | create, redeem, revoke | makes the interview and the shell of its plan; yields the candidate's token |
| resumes (`modules/resume/`, `resume_tasks.py`) | upload and parse status, chunks | start, complete, parse | makes plans without a CV regenerate |
| tokens (`modules/auth/tokens.py`, `auth/service.py`) | refresh families in Redis | login, refresh, logout, logout everywhere | a Lua script and pipelines; reads the user's row |
| users (`modules/users/`) | users, candidates | create, update, erase | the role in a token; erasure cascades over everything of a candidate |
| database sessions and tenancy (`db/session.py`, `db/rls.py`, `api/routing.py`) | what a pooled connection was told | begin, commit, roll back, answer | every other component runs inside one |
| reports, jobs, integrations, configuration | rows; third parties | render status, CRUD, calls | |

### What is hard about it

* **No locks.** A handler reads a row at READ COMMITTED, decides, and writes the
  columns it changed. Only the reaper, the invite redemption and the refresh
  script check and write in one statement.
* **Events are fire and forget.** Two events of one interview are two concurrent
  tasks, in either order; a handler that fails is logged and never retried; a
  crash loses what was in flight.
* **Timers name the interview, not the call.** `stop()`, the grace timer, the
  watchdog, the farewell and the drain act on whatever call is registered when
  they run, and `_finalise()` pops the registry whoever's entry it is.
* **Workers are at-least-once**, with retries, time limits and a message that
  may be delivered while the first delivery is still running.
* **Work is sent after the commit**, so a row may say that work is coming which
  nobody sent.
* **State is kept beside the database**: counters in a socket's memory, token
  families and their index in Redis, the tenant in a pooled connection.
* **A language model answers**, so weights do not sum to one and quotes are made up.

`PROJECT.json` lists each of these as hazards at the line where it bites, with
the properties that watch it or the reason none does yet.

### What makes each component correct

* interview service: the row moves along `LEGAL`; a status carries its
  timestamp; EXPIRED means nobody came; one chain per ending, after the ending.
* voice sessions: one live call, always the registered one; every call ends;
  an end is announced exactly once and not for a replaced call; a shutdown
  leaves no call untold.
* transcript: a turn is never overwritten by a different one; a corrected turn
  is final; a rejoin continues where the transcript stands.
* question plans: a frozen plan never changes; an edit never silently
  overwrites another; a plan that is being generated is eventually generated
  or failed.
* offline chain: every ended interview gets its score and reports or a recorded
  failure; running a task twice changes nothing.
* scoring: a rubric weighs exactly one; a grade rests on what the candidate
  said; the number is the mean of the grades stored beside it.
* proctoring: evidence and the end it causes are one commit; a breach counts by
  its place in the record, not by the socket that reported it.
* invites and CVs: a link is charged for each token it yields and for nothing
  else; a CV that is ready reaches every plan; an erased candidate stays erased.
* tokens: a session has one token that can be traded in, and none is out of the
  reach of a logout everywhere.
* users: an organisation keeps an active admin.
* tenancy: a session finds its principal's rows, all of them and no others, and
  an answer tells only of what is committed.

## 2. The modules

| module | models | extends |
|---|---|---|
| `InterviewStatus` | `state_machine.py`: statuses, the transition table, the stamping of timestamps | |
| `InterviewLifecycle` | abstract: a status that moves along the table, and what may overwrite a terminal one | `InterviewStatus` |
| `InterviewService` | the row, its handlers as transactions, the first chain task, crashes | `InterviewStatus` |
| `SessionContract` | abstract: what the service may assume of a voice call | |
| `VoiceSession` | the calls of one interview in one event loop | |
| `QuestionPlan` | a plan, its editors, its generations, its freeze | |
| `Transcript` | turns, their numbering across calls, the correction pass | |
| `OfflineChain` | the post-interview chain, its workers and the rows its tasks write | |
| `Proctoring` | the event sockets of one interview, the rules, the verdict | |
| `Scoring` | from a model's reply to rubric, grades, number, stored rows and feedback | |
| `Candidacy` | invites, CVs and their processing, re-planning, erasure | |
| `Accounts` | users and refresh tokens of one organisation | |
| `Tenancy` | principals, sessions, pooled connections, policies, answers | |
| `MCInterviewService` ... `MCTenancy` | one per component: its instances and symmetry sets for TLC | |
| `InterviewServiceProofs`, `VoiceSessionProofs`, `QuestionPlanProofs`, `OfflineChainProofs`, `ProctoringProofs`, `CandidacyProofs` | the theorems about the module of that name, with its inductive invariant `IInv` (section 14) | that module |
| `AccessProofs` | the theorems about `Accounts` and `Tenancy` | both |
| `GradingProofs` | the theorems about `Transcript` and `Scoring` | both |

How they compose: `VoiceSession` is shown to implement `SessionContract`, which
is all `InterviewService` assumes of a call (its voice actions are the
contract's). `Transcript` assumes one call at a time, which `VoiceSession`
says the conditions of (`LiveIsRegistered`). `QuestionPlan` refines the plan that
`InterviewService` only knows the shape of: `start` is the same code in both.
`OfflineChain` starts where `InterviewService` sends the chain, which it only does
after a committed end (`ChainOnlyAfterEnd`), and takes from `Transcript` that a
corrected turn stands until another delivery of the correction
(`FinalTurnsStand`). `Candidacy` knows of a plan which CV it
names and of a generation the moment it reads that; `QuestionPlan` has the rest.
`Scoring` is what `OfflineChain` calls the grading. `Proctoring` ends an
interview through `terminate`, whose row is `InterviewService`'s. `Tenancy` is
underneath all of them: they assume that a session reads and writes what it is
about.

The type invariant of each module (`TypeOK`) is not among its run's properties;
each holds in the run's instance and is proved for every other (`TypeCorrect`).
`Tenancy` and `Scoring` share a proof module with another component, so their
specification has names of its own: `TenancySpec`, `ScoringTypeOK` and so on.

## 3. InterviewService: the interview's row

**Correspondence.** One interview. `row` is its committed row; a timestamp
column holds the status whose arrival stamped it, so that "when did this happen"
becomes "which move wrote this". `txn[t]` is a handler between its SELECT and its
COMMIT, with the row it read. `Open` is the SELECT; `Commit` the flush, which
writes a column only if the handler changed it (`Flushed`) - the ORM's UPDATE,
and the reason two overlapping handlers mix their columns. `bus` is the events
published and not yet handled, a set: any order, lost by `ApiCrash`.

| code | actions |
|---|---|
| `create_interview`, `create_invite` | the same names |
| `_on_session_started`, `start()`, `freeze()` | `on_session_started` (read), `start_reads_plan`, `start_commits` or `start_raises` |
| `_on_session_ended`, `finish()`, `pipeline.enqueue` | `on_session_ended` (read), `end_commits` or `end_raises`, then `enqueue` or `EnqueueFails` outside the transaction |
| `terminate()` | `terminate_reads`, `terminate_commits` or `terminate_raises` |
| `expire_stale()` | `expire_stale`, one atomic UPDATE |
| `finalize_interview` task | `finalize_reads`, `finalize_commits` or `finalize_raises` (a retry) |
| a rolled-back transaction, a killed process | `RolledBack`, `ApiCrash` |

The voice calls are reduced to `SessionContract`, and the plan to its shape.

**Run `service_racing`** (two calls, two open transactions, one crash): any
overlap, events in any order. EXPIRED is never put on an interview somebody
joined; a chain is only set off by a committed end; no stale write takes an
interview back to before it started. And the row implements
`InterviewLifecycle`, in which a live status moves along `LEGAL` only, and a
terminal one is absorbing but for `Overwrite`: the commit of a handler that had
read a live interview before the end was committed. Such a write is on record
(`overwritten`); until the first of them one chain is set off per interview
(`ChainOnce`) and `completed_at` is the moment of the status shown
(`EndMomentIsTheEnd`). That no terminal status is ever left, as
`state_machine.py:12-15` has it, is `TerminalIsAbsorbing`, which the code breaks
(section 13).

Bounds: two calls (the second a reconnect) and two transactions are the fewest
that race, and every property relates at most two of each. One crash, because a
second finds nothing the first did not clear. The proofs remove the bounds.

**Proofs.** `InterviewServiceProofs` proves all six properties of
`service_racing`, and with them that a status carries its timestamp although
the columns may come from different handlers (`StampsAgree`), that a frozen plan
belongs to an interview that started and that the finalize task finds the
interview over, for any number of calls, transactions, retries and crashes and
any overlap, assuming only `ServiceAssumption` (the constants' types, and that
end reasons are those `session_manager` publishes). The row's invariant alone is
not inductive, since every handler writes from what it read earlier. `IInv` adds:

* `RowInv`, what holds of every row, committed or read;
* `SnapshotsKeepUp`: the committed row is at least as far as any snapshot. Its
  timestamp columns are only ever set and it never returns to the waiting
  statuses, so a column that a flush leaves out is one the row already has;
* `StartsChecked`: a start that reached the plan passed its status check;
* `FinalizesSetOff`: a finalize task's chain was set off.

Each class of steps (open, close, commit, voice, crash) has a lemma; `Inductive`
joins them. The refinement rests on the same tie: while the row is live it has
moved so little since a handler read it that what `LEGAL` let the handler do it
still lets happen. `EndsInv` adds what holds until an end is written over: a
chain and a `completed_at` exist only for an interview that is over
(`ChainsOver`, `EndStamped`).

## 4. VoiceSession: the calls of one interview

**Correspondence.** `call[s]` is a `VoiceSession` object, `registry` the
interview's entry in `_sessions`, `timer` its entry in `_pending_abandon`. A
step is the code between two awaits: `offer` is the route's checks, before the
connection is initialised; `start` the code up to the await in `stop()`,
`stop_returns` the rest of that wait, and `start_returns` registers and announces
at once. `_run` is the pipeline returning, up to the upload; `_finalise` the rest.
`stop_all` and `Exit` are the lifespan's shutdown. A timer that is set may fire at
any later moment, so no property depends on a delay, and `stop_returns` may come
before the stopped call is over: its ten seconds have passed. If that call's
`_finalise` raises, `stop()` passes the exception on, and the new `start()` fails
with it (`stop_raises`). `tangled` is history: two `start()`s were under way at
once, or one went on before the call it stopped was over.

The peer connection, the pipeline and uvicorn are external: a peer may drop at
any time from the moment of its offer, a pipeline may return or raise at any time.

**Runs.**

* `voice_calls` (two calls; concurrent offers, slow teardowns, a failing Redis
  and a restart together, under fairness): the calls implement
  `SessionContract`. Until they are tangled every running call is the registered
  one (`LiveIsRegistered`), and the process exits with no call being started and
  none running but the one it told to end (`CleanExit`). While they are not and
  the watchdogs fire, every call ends (`EveryCallEnds`), and its end is announced
  unless a rejoin or the clearing of the checkpoint fails or the process is lost
  (`EndAnnounced`).
* `shutdown_cuts` (a violation): running sessions "are left alone to finish"
  (`docs/adr/0002-single-process-voice.md:28-30`). `stop_all` ends them.

Bounds: two calls let a rejoin meet the call it replaces, which is what every
timer and callback can confuse. Liveness asks for no symmetry. The check-ins
that `MaxNudges` allows only delay the farewell they lead to, so it is 0: a
silent candidate is told goodbye at once.

**Fairness.** `LoopFairness` is what asyncio gives: an awaited operation
completes (or raises), a set timer fires, a cancelled pipeline returns. The
watchdog, which the code arms for every call, is an assumption of the
properties that need it (`Watchdogs => ...`). Nothing obliges a candidate to
speak or rejoin, a pipeline to end by itself, or an offer to come; so the calls
end because the code ends them.

## 5. QuestionPlan: one interview's plan

**Correspondence.** `plan` is the committed row with its questions and rubric,
each abstracted to who wrote it. `req[r]` is an API request (or the session's
start) between its SELECT and its COMMIT, with what its author had on the screen
(`seen`, whose version is `expected_version`). `task[k]` is a message to
`plan.generate` with its retries: two transactions with the model call between
them, during which anything may happen. `fresh` says whether `updated_at` is
younger than `GENERATION_STALE_AFTER_SECS`; `Ages` is that time passing.

| code | actions |
|---|---|
| `GET plan`, then an edit | `Loads`, `Opens`, then `replace_questions`, `replace_criteria`, `approve` or `RequestRaises` |
| `POST plan/generate` | `Opens`, `request_generation` |
| `interview.start()`, `freeze()` | `Opens`, `start` |
| `_generate`, first transaction | `generate_reads`, then `generate_skips`, `generate_waits` or `generate_goes` |
| `_generate`, second transaction | `ModelReturns`, then `apply_generated`, `apply_refused` or `mark_failed` |
| Celery: retry, redelivery, a killed worker | `Retried`, `TaskRaises`, `WorkerLost` |
| the CV's task | `ResumeUploaded`, `ResumeSettles`, `_regenerate_plans_without_this_resume` |

Up to `MaxOpen` transactions are open at once, and a commit lands on whatever the
plan has become since its transaction read it. `lost` is history, of what such a
commit may undo: a version number that two commits gave, or a freeze.

**Run `question_plan`** (two requests, two messages, one retry, two open
transactions). `FrozenIsPermanent`: a frozen plan is changed only by a
transaction that had read it before the freeze - not by an edit, and not by a
generation that was at the model meanwhile. `NoSilentOverwrite`: an edit that
carries a version replaces exactly what its author saw, generations included, as
long as no two commits got one version number. `GeneratingHasAWorker`: a
GENERATING plan has a worker. Two open transactions are the fewest that overlap;
two requests let two edits meet, or one the start, and one request and one
generation are enough for the lost update that versions prevent. The proofs have
no bound on any of them.

The exceptions are real (section 13): `FrozenStays` and `EditsProtected` state
what `service.py:5-9` and `models/question_plan.py:127-129` promise without them.

`GeneratingHasAWorker` holds while nothing goes wrong with a generation
(`trouble`), and not of a plan that was frozen meanwhile: past 300 seconds a
second one starts by design, and since restarting a stale generation changes no
column, `updated_at` stays old and a third may start as well.

## 6. Transcript: what was said

**Correspondence.** `call[c]` is a call's `TranscriptObserver` with its counter,
its clock (which starts again in every call) and the reply being spoken;
`checkpoint` the Redis snapshot; `bus` the TurnCompleted events not yet handled,
in any order; `turns` the rows by ordinal. A text is abstracted to the call it
was said in. The upsert is `record_turn`: it keeps the speaker and the start of
the row it meets, skips a final row, and fails when the result violates the
table's `offsets_ordered`. The correction reads, decodes and commits; which
turns it hears enough words for is free. `emitted` and `lost` are history.

**Run `transcript_calls`** (a call and its rejoin, two turns, two mishaps - a
crash, or a failure of Redis or the database - and two deliveries of the
correction). `CheckpointedNumbersStand`: a number the checkpoint has passed is
never given out again. `UncontestedTurnsRecorded`: a turn whose number no other
call used stands as it was published. `FinalTurnsStand`: a final turn changes only
by a delivery that was decoding since before it was final, and then only in the
candidate's words; no late event changes it, and no delivery that read it as
final. Two turns are the fewest in which a number is skipped, reused, or reached
from a checkpoint; two mishaps let a lost event or a failed save meet a crash.
Two deliveries are the fewest that decode at once, which at-least-once delivery
allows: each writes the same kind of text over the other's.

## 7. OfflineChain

`OfflineChain` is what happens after a call: the canvas of `pipeline.build()`,
the workers that run it, and the rows its tasks write.

**Correspondence.** `queue` is the broker's bag of messages, `running[w]` a
worker's task between two transactions with what it has read, `chords` the
result backend's record of which header tasks returned. `successors` and
`Joined` are the canvas; `Return` sends them and acknowledges, in that order
(`task_acks_late`), so a worker killed in between leaves the message to be run a
second time. `raises` is `autoretry_for`; `time_limit` the hard limit, which
acknowledges the message and is not retried. A model call, a download or a
render always lies between two actions. `confidence_signals` is the set of keys
in that JSON column, and `measure_commits` and `store_commits` write it whole,
from what they read. A report's `pdf` is what the render was given to print. The
transcript is `live` or `final` here; `Transcript` says how it becomes so.

**Run `chain_delivers`** (one chain, two workers, one still, one retry per task, two
mishaps, at most one link run twice): a finished score has both kinds of signals and was graded on the
text that stands; no frame counts twice; a row says SCORING or RENDERING only
while a delivery of its task is left; and unless a task fails for good, both
reports and the score end READY. Two mishaps are the fewest that use up a
task's retries; the real limits (3 and 2) only repeat the same step. Two workers
are as many as the chain has parallel tasks. A chain that is sent twice
behaves as one whose first link is run twice, which the run includes. The four
invariants are proved without these bounds, for any number of chains, workers,
stills, retries and mishaps.

**Fairness.** An idle worker takes a message from a queue that is not empty, and a
worker that is not killed goes on with its task: `FairSpec`. Exceptions, kills
and time limits are never forced.

**What it taught.** `score_interview` "waits on that group only because a chord
needs a join point" (`pipeline.py:14-15`); yet that join is all that keeps the
two merges of `confidence_signals` apart. `SignalsComplete`, `GradedTextStands`
and `FindingsOnce` say `~forked` because they fail once a link was run twice:
a second frame pass beside the first writes the same findings, a second
`measure_signals` beside the scoring writes back signals without the coverage, and a
correction that found no words the first time may find them after the grading.

The result backend is assumed to count a header task once, however often it
returns.

## 8. Proctoring: one interview's record

**Correspondence.** `socket[s]` is a connection with the policy it read when it
opened, its counts, and the event it has flushed and not committed. `events` is
the stored record in the order of the commits; only type and severity are kept
of an event. `connect` primes the counts from the record; `record` counts at
once, and its event goes on to `record_commits`, or through `terminate_reads` to
`terminate` - the event and the end in one commit - or to `terminate_raises`, when
the interview is over already and the event is lost with the transaction.
`SocketCloses` is the candidate leaving, the database failing and the process
dying alike. `_on_voice_signal` is what the call reports of an utterance;
`upsert_policy` a recruiter changing the rules under open sockets; `assess` the
rule of the verdict.

**Run `proctoring`** (two sockets, three policies and one edit, five event
types, four events). `EscalationIsExact`: no event is graded worse than its
place in the record calls for, and with one socket at a time exactly so,
reconnections and failed writes included; parallel sockets, each counting its own
share, can only be too mild. `TerminationHasEvidence` and `CriticalEndsIt`:
end and evidence go together, whatever raced or failed. `VerdictOnlyWorsens`:
more evidence never takes a suspicion back. (NO_DATA ranks lowest there not as
the mildest, for a browser that reports nothing is notable, but as what any
event ends.) Four events are the fewest with
which a limit of one is passed, doubled and exceeded, and four warnings flag.
An edit makes what is due ambiguous, so `EscalationIsExact` is about policies
that stand.

## 9. Scoring: from a reply to a number

**Correspondence.** `stage` is where the code stands: `generate` takes a reply
that `GeneratedPlan` accepts (`PlanAccepted`), trims it to the heaviest criteria,
normalises the weights and clears tags that match none (`Shaped`); an ungrounded
question costs one repair (`generate_repairs`, `Repaired`, or `generate_raises`).
The task then writes the plan (`apply_generated`), unless the database refuses it
or fails (`apply_raises`): a weight that rounding leaves at 0 breaks the table's
CHECK, so such a plan is never stored and the task starts over (`Storable`).
`Interviewed` leaves a transcript, or none. `score_begins`, `score_criterion` per
criterion, `store` or `score_raises` are the task, which may be delivered twice, one
delivery after the other (two at once meet at the rows' unique ordinals and one
raises).
`verify_evidence`, `GradedAs` and `aggregate` are the pure code. Decimals are
integers at the scale of their columns, with both roundings the code uses
(`HalfEven` where it quantises by default, `HalfUp` for the mean). The weights
of a reply are as fine as the model writes them: `REPLY_SCALE` is any positive
number in the proofs and 100000 in the run, ten times finer than the columns;
what is left out is that `Decimal` itself rounds at the 28th digit. A quote is a
member of a small set, its length kept because short quotes do not count.
`Pick` keeps the places of a subset in their order by rank: the element that
has k - 1 of them before it. Sums are the community modules' folds of the
function of weights (`WeightsOf`). The constants are typed (`Plan`, `Said`), and
`MAX_CRITERIA` is at most a hundred (the code's is six): only with more could the
units that rounding leaves over outweigh the heaviest criterion.
`render_candidate` is the candidate's report up to the stored feedback: the model's
praise without what shares no word with the candidate's turns (`WithoutInvented`),
or the apology when there is no transcript or the model fails. It may run beside
a scoring, as a redelivered link does. Rendering itself and its failures are
`OfflineChain`'s.

**Run `scoring`** (9 rubrics of one to four criteria with weights that leave a
rounding remainder either way, that tie, that tie only once they are rounded,
that round to nothing, and duplicates; up to three questions at and under both
thresholds of grounding; a candidate who speaks, one who is silent, and a
call without a word; praise of the candidate's words, of the interviewer's, and
too thin to tell;
scores under and in the band; two scorings). `RubricSound`: the weights sum to
exactly one at the stored precision, nothing that was dropped outweighed what is
kept, and each criterion weighs its share to the nearest ten-thousandth, but for
one of the heaviest, which takes the remainder. Kept criteria are matched with the
reply's by place and not by name (`RubricFollows`), because a criterion that is
trimmed away may bear the name of one that stays. `GradesRestOnSpeech`: a score has a
quote, found in a turn of the candidate, and praise that can be judged shares a
word with one, unless the candidate used no word that counts. `OverallIsTheMean`: the stored number is
the mean of the grades beside it, to the nearest hundredth, while a later scoring
runs or fails, and from half coverage on there is such a number. `RowsAreOneScoring`: rows of two scorings never mix. The
limits are one or three lower than the code's (two to three criteria instead of three to
six, two grounded questions instead of three), so that small replies meet them.

Two promises of the code are stated beside these and do not hold (section 13):
`HeavierStaysHeavier`, that a criterion the model called heavier is never stored
as the lighter, which fails for 0.33333 / 0.33334 / 0.33333, and
`NoNumberBelowHalf`.

## 10. Candidacy: from the invite to the plan

**Correspondence.** One candidate. `call[c]` is a request between two awaits:
`redeem_claims` is the conditional UPDATE, which holds the row's lock until
`redeem_reads` refuses (and rolls the claim back) or `redeem_invite` commits. The
token is minted after that commit (`create_interview_token`), and a request that
dies in between is on record (`history.lost`).
`complete_reads`, `head_object`, then `complete_upload` and `enqueue` - or
`complete_refuses`, `complete_raises` - are the completion of an upload. `task[t]` is a
delivery of the processing task: `process_begins`, `process_parses`,
`process_fails` or `process_stores`, then `replan_selects` and `replan_sends`, with
`process_raises` at any point and `WorkerLost`. A plan is abstracted to whether it
names a CV: `shell`, `bare`, `grounded` or frozen; `gen` are its generations: the
messages sent and how often each was tried, the generations at the model, and
whether the row is GENERATING. A message does nothing (`generate_skips`), comes
back in 30 seconds (`generate_waits`), has waited as often as it may and is gone
(`generate_gives_up`), or is begun (`generate_reads`) and then `apply_generated` or
`generate_fails`; `generate_raises` and `GenerationLost` are its transaction failing
and its worker killed. A generation that is GENERATING may be stale at any time,
so a forced message begins a second one beside it. `delete_candidate` is the
cascade.

**Run `candidacy`** (one invite of one redemption that is neither revoked nor out
of date, one CV, two requests, two deliveries, a retry of each task, a mishap). `EveryTokenIsCharged`: the count on the link is the tokens it yielded, the
requests about to be given theirs, and the ones that died before they were,
however redemptions and refusals race.
`IncomingHasATask`: a CV that a generation waits for is in somebody's hands unless
its message was lost or its retries are used up. `ReadyCVReachesPlans`: a plan
that names no CV although one is ready will be written again, unless its message
was lost, failed for good, or gave up waiting.
`ErasureHolds`: nothing that was under way brings an erased row back. Two
requests and two deliveries let the same upload be completed and processed twice
over; with one mishap a crash, a lost worker or a lost message is met at every
step. A link of more redemptions, a link revoked or expired halfway (the
constraint `LinkStays` leaves that out), and what follows after a plan's message is
gone (`PlansInHand`) are covered by the proofs, which have no bounds. An expired interview token only forbids, so it is left out.

**Run `replan_dropped`** (a violation, with no mishap): a forced replan that finds a
generation under way is to "come back when the in-flight one has finished.
Dropping a forced replan here is exactly the bug that shipped an interview with no
resume in its questions" (`plan_tasks.py:129-131`). It waits three times 30 seconds,
a generation is stale after 300, and the replan is gone before.

## 11. Accounts: users and their sessions

**Correspondence.** `rt`, `fam`, `dead` and `index` are the Redis keys `rt:`,
`rtfam:`, `rtfam:dead:` and `rtuser:`; a Lua script or a MULTI pipeline is one
step, each other await a step of its own. `login` and `consume` are followed by
`issue_token_pair`, a refresh by `rotate_refresh` in between; `logout` is
`revoke_family_reads` then `revoke_family`; `logout_all` repeats these for each family
and ends in `forget_user`. `update_user_reads` runs the guards, `update_user`
flushes the columns that changed. An admin is whoever holds an access token
that says so (`held`), for as long as it lives and whatever the row says by then.

**Run `accounts`** (two users, two requests at once, three tokens in two
sessions, five requests, crashes). `OneUsableToken`: a session never has two
tokens that can be traded in - two refreshes with one token, or a logout in the
middle of one, kill it rather than fork it. `IndexCoversUsable`: a logout
everywhere finds every session with a usable token, except one opened while
another such logout was deleting the index. `AdminRemains`: an active admin is
left, unless two edits overlapped. Three tokens are the fewest with which one is
rotated while a second session is open; five requests let two logins, two
refreshes and a logout meet.

## 12. Tenancy: whose rows

**Correspondence.** `session[r]` is a request's database session with its
principal and what it has not committed; `guc[c]` what a pooled connection was
told in its transaction; `told` the rows clients were answered about. `get_db`,
`tenant_session` and `unscoped_session` open; `after_begin` is the hook that
tells the connection; `insert` and `delete` go through the policies; `commit` is a
commit halfway, `handler` the route's commit before its answer (`Reply`),
`session_exits` the session's own, `rolls_back` an exception or a cancelled
request. A table stands for each registry of `rls.py` that is in use, a policy is
its USING and its CHECK.

**Run `tenancy`** (two organisations, one with two candidates, two sessions over
two connections, three rows). `OnlyOwnRows`: whoever used a connection before, a
statement finds nothing its principal may not see. `OwnRowsFound`: and nothing is
missing, after a commit halfway either. `AnnouncedIsCommitted`: what an answer
tells of can be found. Two sessions over two connections let each take the
other's; two candidates in one organisation tell ownership from tenancy. A
connection is free when a transaction begins: waiting for the pool is left out.
This run may not deadlock and TLC checks that it does not.

For sections 8 to 12 no fairness is assumed: all their properties are safety.
What has to happen is said as "somebody still has it in hand"
(`IncomingHasATask`, `ReadyCVReachesPlans`).

## 13. Observations

What the models and the reading showed that a reader of the code may want to
know. Two disagreements with the documentation are runs that end in a violation:
`shutdown_cuts` and `replan_dropped`. Six more are definitions that no run
checks, because TLC refutes each of them as soon as it is added to the `.cfg` of
its component: `TerminalIsAbsorbing`, `OneLiveSession`, `FrozenStays`,
`EditsProtected`, `HeavierStaysHeavier`, `NoNumberBelowHalf`. What the properties
that do hold say of the same code, they say with an exemption their comment
names. The rest of this list no property speaks of.

*Overlapping transactions* (no row is locked between its read and its write):

* `start()` commits IN_PROGRESS over a terminal status written since it read
  (`state_machine.py:12-15`, `interview/service.py:149`; `TerminalIsAbsorbing`); two
  overlapping ends both set off the chain.
* An edit that read the plan before the freeze commits over it
  (`question_plan/service.py:5-9`; `FrozenStays`).
* Two edits of one version that overlap both succeed, and the later commit
  replaces the earlier in silence (`models/question_plan.py:127-129`;
  `EditsProtected`). Where their deletions interleave with the other's inserts, the
  unique `(plan_id, ordinal)` stops the second.
* Two admins who demote each other at once leave none (`users/service.py:170`).

*Calls and transcript:*

* Of two offers at once both calls are live (`session_manager.py:92-93`;
  `OneLiveSession`); the one that loses its registry entry is never ended, its
  watchdog included (`session_manager.py:403-443`).
* Candidate turns have no duration, so none is ever corrected or measured, and all
  are marked final (`transcript_pass.py:13`, `observers.py:159`).
* A rejoin resumes at an old checkpoint and overwrites the reply flushed at the
  disconnect (`session_manager.py:450`); `question_ordinal` is saved and never read
  (`session_manager.py:170-171`).
* `_idle_nudges` is never reset, though a comment says an answer restores the
  allowance (`session_manager.py:317-319`).
* `stop()` overwrites the reason of a call that is already ending, so a replaced
  call can announce a terminal end (`session_manager.py:585`).
* A shutdown ends running calls (`main.py:67`; ADR 0002 leaves them to finish: the
  run `shutdown_cuts`) and waits only for those it ended itself: one that is
  already uploading its recording is not in the registry any more.
* `stop()` says it never raises, but passes on what the stopped call's
  `_finalise()` raised, and the new `start()` fails with it.
* `checkpoint.clear()` raising in `_finalise()` loses SessionEnded
  (`session_manager.py:459`); one failed `save` ends the checkpoint loop
  (`session_manager.py:427`).
* A terminated interview is never scored: by the time its session ends it is
  already terminal, so `just_ended` is false (`interview/service.py:247-259`).

*Plans and CVs:*

* `start()` leaves a plan that is not generated yet unfrozen, and a generation
  under way then gives the running interview its questions and rubric, though the
  plan "must be immutable from the moment the first question is asked"
  (`interview/service.py:135-136,152`).
* A click on Generate while a generation that saw no CV is under way names the CV
  in the plan and so hides the plan from the replan
  (`api/v1/question_plans.py:90-106`, `question_plan/service.py:152-172`).
* A replan that finds a generation under way is given up long before that
  generation may be stale (`plan_tasks.py:82-86,119-135`: the run
  `replan_dropped`).
* A redemption is committed before its token is minted: a process that dies in
  between has charged the link for nothing (`auth/invites.py:164-196`).
* Regenerating leaves `approved_at` of the plan it replaces
  (`question_plan/service.py:227-231`).
* GENERATING is stale after 300 seconds, and a task may run for 600.
* Weights that lie closer than a ten-thousandth tie once rounded, and the
  remainder goes to the first of them, so the criterion the model called heaviest
  may be stored as the lighter (`generator.py:173-175,207-219`;
  `HeavierStaysHeavier`). A weight may also round to 0, which the table refuses: the
  generation fails with an IntegrityError, not with a plan that was rejected.
* The repair of ungrounded questions replaces the plan whole and may ground
  fewer; if it raises, the valid first plan is lost (`generator.py:373-395`).
* The oversize branch sets FAILED and raises, so the FAILED is rolled back
  (`resume/service.py:104`); the row stays PENDING and may be completed again.
* A comment has "the parse and the chunk rows survive" a failed embedding
  (`resume_tasks.py:90-91`), but all three are one transaction.
* Erasing a candidate leaves the files in storage (`api/v1/candidates.py:218`).

*After the interview:*

* A chord whose header task fails for good never runs its body: a frame pass
  that the hard limit or the database stops costs the score and the reports too.
* Nothing calls the score's `mark_failed` (`scoring/service.py:76`): a scoring task
  that fails for good leaves the row SCORING, and without a rubric it stays
  PENDING. A report whose task meets the hard limit stays RENDERING in the same
  way.
* If every grading call fails, a candidate who spoke gets the lowest number and
  NO_HIRE (`aggregator.py:104-107`), though a failed call is to be told apart from a
  bad answer (`rubric_scorer.py:190-191`).
* Below half coverage there should be no number (`docs/architecture.md:160`,
  `docs/api.md:207`, `aggregator.py:17-20`; `NoNumberBelowHalf`), but the task passes
  `participated`, which gives one all the same.
* `mark_failed` of a report keeps its key, but the API serves no key of a row that
  is not READY (`api/v1/reports.py:46`, `reports/service.py:130-131`).
* The verdict's `frames_analysed` counts the stills captured, not those analysed
  (`verdict.py:143`).

*Proctoring, tokens, sessions:*

* A `blur_limit` of 0 makes the first blur CRITICAL (`rules.py:107`).
* A session opened while a logout everywhere is deleting the index is missed by
  the next one (`tokens.py:208-211`).
* A login that rehashes holds its connection while opening a second
  (`auth/service.py:144`).
* The "fixed-window" limiter renews its EXPIRE with every hit
  (`core/dependencies.py:231-250`).
* A 4xx that is returned and not raised would still be committed when the session
  exits (`api/routing.py:69`, `db/session.py:99`); no route returns one.

## 14. What is proved, what is only checked

**Proved** for all values of the constants: the theorems `PROJECT.json` lists, in
eight modules. They assume no more than the named assumption of their component
(`ServiceAssumption`, `VoiceAssumption`, `ChainAssumption` and so on): that limits
are naturals, that finite sets are finite and that names are distinct.

Each module is laid out alike: the parts of the invariant, lemmas about the
operators they use, a lemma for each action (`XKeeps`), the three facts
(`InitIInv`, `NextIInv`, `Invariance`), and the theorems. In a module for two
components the second's names carry its own (`TenancyIInv`, `ScoringIInv`). Hardly any of the
properties is inductive, because nearly every handler writes what it decided on
an earlier read; what `IInv` adds is what a handler still knows when it writes.
TLC checked each `IInv` on the run's instance before it was proved.

| module | proved | what the invariant adds |
|---|---|---|
| `InterviewServiceProofs` | all six of `service_racing`, among them the refinement of `InterviewLifecycle` | section 3 |
| `VoiceSessionProofs` | the refinement of `SessionContract`, `LiveIsRegistered`, `CleanExit` | an announced call is over (`Unannounced`); and, until two calls are tangled: one `start()` at a time beside at most the call it replaces (`Alone`), whose running call is the registered one (`Registered`), and a shutdown that waits for the one call it told (`Drained`) |
| `QuestionPlanProofs` | `FrozenIsPermanent`, `NoSilentOverwrite`, `GeneratingHasAWorker` | a GENERATING plan has a worker whose commit clears it (`InGoodHands`); a generation that read a frozen plan only meets one that was frozen (`StillFrozen`); one version has one content (`SeenSound`) |
| `OfflineChainProofs` | `SignalsComplete`, `GradedTextStands`, `FindingsOnce`, `TransitHasWorker` | while the chain is not forked, each task has one delivery and all stand at one place of the chain (`OneDelivery`, `Staged`), so what a task read still stands when it writes (`JobSound`); the delivery that answers for a row in transit has its work before it (`Pending`) |
| `ProctoringProofs` | all four | a socket never counted more than the record and its own pending event hold (`Counted`), and severities only grow with the count |
| `CandidacyProofs` | all four | the holder of an invite's lock found a redemption left and nothing has changed since (`LocksHold`); what a link has yielded, is about to yield and lost (`Charged`); in whose hands a CV is, and which message will bring it into a plan (`Carried`, `Reached`) |
| `AccessProofs` | all three of `Accounts` | of a live session one token is active or one request is to mint the next, never two of either (`OneHolder`); what an edit nobody overtook knows (`EditsDecided`) |
| `AccessProofs` | all three of `Tenancy` | a connection in a transaction was told its session's principal, a free one nothing (`ToldItsTenant`); a deleted row is locked by its transaction (`RemovedLocked`) |
| `GradingProofs` | all three of `Transcript` | every count in use is at most the number of turns published (`Numbered`), and a call in progress is past all it published and past what was saved (`Ahead`); each row has its parts from published turns of its number (`Sourced`); a turn a delivery has read keeps its speaker while it decodes (`ReadsStand`) |
| `GradingProofs` | all four of `Scoring` | what is stored is one scoring's rows with their mean (`Scored`); what a scoring holds is graded on turns that no longer change (`Grading`); a plan in hand is `PlanOk` and follows the reply, and one that is stored has no weight of 0 (`Planned`) |

No theorem assumes a schedule: each is of the module's whole specification, any
overlap, restart and redelivery included. What a property exempts is inside it, as
history that names what has happened (`overwritten`, `tangled`, `lost`, `forked`,
`history.raced`), so that it speaks of each behaviour up to that point. Without the
exemption TLC finds each of them violated, in a way section 7 or 13 describes.

What `Scoring` computes is proved without the library's induction theorems, which
take the property as an operator. Two lemmas in their place take it as a set:
`LeastNumber`, that a set of naturals has a least element (from `WFMin`), and
`FoldInduction`, that a set of subsets that contains the empty one, and with `s`
less the element CHOOSE takes first also `s`, contains all. Along that order a
fold has its recursion (`IterExists`, `IterUnique`, `SumStep`), sums compare term by
term (`SumLinear`), and none depends on the order after all (`SumRemove`). The
same way `NthIn` and `NthReaches` give the sequences that `Pick` makes.

What the proofs taught:

* `TransitHasWorker` accepts a worker that has done its work and is about to
  return; the invariant may not, or the return would leave the row with nobody.
  So a task's last transaction always takes the row out of transit.
* `SignalsComplete` needs more than the chord's join: that a `measure_signals` in
  hand, even one whose worker was killed and which is tried again, means that the
  chord has not joined, so its merge has no coverage to lose.
* That the heaviest criterion can take what rounding leaves over is arithmetic
  with a bound in it: a criterion is off by at most half a unit, n of them by at
  most n / 2, and the heaviest of n weighs at least (10000 - n / 2) / n; a hundred
  criteria are safe, and the code keeps six.
* Nothing depends on clamping the mean into the band (`Clamped`): a mean of grades
  in the band, rounded half up, is in the band.
* `UncontestedTurnsRecorded` needs no bound on the mishaps or calls; a number two
  turns share was always given by two calls (`NumberedOnce`).
* That `AnnouncedIsCommitted` holds is due to the row locks of a deletion, not to
  the order of commit and answer alone.

**Only model-checked:**

* what rests on fairness - `EveryCallEnds`, `EndAnnounced`, `ChainDelivers`:
  liveness and ENABLED are beyond the prover.

Every other property of the passing runs, 37 of 40, is stated by a theorem. The
properties of the two violation runs, and the six of section 13 that no run
checks, are claims the code refutes.

Not modelled:

* pure I/O, whose failures are choices in the models that call it: the streaming
  services of the voice pipeline, prompts, PDF rendering, parsing and embedding of
  CVs, e-mail, object storage;
* `confidence.py` (measurements of audio): only whether its signals were written;
* jobs and their descriptions, listings, and the plain edits of a candidate or an
  organisation: one request, one row each, with nothing to race but itself;
* the organisations' own policy, login's definer lookup and the migrations that
  install the policies;
* cryptography, password hashing, rate limits, the wait for a pooled
  connection, configuration and logging.

## 15. Plan

All modules of the plan are written, and the safety of all ten state machines is
proved. No module declares a RECURSIVE operator that a proof reaches. What could
follow, in this order:

1. the delivery signals of `confidence.py`, if they come to decide anything:
   today they are shown and not counted;
2. the organisations' own policy and login's definer lookup, as a third kind of
   session in `Tenancy`;
3. waiting for a pooled connection (the hazard at `auth/service.py:144`), which
   asks for a model of the pool's size in `Tenancy`.
