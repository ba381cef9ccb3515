# MergeStream: a TLA+ verification project

MergeStream merges tracked source branches into the target branch of a project,
runs the project's test command on the merge and pushes it when the tests pass.
One Node process serves an HTTP API (Express) over MongoDB (Mongoose), polls bare
git repositories with timers, and runs merges with a worker; a React client uses
the API. Source paths below are relative to `src/repo/app/server/src` unless they
begin with `src/`.

This directory holds TLA+ modules translated from that source, TLC configurations
that check them on small instances, and proofs checked by TLAPS.
`PROJECT.json` lists the components, the runs, the hazards, one mutant per
property and, for every definition, the source lines it stands for.

## 1. Inventory

| Component | State | Operations | Where |
|---|---|---|---|
| Run documents (`pipeline/pipelineRunModel.ts`) | `pipelineRuns`, `pipelineSequences` | find, create, atomic `$inc`, partial updates | `RunStore` |
| Run queue (`pipeline/queue.ts`, `pipeline/retention.ts`) | calls in flight | `enqueueRun`, `pruneRunsForProject` | `RunQueue` |
| Worker (`pipeline/worker.ts`) | `claimChain`, `activeControllers`, activities | `tick`, `claimRunsForCapacity`, `processRun`, `finalizeRun` | `Worker` |
| Cancellation (`pipeline/pipelineController.ts`, `cancelRun`) | handlers in flight | `cancelRunHandler`, abort of the test process | `RunControl` |
| Scheduler (`pipeline/scheduler.ts`) | `projectTimers`, polls in flight | bootstrap, (un)schedule, `pollProject` | `Scheduler` |
| Projects (`projects/projectsController.ts`) | project and tracked branch documents | create, update, track, change owner, pause, untrack | `Projects`; timer in `Scheduler`, target branch in `Pipeline` |
| Git service, test runner (`pipeline/git/gitService.ts`, `pipeline/shell/testRunner.ts`) | a workspace, a child process | clone, merge, push; spawn, kill, collect logs | outcomes in `Worker`, logs in `Texts` |
| Conflict parser (`pipeline/git/conflictParser.ts`) | | diff to line ranges | section 9 |
| Accounts and lockout (`auth/`, `users/`) | role, status, failed attempts, `lockedUntil`, password | login, change and reset of passwords, creation, roles, (de)activation, deletion | `Accounts` |
| Sessions (`auth/sessionService.ts`, `middleware/`) | session documents, three cookies | create, rotate, revoke, authenticate | `Accounts`, `Requests` |
| Idempotency (`middleware/idempotency.ts`) | stored responses by key | look up, replay, record | `Requests` |
| Client (`src/repo/app/client/src`) | cookies, signed-in user, forms | `apiFetch` with refresh and retry, pages | `Requests`, `Projects`, page actions of `Accounts` and `Notifications` |
| Rate limiter, metrics (`middleware/rateLimit.ts`, `metrics/`) | buckets, rolling windows | admit or refuse, record, snapshot | `Windows` |
| Notifications (`notifications/`) | documents of a user | create, prune, mark as read | `Notifications`; which run they are of, in `Worker` |
| Audit, access control, validation, configuration, rest of the client and scripts | none that another component decides on | | section 9 |

How they interact. A trigger endpoint and the scheduler's polls call `enqueueRun`; it
inserts a document, which is the only message to the worker. Every two seconds the worker
claims documents and starts one activity for each. The cancel endpoint talks to the worker
by two channels: the field `cancelRequested`, which the worker reads at two places, and an
in-memory `AbortController`. The scheduler and the update handler share `projectTimers`. The
retention jobs delete documents whatever another activity is about to do with them. Every
request of a signed-in user passes `authenticate`, then the rate limiter and, for writes,
the CSRF check and (but for a logout) the idempotency middleware; a login and a refresh pass
the limiter alone. A login and the administration of accounts share the user document;
refresh, logout and administration share the session document. The client holds cookies that
any reply may replace while other calls of the same page are under way. Nothing is held
across an await: there are no transactions and no locks, except the promise chain that
serialises the worker's claims.

What is hard: every handler reads a document, awaits, and acts on what it read (duplicate
search and insert, count and insert, status and cancel, project and timer, token and
rotation, key and record, form and save); handlers, polls, jobs and activities overlap at
every await; a push to the repository and the document that records it are two writes; a
reply that is lost leaves a write the client does not know of; an exit of the process loses
the activities but no document; a rejection nobody awaits ends the process. The hazards are
listed line by line in `PROJECT.json`.

What makes each component correct:

* queue: no more active duplicates than calls overlap, no more runs waiting than `maxQueued`
  and the calls that overlap, retention keeps the newest runs;
* worker: no more than `maxConcurrent` RUNNING, every activity ends with an outcome written,
  the outcome agrees with the target branch;
* cancellation: a cancel that took hold keeps the run off the target branch;
* scheduler: no commit is lost, the newest one is seen;
* accounts: too many failures lock, a locked or deactivated user has no way in, a revoked
  session stays revoked, a replaced password opens nothing, the last administrator falls
  only to one who has fallen;
* requests: one call acts once, one key acts once, a refresh does not revoke the
  session;
* projects: what was checked holds of what is written, a save changes what was asked or was
  saved under its form;
* windows: no stretch of a minute exceeds the limit, who waits as told is admitted, the
  newest notifications are kept; texts: what is kept of a log is its beginning, and how much
  of it.

## 2. Plan

All items are done.

1. `RunStore`, `RunQueue`, `Worker`, `RunControl` and their composition `Pipeline`.
2. `RunLifecycle`, the abstract specification of a run's status, and the refinement
   `Pipeline => RunLifecycle`.
3. `Scheduler`: timer, overlapping polls and overlapping updates of one project.
4. `Accounts`: login with lockout, sessions, administration.
5. `Requests`: one browser and the server around a handler.
6. `Windows`, `Notifications`, `Texts`: what goes by the clock, and the log of a test run.
7. `Projects`: documents and forms that several people edit.
8. Proofs: of items 1 to 3, then of `Accounts`, `Requests`, `Windows` and `Notifications`,
   and of `Texts` and `Projects`: every safety property of a passing run is a theorem.

What could follow: an abstract specification of `Projects`, as `RunLifecycle` is one of
`Pipeline`; several browsers of one user in `Requests`.

## 3. Modules

```
RunStore  <- RunQueue ----------\
          <- Worker <- RunControl -> Pipeline <- MCPipeline      (TLC)
                                             <- Pipeline_proofs <- Outcome_proofs
                                                <- Lifecycle_proofs              (TLAPS)
RunLifecycle  = INSTANCE in Pipeline
Scheduler <- Scheduler_proofs
Accounts  <- MCAccounts, Accounts_proofs
Requests  <- MCRequests, Requests_proofs
Clock <- Windows, Notifications
         Windows, Notifications, Texts <- MCWindows <- Windows_proofs
Projects  <- MCProjects, Projects_proofs
```

An arrow is EXTENDS. Conventions of all modules:

* One step of a model is one database call, git command or wait of the code with the code up
  to the next await: Node interleaves nowhere else. A variable or field with `pc` in its
  name tells which await an activity is at; what it read is kept beside it, so that it can
  be stale.
* Where nobody can look in between, several calls are one step: the git commands that
  prepare a workspace (only the run's own directory changes) and `commit` + `push`;
  notifications to the owner and to the trigger's user; the hash of a password with the save
  that follows.
* A database call may reject at every await, bounded by `MaxFaults`; a rejected call changed
  nothing.
* `save()` of Mongoose writes the fields whose value the handler changed, whatever the
  document holds by then, and for arrays checks the version it read.
* A guard that refuses a request before it did anything is no step.
* A definition named in a comment "Mutant:" is not used by the specification: it is the
  changed form of the next definition, by which the checks of section 4 are tried.
* External: `git merge` stages something, has nothing to do, conflicts or fails; `git push`
  exits with 0 exactly if the target branch is where the run cloned it, and a push that
  fails pushed nothing; a test command passes or fails, and fails when killed; a browser
  keeps the cookies of the last reply it received; `fetch` may reject.

`RunStore`: the documents. `status[r]` is the field, "ABSENT" when there is no document; a
run's number is its `queueSequence`. `merged[b]` is the set of runs whose merge commit
branch `b` of the bare repository holds.

`RunQueue`: `enqueueRun` has a step for the duplicate search, the count, the `$inc` and the
insert; the retention job has one for its find and one for its `deleteMany`, and runs beside
everything else because the code does not await it.

`Worker`: the claim phase (`Tick`, `CountRunning`, `ClaimRun`, `StopClaiming`,
`StartProcessing`) and the activity of each run, from `LoadProject` to `Cleanup`. `TryFault`
is a rejection inside the try block and leads to `Catch`; `CatchFault` is a rejection inside
the catch block and leads to "rethrow", which `Pipeline` turns into an exit of the process.

`RunControl`: `cancelRunHandler`: read, save, abort.

`Pipeline`: the composition, edits of the target branch, exits and restarts. A restart
repairs nothing because `main()` repairs nothing.

`RunLifecycle`: what a reader may rely on about `status`: one document per number, claims in
order and below the cap, no return to QUEUED, FAILED and CONFLICT never become PASSED.
`Pipeline` maps its set of spent numbers to "drawn and not about to be inserted".

`Scheduler`: one project. `enqueueRun` is reduced to its search and its insert;
`updateProjectHandler` is its read and its save. Commits of a branch are numbered. A branch
that is tracked again after it was deleted is another document.

`Accounts`: every request is a call that begins with `authenticate` (or with the login's or
refresh's own first read) and goes from await to await. Login: read, count a failure and
lock, or reset the counter and create the session, as in `lockoutService.ts`. LOCKED with
`lockedUntil` in the past is a status of its own (`LOCK_OVER`), which time brings about.
Refresh tokens and passwords are numbers; a session remembers the password version it was
opened with, and an account the session its password was changed from, which only the
properties read. Every administrator may act, several at once; roles are the three of the
code.

`Requests`: one browser. A call is one invocation of `apiFetch`, from the request over the
401, the refresh and the retry to the end; `AuthProvider` starts the first. The server's
side is `Authenticate` (with the CSRF check), `LookUp`, `Handle`, and `Store` at the end of
the response, or `Login`, `Logout`, and for a refresh `Refresh` (find and compare), then
`RevokeReused`, or `RotateRead` and `RotateSave`. `InvalidCredentials` is the 401 that
`changePasswordHandler` itself answers. The access token expires (`AccessExpires`), and so
does a session that nobody refreshed for eight hours (`SessionExpires`), which a rotation
that read it in time brings back. `LoseReply`, `LoseRecord` and a
failing handler are the faults. `calm` and `raced` are history: whether exchanges of cookies
met other calls, and which keys were sent again too early.

`Windows`: `rateLimit()` for every key when a request arrives, and `recordRequest()` when it
ends. The array arithmetic of the metrics is as it is written; a filter keeps the elements at
certain indices, the `Nth` of them for each `n`, which is how the library's `SelectSeq` can be
reasoned about. `Notifications`: creation,
retention job (find, then delete by ids) and the two handlers that mark as read; documents
of one millisecond are sorted in any order. `Clock` is `Date.now()`, which both use.

`Texts`: a step is one chunk that a stream of the test command delivers (`Data`). A chunk may
end inside a character and the next one begin there; `ToText` is what `data.toString()` makes
of each by itself. A text is the widths of its UTF-16 units; `written`, `missing` and
`decoded` follow the streams, for the properties and for what may come next.

`Projects`: a body is a function on the fields it carries. A page keeps the form it was
filled with when it was opened; `SavePage` sends all of it, `PatchProject` is any other
client. `touched` is history: the fields that were saved since a page filled its form. A
call keeps what its sender meant to change (`asked`) and what was touched when the handler
read the project (`since`).

## 4. Runs

| Run | Bounds | Question |
|---|---|---|
| `overlap` | 3 runs of one project, manual or of one commit, 2 slots, 2 callers, queue cap 1, retention 1 | concurrency cap and the claim loop's budget; how far overlapping calls overshoot the queue cap (`QueuedBound`) and duplicate a commit (`DuplicateBound`); `PruneKeepsNewest` |
| `faults` | 2 runs, 1 cancel, 1 retry, 1 failing call, 1 exit | cancels that took hold, ownership of RUNNING runs, agreement of outcomes, records and notifications with the branch, fate of orphans, refinement of `RunLifecycle` |
| `progress` | 2 runs, 1 slot, edits of the target branch, merges that stage or have nothing to do, fairness | `EveryRunEnds` |
| `polls` | 2 polls of one branch, 2 commits, 1 update, 1 fault | `SeenHasRun`, and under fairness `HeadIsSeen` |
| `accounts` | 3 accounts, 2 of them administrators, 2 sessions, 2 requests at a time out of 4, threshold 1, 1 new password and rotation, 1 fault | what lockout, deactivation, new passwords and revocation achieve when requests overlap, and who can leave no administrator |
| `requests` | 2 calls at a time out of 4, 1 key with 2 bodies, 1 login, 1 expiry of a token or a session, 1 fault, fairness | one effect per call and per key, the right answer, no session revoked without overlap, every call ends |
| `windows` | 2 keys, 4 requests, limit 2, window of 3 ticks, second of 2; 3 notifications, 2 jobs, retention 1, 1 fault; logs of 3 chunks over a budget of 3 | rate limit and its announced wait, retention of notifications, what is kept of a log |
| `projects` | 1 account and 1 unknown id, 2 documents of one branch name, 1 page, 2 calls at a time out of 4 | what checks are worth when requests overlap, and what a save changes |
| `late_cancel` | 1 cancel | **violated**: a cancel that read QUEUED ends as CANCELLED on a run that is merged |
| `change` | 1 account, 2 sessions, 2 requests at a time out of 3 | **violated**: the session a password is changed from outlives the change |
| `silent_refresh` | 2 calls, 1 expiry | **violated**: two calls that expire together sign the user out |
| `latency` | as `windows` | **violated**: latencies are paired with the timestamps of other requests |

Every property of a passing run has a mutant in `PROJECT.json`: a changed definition, as a
plausible slip would leave it, under which TLC finds the property violated.

Why the bounds are enough. Two runs on one slot are the least number that compete; the cap
and its budget need two slots and a third run. Two overlapping calls show every stale read
of `enqueueRun`, and both may carry the one commit. Retention 1 makes every insert delete. One retry gives an attempt before and an
attempt after a cancel. One fault and one exit, at any step, separate every pair of writes.
A bound on faults also bounds `UnhandledRejection`. `MaxSeq` only limits the length of a
behaviour, and leaves every call in flight a number. In `accounts` a stale read needs a
second request, and to be there at all each of the two needs a session, which a request
opened; four requests give two administrators a login each and the overlap, with a third
account for the rest. In `requests` one expiry makes a call refresh and the other overlap
it, or ends the session under it; two bodies show a key used again. In `windows` four requests at a limit of two fill a window, are refused, and
fill it again; a second of two ticks makes rounding show; three notifications with retention
1 make two overlapping jobs find different excess. Widths 1 and 3 put the log budget's
boundary inside a character's bytes, and three chunks split one character in three. In `projects` a page that is opened, overtaken and
saved needs three requests. The statements without bounds are those of section 7.

What some properties say, and what they leave:

* `CancelledStaysUnmerged` speaks of a run as long as its document exists. The flag is a
  field of the document: when retention deletes the document of a run whose cancel took
  hold, the worker reads no flag any more and goes on to push.
* `OrphanStaysRunning` records a fact that operators should know: a run that was RUNNING
  when the process ended is never claimed, never decided and keeps one of the slots until
  retention deletes it; with `maxConcurrent` such orphans the worker stops for good.
* `DuplicateBound` and `QueuedBound` say how far the code keeps a promise that it does not
  keep: with overlapping calls a commit does get two active runs, and the queue one run too
  many; no more than the overlap explains.
* `ThresholdLocks` allows one attempt for every call that failed between counting and
  locking.
* `BarredStaysOut` excepts requests that decided before the account was barred
  (`Overtakes`): `registerSuccessfulLogin` does set a deactivated account ACTIVE again. The
  property says that there are no others, and that no new ones come.
* `OldPasswordIsOut` excepts sessions a login opens that had verified the old password
  before it was replaced, and the session a password was changed from, which the handler
  spares. `ChangeEndsPriorSessions`, of the run `change`, is what the requirements say.
* `LastAdminFalls`: two administrators who demote each other at once do leave none. It says
  that there is no other way: whoever ends the last one has lost his own rights since his
  request was authenticated.
* `KeyActsOnce` excepts keys that are sent again before the record of the first call is
  stored, and failures. A loss of the record makes a repetition act again.
* `CalmStaysIn` says when the session is not revoked; `SilentRefresh` that overlap revokes
  it. A session that ran out is not renewed by anything, and the browser learns of it from
  the next 401.
* `ChecksHold` speaks of lists that are sent together: a PATCH of one list is not compared
  with the other.
* `LogBudget` compares with the stream as far as no character of it was split over chunks;
  with what was decoded always. In bytes it gives the bound that the code keeps: the budget
  as long as nothing was cut, and three times the budget after.
* `OnlyWhatWasAsked`: a form that was filled before others saved takes their fields back. The
  property says that these are the only ones: not those that another request saves after
  this one was read, and none through a PATCH without the page.

Deadlock is checked where the system cannot stop: in the runs of `Pipeline` and `Scheduler`,
whose timers never do. The other runs end when their requests are used up.

## 5. Fairness

`Pipeline!FairSpec`: weak fairness of the claim phase and of every activity. The claim phase
is started by `setInterval`, and the promise chain runs ticks one after another; activities
are promises of the event loop, the test command has a timeout, and git commands are assumed
to return. Nothing is assumed of callers, cancels or retention jobs.

`Scheduler!FairSpec`: weak fairness of bootstrap, of the timer and of the awaits of a poll,
and strong fairness of the insert. The last says that a full queue is not full at every try
of a poll: the worker empties it (`EveryRunEnds`), and polls repeat.

`Requests!Fairness`: weak fairness of the steps of each call once it is under way: the
server answers what it received, or the reply is lost and `fetch` rejects. No page is
assumed to start a call.

## 6. Divergences between code and docs

Four have a run (section 4) and are listed under "findings" in `PROJECT.json`, with the
line of the code and the sentence they contradict: `late_cancel`, `change`,
`silent_refresh`, `latency`. Others were met while the models were written; each follows from the quoted
lines, or is a behaviour of the model that no run reports:

* `pipeline/queue.ts:29`: two calls that overlap both search before either inserts, and one
  commit gets two active runs, where `:21` says the second is a no-op (`DuplicateBound` says how many). `QueuedBound` says
  the same of the cap of `:22`: it is overshot by the calls in flight but one.
* `pipeline/worker.ts:106`: a run merges into the branch the project has when processing
  starts; `src/docs/design.md:124` calls `targetBranch` a "snapshot at enqueue time".
* `pipeline/queue.ts:89`: a failing retention job is an unhandled rejection, which ends the
  process; `src/docs/questions.md:158` says "Pruning failures are logged but do not affect
  the enqueue result".
* `projects/projectsController.ts:148`: of two updates that overlap, the one that saves
  first may set the timer last, so that an active project has none; `src/docs/design.md:96`
  says that `isActive` "controls scheduler registration".
* `pipeline/git/gitService.ts:102`: `git diff` of a file in conflict prints combined headers
  (`@@@ -a,b -c,d +e,f @@@`), which `conflictParser.ts:25` does not match;
  `src/docs/questions.md:142` describes `@@ -a,b +c,d @@`. The line ranges of a conflict are
  then empty.
* `auth/authController.ts:204-211`: a change of password spares the session it came from and
  issues none; `src/docs/questions.md:56-58` (Q6) says that all prior sessions end and the
  request gets a fresh one (run `change`).
* `pipeline/shell/testRunner.ts:47`: the budget is what is left in bytes, the cut is by
  UTF-16 units: with wide characters the logs exceed the 2 MB of `src/repo/README.md:23`, up
  to three times. `LogBudget` says what is kept.
* `pipeline/shell/testRunner.ts:59-60` decodes each chunk by itself: a character split over
  chunks is kept as pieces of U+FFFD, each of which counts as three bytes.
* `middleware/rateLimit.ts:13`, "Sweep on every access keeps memory bounded": only the
  bucket of the request's own key is swept, and no key is ever removed.
* `src/repo/app/client/src/features/projects/ProjectsPage.tsx:38` sends `isActive` with a
  new project, which the strict schema of `projects/projectsSchemas.ts:13-26` refuses.

## 7. Proofs

Every theorem leaves all constants open, under the named assumptions of the modules: the
bounds are natural numbers, the caps are positive, sets that are counted are finite, values
that mean "none" are not members. The bounds (`MaxSeq`, `MaxFaults`, `MaxCalls` and so on)
are arbitrary naturals in the theorems. Theorems of `Pipeline` and `Scheduler` are about the
unfair specification `Spec`; that of `Requests` has the fairness of section 5, which no
safety proof uses.

* `Pipeline_proofs!TypeCorrect`. `TypeOK` is not inductive alone: `DrawSequence` stays below
  `MaxSeq` only because a call is admitted while the numbers drawn and the calls that may
  still draw fit (`SeqBudget`).
* `ClaimBudgetInvariant` and `CapKept`: at most `maxConcurrent` runs are RUNNING. The count
  of the claim phase is old when it is used, so the invariant is `ClaimBudget`: RUNNING
  documents plus iterations left never exceed the cap. Only `ClaimRun` adds to the first,
  and it takes one of the second (`StatusEffect`, `ClaimBudgetStep`).
* `QueuedBoundKept`: what the queue cap is worth when calls overlap. Between the count and
  the insert a call is in `Inserting`; queued runs and inserting calls together stay below
  `maxQueued` plus the number of callers, because the call that passes the count saw fewer
  than `maxQueued` and at most all other calls are inserting.
* `Outcome_proofs`: `NotifiedKept`, `FailedKept` and `RecordedKept` tie a run's
  notifications, outcome and recorded commit to the target branch. The invariant
  `OutcomeInv` follows the life of one run by the await its processing is at (`Life`):
  before the push it is not on the branch; at "decide" it passed or is not on the branch;
  the catch block may write FAILED over FAILED or CONFLICT but not over a merged run unless
  a call failed. It also needs that a drawn number belongs to one call and has left no trace
  (`NumbersFresh`), or an insert could overwrite a run. `RecordedKept` needs the commit held
  between push and `finalizeRun` (`ShaInv`).
* `Lifecycle_proofs`: `OwnerKept` (a RUNNING run is being processed while the process lives)
  and `OrphanKept` (after an exit nobody takes it up). Both rest on `OwnerInv`: a RUNNING
  document has an owner, or lost it in an exit and no cancel that read it as QUEUED is
  pending. The last part is what rules out that a late save decides an orphan.
* `Lifecycle_proofs!LifecycleImplemented`: the refinement. Draws, failed calls and exits
  only spend numbers (`Discard`), an insert spends its own number, a claim needs
  `ClaimBudget` to be below the cap, an outcome needs `Life` to be written over a status
  that may be decided, and a cancel found in the catch block is a `Cancel`.
* `Lifecycle_proofs!CancelKept`: a cancel that took hold stays effective. What it means to
  have hold of a run (`Held`) is stable under every step: the flag is set, the run is not on
  the branch and its processing is not at an await from which it could get there without
  reading the flag; `OwnStep` says how processing moves. It needs that a killed test never
  passes (`KilledInv`) and that an abort follows the flag that was saved (`AbortInv`). Once
  the document is gone, nothing is claimed, and a number is not drawn twice.
* `Lifecycle_proofs!NewestRunsKept`: retention deletes by ids it read before. The invariant
  `SoonGone` says of every id a job holds that its run is not among the newest any more. An
  insert keeps it so, for new numbers are greater; another job's delete keeps it so because
  that job deletes none of the newest either. This is where two overlapping jobs could
  have conspired, and do not.
* `Lifecycle_proofs!DuplicatesBounded`: the active runs of one commit, and the calls that
  have searched for it and not yet inserted, are together no more than the callers
  (`DuplicateBound`): a search that finds nothing lets only its own call in. For one caller
  this is what `queue.ts:21` promises; the code lets callers overlap.
* `Scheduler_proofs`: `SchedulerTypeCorrect` and `NoCommitLost`: a commit recorded as seen
  has had a run. `SeenHasRun` is strengthened by what a poll knows before it writes
  (`UpdateHasRun`) and by the fact that the run it found was inserted (`LiveWasInserted`).
* `Accounts_proofs`. `AccountsTypeCorrect` strengthens the type by what a call must have
  read to be at its await (`TypeInv`). `RevocationKept` and `BarredKept` are action
  properties proved step by step: of all steps only those of calls that overtake write a
  barred account. `ThresholdHolds`: an account counts no more attempts beyond the threshold
  than there are calls about to lock it and calls that failed (`LocksInv`), an argument on
  the cardinality of a set that each step changes by at most one. `OldPasswordGone`: every
  session that is not of the present password is covered by a revocation under way, or
  marked (`SessionsInv`); the invariant has to include expired sessions, because a rotation
  that read one in time brings it back, and needs that a call's session belongs to its user
  (`Owned`). A session of an earlier password may also be the one the present password was set from
  (`setBy`). `LastAdminKept`: only the save of a request about another account ends an
  administrator, and it touches no third one (`SparesItself`, `WhoEndsAdmin`); so when the
  last one falls, the one who acts was none any more.
* `Requests_proofs`: `RequestsTypeCorrect`; `OneEffectKept` and `AnswerKept` from what is
  known of each call at its await and of each record (`KeyInv`: nothing acted before a 401,
  and a record stands for a body that acted); `OncePerKey` from `OnceInv`: for a key that
  was not raced and without faults, either nothing acted, or one body did, and its record is
  stored or about to be. `CalmKept` from `CalmInv`: as long as exchanges of cookies met no
  other call (`~Meeting`), cookies are those of a session that was not revoked, or one call is
  about to set them (`JarInv`), and what each call carries and will be answered fits that
  (`CallsCalm`); no token is then taken for reused (`CalmNoReuse`), and an expiry changes
  nothing of it.
  The proof goes through every pair of an exchange with another call and finds that only
  harmless ones are left (`Alone`).
* `Projects_proofs`: `ProjectsTypeCorrect`, `ChecksKept` and `OnlyWhatWasAskedKept` from one
  invariant, `ProjectsInv`. A check made before an await is only worth something if what it
  saw still holds at the save: `CallFits` says what each call may rely on at its await. A
  list in a save is relied upon only while the version it was read with is the stored one;
  members only ever come (`members` is whoever was one), so that an owner stays valid; and
  the unique index, not the check, keeps branch names apart. For `OnlyWhatWasAskedKept` a
  form agrees with the document on every field that was not touched since it was filled
  (`Agrees`), so that what a save writes was asked for or touched when it was read. The type itself needs that the
  version counts no more saves than there are requests (`CountOK`).
* `Windows_proofs`, of `Windows!WindowsSpec`, `Notifications!NotesSpec` and
  `Texts!TextsSpec`, the specifications that `MCWindows` checks side by side and implements
  (`EachPart`). `RateBounded` and `RetrySuffices`
  from `LimiterInv`: a bucket holds every admitted request
  that is still in the window (`BucketsFull`) and never more than the limit (`BucketsBound`). `RetentionKept` from
  `NotesInv`: jobs hold what they found (`JobsFit`), and without faults some job is about to
  look, or what is present and not about to be deleted fits (`Room`). `NewestSpared` and
  `NeverComesBack` are about single steps of it. `LogKept`: the kept part is
  compared with what was decoded unit by unit (`Begins`) and one chunk at a time
  (`AppendCases`); `SplitInv` compares that with the stream, whose characters have all been
  decoded whole up to the first U+FFFD; `BytesInv` counts bytes as a set of pairs, so that
  the bytes of a text that grows are the sum (`BytesAdd`) and no more than three for a unit
  (`BytesAndUnits`). A set flag means, for text of single bytes, that something is missing
  already, which no later chunk can undo. `WindowsTypeCorrect` needs that timestamps
  and latencies are as many (`WindowInv`), although they are not of the same requests
  (section 6), and that a set of numbers has an n-th one (`NthIsOne`).

## 8. Only model-checked

Liveness (`EveryRunEnds`, `HeadIsSeen`, `EveryCallEnds`) is out of reach of the prover, as
is `ENABLED`: these three stay with TLC, on the instances of section 4. Every other property
of a passing run is a theorem, without a hypothesis beside the assumptions on constants. What the runs that expect a violation show is not proved either: a
counterexample of TLC is enough.

## 9. Not modelled

* Read endpoints, dashboard, audit, logging, configuration: they change no state that
  another component decides on. Roles, scopes and schemas are guards of the actions they
  protect; the checks themselves are stateless.
* The conflict parser: a function of one diff without state, whose pattern matches nothing of
  what git prints for a file in conflict (section 6).
* Characters of two UTF-16 units in the log of a test run, which a cut may halve; a stream
  that itself contains U+FFFD.
* A second abort of one run is always lost, for an `AbortController` fires once; `Abort` may
  kill then as well, which only fails an attempt more.
* The text of git commands, of logs, notifications and conflict reports; names, descriptions
  and addresses.
* The branch "Project not found" of `processRun`: nothing in the repository deletes a
  project.
* The repository path validator: checks of the file system without state of their own.
* `lastSeenAt` of sessions, which nothing decides on; the expiry of idempotency records
  after a day; gauges of the metrics, which are read from the database.
* More than one browser in `Requests`: sessions of several are in `Accounts`. Rendering and
  the query cache of the client.
* The scripts that create sample repositories and start the processes.
* More than one server process: the code is written for one (`claimChain`, `projectTimers`,
  `activeControllers`, the limiter's buckets and the metrics are in memory), and docs
  promise no more.

