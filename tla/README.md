# Beyond Social: a verification development

Beyond Social makes and posts short videos: a Go API over Postgres (`server/`), a
Next.js client (`client/`) with a video studio in the browser, and several paid
providers (KIE, HeyGen, ElevenLabs, Gemini, Apify, Stripe) and social platforms
around them. Two things make it hard. On the server a row in Postgres is the only
thing a request, a pool of workers, a provider's callback and a sweeper have in
common; each acts on a snapshot of it, any of them may die between two statements,
and a call of a provider costs money and cannot be undone. In the browser a store,
timers, sockets, and answers that arrive late all change what one person sees, and
a press of a button may have been paid for although its answer was lost.

This directory specifies both in TLA+, checks them with TLC and proves the
main results with TLAPS. Server paths below are relative to `server/internal/`
unless they begin with `server/`; client paths are relative to `client/src/`.

## The system

### How the server's parts meet

* **Rows with a lease.** Jobs, posts, workflows, discoveries and avatars are rows
  with `next_run_at`. A pool (`worker/worker.go`) ticks every two seconds and
  claims due rows, oldest first, with `FOR UPDATE SKIP LOCKED`, pushing
  `next_run_at` out by a lease. A crash loses nothing: the lease runs out and the
  row is due again. The worker acts on the row it was handed, not on the row as it is.
* **Advance.** Every change a worker makes to a row is one transaction that locks
  the row, refuses if the row is finished (jobs also refuse a transition outside
  the lifecycle) and overwrites only the columns that are given.
* **Submit once.** Before a call that spends money or appears in public, the worker
  writes a mark (`stage = submitting`, `publish_started_at`). A worker that finds the
  mark and no result gives up instead of calling again.
* **The ledger.** `credits` takes a job's price under the key `reserve:<job>` and
  closes it under `close:<job>`, one of settle or refund. A key is used once; a
  sweeper closes what a crash left open.
* **Composition.** The orchestrator starts jobs, discoveries and posts and follows
  their rows; chat starts workflows and is told of finished jobs; media and sign-in
  tokens are used by posts; the realtime hub hears of changes, and nothing on the
  server depends on what it hears.

### How the client's parts meet

* **One store for the page.** The studio's project lives in a store
  (`features/studio/store`) that outlives the screen, as do the requests a screen
  was waiting for. Pure functions (`features/studio/core`) turn a project into a new
  one; the history, the autosave, playback, captions and the panels all read and
  replace that one object, compared by identity.
* **Paid work.** A screen starts a job under an idempotency key it made, keeps the
  key while a lost answer may still have been a start, and follows the job by pushes
  over a socket, reads on a reconnect and a slow poll (`lib/go-api`).
* **Server actions and the API.** A form's answer returns to a screen that may have
  moved on: another group, another link, another search, another project.

### Inventory

| Component | State | Operations | What is hard | What makes it correct |
|---|---|---|---|---|
| Job pipeline (`jobs`, `transform/processor.go`, `transform/submit.go`, `worker`) | `public.jobs`: status, stage, task, attempts, next run | Create, claim, submit, poll, callback, fail for age | worker, callback and request on one row; a crash around the paid call; lost answers | one paid task per job; a finished row stays; every job ends |
| Credit ledger (`credits`, `database/credits.go`, `database/usage.go`) | balances, ledger keys; Pro windows and events; overage | Reserve, Settle, Refund, Keep, sweep; purchase, clawback | the reservation follows the insert; several closers of one charge; windows that end and plans that change before it closes | charge agrees with outcome, once; no credit or point appears or is lost; limits hold |
| Orchestrator (`orchestrator`) | workflow and step rows | Submit, Approve, Start, Cancel, the engine's pass | overlapping passes on old snapshots; a crash between starting work and recording it; a repeated submission | nothing gated without consent; dependencies first; work not repeated; it ends |
| Scheduled posts (`publish`) | `public.scheduled_posts` | Schedule, Cancel, Reschedule, copy, send | the user moves or cancels a post a worker holds | sent once, not early, not after a cancel; it ends |
| Avatar videos, avatars, discovery, analysis | rows with a lease | submit under a key, train, run, poll | leases, deletion while training, runs started before they are recorded | one paid run per request |
| Billing (`billing`) | the payment's and the member's row; Stripe's messages | paid, refunded, subscribed, changed | repeated, overlapping, reordered and cut-off messages | a pack is added once; a refund takes its share; who pays is Pro |
| Caps on open rows (`publish`, `orchestrator`, every kind of job) | rows that are open | count, then create | requests that counted at once | the cap is passed by nothing else |
| Chat, purge, social connections, voices | rows behind requests and webhooks | messages, deletion, token renewal | repeated and reordered events | one charge and answer per message |
| Studio: timeline and history | the project; past, present, future | split, trim, move, speed, captions, tracks; edit, merge, drag, undo, redo | any order of edits; a drag or a slider is many changes and one act | items never overlap; footage is not lost; one Undo takes back one act |
| Studio: autosave | timer, save in flight, version | change, flush, answer, leave, enter, another tab | everything moves while a save is on its way, which may be rejected | "saved" is true; nobody's work is overwritten unseen |
| Studio: videos, assistant, avatar panel | a job, its watcher, its place on the timeline | start, follow, copy, place, retry, close the panel | pushes, polls and panels that were left | paid once, placed once, told truly, it ends |
| Studio: export and posting | the dialog, frames, the post's key | export, cancel, upload, post, press again | a lost answer, a late cancel | posted once; Cancel ends it |
| Studio: files, playback, captions, times | signed links, the clock, words, zones | renew, play, caption, choose a time | links expire while used; clips trimmed and sped up; clock changes | a link is alive; film stops at its end; words are shown once; a time reads back |
| Live avatar flow, asset groups, twin recorder | group, slots, files, consent; devices | upload, step, generate; record, stop, unplug | answers of two groups out of order; five ways a recording stops | an upload empties no other slot; no camera stays on |
| Job following | a job on screen, the socket | start, push, read, poll, reconnect | lost pushes, late reads | a job that is over does not stay "working" |
| New video | the link, its preview, analysis, script; the form | paste, analyse, approve; quote, confirm, start | back, another link, a draft, a stale price | paid for what was on screen, once |
| Discover | searches under tickets, history | search, look up, toggle | answers out of order | the newest search is shown; what was shown is not paid again |
| Schedule page, sign-in | a post's row; the session and limiter | cancel, move; sign in, redirect | a page that is older than the server | a stale row does no harm; attempts are bounded |
| Dashboard, admin, blog, marketing; HTTP API; provider clients; insights | none of their own | show, parse, call | - | - |

`PROJECT.json` lists every component with its files, and the hazards of all of them
at the line where each bites, with the properties that watch it or the reason none
does.

## The modules

### Server

**JobRow, JobPipeline** - a paid job from request to closed charge. `JobRow` is one
row of `public.jobs` as data: the lifecycle of `jobs/jobs.go` and what Create, Claim
and Advance do to the row they lock. `JobPipeline` adds the actors; one action is one
statement, one transaction or one provider call.

| Variable | Code |
|---|---|
| `rows` | `public.jobs`; `run` abstracts `next_run_at` to due, leased, scheduled, none |
| `aged` | the jobs older than `maxJobAge` |
| `request` | where a call of `jobs.Service.Create` stands |
| `pc`, `at`, `seen` | a worker slot or callback: its place in `Handle`, its job, the snapshot it was handed |
| `made`, `gen` | the provider: tasks accepted for the job, and how the task came out |
| `balance`, `reserved`, `closed` | balances and the two ledger keys of a job |
| `deaths` | bound on crashes |

`Insert`, `Reserve...`, `CloseUnfunded...`, `RequestLost` are Create. `Claim` is the
pool. `Dispatch` to `Finish` are `transform.Processor.Handle` with its helpers:
preparing, marking, the paid call with an answer (`CreateTask`), without one
(`CreateUnconfirmed`) or refused (`CreateRejected`), recording, retrying, polling,
finishing, closing the charge. `CallbackArrives` is `Reconcile`. `Die` ends any of
them anywhere. `Generate`, `LeaseExpires`, `ScheduleArrives`, `Age` are the world;
`Sweep` is `credits.Sweeper`.

**PaidWork, JobPromise** - what the pipeline promises. `PaidWork` is the abstract
specification: work is accepted, the provider is paid for it at most once, it is
delivered or fails for good, and its charge is then kept or returned, once.
`JobPromise` maps the pipeline onto it. The promise is weaker than the comment
"Reserve runs before any provider is called" (`jobs/service.go:35`): the row is due as
soon as it is inserted, before Reserve, so a worker may call the provider, and even
finish, before the charge is taken. That is why `Charge` in `PaidWork` may follow
`Spend` or `Fail`.

**ScheduledPosts** - posting at a chosen time: the rows with the time the user chose
(`at`), `next_run_at` (`run`, `next`), the mark (`started`) and the attempts; `now`;
workers as above; `sent`, how often the platform took the post. `Schedule`, `Cancel`,
`Reschedule` are the user. `Claim` to `Fail` are `publish.Processor`: copying the
video, putting back a post that came due before its time (`Delay`), marking it
(`MarkStarted`), the platform's call with and without an answer (`Send`, `SendFailed`).

**Workflow** - a plan the user approves and the engine carries out: the workflow row,
its steps, the records its steps start (`work`), the user's consent, submissions,
workers and their snapshots. `Create` and `Route` are Submit's two statements, `Cancel`
and `CancelSkips` Cancel's. `Load` to `Complete` are one pass of the engine over its
snapshot. A step is inline, keyed (a job: a repeat finds the first one) or unkeyed (a
discovery, whose submit ignores the key). `Refuse` stands for every final refusal of a
step.

**UsageWindows** - what one member is charged: by credits on the free plan, by points of
a five-hour and a weekly window on Pro, by credits again where a window is full and
overage is on. `ReadPlan`, `Take`, `ReadOverage`, `CheckDay`, `Charge`, `Record` are the
statements of `credits.Service.Reserve`; `ReadActual`, `ReadEvent`, `ClosePoints`,
`CloseCredits` those of Settle, Refund and Keep, made by the one who finishes the job and
by the sweeper. Charges and closings of two jobs interleave, windows end (`Tick`) and the
plan changes under them. `early`, `lost` and `crowded` record the cases a promise excepts
by name: a closing that began before the charge was through, one that never came, and two
charges between a read and its write.

**Payments** - a payment for a pack and what Stripe says of it: `Purchase` and `MarkPaid`
are `billing.Service.Paid`, `ReadPayment` to `AddRemoved` are `Refunded` with `Clawback`
inside it, `Die` cuts either off. A message comes once it is true, again and again, and two
at once; the member spends meanwhile.

**Membership** - the subscriptions a person took out, the messages Stripe sends of them and
the one row that is kept, which says what the message handled last said.

**OpenCap** - a limit on open rows that is counted in one statement and used in another, as
`publish`, `orchestrator`, `discovery` and every kind of job have it.

**Money** composes the last four, which share no variable, as the client's composites
do; `part` names the one a behaviour is about. `JobPipeline` has the ledger of one job's
credits in full, with the worker's crashes; `UsageWindows` has every way of charging.

### Client

Each part is a module of its own, with the state its hook, store or form keeps:

| Module | Of | Its state and actions |
|---|---|---|
| `Timeline` | `features/studio/core` | The project as sets of items per track. An edit is the SET of projects it may make, so a refused edit is empty: split, trim, move, speed, delete, ripple, captions, tracks, what a panel may ask. |
| `Editor`, `UndoLog` | `store/editor-store.ts`, `core/history.ts` | past, present, future, the drag's base, the key edits merge under. `UndoLog` is the abstract list with a place in it that `Editor` implements. |
| `Autosave` | `hooks/use-autosave.ts` and the API's version check | The store, a timer and a save in flight for each opening of the studio, the stored rows, another tab. |
| `Generation` | `live-avatar-job.tsx`, `app/editor/[id]/page.tsx` | The job of a project, its watcher per opening, the copy, the clip, the paid retry. |
| `Assistant` | `hooks/use-assistant.ts`, `wait-for-job.ts` | A message, its edits and requests, the scene and memory cards, pushes, looks and the deadline. |
| `AvatarClip` | `hooks/use-avatar-video.ts`, `avatar-panel.tsx` | Avatars, script, paid start, the look every four seconds, the copy, the clip. |
| `Posting` | `hooks/use-export-flow.ts`, the library's form | The dialog, frames, abort, upload, the post under its key, answers and their loss. |
| `Media`, `Playback` | `use-media-urls.ts`, uploads, `use-playback.ts` | Links that expire and their renewal, uploads in their steps; the clock, elements and frames. |
| `Captions`, `WallClock` | `core/captions.ts`, `core/zone.ts` | Words to captions; the instant a wall-clock time in a zone means. |
| `AvatarPack` | `features/live-avatar-flow`, `features/asset-groups` | Steps, groups, slots, uploads, reads out of order, consent, the copy. |
| `TwinRecorder` | `use-twin-recorder.ts` | Permission, stream, recorder, ticks, limit, unplugging, leaving. |
| `JobFollow` | `use-video-transform.ts`, `use-job-socket.ts` | The attempt key, the job on screen, pushes, reads, polls, reconnects. |
| `LinkStudy`, `VideoSetup` | `features/new-video`, `features/generate-form` | The link, preview, analysis, drafts, script; steps, quote, confirmation, start, project. |
| `Search` | `features/discover` | Tickets, answers awaited, the session's cache, the history and its storage. |
| `SignIn`, `PostRow` | `features/auth`, `lib/rate-limit.ts`, middleware; `features/schedule` | Routes, session, attempts and windows; a post as shown and as it is. |

The **server as the client sees it** is part of those modules: a request may be
carried out and its answer lost, refused, or late; a job ends when the server says so.

Three modules compose the parts: **Making** (timeline, files, times, captions, asset
groups, the form, links, sign-in, the schedule page), **Watching** (playback, recorder,
job following, the video of a project, the assistant, the avatar panel) and **Saving**
(history, autosave, posting, search). The parts of one composite share no variable in
the code that their properties read, so a behaviour is
about one of them, named by `screen`, and the other parts stand still; a composite
property is a conjunction with one conjunct for each promise of each part. Nothing is
lost by this: an interleaving of parts that share no variable satisfies a property of
one of them exactly if that part's own behaviour does. Where parts do meet, in the
open project, the meeting is in the part: `Autosave`, `Generation`, `AvatarClip` and
`Media` each have the store change under them while a call is on its way.

`JobPipeline`, `Workflow`, `Money` and `Making` have a module of their own that gives the
instance TLC checks (`MCJobPipeline`, `MCWorkflow`, `MCMoney`, `MCMaking`): what a bound
constrains there is named, and functions and records have a definition to be given by. The
others are run as they are. A proof module (`..._proofs`) extends the module it is about.

## What is checked

| Run | Instance | Properties |
|---|---|---|
| `pipeline_one` | one job asked for twice under a key, two workers, a callback, a death, three attempts | `TypeOK`, `SubmitInv`, `SubmittedOnce`, `ClosedAsEnded`, `DeliveredWhatWasMade`, `CreditsConserved`, `FinalIsFinal`, `KeepsPromise` |
| `pipeline_live` | one job, one worker, a callback, a death, fairness | `EveryJobAndChargeEnds` |
| `posts_all` | one post moved up to twice, two workers, a death, three attempts, fairness | `TypeOK`, `PostsInv`, `SentOnceUnmoved`, `CancelledIsNotSent`, `MarkedBeforeSent`, `EndIsFinal`, `EveryPostEnds` |
| `workflow_all` | a four-step chain, two submissions, three plans, two workers, a death, fairness | `WorkflowInv` (with `TypeOK`), `KeyedStartsOnce`, `StartsInOrder`, `EndIsWhole`, `EndIsFinal`, `ApprovedEnds` |
| `money` | two jobs on one balance and both plans; a pack of five credits for three cents, two messages at a time; two subscriptions, five messages; a cap of two | `AllTypes`, `MoneyAddsUp`, `PlansAndLimitsHold` |
| `making` | three items on two tracks; the forms and calculations below | `AllTypes`, `EditsKeepTheFilm`, `TimesComeOutAsMeant`, `PaidForWhatWasShown`, `ScreensKeepUp`, `SignInKeepsItsWord` |
| `watching` | six parts that wait, with fairness | `AllTypes`, `NothingIsPaidTwice`, `WhatIsSaidIsSo`, `WaitingEnds` |
| `saving` | the history of three projects, two projects saved from two openings and another tab, an export, three searches, with fairness | `AllTypes`, `WorkIsKept`, `NewestSearchIsShown`, `KeepsUndoPromise`, `WhatIsBegunEnds` |
| `posts_twice`, `workflow_consent`, `saving_drag`, `money_pro` | each shows a disagreement of the code with what it says | `SentOnce`, `GatedWaitsForConsent`, `DragsGetSaved`, `MadeStaysCounted` |

What they show, in the order of the table. The provider is paid at most once for a
job and a completed job names that very task; a finished row never moves, so late
callbacks and second workers are harmless; a charge is settled only for a delivered job
and refunded only for a failed one, whoever closes it; no credit appears or vanishes. A
post the user leaves alone is given to the platform once; a cancelled one never
appears; one that may be out is marked as such; an end is final. A paid step's work is
started once however passes overlap; nothing starts before what it needs, or before the
workflow was approved (`StartsInOrder`); a workflow that ended is never reopened and
leaves no step waiting (`EndIsWhole`; that a completed one made everything is stated for
behaviours in which no pass dies).

Money adds up: every credit is in a balance, held or spent and every point in the window
it was counted in, though refunds come in a later window; what failed is free and what was
made costs what it cost on the plan it was charged on, whichever plan the member is on by
then; a pack is added once however often Stripe says so; a refund takes its share of the
credits and no balance below zero. Limits hold: no window is passed by more than the job
that fills it, overage and the day's limit are kept by charges that come one by one, a cap
on open rows is passed only by requests that counted at once, and who pays is Pro and is
told once when messages come in order and one subscription follows another.

In the client: any order of edits leaves tracks without overlaps and footage in its
place; chosen times read back; a press pays for the request whose price and preview
were on screen, once; results for what was left are dropped (one refusal that comes late is
not, below) and an upload empties no slot the person could see filled; sign-in attempts are bounded in any window. What is
waited for ends and is told truly: film, a recording, a job, a scene, a clip. The
history implements an undo log; "saved" means stored, and no version is overwritten
that this page has not seen; pressing Post again posts nothing more, and an
export can be cancelled; the results on screen are those of the newest search, and a
search whose results were shown is not paid again; what was begun (a save, an export, a
search) ends, except for a save that was rejected and an export that waits for what never
answers.

### Where the code does less than it says

Four disagreements are runs of their own, each with a counterexample of TLC:

* `posts_twice` - "A post is only ever sent once" (`publish/publish.go:2`). Reschedule
  overwrites `next_run_at` of a post that a worker holds and has not marked yet. A
  second worker claims it; neither mark is refused; both send.
* `workflow_consent` - "approval-gated plans wait for approval"
  (`orchestrator/service.go:161`). A second submission under the same key routes the
  stored draft by the plan it made itself. If its own plan needs no approval, the
  stored plan, which does, is approved without the user.
* `saving_drag` - "Saves a moment after the last change" (`use-autosave.ts:10`). The
  last preview of a drag is already the content of the store, so letting go changes
  nothing the subscription compares, and no save is scheduled until another edit.
* `money_pro` - "everything else keeps its reservation" (`credits/jobs.go:107`). What a job
  used is read from the ledger, and the ledger holds nothing for a job a Pro member's
  windows paid for: it used 0, and every point it took is handed back when it is done.

The others are stated as properties in their modules, which the code does not keep and
no run names (the property is in brackets), or are described here because a model
leaves them out. On the server:

* An unfunded job stays queued and runs uncharged when the request was cancelled while
  it reserved: the update that should close it runs under the same cancelled context
  (`jobs/service.go:94`; `UnfundedIsClosed`).
* A post moved later while a worker holds it goes out at the old time: the time compared
  is the snapshot's (`publish/processor.go:122`; `NeverEarly`).
* "Most credits one user can spend per day" (`setting-form.tsx:14`) is a sum of the last day
  that takes in every refund made in it (`database/credits.go:188`), so what comes back of
  an older charge lowers it, and the charges of the day come to more than the limit by as
  much (`DayLimitHolds`). `ChargedUnderTheDay` says what the limit does keep: the charges
  of the day, less what came back of older ones.
* A discovery's submit ignores the key, so a pass that dies after it starts a second run
  (`RetryNeverSpendsTwice`).
* The transition to running makes a workflow due under the lease of the pass that made
  it, so two passes overlap and a workflow may complete around a step one of them failed
  (`database/workflows.go:158`; `SkippedWasAbandoned`).
* Two charges that read what overage or the day has used before either adds to it pass
  the cap together (`credits/plan.go:169`, `credits/credits.go:235`; the exception
  `crowded`); so do two requests that count open rows at once (`publish/publish.go:169`,
  `orchestrator/service.go:164`; `ahead`).
* A free multiplier under 100 percent, which nothing refuses, is applied a second time when
  the charge is closed, to the price it was already applied to (`credits/credits.go:179`).
* The sweeper lists charges by the ledger, so a Pro job whose closing was lost keeps its
  points in the windows though it failed (`credits/sweep.go:57`; the exception `lost`).
* Two refunds of a payment handled at once, or one cut off between its two statements,
  take more credits than their share (`billing/billing.go:271`; the exception `strayed`).
* The membership's row is of the person, not of the subscription: one taken out while
  another is past due loses Pro when Stripe ends the other (`billing/subscription.go:26`;
  the exceptions `again` and, for messages out of order, `jumbled`). The welcome is not
  mailed when the subscription's message arrives before the checkout's.

In the studio:

* A save whose call is rejected leaves its in-flight mark, for want of a catch
  (`use-autosave.ts:25`): nothing more is saved until the studio is opened anew, and the
  header says "Saving", or "Unsaved changes" after the next edit, and never that it could
  not be saved. `WhatIsBegunEnds` excepts it by name (`Stuck`).
* An export sets no limit to loading its files (`lib/export.ts:61`, `:103`, `:119`), and
  Cancel, which is read between frames, ends no such wait (`Stall`; a dialog that waits so
  is excepted from `WhatIsBegunEnds`).
* A save that is answered after another project was opened is recorded on that one,
  which may then overwrite a version this page has not seen (`NeverOverwritesUnseen`). A
  title typed while a save is in flight is called saved and not sent; edits that were
  pending when the studio was left are not scheduled when it is entered again.
* A project that holds nothing but its job is opened as an empty document, which the
  next save stores; a video left before it was done is then not found again
  (`app/editor/[id]/page.tsx:53`; `ReopenedProjectGetsItsVideo`). A finish call that is
  rejected is not made again; a copy lands in whatever project is open by then.
* "You can keep editing" (`avatar-panel.tsx:102`): picking another tool closes the panel
  and drops the paid video (`KeepEditing`). After a lost start, pressing again pays again.
* A rejected action of the assistant leaves it busy; "failed" after the deadline may be
  said of a scene that is made later.
* A key pressed, or an answer of the assistant, in the middle of a drag puts the preview
  into the history; a keyed edit right after an undo merges and keeps what was undone.
* Cancel after the last frame still posts; the library's form draws a new key when it is
  opened again after a lost answer (`ToldIsPosted` is about what the dialog says).
* Captions of a file of the media library are refused, since the transcription is asked
  for by an address that only the browser knows; captions ignore a clip's speed, and a
  stretched caption may make the server refuse the whole set after it was paid for.
* In a zone west of Greenwich a time in the hour a clock change skips comes out as the
  earlier reading (`core/zone.ts:38`). More than a hundred files resolve to no link.

Elsewhere in the client:

* Uploads over older slots empty filled ones (`uploads-step.tsx:58`; `FilledSlotsStay`); a
  failed or late read leaves another group's slots on screen; Continue's timer and a step
  picked meanwhile may lead past the last step; consent outlives the file it was given for.
* A failed read while the socket is connected, or a session that is gone, leaves a job
  "working" on screen (`NeverStuck`), against `use-video-transform.ts:24`.
* A new link pasted over a resumed job shows the old job's video (`PastedLinkIsShown`);
  going back and forth restarts jobs that were paid for; a first read of a resumed
  analysis that is lost leaves its spinner.
* A look that is out at an analysis when a draft is opened in its place, and is then
  refused, puts its error on the new draft's screen: `analysis-view.tsx:75` does not ask
  whether it was cancelled, as lines 62 and 71 do, although `wait-for-job.ts:26` says
  "null if the screen went away". `ErrorsAreOfTheScreen` has this one exception.
* A search whose answer comes after another was asked for is not kept
  (`discover-scroller.tsx:122` returns before `:132`), so that going from a platform and back
  while the first answer is out is charged twice, against the comment at `:62`.
  `OnlyLateAnswersArePaidAgain` says that only such a search is asked again.
* A video whose job was started and whose project was refused is paid for again by "try
  again"; a first frame that arrives during the confirmation switches the avatar off.
* A refused link and a toggle with too short a query claim no ticket, so an answer on its
  way still lands (`ToggleAlwaysAgrees`).
* A time typed into a post's row is read in the web server's zone (`MovedAsTyped`).
* "Resend code" sends nothing (`otp-form.tsx:60`); `/reset-password` sends a signed-in
  visitor, one who came by the recovery link included, to the dashboard.

### Bounds, and why they are enough

* *Two workers, or a worker and a callback*, are enough for every server hazard listed:
  each needs one actor holding an old snapshot and one that moved the row. *Two requests*
  for one job are a repeat under a key; two jobs on one balance (in `money`) are the least
  that compete for it. *`MaxAttempts`* of 2 or 3 shows a retry and running out of them.
* *`MaxDeaths`* of 1: each crash hazard needs one, and the proofs hold for any number.
  *`Horizon`* of 1 gives an instant that is due and one that is not yet;
  *`MaxReschedules`* of 2 moves a post later and back.
* In *`money`* the windows are one and two units long and time passes the end of both and
  of the month once, which is all a late refund needs; the dearer job fills the five-hour
  window alone, and neither limit takes both jobs. A day is one instant (`Day` of 0), so that
  a charge can be older than a day before its refund comes; its limit takes one job. Five credits
  for three cents do not divide, so shares are rounded. Five messages of a membership are a start, a failed
  payment, an end and a second start. *`Orderly`* lets one job be closed at a time
  (closings of two jobs meet only in the sums, which one transaction changes), loses or
  hurries the closing of the avatar video only, and ends a membership whose messages came
  out of order after three, since nothing is promised of it.
* The *four-step chain* has each kind of step, with the paid step between two others; the
  plans are that chain, a plan that needs no approval, and a question.
* The bounds of the client's parts are in `MCMaking`, beside each instance, and in
  `Watching.cfg` and `Saving.cfg`. As a rule there are
  two of what can be confused (groups, links, projects, openings of a screen, searches
  in flight) and one more attempt than there are answers to lose. Distances are counted in
  the code's smallest unit (`MIN_DURATION` on the timeline, half hours in zones), so no
  operation of the model rounds.
* *`Orderly`* (of `making`) stops a behaviour once the person picked a step out of turn or
  a screen was misled by a lost read, because what the properties say of it has then been
  said; it keeps one group without consent and stops at an approved script. *`Enough`* (of
  `saving`) lets the second project be saved once and one search follow a toggle that left
  an answer on its way. *`SavingAlone`* keeps `saving_drag` to the autosave.
* *`Interrupts`* of `Editor` is FALSE: nothing but the pointer acts in a drag. With TRUE
  the undo promise is broken, as listed above.
* Symmetry is used over workers and over requests that are alike, in runs with no
  liveness property only. Deadlock is not checked: everything in these models may be
  finished, and then nothing is left to do.

### Fairness, and why the code justifies it

* A worker's or callback's own steps are weakly fair: every call has a timeout.
* Claiming is strongly fair for each row: the pool ticks every two seconds and takes the
  row that has been due longest, so a row that keeps falling due gets a slot.
* Leases run out, scheduled times arrive, jobs grow old, the sweeper ticks.
* In the client: animation frames and recorder ticks come, timers run out, requests are
  answered or fail, a finger leaves the screen, the socket reconnects
  and a poll is made while it has not. *Learning* that a job is over is strongly fair:
  polls repeat for as long as the job is followed, so one that could tell again and again
  is answered in the end.
* A save and an export are not assumed to be answered: nothing in them sets a limit, so a
  save may be rejected or never over (`Stuck`), and an export may wait for ever (`Stall`).
  What fairness asks of them is that the timer fires, that a save that was made comes back
  in one of these ways, and that an export that does not stall goes on. A search ends
  because the server gives up on it after `MAX_WAIT_MS`.
* *Nothing* is assumed of the provider, of callbacks, of pushes, of the person or of other
  tabs. A job ends although the provider never answers, because it grows old; a lost push
  only delays what the slow check finds.
* `Workflow` assumes that the records its steps start end; `EveryJobEnds` is that fact for
  jobs. The age check of running steps (`orchestrator/executors.go:39`) is never reached.

## What is proved

Every theorem holds for every value of the constants that satisfies the assumptions its
module names, and these say no more than the code's configuration and schema do:

* `JobPipeline`: owners and prices are functions on the jobs, prices are natural numbers,
  the jobs ever asked for are finitely many, workers are not callbacks, `NoJob` is not a
  job; any users, requests, workers and callbacks, and any number of deaths.
* `Workflow`: the steps are numbered, a plan contains what its steps need, and `NoPlan` is
  none; any kinds, gates, plans, requests and workers, and any number of deaths.
* `ScheduledPosts`: `NoPost` is not a post, the bounds are numbers; any posts and workers.
* `UsageWindows` (`UsageAssumption`): finitely many jobs; prices, limits and the grant are
  numbers; windows, month and multiplier are positive. `CreditsFollow` needs a multiplier
  of at least 100 percent, `WindowsOvershoot` that there is a job.
* `Payments` (`PackAssumption`): credits and price of a pack are positive, savings and
  spending are numbers; any handlers, finitely many for `RowNeverLeads`.
* `Membership` (`MembershipAssumption`): numbered subscriptions, finitely many for
  `MailedOnce`; any handlers. `OpenCap` (`CapAssumption`): finitely many requests and keys,
  any cap.
* `Money` (`MoneyAssumption`): the four above at once, with finite sets of whatever is
  counted, a multiplier of at least 100 percent and a job.
* `Timeline` (`TimelineAssumption`): any tracks, ids, looks, speeds and lengths; sources
  are positive, and an entrance is there or not.
* The other parts of `Making` (`PartsAssumption`): a link lives longer than the period of
  the refresh and a project has no more files than one request signs, finitely many; zones
  lie within twice the reach of the times chosen, with and without a change of the clock,
  and there may be none; a spoken word lasts, and a clip plays some of its source; a face and a voice are among the slots; the drafts listed are
  jobs; the marks of no link, no group and no draft are none; the sign-in lets someone in
  and its window lasts.
* `Editor`: any projects, edit keys and positive limit. The other parts of `Saving`
  (`PartsAssumption`): the marks of no project and no save are none, versions begin at 1, a
  video has a frame and a dialog a key, and the address of a post is not a term.
* The parts of `Watching` (`PartsAssumption`): bounds are numbers; an empty prompt is a
  prompt, there is a key to start under, the first video of a project is paid for already,
  and a look comes with a start.

TLC evaluates each of them on its instance.

| Theorem | Module | Says |
|---|---|---|
| `TypeCorrect` | `JobPipeline_proofs` | `Spec => []TypeOK`; above all no balance falls below zero |
| `SubmitInvariant` | `JobPipeline_proofs` | `Spec => []SubmitInv` |
| `OneTaskPerJob` | `JobPipeline_proofs` | `Spec => []SubmittedOnce` |
| `OnlyWhatWasMade` | `JobPipeline_proofs` | `Spec => []DeliveredWhatWasMade` |
| `LedgerInvariant` | `JobPipeline_proofs` | `Spec => []LedgerInv` |
| `ChargesFollowOutcome` | `JobPipeline_proofs` | `Spec => []ClosedAsEnded` |
| `OutcomesAreFinal` | `JobPipeline_proofs` | `Spec => FinalIsFinal` |
| `NoCreditIsLost` | `JobPipeline_proofs` | `Spec => []CreditsConserved` |
| `ImplementsPaidWork` | `JobPipeline_proofs` | `Spec => KeepsPromise`: the pipeline refines `PaidWork` |
| `TypeCorrect` | `Workflow_proofs` | `Spec => []TypeOK` |
| `WorkflowInvariant` | `Workflow_proofs` | `Spec => []WorkflowInv` |
| `KeyedStartOnce` | `Workflow_proofs` | `Spec => []KeyedStartsOnce` |
| `WorkStartsInOrder` | `Workflow_proofs` | `Spec => []StartsInOrder` |
| `EndsWhole` | `Workflow_proofs` | `Spec => []EndIsWhole` |
| `EndsAreFinal` | `Workflow_proofs` | `Spec => EndIsFinal` |
| `PostsTypeCorrect` | `ScheduledPosts_proofs` | `Spec => []TypeOK` |
| `PostsInvariant` | `ScheduledPosts_proofs` | `Spec => [](TypeOK /\ PostsInv)` |
| `CancelledStaysUnsent` | `ScheduledPosts_proofs` | `Spec => []CancelledIsNotSent` |
| `MarkComesFirst` | `ScheduledPosts_proofs` | `Spec => []MarkedBeforeSent` |
| `SentAtMostOnce` | `ScheduledPosts_proofs` | `Spec => []SentOnceUnmoved` |
| `TimesAreKept` | `ScheduledPosts_proofs` | `Spec => WaitsForItsTime` |
| `EndsAreFinal` | `ScheduledPosts_proofs` | `Spec => EndIsFinal` |
| `UsageInvariant` | `Money_proofs` | `Spec => []UsageInv` |
| `ChargesAddUp` | `Money_proofs` | `Spec => [](CreditsAddUp /\ WindowsAddUp)` |
| `CreditsFollow` | `Money_proofs` | `Spec => []CreditsFollowOutcome` |
| `PointsFollow` | `Money_proofs` | `Spec => []PointsFollowOutcome` |
| `WindowsOvershoot` | `Money_proofs` | `Spec => []WindowsOvershootOnce` |
| `OverageUnderCap` | `Money_proofs` | `Spec => []OverageStaysUnderCap` |
| `DayLimitKept` | `Money_proofs` | `Spec => ChargedUnderTheDay` |
| `PacksAreAddedOnce` | `Money_proofs` | `Spec => [](TypeOK /\ PackIsAddedOnce)` |
| `RefundsTakeTheirShare` | `Money_proofs` | `Spec => []RefundTakesItsShare` |
| `RowNeverLeads` | `Money_proofs` | `Spec => []NeverSaysTooMuch` |
| `RefundsAreFinal` | `Money_proofs` | `Spec => RefundedStays` |
| `PayingIsPro` | `Money_proofs` | `Spec => [](TypeOK /\ WhoPaysIsPro)` of `Membership` |
| `MailedOnce` | `Money_proofs` | `Spec => []NoMailTwice` of `Membership` |
| `CapsPassedOnlyTogether` | `Money_proofs` | `Spec => [](TypeOK /\ PassedOnlyTogether)` of `OpenCap` |
| `MoneyTypeCorrect` | `Money_proofs` | `MoneySpec => []AllTypes` |
| `MoneyIsAccountedFor` | `Money_proofs` | `MoneySpec => []MoneyAddsUp` |
| `LimitsAreKept` | `Money_proofs` | `MoneySpec => PlansAndLimitsHold` |
| `EditKeepsWellFormed` | `Making_proofs` | each of the timeline's edits takes a well-formed project to a well-formed one |
| `FilmStaysWellFormed` | `Making_proofs` | `Spec => []StaysWellFormed` of `Timeline` |
| `FilmIsKept` | `Making_proofs` | `Spec => []EditsKeepTheFilm`: what the operations do to what is shown |
| `FilesStayPlayable` | `Making_proofs` | `Media`: files resolve to live links |
| `TimesReadBack` | `Making_proofs` | `WallClock`: chosen times read back, skipped ones are the later reading east of Greenwich |
| `CaptionsHoldTheWords` | `Making_proofs` | `Captions`: every word in one caption, overlaps and holds |
| `GroupsKeepTheirFiles` | `Making_proofs` | `AvatarPack`: no filled slot is emptied unseen |
| `OnePriceOneVideo` | `Making_proofs` | `VideoSetup`: the price is of the request, and buys one video |
| `StudiesAreOfTheLinkShown` | `Making_proofs` | `LinkStudy`: analyses and scripts are of the link on screen, late results are dropped, and errors are of the screen but for the one late refusal |
| `AttemptsAreBounded` | `Making_proofs` | `SignIn`: attempts in any window, refusals, where one lands |
| `RowsDoNoHarm` | `Making_proofs` | `PostRow`: a stale row moves and cancels nothing that is going out |
| `MakingTypeCorrect` | `Making_proofs` | `MakingSpec => []AllTypes` |
| `MakingKeepsTheFilm` | `Making_proofs` | `MakingSpec => []EditsKeepTheFilm` |
| `MakingTimesComeOut` | `Making_proofs` | `MakingSpec => []TimesComeOutAsMeant` |
| `MakingPaysForWhatWasShown` | `Making_proofs` | `MakingSpec => []PaidForWhatWasShown` |
| `ScreensDoKeepUp` | `Making_proofs` | `MakingSpec => ScreensKeepUp` |
| `SignInKeepsWord` | `Making_proofs` | `MakingSpec => SignInKeepsItsWord` |
| `HistoryStaysBounded` | `Saving_proofs` | `Spec => [](TypeOK /\ HistoryBounded)` of `Editor` |
| `ImplementsUndoLog` | `Saving_proofs` | `Spec => KeepsUndoPromise` if `Interrupts` is FALSE |
| `SavedIsStored` | `Saving_proofs` | `Autosave`: `SavedMeansStored`, `OverwritesOnlyAfterCrossing` |
| `PostedOnce` | `Saving_proofs` | `Posting`: `AtMostOneUntold` |
| `NewestIsShown` | `Saving_proofs` | `Search`: `ResultsAreOfTheNewest`, `ToggleAgrees`, `OnlyLateAnswersArePaidAgain`, `HistoryIsStored` |
| `SavingTypeCorrect` | `Saving_proofs` | `SavingSpec => []AllTypes` |
| `WorkStaysKept` | `Saving_proofs` | `SavingSpec => []WorkIsKept` |
| `SearchesShowTheNewest` | `Saving_proofs` | `SavingSpec => []NewestSearchIsShown` |
| `SavingKeepsTheLog` | `Saving_proofs` | `SavingSpec => KeepsUndoPromise` if `Interrupts` is FALSE |
| `PlaybackKeepsItsWord` | `Watching_proofs` | `Playback`: `RenewalDoesNotInterrupt` |
| `RecorderKeepsItsWord` | `Watching_proofs` | `TwinRecorder`: `NoCameraLeft`, `HandedOnAsCounted` |
| `FollowingKeepsItsWord` | `Watching_proofs` | `JobFollow`: `AtMostOneUnseen` |
| `GenerationKeepsItsWord` | `Watching_proofs` | `Generation`: `NoVideoTwice`, `PaidAgainOnlyForAFailure` |
| `AssistantKeepsItsWord` | `Watching_proofs` | `Assistant`: `SkippedIsNeverMade`, `CardTellsTheTruth` |
| `AvatarPanelKeepsItsWord` | `Watching_proofs` | `AvatarClip`: `OneAtATime`, `AddedIsThere`, `ClosedPanelIsNotFollowed` |
| `WatchingTypeCorrect` | `Watching_proofs` | `WatchingSpec => []AllTypes` |
| `WatchingPaysOnce` | `Watching_proofs` | `WatchingSpec => NothingIsPaidTwice` |
| `WatchingTellsTheTruth` | `Watching_proofs` | `WatchingSpec => WhatIsSaidIsSo` |

So every invariant and action property that a run checks is proved of the very
specification the run checks; the properties that ask for something to happen are left to
TLC.

*Why a proof of a part is one of the whole.* The parts of a composite share no variable.
A step of the composite is therefore, for each part, a step of that part or one that
leaves its variables alone, and a behaviour of the composite is a behaviour of every part
(`PartsRun`). A property of the composite follows from what each part always keeps,
whether or not the screen shows it. The bounds of a run (`Orderly`, `Enough`), where it
starts (`Start`) and its fairness only take behaviours away.

*Why a job is submitted once.* `SubmittedOnce` is not inductive: it does not say why
the worker about to call the provider is the only one. `SubmitInv` does. A handler that
may still call (`InSubmit`) works on a row without a task, whose lease has not run out,
and is alone on that row; a row that may be claimed and has no task is handled by
nobody; and a task that was paid for has left its mark, so the next worker takes another
branch. The lease outlasting the handler (`HandleTimeout < Lease`) is what makes it
inductive, and the mutated lease that does not breaks it under TLC.

*Why charges follow outcomes.* `LedgerInv` ties what is closed to how the row ended,
says that a handler about to close a charge works on a row that has ended, that a request
about to reserve has a row, and that a reservation is the job's price or nothing. With
`OutcomesAreFinal`, an ended row cannot later contradict a closed charge.

*Why the pipeline keeps its promise.* `PaidWork` knows four phases of a piece of work,
whether the provider was paid, and four states of a charge; `JobPromise` reads them off the
row, the provider and the ledger's two keys. A step maps to the one step of the promise
its statement is for, or to none: an update of a row accepts, delivers or fails the work
(`RowKeepsPromise`), a reservation charges it, a submission spends, a closing keeps
or returns. That the promise allows it at that moment is what the two invariants say: the
work is delivered only when it was paid for (`SubmitInv`), and a charge is closed only
when the row ended, the way it ended (`LedgerInv`).

*Why sums can be proved.* `CreditsConserved`, the windows, the day and what the handlers
of a refund have still to add are sums over jobs or handlers, folds whose
meaning takes induction over a set. `Sums` shows that the fold counts the units below
`f[x]`, a set, by looking at the smallest set on which fold and count would differ
(`Smallest`, which the library's well-foundedness of finite subsets gives without an
operator as parameter). After that a sum changes by what one of its values changes
(`SumChange`), and that is all the proofs of the modules use.

*Why a workflow ends whole.* The rows of steps are read once per pass and overwritten by
whoever comes later, so no property of them is inductive alone. `WorkflowInv` builds on
what cannot be undone: records only grow, and a row only names a record that there is
(`WorkInv`), so whoever read that a step is completed may rely on it. The lease keeps
passes apart but for the pair that the transition to running lets in (`LeaseInv`); of that
pair the later reader has seen every failure the other wrote (`PassInv`). So a step that is
skipped while the workflow runs belongs to a pass about to fail it (`SkipInv`), and
the pass that completes a workflow has read every step of the plan completed.

*Why posts keep what the user was told.* `PostsInv` has two halves. The first holds
whatever the user does: the mark is never taken back, so a cancelled post never had one;
a worker that sends has marked its row; an ended row has no next run. The second holds
while nothing is moved: a worker's row is leased and the worker alone on it, so what it
has read of the mark is what the row says, and whoever sends found none. A move is what
ends the second half, and `posts_twice` shows what then happens.

*Why usage adds up.* A step is safe because of what the tables hold for the one job it is
about, so `UsageInv` has two layers. `ChargeInv` and `EndInv` say of each job, whatever
the others do, what its ledger entries and its event are at each place of its charge and
of its end. `CreditsAddUp`, `WindowInv`, `OverageInv` and `DayInv` say what the sums
are, and each step changes a sum by what it does to its job. A window is passed by one
charge at the most because a charge is refused once it is full. While charges come one by
one at most one has read the overage or the day and not yet written (`OnePending`), so
there is still room for it. A refund counts for the day it comes in, so the sum the code
compares forgets charges that left the day and not their refunds; `DayInv` is therefore
stated of what the day's charges took less all that ever came back (`Outlay`), which no
passing of time makes larger.

*Why the history is an undo log.* The refinement maps the store to the list
`past \o <<Standing>> \o future` and the place `Len(past) + 1`, where a person in the
middle of a drag still stands on the project it began from. The lemmas say how such a
list is cut: a commit appends to the past and to the list and both forget the same oldest
entry (`CommitAdds`), undo and redo leave the list as it is (`BackLog`, `ForwardLog`), a
merge amends it in place (`AmendLog`). `HistoryStaysBounded` is the reason `redo` may put
an entry back without cutting the past, and holds with interrupted drags too.

*Why a refund takes its share.* The code reads what was removed, works out what is still
to go, takes it under a key that names the cents returned, and then adds it to the row, so
a repeat is harmless only if the row already says what the ledger holds. `RefundInv` says
when it does: while nothing strayed, at most one refund is under way, and ledger and row
differ by exactly what that handler has still to write. Whatever strays, the row with what
all handlers have still to add to it is at most what the ledger took (`LagInv`), so it
never says more.

*Why who pays is Pro.* In order means one by one: a request under way holds the message
that counts as handled (`InOrder`), so once none is under way the row says what the last
message said (`RowFollows`); and while no subscription is taken out beside a live one, the
last message is about the only one that may be live and says how it stands (`LastTells`).
The mails need one more thing, since a request may save and fail before its mail:
each mail that went out is one that a message handled to the end was about
(`MailsFollow`), and a subscription has one checkout (`CheckoutOnce`).

*Why a cap is passed only together.* A request that has counted holds one of the rows the
cap had room for, or counted beside another; storing turns a count into a row, and
everything else gives one up (`CapInv`).

The step proofs go action by action; actions that leave a part of the state alone are
grouped under one lemma on what stays unchanged.

*Why edits keep the film.* Well-formedness is a conjunction over the items of a track and
over pairs of them, so an edit of one item needs to be looked at only next to each other
item (`OneTrack`): split keeps both halves inside the old item, a trim or a speed stays
within the source and before the next item, a ripple moves all later ones by as much. What
an edit does to what is shown (`Shown`) is a fact about the items it changes, and
holds of every well-formed project.

*Why files, groups and forms keep up.* A link outlives the timer that renews it, whatever
was asked between (`Outlives`). An upload writes all slots of a group from a copy; the
copy covers what the server has (`Covers`) until another upload lands, and before the next
write from it, it is read again (`Sighted`). A price that is shown or asked for is of the
request the form would send (`PricesInv`), and a form that starts a video has nothing left
that starts another (`OneVideo`). What is asked about a link is cancelled when the
link is left, so what is alive is about the link on screen and brings what the screen
lacks (`TasksInv`, `ShownInv`).

*Why attempts are bounded.* Attempts let in are numbered within their window (`Tries`).
Those of the last `Window` of time are of two windows at most; the first attempt of the
older one is as old as that window and so not among them (`InPlace`), which leaves fewer
than twice the limit.

*Why captions hold the words.* `captionsFromWords` goes over the words twice, to cut them
to the clip and to group them. Each pass is written as a function on the number of words
gone over. That there is such a function (`FoldedOver`), and that what holds at first and
stays true with each word holds at the end (`Climbed`), takes induction; `Climbed` has it
from the library's well-foundedness of finite subsets, for a set of numbers in place of an
operator. What stays true of the first pass is that words come in turn (`InTurn`), and of
the second that phrases do, that none is empty and that laid end to end they are the words
so far (`Phrased`, `PhrasesInTurn`). The captions' times are then arithmetic on one phrase
and the next (`CaptionFits`).

*Why saved is stored.* A save replaces what it was made from, since the server compares
versions. So it is enough that the page has seen what the store was made from and
what every save on its way was made from (`PageHasSeen`, `FlightsSeen`). An answer that is
recorded on another project is what ends it, and the property says so.

*Why an export is posted once.* The form's key is drawn anew only together with an answer
that tells how the post went. So a post nobody was told of has the key of the form, and
pressing again sends it under that key (`AtMostOneUntold`, which needs only that what is
under way has a place to go to and a key after its own, `SendHasPlace`).

*Why the newest search is shown.* Each ticket is one search, and the newest is what was
asked for last (`TicketsAre`). While its answer is due, what is on screen will be replaced;
otherwise the screen is its (`ScreenIs`). An answer that was applied is kept for the session
(`AppliedAreKept`), so it is not asked for again. The history has nothing twice, and taking a
search out of it and putting it first keeps that. The proof counts positions, which is why
`Without` numbers those that stay instead of naming the library's filter.

*Why waiting tells the truth.* Each part has one fact about who may still act. Of the
recorder: what runs or is due is of the newest request (`OfTheNewest`), and the seconds
shown are what its recorder has (`Counted`). Of a followed job: a start under way is under
the form's key, and so is the job on screen until a late answer is noted (`OfTheKey`). Of a
project's video: an opening that is yet to come waits for nothing, jobs are made in order
(`InOrder`), what a watcher waits for is of the job it shows (`CallsAre`, `ViewIs`), and no
project, open or stored, has a video on its timeline twice (`ClipsAre`). Of the assistant:
a message has no scene until it is proposed (`Unproposed`), and a closed panel's cards are
gone (`CardsAre`). Of the avatar panel: all presses of one opening but one are over
(`OneUnderWay`), and one that can still be seen is about the project on screen (`MadeHere`).

*Only model-checked:* the properties that ask for something to happen (`EveryJobAndChargeEnds`,
`EveryPostEnds`, `ApprovedEnds`, `WaitingEnds`, `WhatIsBegunEnds`), which need fairness and
`ENABLED`. The four disagreements are counterexamples, and need no proof.

## What is abstracted or left out

* The words of a transcript come one after the other, as a speech service reports them.
* Captions, prompts, files, messages and errors: an outcome of a call is a choice between
  success, failure for now and failure for good. A look, a volume or a style of an item is
  one value.
* Time: a lease runs out when its holder is done or dead; retry delays are not measured.
  Ages, due times, timers and deadlines come about nondeterministically.
* The ledger of `JobPipeline` is the credits path; the other ways of charging are in
  `UsageWindows`, where a job is its charge and its end. The mail about a full window, the
  admin's grants and the reports over the ledger are left out. `Membership` leaves out the
  period's end with its days of grace, and invoices.
* `OpenCap` has one row for what each kind of work stores; a workflow counts as open once
  it is routed.
* `Workflow` leaves out the planner's text, the validation of plans and argument references.
* Small differences that no property turns on. On the server: a failing close of an unfunded
  job is in `JobPipeline` and not in `UsageWindows` (`Refuse`, `jobs/service.go:94`);
  Stripe's status "incomplete" is no state of `Membership`; the five seconds by which a post
  may be early (`publish/processor.go:122`) are no time of `ScheduledPosts`. In the client:
  a renewal resolves the files of a project or none (`Media`); the moment between the
  answer to a start and the button's release (`step-review.tsx:107`) is part of the answer
  (`VideoSetup`); creating a group is not modelled (`AvatarPack`); the state that the
  project stores of its generation, its placing error and a push after a failed one are
  one with the watcher's (`Generation`); ticks stop at the limit, where the code's counter may
  pass it before the recorder stops, and listing the devices does not fail (`TwinRecorder`).
* Drawing, encoding and styling in the browser; the identity provider behind sign-in.
* Code no page mounts: `features/workflows`, the conversation panels, the avatar grid,
  list, wizard and phone handoff, `use-event-socket.ts`. `JobFollow` maps the panel of
  avatar videos beside the job following they share, and says so.

### Not modelled

`PROJECT.json` gives the reason for each component. On the server these are the avatar
and discovery processors, whose leased rows repeat the pipeline's pattern with weaker
keys; chat and purge, which are messages and requests over single rows; token renewal; and the
realtime hub. In the client, the dashboard, admin, blog and marketing pages show what the
API returns.

## Plan

The core of the server (jobs, posts, workflows, money) and the client's parts that keep
state of their own are modelled. What is left, in order:

1. `Discovery` (its run is started before it is recorded) and `AvatarVideo` (a paid call
   under a key), each with the lease that is shorter than its handler.
2. `Chat` (one answer per message, told of jobs that end), `Avatars` with `Purge`
   (deletion while training), `SocialTokens` (renewal by two posts at once), and
   `RealtimeHub`.
