# TLA+ verification of SSC-PREP

SSC-PREP is an exam-preparation service: a NestJS / Prisma / PostgreSQL backend
(`src/backend`) and a Next.js frontend (`src/frontend`).  Students take timed tests, buy premium,
and earn a commission when a friend they referred buys; admins fill the question bank from
spreadsheets.  This directory models the parts in which order, retries, crashes and races decide
whether students keep their answers, their premium time, their money and their login, and whether
the bank keeps its questions.  Six groups of modules do so:

| group | what it models | abstract specification | proofs |
|---|---|---|---|
| `Withdrawal` | Refer & Earn withdrawals, admins, the status job, Cashfree payouts | `PayoutLedger` | `WithdrawalProofs` |
| `Attempt`, `ExamPage` | one timed attempt on the server; the exam page and its submit queue in front of it | `AttemptOutcome` | `AttemptProofs`, `AttemptReviewProofs`, `ExamPageProofs` |
| `Purchase` | payments, fulfilment, subscription time | `PlanLedger` | `PurchaseProofs` |
| `ReferralEarning` | commissions: entering a code, booking, hold, release, reversal, milestones | `CommissionLedger` | `ReferralProofs` |
| `Session` | login, refresh, logout, password change and suspension; the tabs of a browser | - | `SessionProofs` |
| `DuplicateReview` | an upload into the question bank, the queue of duplicates, decisions, undo, scan | - | `DuplicateProofs` |

Run `tlc -config <cfg> <MC module>` for a run of the table below and `tlapm <module>` for a proof
module.

## Inventory

Components of the program, with the state they keep and what is hard about them.
Backend paths are under `src/backend/src`.

**Attempts** (`tests/tests.service.ts`, `tests/attempt-sweeper.service.ts`,
`common/attempt-status.ts`).  State: a `test_attempts` row (status, totals, `submittedAt`,
`expiresAt`, the list of questions) and `attempt_answers` rows.  Operations: start (resume-first,
spends a free use), autosave, submit, the sweeper of abandoned attempts (timer), re-score after a
corrected answer key.  A submit reads, scores, claims by a conditional update, writes its rows in
parallel and puts the attempt back when one fails.  Hard: duplicate submits, autosaves in flight
during a submit, crash between claim and rows, the sweeper racing a late submit that was queued
offline.  Correct when: one submit wins, the review agrees with the score, XP is given once, what
the student submitted in time is what is scored.

**Exam page** (`frontend/src/app/test/page.tsx`, `lib/submit-queue.ts`,
`components/AppStatus.tsx`).  State: the sheet, the draft in local storage, what the server is
believed to hold, the queue of unsent submits.  It calls autosave and submit over a network that
loses requests and replies, and replays the queue from two places.  Correct when: nothing the
student submitted is forgotten by the device before the server has it for good.

**Withdrawals** (`referral/withdrawal.service.ts`, `payout.service.ts`, `withdrawal.util.ts`, half
of `referral.service.ts`).  State: `withdrawal_requests` and `referral_wallets`, and Cashfree's own
transfers.  Students request and cancel, admins approve, pay, record, reject; a job asks Cashfree
about every PROCESSING row.  Hard: two admins or admin and job on one row, answers that never
come, requests that arrive late, a suspension in the middle.  Correct when: every rupee is in the
balance, in the one open request or paid out, once.

**Referral earnings** (`referral/referral.service.ts`).  State: referral, earning
(PENDING / AVAILABLE / REVERSED), wallet, milestone flags.  A paid purchase credits a commission
on hold, a timer releases it, a refund takes it back, milestones give premium time.  Hard: refund
racing release, two purchases racing a milestone, crashes between claim and reward.

**Payments and subscriptions** (`monetization/monetization.service.ts`,
`subscription.util.ts`, `pricing.util.ts`).  State: payments, subscriptions, coupons.  An order is
settled by the browser's verify, by webhooks or by a job every five minutes; fulfilment is one
transaction; gifts and rewards use the same helper without one.  Hard: all of them at once,
webhooks late, lost or repeated, two grants at once.  Correct when: a payment grants exactly once,
and no paid day is lost.

**Login and codes** (`auth/auth.service.ts`, `auth/otp.service.ts`, `common/guards/jwt-auth.guard.ts`;
in the browser `lib/api.ts`, `lib/session-cache.ts`).  State: device sessions, refresh tokens with
rotation and a grace of a minute, the pair in a browser's local storage, codes and counters in
Redis.  Hard: concurrent logins, several tabs that refresh one pair, refresh racing logout, a lost
answer to a refresh, two verifications of one code.  Correct when: one active device per platform,
a suspended account has no session, a device stays signed in until it is told otherwise and stays
out after a logout, a code is used once.

**Daily quiz and XP** (`quiz`, `gamification`): claim patterns of one row each (submittedAt,
lastPracticeDate).  **Section plans and marking** (`common/section-plan.ts`, `common/marking.ts`):
pure functions of time and question.

**Question bank** (`bank/*`, 16 000 lines): an upload is parsed, validated and saved in chunks by a
job that lives in memory; a row that the bank or the sheet already has is queued as a duplicate
review; admins and the auto-publish job decide reviews (keep the old one, the new one, both), take
a decision back, and scan the bank for copies.  State: questions, reviews, the job.  Nothing is in
a transaction.  Hard: a statement that fails or loses its answer in the middle, a restart, two
admins on one review, decisions on reviews an upload is still linking.  Correct when: no row of a
sheet is lost, none is live twice, and no decision hides the last copy.

The other components - catalogue and test composition, ranks, explanations, solver, review
scheduling, weak topics, vocabulary, study plan, bookmarks, chat, help desk, notifications, push,
Telegram, admin pages, staff permissions, analytics, PDF, search, storage, the remaining frontend
pages, deployment - keep records that one request changes at a time, or compute and format.  They
are listed in `PROJECT.json` with the reason why they are not modelled.

How the modelled components meet: `ExamPage` extends `Attempt` and drives it through the requests
`SubmitArrives` and `SaveArrives`.  Purchase tells the referral service of a payment (`Refer`, at
most once); this is the `Pay` and `CreditRead` of ReferralEarning, which also allows a repeated
report.  Its milestones are `Gift`s of Purchase, and what it released is the `Credit` that
Withdrawal starts from: Withdrawal looks at the requests closely and takes the released money as
given, ReferralEarning looks at the commissions closely and lets a withdrawal end in one step
(`Settle`); both use the same columns of the wallet.  Session and DuplicateReview stand alone.

## Withdrawal

A database transaction is one step; everything a handler reads before it and every call to
Cashfree is a step of its own.  `handler[p]` is what an admin request or the status job has read:
the row's id, the number of the send it believes to be under way (`processedAt`), the answer of
Cashfree.  Each admin action is a read (`ApproveRead`, `PayRead`, ...: the guards of the handler)
followed by a conditional update (`ApproveClaim`, `PayClaim`, ...).  `FinishPaid` and
`FinishRefund` are the two transactions that end a request.  `Tick`, `TickNext`, `Lookup`,
`NotFound`, `ApplySnapshot` are the job.  The environment is `wire` (create-transfer requests that
may still arrive or get lost), `transfer` (Cashfree's record), `Age` (a send becomes older than
`NEVER_REACHED_AFTER_MS`), `SetFrozen` (suspension), `Crash` and `GiveUp`.  Rupees are whole; bank
details, the masking and formatting of them, notifications and the audit log are left out.

`PayoutLedger` says what all this is for: the amount leaves the balance when a request is opened
and is then either paid or returned, once.

## Attempt and ExamPage

`handler[h]` is one request: `pc` says which database call is next, the other fields are what it
has read or computed.  A submit goes `submit -> merge -> claim -> write -> (undo)`, an autosave
`save -> saveRow`, the sweeper starts at `sweep` with `mode = "auto"`.  The parallel upserts of a
submit are separate steps; when one fails the attempt is put back (`Undo`) while the others are
still on their way (`stray`).  `settled` and `xp` count the calls the winner makes after its rows
are written.  `disturbed` remembers that another writer touched the rows after the winner had read
them, or that it died: the code makes no promise about the review then, see the findings.

`ExamPage` adds the device.  `Submit`/`SubmitOk`/`SubmitFailed`/`SubmitLost` are the call and its
three outcomes, `Flush*` the replay of the queue (one at a time, started by the waiting page or by
`AppStatus`; `JoinFlush` is the page getting the promise of a replay that already runs),
`Autosave`/`SaveReply`/`SaveLost` the debounced autosave, `Leave`/`Resume`/`ResumeOffline` closing
the tab and coming back.  A reload asks for the running attempt, lays the draft over its answers and
then blanks the sheet before it shows it (`Open`): see the findings.  `chosen` remembers what the
student chose last, `wiped` that a reload took answers off the sheet, `pressed` what was chosen at
each submit.

Left out: strict section plans, different marks per subject (with one rule the three totals fix
the score), `tabSwitches` and `lastSyncAt`, questions deleted meanwhile, replies 401 and 429.
`now` is read in the same step as the status.

`AttemptOutcome` is the promise: running, won by one submit with one result, given back if its
rows cannot be written, final afterwards, effects at most once.

## Purchase

The payments of one student, all for plans.  PostgreSQL runs at READ COMMITTED: a transaction of a
fulfilment is the steps `Claim, ReadCurrent, CloseOthers, Overwrite, Create`; what it wrote shows
at `Create` (its commit), and until then it holds the row lock of its payment (`Claimed`) and,
from `Overwrite` on, those of the subscriptions it closes.  An update picks its rows when it
starts (`CloseOthers`), waits for locks and looks at its condition again (`Overwrite`).  A gift
does the same steps outside a transaction: its writes show at once.  `Fault` rolls an open
transaction back and leaves what a gift has written.  Cashfree is `order` (active, paid, expired)
and `hooks` (webhooks not yet answered 200).  `owed` adds up what the student paid for or was
given; `disturbed` remembers that two grants overlapped or a gift died half way.

`PlanLedger` is the promise that holds even then: a period is granted once, in one step with the
SUCCESS of its payment, for money that Cashfree has (or nothing to pay, or as a gift); it starts
today or where an earlier period ends, and has its full length; its end is never moved; a row is
closed when it has lapsed or for a new grant, and not opened again; the referral service is told once.

Left out: prices, offers, coupons, amount and signature checks, purchases of chapters, mocks and
vocabulary (upserts of one row in the same transaction), refunds (they end in the referral
service), an admin who cancels a plan or uses `users/bulk-subscription` (which does not go through the
helper, see the findings), other students, and with them the job's limit of fifty payments a round,
oldest first (`take: 50`), behind which a payment may have to wait.  A month does not end during a grant (`Tick`).

## ReferralEarning

A handler reads (`CreditRead`, `ApproveRead`, `ReverseRead`, `RefundHook`, `Tick`,
`ReleaseUserNow`, `RequestWithdrawal`, ...) and then writes in one statement or one transaction
(`Book`, `ReleaseOne`, `TakeBack`, `Draw`, ...).  `stage`, `hold`, `owner`, `amount` are a row of
`referral_earnings`; `pending`, `balance`, `total` the columns of the wallet; `refStatus` and
`purchases` a row of `referrals`.  A release walks the rows it has listed, one conditional update
each, and takes another row's change as it finds it (`Unchanged`).  A reversal that meets a row
that was released after it was read writes nothing and answers 200 (`TooLate`), as the code does.
The milestones are the steps `MilestoneRead, ClaimMonth, Reward, GrantMonth` and `UpgradeRead,
GrantUpgrade, NoteUpgrade`.  `missed` remembers the refunds that were answered before their
commission was booked or while it was being released, `demoted` the referrals whose `REWARDED` was
overwritten by a purchase that had read them before, `doubted` the referrers for whom a six-month
upgrade was looked for while another purchase was granting it, or died between grant and note.

`CommissionLedger` is the promise: a commission is booked once, on hold or withdrawable, is
released at most once and taken back at most once, and exactly its amount moves in the wallet.

Left out: the switch `cfg.enabled`, `setWithdrawRule`, `getOrCreateCode`, a plan that is gone, the
suspension of the account, the welcome discount, notifications, reports; amounts are whole rupees.

## Session

One student on one platform.  The server's rows are `opened`/`active` (device sessions) and
`issued`/`sess`/`revoked` (refresh tokens; `revoked` is "no", "recent" within the grace of a
minute, "old" after it); a browser's local storage is `store`.  A request runs through its database
statements one by one: refresh is `RefreshCheck, RefreshRotate, RefreshIssue` and then, in the
browser, `Refreshed` or `Denied` (which looks whether another tab has replaced the pair:
`Replaced`); login is `LoginFind, LoginClose, LoginOpen, LoginPair, LoggedIn`; a logout wipes the
browser at once (`LogoutStart`) and tells the server afterwards; a password change revokes the
tokens and closes the sessions.  `GraceEnds` is the minute, `Fail` a lost request or answer.  The
ghosts name what the code does not promise: `overlapped` two logins at once, `passed` a login that
was under way when the account was suspended, `excused` a device that learned of its new pair too
late or never, `stray` a device that logged out during a refresh.

Left out: sign-up, Google, reset by code, several platforms, expiry after thirty days, the Redis
registry of live devices, deletion of the account.

## DuplicateReview

The copies of one question.  `Sheet[u]` is what an upload has of it, row by row, `Sheet[Bank]` what
was there; `question` and `review` are the two tables by age.  A chunk of an upload goes through
`Index` (the duplicate check), `ReadPrior`, `QueueMany` / `QueueEach` or `QueueInFile`, `Commit` /
`CommitSingle`, and `LinkFind, LinkSet / LinkMake, LinkDrop` for each review of a later row.  A
request decides (`ResolveRead, ResolveClaim, Make, Hide, Remember / Publish, PutBack`), takes a
decision back (`UndoRead, UndoClaim, UndoHide, UndoRestore, Forget, PutBack`) or scans
(`ScanRows, ScanPrior, ScanQueue`).  Every statement may fail, or go through and lose its answer
(`Fault`), and the process may die (`Crash`).  `cut` remembers the rows whose decision was cut off
between its claim and its save; `crossed` that two requests, or a request and the link loop, worked on one review at the same time,
or that a copy was brought back which is not the one the decision on its row has saved; `stale` that a copy was hidden although no other was live.

Left out: parsing and validation, several questions (nothing relates two), rows with embedded
images (queued one by one), more than one chunk, deleting a batch, editing by hand in the Question
Manager, approval flags, the marks and waiting time of the auto-publish job (its decisions are
those of a worker), the half hour in which an undo without a note looks for its copy (the model
takes any copy of the sheet), audit, caches and PYQ mocks.

## Runs

| run | shows |
|---|---|
| `withdrawal_race` | Two withdrawals of one student, an admin and the status job, lost and late calls, crashes: money is conserved (`WalletConserved`), one open request (`OneOpenRequest`), the code implements `PayoutLedger`; with the job running, no row stays PROCESSING (`ProcessingSettles`, liveness); the rows agree with Cashfree (nothing that was or may still be sent is refunded, a row with Cashfree's UTR was paid) unless a call judged a later send by an earlier one (`AgreesIfLatestJudged`); a UTR typed by an admin is recorded once. |
| `attempt_race` | Two requests at a time over a two-question paper, one fault: effects once, sweeper late enough, undisturbed review adds up, implements `AttemptOutcome`, and so stays finished for good. |
| `attempt_scored` | Liveness: an attempt with a saved answer is scored in the end, up to two faults. |
| `page_offline` | The page over a lossy network with a reload: what the device was told is stored as long as no write fails, and the score is that of what the student had chosen when submitting, unless a reload had blanked the sheet (`RealResult`). |
| `page_told` | Violation of `ToldIsStored` when one row write fails: a replay is told "already submitted" of a submit that is then put back. |
| `page_reload` | Violation of `AnswersKept`: after a reload an answer is neither on the page nor with the server. |
| `page_queue_delivered` | Liveness: a queued submit leaves the queue. |
| `purchase_settles` | A paid order, a free order, a gift, two faults: `GrantedIffPaid`, `ToldOnce`, `UndisturbedTimeKept`, the code implements `PlanLedger` (`PlanSpec`), and `PendingIsSettled` (liveness). |
| `purchase_time` | Violation of `PaidTimeKept`: two orders fulfilled at once, both from today. |
| `referral_wallet` | Two purchases of a referred friend, one flagged, a refund, releases, admin buttons, a withdrawal, one fault: the wallet is the sum of the commissions, friends are counted, the free month comes once, the six-month upgrade too up to the overlap or crash `doubted` names, a refund takes its commission back, a flagged commission waits, and the code implements `CommissionLedger`. |
| `session_tabs` | Two tabs of one browser and a second device: one session, a suspended account stays out, a signed-in device keeps its tokens, a logout sticks - each up to the overlap the ghost names. |
| `review_queue` | Two uploads with three rows of one question, two requests, three events: no row is lost (`RowKept`); while nothing failed and nobody got in another's way, none is live twice (`RowOnce`) and the last copy stays (`LastCopyStays`). |

Every property of a passing run has a mutant in `PROJECT.json`: a plausible bug in one definition
that makes TLC report it.

### Bounds and why they are enough

- Withdrawals: the code never relates more than two requests, and a request belongs to one
  student; two withdrawals of one student show every pair that shares a wallet.  One admin and
  one job are two handlers on any row, which is what the races need.  `MaxSend = 2` is a send and
  a second send after it was handed back.
- Attempts: two requests at a time are a winner and anybody else; with `Undo` a third one comes
  after.  Two questions tell a row written from one not yet written; answers right, wrong and
  cleared all occur.  The clock has a value on each side of the deadline, its slack, the replay
  window and the grace.  `EnvGrace` is shorter than the replay window, the case `sweepGraceMs` guards against.
- Exam page: one question, two edits, one reload, two request slots, a clock with
  values in the exam, at its end, in the replay window and after it.  The number of replays,
  losses and requests one after the other is not bounded.  The liveness run has no reload: a reload
  changes the sheet, not the queue.
- Purchase: two payments (one free) and one gift, one handler and one job, so any two of verify,
  webhook, job and gift overlap; two faults; one month passes, which ends the shorter plan.  The
  violation needs two handlers, two payments and nothing else.
- Referral: one referrer and one friend with two payments, two handlers; all thresholds are one,
  so every milestone is reached; one refund; one crash, pause or repeated report.  More students
  share nothing but the code: each wallet and counter belongs to one of them.
- Session: a browser with two tabs and another device, two requests at a time, two logins, three
  pairs, so that a pair is replaced while a second tab still holds it; one fault.
- DuplicateReview: one upload with an equal and a different row, one with a single row, an empty
  bank; two requests; `MaxEvents` counts decisions, undos, scans and faults together.  The run
  uses 3; 4 was run once to the end (5.9 million states), and longer behaviours by simulation.

### Fairness and why

- `Fairness` of Withdrawal: the job is a timer that walks its list; Cashfree settles what it
  accepted and, sooner or later, answers; the network delivers or loses; time passes.  The steps of
  the job are strongly fair because a crash may interrupt each of them, but not for ever.
- `ServerFairness`: a request runs to its end (Node keeps running its continuations), the clock
  runs, the sweeper's timer comes round (`SF`, as all request slots may be busy for a while).
- `PageFairness`: in addition the device replays every 8 or 60 seconds and of infinitely many
  replays one gets through and is answered.  Nothing is assumed of the student.
- `Fairness` of Purchase: a handler that has begun goes on, the job runs every five minutes, a
  payment becomes two minutes old.  Webhooks and the browser promise nothing.
- ReferralEarning, Session and DuplicateReview state safety only.

## Findings

Shown by a run:

- `purchase_time` (`monetization/subscription.util.ts:64`): two grants read the subscriptions before
  either has written; both periods start on the same day - in the run today, and where a plan is
  running at its end - and one of them is lost.  No lock or condition is on the student.
- `page_told` (`tests/tests.service.ts:606`): a submit loses its connection and is queued; the replay
  comes between the first request's claim and its rollback after a failed write, and is answered
  "already submitted".  The device drops its only copy, and the attempt is running again without
  it.  `submit-queue.ts:165` says "Returns the attempt ids that are now safely stored on the server".
- `page_reload` (`frontend/src/app/test/page.tsx:861`): `startTest` puts the saved answers and the
  draft on the sheet (line 805; 700 for `?resume=`) and then, in the same tick and on every path,
  calls `setAnswers({})`.  A reloaded page shows a blank sheet, the draft is overwritten with it
  (977), and the autosave, which knows the rows, sends `null` for each of them (1091-1093).  Line
  1626 tells the student "Your answers save as you go, so a refresh or a dropped connection will not
  lose them", and `tests.service.ts:232` says "Makes refresh/relogin mid-test lossless".  Moving the
  two resets in front of the hydration would do.

Found while modelling: TLC shows each of them when the excuse is taken out of the property that is
named, or when the named state is asked for.

Withdrawals and attempts:

- `referral/withdrawal.service.ts:400`: the age of a send is judged by the `processedAt` its caller
  read earlier.  A row handed back and sent again in between goes back to APPROVED while the second
  transfer travels; rejecting it refunds money that is sent (`GatewayAgrees` with admin and job
  together).  Line 68 says "Safe to run twice / in two containers: every change is a conditional
  update."  A refusal that a stalled `pay` writes more than ten minutes late, after a hand-back and
  another send, does the same (`:359`).  Both need a judgement about an earlier send, and nothing else
  does: that is the theorem `LatestJudgedAgrees`.
- approve and pay check a suspension before an update that does not repeat the check
  (`withdrawal.service.ts:262`); two admins can record one UTR on two withdrawals at the same moment
  (`:289`, `UtrRecordedOnce` with two admins).
- `tests/tests.service.ts:826`: an autosave checks the status once and then writes row after row; a
  submit in between leaves a review that disagrees with the score (`ReviewMatchesScore`).
- two autosaves may be applied in the other order, until the next change or the submit
  (`test/page.tsx:1097`), and one delivered after the deadline still counts (`tests.service.ts:778`).
- the page that waits for its queued submit is not told when `AppStatus` delivered it
  (`test/page.tsx:1063`; in `ExamPage` `page = "waiting" /\ queue = None` is reachable).

Payments and referral:

- a gift that fails between closing the old subscription and creating the new one takes the
  running plan away (`subscription.util.ts:77`); a payment marked FAILED by a failed try is not
  asked about by the job when the later success webhook is lost (`monetization.service.ts:721`).
- a refund that is read while the commission is on hold and written after its release matches no
  row and is answered 200: the commission stays (`referral.service.ts:356`, `missed`); so does the
  commission of a refund that is answered before the purchase was booked.
- the six-month upgrade is granted twice when two purchases look for its audit row together, or when
  the process dies between the grant and the row (`referral.service.ts:412`, `UpgradeOnce` without its
  exception `doubted`); the free month is lost when the process dies between the claim of
  its flag and the grant (`:393`).
- two different codes entered at once by one student both create a referral; a purchase during a
  pause that is refunded still counts a friend as paying.
- a purchase that read `PAIDED` overwrites `REWARDED` (`referral.service.ts:214`); a reversal of the
  friend's other commission then finds `PAIDED` and writes `PENDING`; a purchase that had read
  `REWARDED` is booked and leaves that as it is.  The friend has a paid plan and a live commission and
  counts as only "signed up" (line 348), so not towards tiers and milestones.  It takes three payments
  and no fault (`FriendsCounted` without its exception `demoted`).
- `users/bulk-subscription` (`admin.controller.ts:800`) still closes the running plan and starts the new
  one from today, and its "extend" moves an end that another grant may have read; `subscription.util.ts:11`
  says "Time is never destroyed" (by reading).
- the welcome discount and the limit of a coupon are looked up when an order is made, not when it
  is fulfilled (`monetization.service.ts:401`; by reading).

Session:

- two overlapping logins leave two open sessions although `auth.service.ts:65` says "1 WEB + 1 APP
  session max" (`overlapped`); a login that read the account before a suspension opens a session
  after it (`passed`).
- the answer to a refresh that is lost, or comes more than a minute later, logs the device out
  (`excused`): the session is open, but the only token the browser holds is refused.  `api.ts:30-31`
  says "A slow network or a 5xx never logs anybody out".
- a refresh under way when the user logs out puts tokens back into the wiped browser (`stray`); a
  logout with an expired access token, or one whose request is lost, leaves the server's session
  open.
- by reading: `resetPassword` leaves the sessions open, and the profile page POSTs
  `/auth/password/change` where the controller has a PUT.

Question bank:

- `bank-upload.service.ts:3983`: a `createMany` whose answer is lost has saved its slice, and the
  retry saves it again; the comment at 3974 says "NOTHING of it was saved".
- `duplicate-review.service.ts:712`: decisions on scanned pairs hide one side without looking at
  the other; three copies in two pairs, or one pair queued twice by two scans, end with no live
  copy (`stale`).  The comment at 708 says "both questions already live".
- a review of a row of the sheet is visible before the link loop reaches it: KEEP_NEW then finds
  nothing to hide and leaves two live copies; the link may name the copy that the decision itself
  has saved, so that an undo hides and restores the same question; and the loop may save a row that
  an admin has just decided (`crossed`).
- a crash between the claim and the save leaves KEPT_NEW with nothing saved (`cut`); a failure
  after the save puts the review back, and the next decision saves a second copy; an undo hides
  before it restores, and a failure in between leaves neither copy live; an undo during its
  decision may take the copy of another row.
- a later equal row of the sheet is reported as already in the list although queueing the earlier
  one failed.
- by reading: the auto-publish job overwrites the UNDONE mark of an undo that came in between
  (`auto-publish.service.ts:317`), and decides the review again although
  `duplicate-review.service.ts:356` says never.

Not modelled, by reading: two starts of one test open two attempts (`tests.service.ts:233`), two
verifications of one code both succeed (`otp.service.ts:108`).

## What is proved

TLAPS proves the following for every value of the constants that satisfies the named assumption
of the module (`WithdrawalAssumption`, `AttemptAssumption`, `PageAssumption`, `PurchaseAssumption`,
`ReferralAssumption`, `SessionAssumption`, `DuplicateAssumption`): any number of students,
requests, handlers, questions, devices, uploads, rows and faults.

**Withdrawal.**  `TypeCorrect`: `TypeOK` is inductive as it stands; it includes that balances are
naturals, so `RequestWithdrawal`'s check is what keeps them from going below zero.
`ImplementsLedger`: every step maps to `Open`, `Pay`, `Return` or a stutter of `PayoutLedger`; the
lemmas `FinishPaidIsPay` and `FinishRefundIsReturn` treat the two transactions, `ClaimIsStutter`
the other updates.  `MoneyConserved`: the refinement reduces the wallet to the ledger's three
actions; the inductive invariant `LedgerInv` is "one open request per student, and the amounts add
up", needed because a refund is only right if nothing else of the student is open; `OneOpenAtATime`
is its other half.

`LatestJudgedAgrees` states `AgreesIfLatestJudged`, which is `[]GatewayAgrees` under the hypothesis
`[]JudgesLatest`: when a call is about to hand a row in PROCESSING back, or to refund it after a refusal, what it learned is about the latest
send.  That is what the code's updates would check if they looked at `processedAt` beside the status.
Everything else is free: any number of admins and jobs overlap, lists are as old as they like, calls
crash anywhere, requests are late or lost.  So a judgement about an earlier send is the only way to
refund money that is sent; without the hypothesis the property is false (see the findings).  The
invariant `AgreeInv` has four parts: a create request on the wire belongs to the latest send, which is
young (`WireInv`); a row that may be sent again was never accepted by Cashfree and all its sends are
old (`RowInv`); of each call, that its send is not newer than the row's (`KnownSend`), that a payment
call still talking to Cashfree made the latest send and nothing of it arrived (`OwnSend`), and that
what it learned is still true (`StillTrue`); and no other call holds a refusal of a send that is under
way (`Alone`).
`SequentialCallsJudgeLatest` shows, with the invariant `LatestInv`, that calls that do not overlap
(`OneAtATime`) satisfy the hypothesis; `SequentialCallsAgree` is the corollary.

`UtrApartRecordsOnce` states `UtrRecordedOnce` under `[]UtrApart`: no two admins hold the same UTR for
two withdrawals between the look and the update.  `UtrInv` adds that the UTR an admin is about to
record is on no other row.  `SequentialCallsRecordOnce` is its corollary for calls that do not overlap.

**Attempt.**  The lemmas are about `AnySpec`: the server with clients that may send any well-typed
sheet and stamp at any time, of which both `Spec` (sheets from constants) and the exam page are
instances.  `TypeCorrect`.  `StepShape` classifies every step of the code into four: it keeps
the attempt and its effects, or one handler wins, gives back or settles.  `OneWinner`: `WinInv`
says a handler in `write` or `undo` has the status it wrote and is the only one.  From the shapes
and `WinInv` follows `ImplementsOutcome`, and from the refinement alone `EffectsHappenOnce` (by
`OnceOnly` of `AttemptOutcome`) and `FinishedForGood`.  `SweeperWaits` has the invariant `LateInv`:
a handler in mode "auto" exists only after the window, a fact that no later step can undo because
the clock goes on.

**The review** (`AttemptReviewProofs`).  `ReviewAddsUp`: when nothing disturbed the attempt the
rows of a finished attempt add up to its totals.  The property is far from inductive; the
invariant says that what a handler is about to claim is scored from what it is about to write
(`ScoredTodo`), that it covers every row there is (`ClaimsSeeAll`), and that the winner's stored
totals are those of the rows as they will be when it is done (`WinnersWill`).

**The exam page** (`ExamPageProofs`).  `PageTypeCorrect`; `PageIsAClient` shows that `PageSpec` is an
`AnySpec`, so that `PageKeepsTheAttempt` gets the refinement and the invariants of the attempt behind
the page without another proof.  `PageAssumption` says that an attempt has no question list or one of
all its questions, and that `None` is none of the records it is told from.  `RealResultAlways` holds
under any faults: the score is that of what the student had chosen at one of the submits, and the only
excuse is a submit after a reload that took answers off the sheet (`wiped`).  `SheetOK` says that
nothing but such a reload parts the sheet from what was chosen; `PressedInv` follows each submit - on
the page, in the queue, in each request from `submit` to `write`, in the stored totals - and says that
it still stands for what was chosen at a press of the button and is stamped no later than that.  What
the code does to a sheet that a reload has wiped is the subject of `page_reload`.
`ToldUnlessPutBack` proves `ToldIsStored` under the hypothesis `[]NoWriteFails` (no request ever puts
an attempt back); crashes, lost and late answers, replays and reloads are allowed.  The hypothesis cannot be dropped: see `page_told`.

**Purchase** (`PurchaseProofs`).  `TypeCorrect`; `PaidIsGranted`, `RefersOnce` and `FulfilledStays`
from the invariant that a handler between claim and commit holds a payment that is not yet SUCCESS
and that Cashfree has the money for, that no two handlers hold the same one, and that a handler
that is about to tell the referral service is the only one to do so.  `UndisturbedTimeIsKept`: `TimeInv`
says that, while no two grants have overlapped and no gift has died half way, one worker at most is
inside a grant, what it has read as the end of the running plan is what is owed, it is going to close
every row that is active, and one row at most is active; the student has what is owed except while a
gift is between closing the old row and writing the new one.  `ImplementsPlans` needs no such
exception: beside the invariant of the fulfilment, `PlanInv` says that a gift belongs to one worker
and has no row yet, and that what a worker has read as the start of its period is today or the end of
a period that was granted, and not past; no month ends during a grant.

**Referral** (`ReferralProofs`).  `TypeCorrect` from `IInv`, which adds what a handler has read to
the types.  `ImplementsLedger`: `BookImplements` and `NextLedger` map each write to `Book`,
`Release`, `TakeBack` or `Draw`, everything else to a stutter.  `MonthOnceAlways` needs `MonthInv`:
a handler that is about to grant the month has claimed the flag alone.  `RefundTakesBackAlways` is
inductive beside `IInv`.  `FlaggedWaitsAlways` needs `TodoInv`: what a release has listed was not
held when it was listed, and nothing becomes held later.  `FriendsCountedAlways` has `CountInv`: a
booked commission has a known friend and referrer, a handler that is about to book carries the pair
it has read, and if it read `REWARDED` the referral still has it.  This last part is not inductive as
the code stands: a purchase that read `PAIDED` may take `REWARDED` away.  With two payments no
commission shows it, with three one does (see the findings); the history variable `demoted` is the
exception `FriendsCounted` makes for it.  `UpgradeOnceAlways` has `UpgradeInv`: of a referrer for whom
no look and no crash came between another grant and its audit row, at most one handler is upgrading,
and an upgrade that was granted has its row or a handler about to write it.

`WalletAddsUpAlways` is proved on the ledger: by `NextLedger` a step is `Book`, `Release`, `TakeBack` or
`Draw`, each changes the share of one commission in the columns of one referrer, and the other sums
stay (`ColumnsSame`, `OneMoves`).  `WalletInv` adds that a referrer has finitely many commissions,
without which the sum says nothing.  A sum is a fold, that is a `CHOOSE` of a recursive function on the
subsets; that there is one, that two agree, and that taking an element out takes its amount out
(`SumExists`, `SumsAgree`, `TotalWithout`) is shown by a smallest counterexample, as the library's
induction theorems take an operator as a parameter (`WFMin` of `WellFoundedInduction` does not).

**Session** (`SessionProofs`).  One inductive invariant `IInv` = `TypeOK` and six parts:  `Alone` (at most
one session is open or about to be, unless logins overlapped), `Barred` (a suspended account has no
session and no login under way), `Emptied` (a device that logged out has no pair and no refresh),
`Fresh` (a pair that is not stored yet is known to one request only), `Signed` (the pair of a login
is one of its session), and `Kept` (the stored pair of a signed-in device, and the pairs its
refreshes were given, belong to its session, and the stored one is not past its grace).  The lemmas
`RefreshEffect`, `LoginEffect`, `LeaveEffect`, `OutsideEffect` say what each action changes, so that
each part is proved from effects and not from the actions again.

**DuplicateReview** (`DuplicateProofs`).  The invariant `IInv` says of the tables (`Tables`) that what
a review refers to exists, that a copy noted for the undo was saved from the row of its review, and
that the row of a deleted review was saved; of the link loop (`JobOK`) that it deletes a review only
after its row was saved; of a request (`WorkerOK`) what it knows at each statement: above all, that
an undo takes back a decision whose row is a question, or counts as cut off.  `Older` says that
questions and reviews are only added and keep their row, so that what one actor knows survives the
steps of the others (`JobOlder`, `WorkerOlder`).  From it follow `TypeCorrect` and `RowKeptAlways`:
the proof names the three reasons why a row is kept (`Settled`, `Waits`, `Held`) and shows that each
step that takes one away leaves another (`StatusStays`, `WaitsStays`, `HeldStays`), and that a new
report comes with its reason (`NewReport`).

`RowOnceAlways` has `CalmInv`, for as long as nothing failed and nobody got in another's way: no two
live questions are of one row; the status of the review of a row says where its live copy is
(`PendingOK`, `DecidedOK`); no two requests are past the claim of one review (`AloneOK`); and the
link loop saves a row only while its review waits and no copy is live (`CalmJob`).  `LastCopyAlways`
adds `LastInv`: the copy a decision keeps is not the one it hides, an undo that hides has read which
one it brings back, and some copy is live unless an undo is about to restore one.  Both exclude what
`crossed` names, which is more than the run can show: with a bound of three events TLC does not reach
a behaviour in which an undo or a decision on a scanned pair brings back a second copy of a row, or
in which an undo claims a review whose copy was noted, or linked, after the undo had read it.  These
are the places where the induction failed.

### Only model-checked

All liveness (`ProcessingSettles`, `ScoredInTheEnd`, `QueueDelivered`, `PendingIsSettled`): fairness
and `ENABLED` are beyond the prover.  Every other property of a passing run is stated by a theorem.
Of the three hypotheses, `JudgesLatest` is part of the property that is checked
(`AgreesIfLatestJudged`, with admin and job together); the bounds make the others true where the
property is checked: one admin (`UtrApart`, in `withdrawal_race`) and no failed row write
(`NoWriteFails`, in `page_offline`).

Several properties make an exception of the overlap their hazard names, because the code makes no
promise there: `disturbed` (Attempt, Purchase), `missed`, `demoted` and `doubted` (ReferralEarning),
`overlapped`, `passed`, `excused` and `stray` (Session), `cut`, `crossed` and `stale`
(DuplicateReview), `wiped` (ExamPage).  They show that the code goes wrong by nothing else; that it
does go wrong there is in the findings.

### Assumed of the environment

PostgreSQL's transactions are atomic and its conditional updates exact; Cashfree keeps one
transfer per transfer id and never pays an expired order; clocks of the server do not run
backwards; a gateway that said SUCCESS does not take it back.  An admin uses "mark failed" only for a
transfer that Cashfree shows as failed: the handler (`withdrawal.service.ts:316-320`) checks that the
row is PROCESSING and takes the rest on the admin's word, so `MarkFailedRead` has the word as a guard.

## Plan

Done: `PayoutLedger`, `Withdrawal`, `AttemptOutcome`, `Attempt`, `ExamPage`, `PlanLedger`, `Purchase`,
`CommissionLedger`, `ReferralEarning`, `Session`, `DuplicateReview`, each with its proofs.  Next, in
this order:

1. An abstract specification of `DuplicateReview` (the life of a row: asked, saved, hidden) and the
   refinement; an admin's cancel and bulk grant in `Purchase`, which end what `owed` promises.
2. `AttemptStart`: resume-first start, free uses, one running attempt per test; `Rescore` over the
   finished attempt of `Attempt`.
3. `SectionPlan`: pure operators checked against a reference definition over bounded plans, then
   composed with the autosave.
4. One-time codes in Redis; `OneTimeClaims`: the claim pattern of the daily quiz, check-in and
   milestones as one module with one abstract specification, proved once and instantiated.
5. Proofs: the refinement of `CommissionLedger` with the friend's status, so that the exception
   `demoted` is stated there.

Runs are kept few: a defect has a run of its own where a sentence of the repository says the
contrary and a theorem depends on it; the others are in the list of findings.
