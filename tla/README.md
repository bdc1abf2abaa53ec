# A verification of the AESL HR addons

TLA+ models of the workflows in this repository, checked with TLC and, where it
matters most, proved with TLAPS. The repository is a set of 37 Odoo 18 addons
(`src/` below is the repository's root).

## The system

Odoo runs every request (a button, a portal page, a cron job) as one database
transaction in one of several worker processes, on PostgreSQL at REPEATABLE
READ. A handler reads a snapshot, writes rows, and commits at the end of the
request; if a row it writes was changed by a transaction that committed since
its snapshot, PostgreSQL refuses, Odoo rolls back and runs the request again, up
to five times. The addons lock nothing themselves, except the job queue. Their
state is in records whose `state` field is a stage; their operations are methods
that check the stage (or do not), and portal routes that call these methods.
Cron jobs commit in the middle.

| component | state | operations | hard behaviour |
|---|---|---|---|
| Resignation workflow (`aesl_hr_resignation`, with the approval lane of `ivis_employee_details`) | one `employee.resignation` per employee, one clearance per department, dates and activity of the employee | submit, accept, reject, request and decide a revocation, approve a clearance, exit interview, archive, the lane's five buttons | the employee, the manager, three departments and HR act at the same time on pages that may be old; completion is found inside the last approval only |
| Asset allocation (`aesl_hr_asset_allocation`) | an allocation per employee and department, a line per item; the departments' heads in the company's settings | generate, save and approve a page, reset, change the heads | edited while a resignation holds a copy of it |
| Background jobs (`ivis_import_async`) | `queue.job` rows, graphs of jobs, the cron's runners; or, with the HTTP runner, queues per channel in memory and requests under way | delay, take, perform, retry, fail, cancel, requeue, release dependents, vacuum | crashes between two commits, retries, several runners, lost and late messages, capacity, order and time in the channels |
| Travel requests (`approval_ext`) | a request with the votes of its approvers, a leave and an expense for it | submit, approve, refuse, submit again | several approvers at once; the status is derived from their votes; an exception after half of the work |
| Provident fund loans (`pf_loan_management`, routes in `prodo_user_portal`) | an application with a stage per approval level | submit, correct, approve, reject, return, cancel | returns and resumption in the middle of a chain; forms that are older than the stage; two submissions at once |
| Employee loans (`ivis_hr_employee_loan`) | a loan and its installments | apply, compute, approve, reset, pay in cash, pay by payslip | what is left is spread again after every payment |
| Document requests (`aesl_hr_document_request`) | a request, its file, its signature and the copy in the Documents application | send, upload, sign, approve, reject, reset | sent, rejected, reset and sent again |
| Offer letters (`aesl_hr_offer_letter`) | an offer and the employee made from it | edit, send, revise, accept, reject, create employee, cancel, reset | letters that are mailed while the transaction fails; pages that are old |
| Appraisal (`prodo_appraisal_ext`, pages in `prodo_user_portal`) | an appraisal with a line per manager | confirm, save and submit a recommendation, approve in bulk, revert, decide, publish | an appraisal goes up and down a chain of managers with old pages |
| Attendance (`ivis_attendance`, `hr_zk_attendance`, pages in `ivis_user_portal`) | punches, one record per day, change requests | fetch, process in phases, correct | punches arrive late; every phase of the job commits; corrections meanwhile |
| Leaves and absences (`ivis_leaves_enhancement`) | leaves, the mark `on_leave` of a day's record | ask, approve, refuse, book absent days, count them in the payslip | a job that lists days once and books them one by one |

What makes them correct: a stage is reached only through the decisions it stands
for; no decision is lost or made twice when requests run at the same time; what
waits has somebody to wait for; two records that describe one fact agree; no
amount or day is counted twice.

## Modules

| module | what it models |
|---|---|
| `Offboarding` | one employee's resignation: every handler one atomic step on a database value `db`; `formOpen` for a form page kept in a browser |
| `OffboardingTx` | the same handlers as PostgreSQL transactions of several workers; refines `Offboarding` |
| `OffboardingAssets` | `Offboarding` with allocations and check lists |
| `PfLoan` | the provident fund loan applications of one employee, from submission through five signatures |
| `JobQueue` | jobs with dependencies under the cron's runners |
| `JobGraph` | how chains, groups and `on_done` become the dependencies |
| `JobRunner` | the HTTP runner, its channels and the server's workers |
| `JobChannels` | time and order in those channels: priorities, etas, sequential and throttled channels, and how long the runner sleeps |
| `TravelRequest`, `DocumentRequest`, `OfferLetter`, `EmployeeLoan`, `Appraisal`, `Attendance`, `AbsenceLeaves` | one record each of the component of that name |
| `OffboardingProofs`, `PfLoanProofs`, `JobProofs`, `JobRunnerProofs`, `AttendanceProofs`, `TravelProofs`, `RecordProofs` | the theorems, by component (see Proofs) |
| `Inductions` | induction and recursion over numbers, for the proofs |
| `MC*` | constants for TLC; `MCJobs` composes `JobQueue`, `JobGraph` and `JobChannels`, `MCRecords` the seven record modules |

`JobGraph` stands before `JobQueue`: its edges are the constant `Parents` there.
A behaviour of `MCJobs` is about one of them or about `JobChannels` (`part`).
`JobRunner` and `JobChannels` are two views of `channels.py`: who takes and
gives back places when requests are late and workers die, and which job goes
next and when. The record modules share nothing in the code but the employee, so
a behaviour of `MCRecords` is about one (`area`) and leaves the others as they
were at the start; that is a way to give TLC one instance of each, not an
interaction. The one real interaction among them, that a leave marks attendance
records and the payslip reads the mark, is inside `AbsenceLeaves`; what decides
the status of a day is `Attendance`.

### Offboarding

A handler is a pair of operators on a database value: `CanAccept(x)` is what
`action_manager_accept` demands of `x`, `Accepted(x)` what it leaves. The actions
apply the pair to the committed `db`; `OffboardingTx` applies the same pair to a
snapshot. The fields of `db`:

| field | code |
|---|---|
| `state` | `employee.resignation.state`; `"none"` is: no record |
| `is_revoked` | the field of that name |
| `notice_dates` | `resignation_date`/`exit_date` of the employee are set (the code always writes or clears the two together, except that "Start Clearance" and the second lane approval write one of them again) |
| `active` | employee and portal user are not archived |
| `clearance[d]` | state of department `d`'s clearance, `"none"`: no record |

`formOpen` is the page of `/my/resignation/new`. The page is served only when no
request is active, but the route that receives it (`/my/resignation/submit`)
does not look at the stage, so a page that stays open (a second tab, the back
button) can submit over any stage: `PortalSubmit` may leave the page open.
A clearance approval includes the completion check and, in
`OffboardingAssets`, the removal of returned items: one request, one step.
Methods that are defined twice in the Python class are modelled by the second,
effective definition. `FinalApprove` and `ReceiveItems` depend on contracts and
on the exit check list, which are not modelled: they may be taken or not.

Left out: who may press what (for each role some user is assumed to exist),
mail and chatter, deleting or editing records by hand, and the legacy reject
wizard of `ivis_employee_details`, which acts on `employee.clearance` and never on
the resignation.

### OffboardingTx

`tx[w]` is the transaction of worker `w`: its request, the snapshot `base`, the
rows committed by others since (`missed`), and how often it was tried. `Writes`
names the rows each handler updates, `Merge` puts them over the committed rows.
A commit that touches a missed row is a conflict: `Retry` on a new snapshot, or
`GiveUp` (too many tries, or the unique constraint at a double first
submission). `Die` ends a worker at any point. The one thing that keeps two
approvals apart is that a department's status is a stored computed field of the
resignation row (`ApprovalRows`); its variant without that row strands requests.

The lane's buttons and the backend forms are requests like the others, on the
same rows; the module has the requests of the portal.

### OffboardingAssets

`allocated` are the ticked allocation lines, `line[i]` what the clearance line of
item `i` says, `linked` the departments whose clearance lines point at
allocation lines (lines built from templates do not). `AcceptAssets` is the
acceptance with the whole of `_initiate_departmental_clearances`;
`PostChecklist` the page's POST: lines, approval, completion, removal.
`PostChecklistAgain` is the same POST on an approved clearance, for which the
code writes the lines and skips the rest. Details, remarks and the order of
lines are left out.

### PfLoan

| variable | code |
|---|---|
| `state[a]` | `pf.loan.application.state`; `"none"` is: no record |
| `posting` | sessions inside `create()` between the search for an active application and the commit of the new row |
| `editing` | edit forms of `/my/pf_loan/view` on a screen; they keep the id of their application |
| `signed[a]` | a history variable: who signed which stage since the employee last submitted `a` |

The transactions of two handlers that update one application collide on its row,
so such a handler is one step. Two inserts do not collide, so a submission is
`FindNoActive` and then `Insert` (or `Fail`). `Save` is the save route with a
`loan_id`: it sets the stage to draft whatever it was. `Approve(p, a, q)` is the
`action_approve_*` method of stage `q`, pressed by `p` in the backend, on the
portal, or through the voucher wizard; the portal picks the method by the
current stage and lets fewer people through. `Return`, `Reject` and `Cancel` have
the guards of the methods, not those of the buttons: the routes have none, and a
page may be old. `Holders` gives each application its own approvers, since
`create()` copies them from a configuration that may change in between.

Left out: the contents of an application (amounts, remarks, installments, the
voucher, edits in the backend form), how the head of department is found, mail,
deletion, and users without an employee record. A session holds one page; a back
button or a double click is a second session.

### JobQueue

| variable | code |
|---|---|
| `state[j]`, `retry[j]`, `postponed` | the committed row of `queue.job`: `state`, `retry`, an `eta` in the future |
| `task[r]`, `phase[r]` | what runner `r` (`_job_runner`, called by the cron) performs, or has committed without releasing its children |
| `freed[r]` | children that the open transaction of `r` sets to pending (`enqueue_waiting` runs in the transaction of the NEXT job) |
| `late[r]` | parents that were not done in the snapshot of `r` |
| `requeueing[j]` | the state a requeue decided on, between its read and its write |
| `completed`, `performed` | history: done at some time, by a runner or by hand; work committed since it was last asked for |

`Locked` is the row lock of `_acquire_one_job` (`FOR NO KEY UPDATE SKIP LOCKED`):
the taken row, unchanged for everybody else, and the released children. A job
that raises is retried, failed or, on a serialization failure, retried with
nothing counted. `Die` ends a runner anywhere; `RequeueRead`/`RequeueWrite` and
the other wizards act on what they read. `SetDone` is the button that sets a job
to done by hand; unlike a runner it releases the children in the transaction
that stores the state, and it is one step here (the row and the children must be
unlocked). `Autovacuum` deletes what is done or cancelled, whoever names it as a
parent. Which of several pending jobs is taken
is left open (priority and date order it in the code). Under the cron no row is
ever committed as enqueued or started.

### JobGraph

`nodes` are the `Delayable`, `DelayableChain` and `DelayableGroup` objects,
`links` the calls of `on_done`, `delayed` the object on which `delay()` was
called. `Ends` is `_head()`/`_tail()` (`EndsFrom` for one object, given those of
its parts), `Visited` and `Edges` are `_connect_graphs` and `_merge_graph`.
`Promised` is the reference: which job the docstrings promise after which, from
the nesting alone. Chains and groups nest in any way. Where a chain begins or
ends with a chain, or with a group of chains, `_head()` and `_tail()` answer for
the wrong end (see Disagreements); `MeantEnds` are the ends as they are meant,
and `Plain` says of a chain that the mistake makes no difference to it.
`OrderIsPromised` claims that no edge is too many in any graph, and that none is
missing unless an object that is not `Plain` is put into or after another one
(`Attached`): at the top such a chain is connected rightly, because `on_done`
draws from its last part.

### JobRunner

| variable | code |
|---|---|
| `state[j]` | the row |
| `notes` | notifications not yet read: which row to look at again |
| `queue`, `running`, `failed` | per channel, the sets of `Channel` in `channels.py` |
| `requests[j]` | GETs to `/queue_job/runjob` under way; the runner waits one second for an answer and then knows nothing |
| `job[w]`, `tail[w]` | what a server worker performs, and the finished job whose dependents it has yet to enqueue |
| `stale` | workers whose row somebody else wrote meanwhile: their commit fails |
| `forced` | history: jobs a user requeued while they were started |

`Promote` is one step of `get_jobs_to_run` between two channels, `RunJob` marks
the row and sends the request, `Reinitialize` is a lost connection with
everything in memory gone. Priorities, etas and throttling are in `JobChannels`,
retries in `JobQueue`.

### JobChannels

| variable | code |
|---|---|
| `config` | capacity, `sequential` and `throttle` of each channel; never changed |
| `row[u]` | state and `eta` of the row; enqueued and started are one |
| `notes` | notifications not yet read |
| `queue`, `running`, `failed` | per channel, as in `JobRunner`; `queue` is both queues of `ChannelQueue` |
| `jobEta[u]` | `eta` of the `ChannelJob`; a job with one stands in `_eta_queue`, one whose eta has passed in `_queue` |
| `pause[c]` | `_pause_until` |
| `clock`, `at` | the time, and the `now` of the last `run_jobs`; a pass takes time, so `clock` may be ahead |
| `loop`, `left` | where the runner's thread is; the channels `get_jobs_to_run` has still to leave |
| `wakeup` | the time `wait_notification` sleeps to |
| `last[c]` | history: the pass in which `c`, throttled, last yielded a job |
| `meddled` | bound: how often a row was written from outside |

`Rank` is the order by priority, creation and sequence, no two jobs alike. A
pass visits the channels upstream first: `Yield(c, u)` is one turn of the loop
in `get_jobs_to_run`, `Leave(c)` its end, whatever ends it. `Pop` is
`ChannelQueue.pop`, with its effect `EtasPassed`; `Notify` is
`ChannelManager.notify` with `remove_job` when the eta has changed.
`WakeupTimes` is the set of times of which `get_wakeup_time` takes the least.
`Reinitialize` is `close_databases` and `initialize_databases`: the jobs are
forgotten, the channels and their pauses are not. What a worker does is
`Finish`: done, failed, or postponed. `WritePending` and `WriteCancelled` stand
for users, the garbage collector and a request that was never answered. Left
out: rows that wait for others, rows that are deleted, a change of priority or
channel, and a restart of the process, after which a throttled channel has no
pause.

### TravelRequest

| variable | code |
|---|---|
| `travel` | the rows of one `approval.request`: status, domestic or international, the votes, the leave and the expense |
| `setting`, `settings` | the configuration lines that match the employee, and how often they changed |
| `slow`, `missed` | a request that is still running: what it read, and the rows written since |
| `withdrawn` | history: who took his approval back while another transaction was running |

Two overlapping votes write different rows, so that neither is rolled back: the
second reads the votes before the first. `Vote` has no guard but that the user
has a vote: a page offers its buttons whatever was decided since, so that
anybody may vote twice and take back what he said, at any moment. One `slow`
transaction at a time is the bound. Odoo's approvals application, which derives
the status from the votes, is not in the repository and modelled from its use.

### DocumentRequest, OfferLetter

`request`, `document` and `stamps` are the request, the copy in the Documents
application and what was stamped on each file; files and signatures are
numbered. An `offer` is its state, its terms (all fields one value), its
revision and whether an employee is linked; `shown` is the state each page of HR
shows, `letters` the terms of the mails in their order, `answer` the letter that
was accepted and the newest one at that moment, `contracts` what was created.
`SendOffer(o, fails)` mails the letter even when the transaction fails
afterwards. The link is the same in all letters (`hr_offer_letter.py:246`,
`:273`), so that `AcceptOffer(i)` is the answer from any of them; the offer that
is accepted is the one there is. `HiredAsMailed` says that the contract has the
terms of the letter that was the newest at the answer: who accepts from that
letter is hired as he agreed, who accepts from an older one is not.

### EmployeeLoan

`loan` is the record, `lines` its installments in the order of creation, `today`
the month. `Computed` is `compute_installments` with `check_total_amount`: it
keeps the lines that are approved or paid and spreads what is left over new
ones, by amount, by months, or (flat) over the open ones; the last line takes
the rounding. The first schedule starts in the month of the disbursement
(`loan.disb`), a later one after the last line kept. Paying in cash computes
again; a payslip pays the lines of its month whatever their state. The buttons
of a line, `ApprovePayment`, `ResetPayment` and `PayInstallment`, and its
balloon have no guard: the methods check nothing, only the form hides them, and
a page may be older than the payslip that paid the line. Amounts are integers of
the smallest unit. Interest is a column of its own and left out, with the
reducing mode; so are the policies and the bookings.
`loan_prepayment_writeoff.py` is not loaded by the addon.

### Appraisal

`chain` are the managers with a user, `appraisal` the record with its lines,
`pages` the managers who have a page open. `SubmitRaise` is the portal's
submission of a manager or of the director, `ApproveInBulk` the bulk route,
`SaveLine` saving without submitting; `RevertBack` asks for no user. A raise
stands for amount, designation and grade.

### Attendance, AbsenceLeaves

| variable | code |
|---|---|
| `punched`, `fetched`, `processed` | what the machine remembers, `zk.machine.attendance`, and which of it a record has taken |
| `attendance` | `hr.attendance` of the days that have one; 0 as `in` is the midnight put in for no check-in |
| `cron` | the phase of `process_attendance_ivis`, which commits after each, and the days whose status it still computes |
| `lost` | days whose status a crash left uncomputed |
| `correction` | `my.change.request` |
| `day`, `onLeave` | per day: has it a record, its status, and its mark |
| `leaves`, `booking`, `deducted` | `hr.leave`; the run of `create_lwp_for_absent_days`; the days the payslip counted |

`Settled` is `prev_attendance`, `Created` the new record of
`attendance_validity`. `booking.fresh` says that the row looked at is as it was:
the job commits after every day, and PostgreSQL refuses to write over a newer
row. Two outcomes of `BookLeave` touch no row of the day and need no fresh one:
the leave was refused by a constraint, or its approval raised, which is caught
(`hr_leave.py:185`) and leaves the request waiting. `PunchDays` and
`RequestDays` bound the days on which somebody punches or asks for a correction.
All shifts are day shifts; lateness, overtime, half days and balances are left
out.

## Runs

| run | bounds | shows |
|---|---|---|
| `offboarding_tx` | 3 departments, 2 requests at a time, 2 tries | `OffboardingTx` implements `Offboarding` (`AtomicSpec`); `SnapshotCurrent` |
| `offboarding_assets` | 3 departments, two with an item and one without | stages, clearances and dates agree in every order of the requests over several rounds; check lists cover every item; completion settles exactly what was reported; under fairness `ClearanceEnds` |
| `revoked_stays_revoked` | 3 departments | violated: the last approval moves a revoked request on |
| `pf_loan` | 1 application, 2 sessions, 3 people of whom HR holds two stages and the administrator one | no level is skipped (`StageIsSigned`), `ClosedIsLeftBySaveOnly`, and under fairness `ChainEnds` |
| `pf_loan_two_sessions` | 2 applications, 2 sessions, other approvers for the second | violated: two submissions at once |
| `jobs` | two parents and a child, 2 runners, 2 retries, 1 conflict, the parents may be set to done by hand; graphs of 5 objects with 2 links and 2 parts each, in any nesting | no job runs twice at a time or again once done, none before each parent is done, or cancelled and deleted, whatever is requeued, cancelled, set to done by hand or vacuumed; no edge is more than the promised order, and where any is missing. And 3 jobs, a sequential channel over a root of capacity 1 and throttle 2, 3 seconds, etas 1 or 2 ahead, 1 write from outside to 1 job: `WakesInTime`, `ThrottleKept`, `SequentialKept` |
| `jobs_crash` | the same jobs, 1 runner that may die | violated: the children of a finished job are never released |
| `job_runner` | a job and one that waits for it, 2 workers, a root channel of 1 below a sequential channel of 2, 1 request per job | the channels say what the rows say; capacity; one worker per job; under fairness `Settled` |
| `job_runner_requeued` | the same | violated: a requeued job that waits keeps its place |
| `records` | see below | the properties of the seven record modules |
| `travel_approved` | 2 approvers | violated: an approved travel without time off |
| `appraisal_dead_end` | chains of 1 to 4 managers | violated: nobody can finish the appraisal of who reports to the top |

The bounds of `records`: 2 approvers and one without a user, 4 configurations
and 1 change; 3 files of which one is unreadable, 2 signatures; 2 terms, 2
officers, 3 letters, 2 revisions; loans of 12 by 5, in 2 months and flat, in
cash and by payslip, disbursed in the month of the application or the next, over
4 months with 4 lines, one balloon and one other installment; chains of 4, 2, 3
without a user at the top, and 1; 3 days of 3 times (one of them a check-in),
the first of them a day off, 2 punches and one correction on the second (what a
day off does to a correction on it is in the proof); 2 days of absence and 2 leaves.

Why they are enough. Two departments, sessions, workers or officers are all that
a conflict, an old page or "mine or another's" needs, three departments are the
code's number. In `pf_loan` no step reads a second application except the
search, which has its own run. Two parents are needed for the last of them to
release the child, two runners for two at once; retries 0, 1, 2 are below, at
and over the limit. In `JobChannels` three jobs are what the exception in
`SequentialKept` needs; a pause of two seconds out of three can be met before,
at and after its end, and is longer and shorter than an eta. Four managers have
one of each kind: line manager, one in between, the executive, the director. A
loan of 12 by 5 leaves a smaller last line, two months a rounding, four lines
let payments come before and after a new computation. Three days of attendance
are a first record, a day on which the job may not run at all, and a day after
it on which it may. Five objects are enough for a chain that ends with a chain
and has a successor. Three letters are one that is read, one that is newer, and
one whose offer failed. The only counters cut off are those named `Max...`
(`MaxClock` stops the time) and `LastDay`: they bound how often an actor acts,
and no guard of the code depends on them. `tries` and `MaxRetries` are bounds of
the code itself.

Runs whose system may stop (an archived record with no page open, the last day,
all jobs ended) do not check for deadlock; what must not stop is a liveness
property.

**Fairness.** `ClearanceEnds` assumes `WF` of the POST of each department: a
head who keeps having a pending clearance approves it in the end. Nothing makes
a manager or an employee act. `ChainEnds` assumes that whoever is mailed that an
application waits signs or decides in the end (`WF` of `Approve` per application
and stage), and speaks only of executions in which returns stop: approvers may
return an application as often as they like. `Released` (the violated one)
assumes that the cron calls its runners and etas pass, which is the cron's
schedule. `Settled` assumes that the runner's thread and the server's workers go
on (`WF`), and speaks of executions (`Lucky`) in which from some time on
requests arrive, connections hold, nobody interferes and no job asks to be run
again; a job that is held up by another one is exempted by name (`HeldUp`).
`DaysAreDecided` assumes no fairness and carries its premise itself: that runs
get to their end now and then (`RunEnds` for this employee, infinitely often).
Crashes may come at any moment and as often as they like; an employee without a
shift ends every run for all who come after him, and of those the property says
nothing.

## Proofs

tlapm checks 50 theorems listed in `PROJECT.json` and the lemmas they rest on, for
every value of the constants that satisfies the modules' assumptions
(`...Assumption`). These are the types of the constants and what the code makes
sure of or takes for granted:

- `JobQueueAssumption`: the parents of a job are in its graph. `JobRunnerAssumption`,
  `JobChannelsAssumption`: the channels are a tree below the root, the jobs are
  finitely many, no two have the same rank, and a sequential channel has
  capacity 1.
- `TravelAssumption`: the rows of a request, of its leave and of its expense are not
  those of an approver. `EmployeeLoanAssumption`: amounts and durations are
  positive, and a loan has the fields its mode asks for.
- `AppraisalAssumption`: a chain's director and executive are in it.
  `AttendanceAssumption`: check-ins are times of the day.

### OffboardingProofs (`Offboarding`, `OffboardingTx`, `OffboardingAssets`)

For every non-empty set of departments: the type invariant, `ClearanceGate`,
`NoStrandedClearance`, `NoticeDatesFollow`, that the revocation flag never
survives a submission (`FlagFollows`, in no run) and `ArchivedIsFinal`. None of the
invariants is inductive alone; `IInv` strengthens them (`Good(db)`: the type, the
gate, the pending clearance of a waiting request, the dates, the flag, and that
only archived records belong to inactive employees). One lemma per group of
handlers shows that what a handler leaves is `Good` when what it read was; the
theorem about steps only combines them, and the proof of `OffboardingTx` uses
the same lemmas for handlers that read a snapshot.

`OffboardingTx` implements `Offboarding`, for any number of workers and tries:
every handler writes the resignation row (`WritesResignation`), so a transaction
that commits missed no commit of another (`SnapshotCurrent`), so it read the
committed database, and its merge is what the handler computed
(`MergeIsValue`): `CommitIsAtomic`. The refinement mapping takes a page as open
while its submission is under way.

`OffboardingAssets` implements `Offboarding` with the same `db` and `formOpen`
(`AssetsRefineWorkflow`): what is proved of the workflow holds with check lists
beside it. On top of that, for any items and owners, every item stays on a check
list from the acceptance on (`ChecklistCovers`; its invariant follows lines and
links through rounds that reuse them), and the step that completes the clearance
unticks what any department took back (`CompletionSettles`).

### PfLoanProofs (`PfLoan`)

`StageIsSigned` is inductive together with the types: the proof looks at the one
application a step changes (`SignedBelow`, `SameSignatures`), and `RankFacts` says
that a signature passes the level it signs and no other. `OneSessionOneActive`
assumes that any two sessions are equal. Its invariant `Alone` adds what the one
session knows: nothing is active while it submits, and nothing but the
application it edits is while it edits, even if that one was rejected meanwhile;
so the save that revives it makes no second one. `pf_loan_two_sessions` shows
that the assumption is needed.

### JobProofs (`JobGraph`, `JobQueue`, `JobChannels`)

`OrderIsKept`: no edge that is stored is more than the promised order, and none
is missing but where the property says so (`OrderIsPromised`), for graphs of any
size, any nesting of chains and groups and any calls of `on_done`. The argument:

1. `Closure` is what paths connect (`ClosureIsPaths`). A path can be shortened until
   it goes through no object twice (`ShortPath`, by the pigeonhole principle), so
   that half as many rounds as objects are enough, each doubling the length.
2. An object is made of older ones (`Formed`), so that `Ends` and `Inside` are what
   their recursions say (`EndsDefined`, `InsideDefined`). If every object that is
   joined to another is plain (`Regular`), asking parts for the wrong end does
   no harm, and edges are drawn at the ends that are meant (`EndsAsMeant`).
3. Every job inside an object leads along the edges to one of its last jobs and
   is led to from one of its first (`AllGoThrough`, by induction on the nesting,
   and along the parts of a chain), and from every last job of an object there
   is an edge to every first one of what follows it.
4. Conversely an arrow leaves jobs inside the object whose successor it leads to
   (`ArrowsSucceed`), so that no edge is more than what was promised.

`JobQueue`: the types, `OneRunnerPerJob`, `NotPerformedAgain` and
`StartsAfterParents`, for any graph, any number of runners and any retry limit,
with the vacuum and the button that sets jobs to done at any moment. `LockInv`
says what the row locks give: a runner that performs a job, or is about to
release one, holds its row, nobody else does, and the rows it holds are those
nobody has performed since they were asked for. The invariant of
`StartsAfterParents` is that a job which is pending, or freed, or was read as
one that could be requeued, has only parents that are `Settled`: done at some
time, or deleted. A parent stays settled (`StaysSettled`), because a row that is
gone does not come back. That a deleted parent may have been cancelled and never
done is what the code does, and the property says it.

`JobChannels`: `ThrottleKept`, `SequentialKept` and `WakesInTime`. For the
throttle the invariant `Rests` says that a channel's pause reaches as far as its
last job requires unless that time has passed by the pass under way: only a pass
that begins after the end of a pause ends it. For the order, `Placed` says that
a job whose row was read stands in its channel as what the row says, with the
row's eta or with one that has passed. Then a job of the channel that is under
way takes the one place, one that failed blocks it, and one that is pending is
compared by `pop`. `SleepInv` adds what the runner knows when it falls asleep: a
channel it has left has nothing that is due or no place for it, and every later
eta or end of a pause is among the times it looks at.

### JobRunnerProofs (`JobRunner`)

`ChannelsMatchRows`, `CapacityKept` and `OneWorkerPerJob`, whatever is lost or
late. A job has one of four places: it waits in one queue and runs in the
channels before it, it runs in all its channels, it failed, or it is nowhere. A
row becomes enqueued only when the root yields the job, so that a row that is
enqueued or started runs in all its channels as long as the last change was
read. Capacity is counted when a job moves from one channel to the next; that
what a promotion adds to one channel it does not add to another needs the tree.

### TravelProofs (`TravelRequest`)

The types, `ApprovedByAll`, `RefusedHasNoLeave` and `AbroadTwice`, for any
number of approvers and one transaction that overlaps any others. `Behind`
relates what a transaction read to what is committed when it commits: the rows
nobody wrote are the same, and the votes that moved are of people who were
asked. The properties are not true of every vote, and say so. A page's button
takes the vote of whoever has one, whatever it was. Who turns his approval of a
refused request into a refusal writes his vote and not the request's row (the
status stays refused), and whoever votes at the same time may approve the
request by the votes from before. So `withdrawn` names who takes an approval
back while another transaction runs, until his vote is written again, and
everybody else must have approved (`Backed`). His vote stays refused that long,
so that whoever is not in `withdrawn` and has refused is seen by the next vote.

### AttendanceProofs (`Attendance`, `AbsenceLeaves`)

`CorrectionStays` and `StatusFollows` for any number of days, times and punches.
The records are consecutive days, so new ones never replace old ones; the phases
that compute no status have no days left to compute. It needs that a correction
asks for times of the day, so that the corrected record has a check-out and the
job has nothing left to put into it. `LeaveIsNotDeducted` and
`NoLeaveForWorkedDay` for any number of days and leaves: an absent day that a
validated leave covers is marked, whichever of the two came first, and the day
being booked is absent as long as nobody wrote its row, which a leave that is
validated at once has to write.

### RecordProofs (`Appraisal`, `DocumentRequest`, `OfferLetter`, `EmployeeLoan`)

`EveryManagerOnce` and `RaiseIsDirectors` for chains of any length: the lines stand
in the order of the chain with no gap, and whoever the appraisal can reach (the
approver, the last approver, a page) has lines of everybody below him.

`DocumentFollows` and `SignatureOnFile` for any number of files and signatures,
`HiredAsMailed` for any terms, officers and revisions: while an offer is sent or
accepted its terms are those of the newest letter, and of the one that was the
newest at the answer.

`ScheduleCovers`, `OnePerMonth` and `PaidStays` for any loan, any number of
lines and payments. What is spread anew is what the lines kept leave. Where the
last new line does not take the rest, the rounded amounts cover it and exceed it
by less than one unit for each; by amount they cannot exceed it, since all new
lines but the last are too little. Lines that are kept come before the months of
new ones. `PaidStays` needs no invariant about states, since the buttons ask for
none: a computation keeps what is paid, and what `check_total_amount` rewrites
is a new line, unless the loan is flat.

### Compositions

`MCJobs` and `MCRecords` put modules side by side for TLC. `JobsAreIndependent` and
`RecordsAreIndependent` prove that a behaviour of the composition is one of each
module's own specification, so that the theorems hold of what the runs check;
`RecordTypes` is the type invariant of all seven records (`RecordsTypeOK`).

### Induction

The library's induction theorems take an operator as a parameter, which the
installed provers cannot instantiate. `Inductions` states induction as a
property of sets (a set that has 0 and with each number the next has all of
them), from the well-foundedness of `<`, which the library has as a fact. From
it follow induction on the order of creation and the existence of functions that
are defined by recursion. So what `SumOf`, `Kept`, `Closure`, `Ends` and `Inside`
compute is proved for every input; for that they are recursive functions
rather than folds, whose library definitions are recursive through an operator.

Two things to know before changing them: a lemma about all sets is cited with
local definitions hidden, and a recursive function whose body is a `CASE` is
read wrongly by tlapm 1.4.5 (the name under definition is taken for its
argument), so `Ends` calls an operator, `EndsFrom`, that has the `CASE`.

### Only model-checked

- `ClearanceEnds`, `ChainEnds` and `Settled`: liveness under fairness is out of the
  prover's reach, and so are the violated liveness properties. `DaysAreDecided`,
  whose premise takes the place of fairness.
- That the violated properties are violated.

The type invariants of `JobQueue`, `JobChannels`, `PfLoan` and the types under the
invariants of `JobRunner` are proved and in no run.

## Disagreements

The violated properties above are each listed in `PROJECT.json` with the line that
promises otherwise. Found on the way, but without a run of their own:

What the code lets through is in the models and, where a property would be false
for it, named in the property as the exception: it is not cut away by a bound.

Resignation. A department's last approval also overtakes the manager's decision
about a submission over an old round; check lists of a first round are reused by
the second, and a return reported after the completion is written but not
processed. The memo to the departments is sent with `force_send` inside the
transaction (`employee_resignation.py:298`), so that a retried acceptance mails
twice. A change of the department heads rewrites open allocations
(`res_config_settings.py:51`).

Jobs. A chain that begins or ends with a chain answers for the wrong end when it
is asked by another object (`delay.py:330-334`; the docstring at 301 allows the
nesting): what comes after may start too early. A graph whose jobs have identity
keys is skipped as a whole if one of them exists. The vacuum also deletes
cancelled parents (`queue_job.py:413-424`), whose children then start when
another parent ends, though this one was never done. Jobs of a dead HTTP worker
stay started: the cron's `started_delta=0` leaves them alone
(`queue_job.py:433`). A sequential queue compares the first job that is due with
the job of the earliest eta only: of X (eta 10, last), Y (eta 20, first) and Z
(no eta, in between), Z runs before Y, although `channels.py:343-345` says that
for a job of higher priority "we wait until eta". `SequentialKept` states that
as its exception. The runner of `runner.py:143` asks whether `queue_job` is
installed; the addon is called `ivis_import_async`.

Provident fund loans. `action_reject` and `action_cancel` ask for no stage. The
voucher of a returned application stays; the backend form leaves the amount
editable; the portal swallows serialization errors that Odoo would retry
(`portal.py:1785`).

Employee loans. The last installment cannot be paid in cash when nothing is left
to spread (`employee_loan_details.py:770`); a flat loan without open lines
divides by zero (732); a balloon is asked for again by the last line (715).
`action_reset`, `action_approve` and `pay_installment`
(`loan_installment_details.py:165`, 172, 353) ask for no state: on a page that
is older than the payslip a paid line becomes unpaid or approved again, is
deleted by the next computation or paid a second time. If the last line of a
flat loan is paid before the others, its principal is rewritten with the next
payment.

Travel. A refused request cannot be submitted again, though the portal offers it;
two last approvals at once leave the request pending; a vote taken back while
another one is cast can leave a request approved that somebody refused, a journey
abroad without its second approver too (see TravelProofs); the error page commits
what was done before the error; abroad, only the list can give the last
approval; the message that raises in `travel_approved`.

Document requests and offers. Submitting on the portal approves at once; a new
signature leaves the old picture on the file. The letter is mailed before the
commit; the link in an old letter accepts the newest terms, which its reader has
not seen.

Appraisal. A director who saved a line decides what he saved, not what he
submits (`hr_appraisal.py:480`); bulk approval copies the newest line of the
whole database and resurrects cancelled appraisals (`portal.py:222`); anybody
may revert, and a second revert stays where it is; HR may confirm a published
appraisal again and raise the wage twice.

Attendance. The record of a day is made by the first run after midnight with
midnight as check-in, and a check-in fetched later is not taken: a late employee
looks punctual, and one who only checks in looks absent, which the job's own
warning contradicts (`processor.py:437`). The first check-out of the day is final.
An employee without a shift ends the run for all after him. A validated
correction on a day off stays a day off. Change requests check no state. A
machine that cannot be reached rolls back what the others sent.

Leaves. A refused leave leaves its mark, so that the absence costs nothing. The
payslip marks nothing: `create_lwp_for_absent_days`, run after it, books a leave
for a day that was deducted, which then costs twice. When the approval of a
booked leave raises, the request stays even for a day that was corrected
meanwhile, and a manager may approve it. A leave asked for while the booking
runs is overlapped by the booked one, although the job means to skip days with a
leave (`hr_leave.py:279`). `create_lwp_for_absent_days` has no cron in the
repository. The accrual adds a twelfth at every run of a daily job, and the jobs
`leaves_lapse` and `update_employee_type` call methods that do not exist.

## Not modelled

- The rest of `ivis_import_async`: the configuration syntax, the splitting of import
  files, views.
- `aesl_appraisal_system` (`models/models.py`): the appraisal's process before
  `prodo_appraisal_ext`, with user ids written into the code; its form has no
  create button any more.
- Who may do what (groups, record rules), mail, chatter, rendering, and what
  people do by editing records directly.
- Amounts: taxes, payslips, bonus, deductions, provident fund interest, contract
  renewal, leave balances and accrual. They are sequential arithmetic on decimals with
  no state between calls; TLC could only repeat it.
- Reports, charts, SQL view editors, backup, ribbons and the vendored copies:
  input and output.
- Dead code: `aesl_appraisal_system/models/appraisal_system.py`,
  `prodo_appraisal_ext/models/appraisal_system.py`, `ivis_attendance`'s `my_class.py` and
  `machine_data.py`, `loan_prepayment_writeoff.py` are imported by nothing;
  `ga_attendance` depends on an addon the repository does not have.

These are most of the repository's lines: about half of them compute or render.
`PROJECT.json` lists each part with its reason.

## Plan

1. The heads of departments and their reassignment (`AssetAllocation`), with the
   status on the employee.
2. Proofs: an abstract job (asked
   for, performed, settled) that `JobQueue` and `JobRunner` both implement, in
   place of the properties each states of its own.
3. `JobRunner` and `JobChannels` in one module, if TLC can bear it.
4. The leave accrual, if its jobs are repaired.
