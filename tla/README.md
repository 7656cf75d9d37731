# A model of qiskit-transpile-bench

qiskit-transpile-bench compares two source trees of Qiskit, a *baseline* and an *evolved*
one, and answers with a verdict: did the evolved transpiler improve without breaking
anything?  A comparison is a *session*: a directory in which five stages leave their results,
from which `decide` derives the verdict.  Stages are separate processes, often on different
hosts of an LSF cluster, and any of them may be killed.  What has to be right is not the
arithmetic of one stage but what the processes make of each other's files.

This directory holds TLA+ specifications of that part, TLC configurations that check them
on small instances, and TLAPS proofs for instances of any size.

## The system and its parts

| Component | State it keeps | Operations | Meets the others through |
| --- | --- | --- | --- |
| Stages: `compile`, `quality`, `correctness`, `unit-tests`, `cost` (`coordinator/stages.py`, `coordinator/__init__.py`) | `run.json`, `stages/<stage>/state.json`, `evidence.json`, observation files, builds | create, resume, skip, run, commit, fail, end noisy | `lifecycle.lock` shared, one lock per stage, the files |
| `decide` (`decide.py`, `reporter`, `evaluator`) | `decision.json`, `evidence.json`, `report.md` | snapshot, required and pending stages, verdict | `lifecycle.lock` shared, `decide.lock`, the state files |
| `clean` (`clean.py`) | `clean.json` with the planned deletions | refuse, plan, delete, resume | `lifecycle.lock` exclusive; called by `decide` |
| amendment (`amend.py`) | the amendments in `run.json` | re-pin the cost stage | `lifecycle.lock` exclusive |
| Baseline store (`store.py`, `storage.py`) | builds, baseline results, quality observations shared by sessions | build once, publish, read, invalidate | build locks, atomic renames |
| Workers and verifier (`process.py`, `worker/`, `verifier/`) | none after the process ends | run seeds, heartbeat, kill on timeout, retry what is missing | pipes and files of one stage |
| Cost panels (`costs.py`, `evaluator/cost.py`) | cost bundles | screen, measure, measure again, replay | worker processes, the cost monitor |
| Cost monitor (`lsf/cost_monitor.py`, `lsf/cost_evidence.py`) | measurement windows | admit the allocation, sample, judge, veto | hooks of the timed worker |
| LSF manager (`lsf/manager.py`, `lsf/retry.py`, `lsf/submit.py`, `lsf/control.py`, `lsf/job.py`) | `ledger.json`, `outcomes/`, the orchestration lock | submit, adopt, observe, reconcile, retry noisy cost, cancel, decide, resume, reap | `bsub`/`bjobs`/`bhist`/`bkill`, outcome files, the session |
| Upstream tests (`upstream.py`) | cached baseline results | run, judge differences | the baseline store |
| Statistics, metrics, canonical JSON, configuration, environment build, report text | none | pure functions, or external tools | called by the above |

What is hard here, and hardly reached by a test: interleavings of processes that share only
files and flocks; kills between two writes; what was read before another process moved and
is used after; the same command started twice; a retry of what was half done.
`PROJECT.json` lists these hazards with the lines where they bite.

## Modules

| Module | Models |
| --- | --- |
| `Verdicts` | the judgements over evidence records: `gate`, `cost_stage_due`, `verdict` |
| `Session` | one session directory and the commands that share it |
| `SessionContract` | what readers of a session rely on: stages that commit in one step; implemented by `Session` |
| `MC_Session` | `Session` on small instances |
| `Session_proofs` | its types, its lock discipline, cleaning and finished stages |
| `SessionStages_proofs` | what its stages promise one another, and what a decision says of them |
| `Manager` | one session on LSF: the manager, its ledger, the launcher, reap, the stage jobs and LSF |
| `MC_Manager` | `Manager` on small instances |
| `BatchContract` | what the callers of a worker or a verifier rely on |
| `WorkerRun` | one batch in a watched child process; implements `BatchContract` |
| `CostMonitor` | the timed worker under the measurement monitor, and the admission of its evidence; extends `WorkerRun` |
| `CostPanels` | the cost stage over its attempts: screening, measuring, measuring again, and the replay by `decide` |
| `QualityCache` | the quality stages of several sessions over one entry of the baseline store |
| `BaselineStore` | baseline builds and baseline results that several sessions share |
| `Manager_proofs`, `WorkerRun_proofs`, `CostMonitor_proofs`, `CostPanels_proofs`, `QualityCache_proofs`, `BaselineStore_proofs` | the theorems about each |
| `MC_CostMonitor`, `MC_CostPanels`, `MC_QualityCache`, `MC_BaselineStore` | their small instances: symmetry sets and the order of the panels |

`Session` knows of a stage only how it may end.  `WorkerRun`, `CostMonitor`, `CostPanels`,
`QualityCache` and `BaselineStore` are what happens inside the stages; `Manager` is what starts
them.  Each takes from the others only what their properties guarantee: `CostMonitor` contains
`WorkerRun`, `CostPanels` takes a bundle as admitted or not, `QualityCache` takes a batch as
answered, `BaselineStore` takes a suite as run.

### Session

A process runs one command at a time, and its `pc` is the place in the code it has reached.
A step is one file write, or one file read whose result is used later; everything between
two such points happens at once, because files are replaced atomically (`write_json`) and
nothing else is shared.  `Kill` may strike between any two steps: the process loses its
memory and its flocks, the files stay.  An exception inside `decide` or `clean` ends the
process with the same effect as a kill.

| Variable | In the code |
| --- | --- |
| `dir` | the results root: absent, empty (locks and `stages/` only), with files but without `run.json`, a session |
| `state[s]`, `evidence[s]` | `stages/<s>/state.json` and `evidence.json` |
| `pin[s]` | the harness identity in `run.json` that `_check_harness` compares for stage `s` |
| `bulk`, `planned`, `clean` | what `clean` deletes, the list in `clean.json`, its status |
| `decision` | `decision.json`: the hashes of the states (here: the states), the evidence, the verdict |
| `sharers`, `exclusive`, `stageLock`, `decideLock` | `lifecycle.lock`, the stage locks, `decide.lock` |
| `records`, `fate`, `idx`, `snap`, `seen` | a process's memory: its records, how its attempt ends, `_snapshot`'s loop |

The actions follow `run_compile`/`run_stage` and `_execute` (from `CheckSessionDirectory` to
`WriteFinal`), `decide`/`_snapshot`/`_decide` (`DecideShared` to `WriteDecision`),
`after_decide` and `_clean` (`AfterDecide`, `CleanLock` to `CleanDone`) and `_amend`.
The body of a stage is abstracted to the sets of records it may end with (`Grades`), of which
a first one is saved before the others, so that a kill may leave a part.  A stored record
carries the attempt that wrote it, which the code does not store and no guard reads; the
properties use it.  Record ids are pairs of the writing stage and a name; `guards` stands for
all the panel, cap and exactness records of `evaluate_quality`, whose grading is arithmetic on
observations and an input here.

`SessionContract` is the session as its readers see it: `outcome[s]` is the end of stage `s` and the
records it committed, `Complete`, `Fail` and `Skip` commit in one step, and a retry withdraws a failed
attempt's crash record (`Withdraw`).  It has no gate and no state files: whether a stage is skipped is a
function of the committed records (`Skipped`).  `Outcome` maps a state file and its evidence to it.

### Manager

Only the process that holds the orchestration lock reads or writes the ledger: a manager, a
reap, or the launcher of a first or resumed manager.  `holder` says which one, and `pc` to
`looked` are its memory, which `Kill` wipes.  A step is one call of `bsub`, `bjobs` or `bhist`,
or one save of the ledger, so a kill may fall between a reservation, its submission and the
saved answer.  LSF may requeue a killed manager.

| Variable | In the code |
| --- | --- |
| `ledger[k]`, `count`, `epoch` | `ledger.json`: the entries in the order of their reservation, `len(resumes)` |
| `created`, `state[s]` | `run.json`, and the stages' `state.json` with the job that wrote it (`invocation.job_key`) |
| `lsf[k]` | the truth about a job: never there, `sent` (it may still arrive), pending, running, `over` (the command returned, no record yet), `DONE`, `EXIT` |
| `body[k]`, `outcome[k]` | what the job's command did, and the exit code in `outcomes/<key>.json` |
| `step`, `queue`, `waiting`, `cur`, `tries` | the place in `pipeline`, the stages still to submit, the awaited jobs, `submit`'s loop |
| `looked` | the entries this process has looked up by name before, on which it may give up after `lost_after_s` |

LSF is external.  The model assumes of it only that what it says of an end is true, and that a
submission it refuses starts nothing; with `Honest = FALSE` every query may fail or miss a job,
and an unanswered `bsub` may start a job at once, later or never.  A stage job is abstracted to
the ends that `Session` allows it (`Ends`).  Its command may also come to no end of the stage
(`body`): the stage is final already, the command is refused or a usage error (`JobRefused`), or an
exception meets it before the body (`JobRefused`), after the stage has begun (`JobRaises`) or after the
last write (`ExitCodes`).  `invoke` and `lsf.job` turn every such exception into exit code 40, the one of
a failed body; `"error"` in `Ends[s]` says that it may happen to stage `s`.  Time is abstracted: a wait may reach its deadline at
any poll, a lost job may be given up at any poll after the first, a job may not fit.  After a
deadline nothing fits any more.  `ledger.latest` orders by attempt and reservation time; the
model orders by reservation, which differs only if the clock of the host goes back.

A decision is one step here: its own reads and writes are the subject of `Session`.

### WorkerRun and BatchContract

| Variable | In the code |
| --- | --- |
| `kind` | the loop of `run_worker` (one process for a batch of seeds) or of `verify_chunk` (one for a chunk of oracle jobs) |
| `pc`, `todo`, `completed`, `fresh`, `timed_out`, `results` | the locals of that loop in `coordinator/process.py` and `coordinator/__init__.py` |
| `child`, `at`, `doing` | the process, and the entry it works on |
| `half`, `rows` | the unterminated line and the complete lines of `results.jsonl`, or the verifier's result files |
| `written` | ghost: every answer some child completed |

The child answers its entries in order (`Boot` to `FinishRow`) and may end anywhere (`Exit`); the
coordinator counts answers (`Poll`), kills the silent child (`Timeout`), and `Collect` reads the
answers once more, makes up `timed_out`, `exited` and `not_attempted` rows and decides
whether a fresh process takes the rest.  Time is abstracted: after a poll without news the timeout
may have passed.  `BatchContract` says what callers rely on: an entry is answered once, an answer
stands, and the call returns with the last one.  `ImplementsContract` is the refinement.

### CostMonitor

`CostMonitor` replaces the unmonitored steps of `WorkerRun` by those with lifecycle hooks:
`launched`, `progress`, `measurement` (`Boundary`), `exited` and `reaped` (`MonitoredCollect`) of
`lsf/cost_monitor.py`.  Around them are the two arms of `collect_panel` (`EndJob`) and the
checks of `lsf/cost_evidence.py` (`Validate`).  `records` is the monitor's list of process records:
windows with the measurement they belong to, measurements as ranges of windows.  Windows are
numbered and the clock is left out; since every sample closes one window and opens the next, the
numbers are the intervals.  What sampling `/proc` gives is an input: a window may have seen foreign activity
(`foul`), the coordinator may have overslept (`long`), a mask may have moved or a counter become
unreadable (`sound`).  `harmed` and `crowded` are ghosts: activity fell on a timed call, or between
the two samples of a measurement.  The machine-wide mode is left out; it differs in the source of `foul`.

### CostPanels

`saved` are the bundle files of each panel and regime, `records` what the stage's evidence says,
`required` the evidence contract in `run.json`.  `Consult` is `measure_panel` with its reuse of
bundles, `Judge` is `cost_guard` with the move from screen to normal to rerun, `Replay` is
`replay_costs` in `decide`.  Whether a bundle breaches its thresholds is an input: the statistics are
arithmetic.  A guarded panel that cannot be measured ends the stage; a report-only one does not.
An attempt may be contaminated, fail or be killed at any point, and the stage may be amended to
another contract between attempts.

### QualityCache

One case, whose entry in the store all sessions share; the evolved builds are their own.  A batch
is one seed; `InFlight` of them are compiled at the same time and committed in the planned order.
`obs` and `torn` are a session's `observations.jsonl` with its unterminated tail, `failures`,
`audit` and `C0` its evidence; `rows`, `files`, `exists`, `invalid` and `readers` are the entry and its lock.
What a compile yields is any of `Outputs`, since a build may be nondeterministic; the checks are a
function of the output (`Sound`).  Storing takes four steps, as in `store_quality_observation`:
the lock and the check for validity, the output, its hash taken where it lies, the row.  The audit
and the invalidation are steps of their own, with a kill possible in between.

### BaselineStore

The baseline build of `compile` (`parts`, `dir`, `READY`, `lock`): looked up, looked up again under the lock,
repaired, built part by part, marked; on a thread beside the session's own build.  Then the
baseline half of `correctness` or of `unit-tests`: replayed from the published entry (`results`) or
computed, and published by a rename of a private directory (`partial`) when it is decisive.  A file
holds the half it was written from, which shows a mix of two sessions.  A suite's run reports
what it would say at its end (`truth`), or gets lost, is cut by the timeout, or crashes; `judge` and
`Result` are the judgements of both halves.  A suite stands for one representative check or test of
it: the code compares sets of tests, each of them like this one.  The verifier cache is left out because it
holds decisive results of the same content only.

## What the runs check

| Run | Instance | Shows |
| --- | --- | --- |
| `decide_while_stages_run` | one process for the stages, one that decides and cleans; one kill, cost tried twice | `DecisionIsASnapshot`, `PassIsEarned`, `CleanedIsDecided`, `AttemptKeepsBulk`, `VerdictRepeats`, `TypeOK` |
| `two_stage_runners` | two processes that run any stage, every outcome; one kill, quality tried twice | `CommittedIsWhole`, `StagesInOrder`, `FinalIsForever`, `ImplementsContract` |
| `amend_identical_builds` | an A/A session, two harness versions, cost tried twice, an amendment and a decide | `PinnedHarness`, `IdenticalBuilds` |
| `every_invocation_ends` | one process for compile, quality (tried twice) and decide, another for decide and clean; fair | `InvocationEnds` |
| `manager_submissions` | compile fails; one kill, one fault, one resume, reaps; untrusted queries | `LedgerCovers`, `OneJobPerStage`, `DecideAlone`, `SettledStays`, `TypeOK` |
| `manager_pipeline` | all five stages; cost always noisy, or with an exception before, in or after its body; one stage run by hand, deadlines, one kill | `JobsInOrder`, `OutcomeIsTrue`, `OnlyNoiseIsRetried` (the retry budget included) |
| `manager_ends` | unanswered and rejected submissions, untrusted queries, cost noisy or skipped; fair | `PipelineEnds` |
| `worker_batches` | three entries, a worker or a verifier; fair coordinator | `AnsweredOnce`, `ImplementsContract`, `CallEnds` |
| `monitored_cost_bundle` | two arms of two entries, one disturbance, stall or spoiled counter at any moment | `AdmittedIsQuiet`, `AdmittedIsBalanced`, `ContaminationIsMeasured`, `FailureIsReal` |
| `shared_quality` | two sessions of two seeds, two batches in flight; one odd compile, one kill | `ObservedOnce`, `FailureIsRecorded`, `FlaggedIsInvalid`, `InvalidStays`, `TypeOK` |
| `shared_baseline` | two sessions, each with identical builds or not; one kill or failed build | `ReplayedIsTrue`, `VerdictIsTrue`, `ReadyStays` |
| `cost_regimes` | a guarded panel with a screen, a report-only one, a guarded one without a screen; two faults, one amendment between two contracts | `ReplayAgrees`, `EvidenceIsCurrent`, `NoSecondChance` |

Bounds of `Session` and `Manager`.  `MaxAttempts` bounds the attempts per stage and `MaxKills` the
kills.  Two processes are enough for every pairwise race, since each lock has at most one owner and
decide is serialised by its own lock; one kill is enough to leave any prefix of a command's writes,
and a second attempt to meet them.  In `Manager`, `MaxJobs` bounds the entries and is large enough
for every job the instances' pipelines ask for (in `manager_pipeline`, all but the clean job after
two cost jobs); where it is reached the stage counts as one that does not fit.
`amend_identical_builds` has no kill (with one it does not finish in time); failed and noisy attempts
leave it the same unfinished cost stage.  In `manager_pipeline` the cost stage never completes,
which keeps the run within minutes; the other stages do.  `every_invocation_ends` has no kill for the same reason; a kill
ends an invocation and frees its locks.  Its retry of quality lets a snapshot start anew, and its two deciders
make `decide.lock` and `lifecycle.lock` contended: a decide may wait while the other process decides and
cleans again and again.  `MaxFaults` counts signals, refusals and killed jobs,
except those that the manager kills itself.

Bounds of the others.  In `WorkerRun`, three entries let a kill fall on a first, a middle and a last
one, with answered and unanswered ones around it; nothing else is bounded (4 thousand states).  In
`CostMonitor`, two entries per arm give a second measurement, which a retry and a wrong label need;
`MaxEvents = 1` puts one event at every place of a bundle, and since any event that is
judged ends the bundle, a second one adds little (0.1 million).  In `QualityCache`, two sessions are the one that
stores and the one that replays or invalidates, `MaxOdd = 1` makes one compile differ or fail, one
kill leaves any prefix of a commit and its torn line (0.6 million).  In `BaselineStore`, two
sessions race for the lock and for the rename (0.8 million).  In `CostPanels`, two
faults allow three attempts, of which two can leave bundles behind (3.4 million).

`CHECK_DEADLOCK` is off where the system really stops: a session in which every command has
ended and no attempt is left, a call that has returned, a bundle that was admitted or refused, a
completed stage.

Fairness.  A started process keeps running unless it is killed (`WF` of its steps); `decide`
waits for its two flocks, which the kernel grants to a waiter that finds the lock free again
and again (`SF` of those two steps).  Both are needed: without the first TLC finds a decide that
starves while cleans are started again and again, without the second one that starves behind the
decides of the other process.  A snapshot comes to an end because attempts do: `MaxAttempts` bounds
them here, and a stage that were retried without end could keep a decide reading for ever.
Nothing makes an operator start a command.
In `Manager` the process that holds the lock keeps running (`WF` of its steps); its deadlines are
steps of it, since its clock advances while it polls, and no poll has to bring news.  In
`WorkerRun` the coordinator keeps polling (`WF` of `Watching`) and its clock advances, so that it
cannot find a silent child within the timeout again and again (`SF` of `Timeout`).  The child owes nothing.

## What is proved

Every invariant and every action property of every run, and the refinements of `SessionContract` and
`BatchContract`, is also a theorem: for any number of processes, sessions, entries, panels, jobs and
kills, and for any outcomes, under the named assumptions of the modules.  `PROJECT.json` lists the
theorems.  All of them have the same shape: an inductive invariant, a lemma per action (or per group
of actions that move the same variables) that it is kept, and the property as its consequence.

**`Session_proofs`.**  `TypeOK` alone is not inductive: a stage's command must be a stage at the
labels of stages (`Control`).  `CleaningIsSafe` and `FinishedIsFinal` rest on `Safe`: `Guarded` says
which locks a process holds at which label, `Open` that an admitted attempt runs for an unfinished
stage in a session that nobody cleans, and `Reader` that once `clean.json` exists what a decide has
read of the states is what they still are.  `StageEffects` condenses the 21 actions of a stage
into the one fact the rest needs: a stage writes only its own files, only while it is unfinished,
and never in a cleaned session.

**`SessionStages_proofs`**, first half.  `Footprint` says which action writes which file, and
`Arrivals` by which action a process reaches which label; with them `Ordered` (`StagesInOrder`),
`Built` (`AttemptKeepsBulk`), `Pinned` (`PinnedHarness`) and `Whole` (`CommittedIsWhole`) are each a
matter of the few actions that can disturb it.

**`SessionStages_proofs`**, second half: `DecisionIsASnapshot`, `VerdictRepeats`, `PassIsEarned` and
`IdenticalBuilds`.  A state file only moves forward (`Later`: to the next attempt, from running to
its end, from there to skipped), so a hash that is the same twice was the same in between, and
evidence read between the two is what that state commits (`Reads`).  `VerdictGiven` restates the
judgement of a session as a function of the states, the evidence and the gate; `Decided` says that
the decision file is a value of it, hence deciding again repeats it.  `Graded` carries what the
bodies' evidence can hold (`GradesAssumption`) up to the verdict.

Last, `StagesKeepTheContract`: every step of `Session` is a step of `SessionContract` or a stutter.  Of
the steps only `Skip`, `WriteRunning` and `WriteFinal` change an outcome (`OutcomeStays`).  That
`WriteFinal` is allowed by the contract is where the invariants meet: `Ordered` gives that it is
the stage's turn, `Graded` that the gate in quality's state file is the judgement of the records that were committed
(`SkippedIs`), and `Whole` that these are one grade and records of other checks (`CompleteIs`).

**`Manager_proofs`.**  `Process` is what the holder of the orchestration lock knows, and what a kill
makes it forget; `Progress` what the pipeline has reached; `Entries` what an entry says of its job and
of the other entries of its stage and epoch: it is followed by another only if it settled as a
noisy cost job or was rejected; `Evidence` what a job leaves behind, and that a final state, once
written or found by a job, stands (`Stands`).  `LedgerCovers` and
`OneJobPerStage` need the parts together: that two jobs of a stage exclude each other is
known through the ledger only, and that a terminal entry's job has ended through what LSF said when
it was settled.  `OutcomeIsTrue` says for each outcome that comes from a job's record what the command of
that very job came to (`Tells`).  It needs `Stands`, since `classify` reads the stage's state after the job
has ended, and `CodesAre`, which inverts the exit codes.  Only `failed` cannot be inverted to a state of
the stage, because 40 is also the code of an exception outside the body: the theorem says of such an
entry no more than that its command ended and was neither refused nor a usage error.  A step edits one unsettled entry (`Edits`), reserves one (`Reserves`), or leaves the
ledger alone.

**`WorkerRun_proofs`.**  The invariant is an account: `results` and `todo` share out the entries, and the
lines of a child answer the entries of its job below the one it works on (`Answering`, `Account`).
`CollectCore` is the lemma that matters: whichever of the four branches `run_worker` takes with what a
dead child left, the account is kept.  `Kept` adds that no completed answer is lost.
`CallsKeepTheContract` maps every step of the loop to a step of `BatchContract` or to a stutter.

**`CostMonitor_proofs`** extends `WorkerRun_proofs`: a monitored call is still a call, so the account
(`Core`) carries over.  `Hooked` and `Bracketed` say what the monitor knows at each place of the
call; `Reasons` that activity on a timed call is either judged or still lies in a window of the open
measurement; `Arranged` and `Balanced` which entries of which arm have been timed.  The proofs of
`AdmittedIsQuiet` and `AdmittedIsBalanced` use the monitor's aborts and the checks that `collect` in
`collect_panel` makes of a job's rows, and nothing of `cost_evidence.validate`: the checks on the saved
evidence are a second line of defence, not needed against any behaviour of the monitor that wrote it.

**`CostPanels_proofs`.**  `Asked(p, r)` says that every regime before `r` has an admissible bundle that
breached; it reads admissible bundles only, and those are never overwritten (`Measuring`).  So what a
judgement rested on still stands (`Standing`), and the replay, which walks the same regimes, ends at
the same bundle.  `Numbered` gives each bundle a measuring session of its own.

**`QualityCache_proofs`.**  `Booked` is a session's account of observed and outstanding items, which
share none but the one being stored; `Stores` says who writes into the entry: a holder of its
shared lock, while it is not invalid.

**`BaselineStore_proofs`.**  `Locked` says who may hold the lock of a build entry and what its holder has
made so far; `Stored` that the results entry is absent or one decisive half; `Holds` what a session has
computed or read of it; `Judged` that a verdict is what some run of the evolved suites comes to.

The assumptions on constants are those of the code: bounds are natural numbers, `None` is not a process or
a harness, `NAssumption` and `ManagerAssumption` say what batches and configurations may be.  Two say more.
`GradesAssumption` (`Session`) lists what a body's evidence can hold: records of its own stage, the
kinds that `verdict` does not refuse, the round trip among those of compile, and that a body that
returns has recorded each of its checks.  `SameBuildAssumption` says that identical builds have no
passing improvement, since each seed's values are equal.  TLC evaluates all of them in every run.

Some cases are left to the proofs, because no run's instance has them: a session with `unit-tests`
in `PassIsEarned`, exit code 40 of a job whose stage is complete in `OutcomeIsTrue`, the retry budget over resumes in `OnlyNoiseIsRetried`, and ambiguous answers of `bsub`
in the safety properties of `Manager` (`manager_submissions` has them only through a kill or a signal).

Only model-checked: the three liveness properties, `InvocationEnds`, `PipelineEnds` and `CallEnds`.
The prover at hand has no rules for fairness and `ENABLED`.  Nor has it induction over data, which nothing here
needed: the models write what the code recurses or loops over as sets and functions, the gate and the
verdict included; where a least or a last element of a set is needed it comes from the
well-foundedness of finite sets.

## Known divergences

Places where the code does not do what a document, a comment or a reader would expect.  The models
follow the code, and no property asserts what one of them denies: two properties except the case by
name, as said below; of the others none claims it.

- A kill of `compile` before `run.json` is written leaves a directory on which compile is a usage
  error (`stages.py:577`), while `docs/sessions.md` lets a killed stage resume
  (`docs/workflow/compile.md` documents the refusal itself).
- A manager killed between the reservation and `bsub` leaves an entry for a job that never existed.
  `reap` gives it up only when `lost_after_s` passes within one process (`manager.py:657`), and `resume`
  refuses while it exists, although `docs/cluster.md` offers both for a killed manager.
- A manager that is requeued while its clean job is in LSF reports `child termination is
  unconfirmed` (`manager.py:279`) instead of adopting the job; the branch of `cleanup_job` that
  would adopt it cannot be reached.
- The ledger's `failed` may be said of a job whose body never ran or whose stage is complete:
  `cli.py:100` and `job.py:220` give an exception outside the body the exit code of a failed stage, and
  `manager.py:791` does not look at the stage's state for it.  The pipeline goes on by the state
  files, so nothing but the retry of cost and the report depends on it.
- A row that is completed between the last count and the kill is kept, but the *next* entry, which
  the child had hardly begun, is then recorded as timed out and not run again
  (`process.py:113-180`).  `docs/architecture.md` blames the seed that timed out.
- A Rust suite that times out after its first `test result:` counts as completed
  (`upstream.py:225`), while `docs/workflow/unit-tests.md` says that a timeout gives `unresolved`.
  `ReplayedIsTrue` and `VerdictIsTrue` except the suite that was `cut`.
- A kill between the failure evidence of a seed and its observation, followed by a compile that
  succeeds, leaves the failure evidence (`coordinator/__init__.py:855-868`).  Therefore
  `FailureIsRecorded` is an implication in one direction.
- A failed audit that is killed before the entry is invalidated can be replaced by a passing one
  when the stage resumes.  `FlaggedIsInvalid` is about the audit a completed stage ends with.
- Two sessions that store the same seed of one entry hold its lock shared: the output of one can be
  hashed for the row of the other (`storage.py:228`), so a row can be replayed with an output it
  does not describe, against the docstring at `storage.py:199`.
- With amendments from one contract to another and back, a rerun bundle of before can be admissible
  again after a normal bundle that was measured later (`costs.py:340`).

## Plan

The models of the core, their runs and the theorems about their safety properties are done.  Left, in
the order of importance for a verdict:

1. A contract for the store that `QualityCache` and `BaselineStore` share: an entry is
   absent, valid for good, or invalid for good.
2. `decide` in `SessionContract`: a decision is about one instant of the outcomes, which may lie
   before the write, so the contract needs their history.
3. Models still missing: the exclusion of hosts on a retry, the wheel cache of a build.

## Not modelled, and why

Statistics, metrics and circuit verification are arithmetic on floats and linear algebra without
state; the models take their results as inputs, every combination of them.  Report and log text,
schema generation and curation tools act on nothing that is read back.  Qiskit, LSF and the file
system are external and are modelled from how the code uses them: atomic renames, flocks that die
with their process, and the answers described above.  The Qiskit adapter of the worker converts
between Qiskit's objects and the exchange format without state.  The wheel cache inside
`build_into` is a copy checked by its hash.  The sampling of `/proc`, the thresholds of the monitor
and the load average of its machine-wide mode are measurements whose result is an input.  Curation
tools and design probes are one-off scripts outside a comparison.
