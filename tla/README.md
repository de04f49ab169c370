# Formal models of the trade copier's manager

The manager (`manager/`) copies the positions of one MetaTrader 5 account, the
master, to any number of slave accounts. It is a GUI process that starts one
worker process per terminal, reads what they write on pipes, and sends the
slaves commands. This directory holds TLA+ modules of the parts that decide
what is opened, changed and closed on a slave, and when, of the configuration they
work from, and of how the program updates itself; the TLC configurations
that check them on small instances; and TLAPS proofs for every instance.

All paths below are relative to the repository (`manager/...`) or to this
directory (`*.tla`, `*.cfg`).

## 1. Inventory

| Component | State | Operations | Talks to |
|---|---|---|---|
| copy engine (`engine/copy_loop.py`, `snapshot_diff.py`, `record_table.py`, `models.py`) | previous snapshot and its time; per slave: configuration, record table, `pending` tickets, held events, symbol infos, requested / in-flight / missing symbols, balance | `ingest_snapshot`, `apply_ack`, `apply_symbol_info`, `apply_status`, `apply_recovery`, `reset_slave`, `update_slave_config` | called by the supervisor with each message; returns commands and info requests |
| lot sizing (`engine/transform.py`) | none | `calculate_slave_lot`, `_snap_clamp`, `split_volume` (also price rounding and the symbol map) | the engine sizes an OPEN, the worker splits it |
| recovery baseline, linkage comments (`engine/baseline.py`, `linkage.py`) | none (the comments on the broker's side are the state) | `seed_from_recovery`, `is_too_old`, encode and decode `CPY#ticket\|MV\|SV` | worker writes and scans, engine seeds its table |
| slave worker (`worker/mt5_worker.py`) | the command it executes; symbol and MV/SV caches | `execute_command` (OPEN, MODIFY, PARTIAL_CLOSE, CLOSE), `build_recovery_records`, `build_symbol_info_msg` | commands from and answers to the supervisor; the terminal through the adapter |
| terminal adapter (`worker/mt5_adapter.py`) | the connection | `order_send`, `positions_get`, `symbol_info_tick` | the MetaTrader5 package (external) |
| supervisor (`supervisor.py`) | a handle per worker: process, pipe, last message time, failure and restart counts, backoff; master heartbeat | `tick` = drain slaves, read master, health check with restarts; `shutdown`, `join` | owns the workers, feeds the engine |
| controller (`app/controller.py`) | supervisor, engine, configuration | `start`, `stop`, `apply_slave_edit` | called by the main window on the GUI's thread |
| pipe messages (`ipc/`) | none | framing and JSON | all of the above |
| main window (`gui/main_window.py`), editor and popup (`gui/slave_editor.py`, `update_prompt.py`) | the list of slaves; the update button, cached wheel, once-per-version mark, delay timers, countdown | add, remove, edit a slave; start, stop, close; handle check and download answers; show, delay, dismiss, fire the popup | the controller; the updater, in threads |
| updater and helper (`updater.py`, `update_helper.py`) | two files in the update directory; the helper's process | check, download and verify, apply; wait for the manager's exit, reinstall, relaunch | GitHub (external), pip, the main window |
| settings store (`settings/store.py`), entry point (`__main__.py`) | `settings.json` | load, save; `copytrades update`, `--resume-copy` | the main window |
| terminal discovery and assignment, autostart, installer | files, a registry value | see `PROJECT.json` | the main window, the controller |

**What is hard.** The engine keeps an optimistic record of an order that is not
answered yet, holds back events for a ticket behind an unanswered command or a
symbol-info reply, and keeps only the latest one. Answers come back in any
order, workers die with commands unanswered, and the table is then rebuilt from
position comments. One copied trade can be several orders on the slave, each of
which can fail, be filled in part, or be closed by the broker in between. The
supervisor decides from clocks and unread messages whether a process is dead,
silent or fatally broken, while another thread may be stopping the program or
changing a slave's configuration, which lives in four places. The updater's
downloads write one file from several threads, and an update ends the process that
decided on it: what is not on the disk by then is forgotten.

**What makes each component correct.**

- *Engine*: at most one unanswered command per ticket; commands agree with the
  record table; a failed open is not retried but does not block the ticket after
  the master closes; held events are the master's latest word and are always
  released; a position the master closed settles.
- *Sizing*: the largest tradable size the configuration allows, never above the
  cap; scaling only ever shrinks; a split conserves the volume in the fewest
  orders, each of which the broker accepts.
- *Worker*: no duplicates, whatever is retried or restarted; an ok answer is
  true (all legs closed or changed, the fill is what was filled); a partial close
  closes the master's fraction and never more; every command is answered.
- *Supervisor and controller*: no heartbeat alarm without cause; restarts are
  throttled and happen; a fatally broken worker stays down; nothing survives stop.
- *All of the copier together*: one copy per position, closed only when the
  master's position is, and in the end whenever it is; SL/TP follow.
- *Configuration*: list, engine, handle and worker agree once an edit is through;
  no two workers drive one terminal.
- *Update*: what is installed is whole; no release restarts the program by itself
  twice; the manager and its copy job come back; a new release is offered.

The hazards behind these, each with its line, are in `PROJECT.json`.

## 2. Modules

| Module | What it is | Code |
|---|---|---|
| `LotSizing` | operators: sizing and splitting, in whole hundredths of a lot | `transform.py` |
| `LotPipeline` | an order is chosen, sized, split: the reference definitions it must meet | `copy_loop.py:71-76`, `mt5_worker.py:207-219` |
| `CopyLink` | abstract specification: what the linkage of one ticket may do | - |
| `CopyEngine` | the engine with the supervisor's routing; implements `CopyLink` | `copy_loop.py`, `snapshot_diff.py`, `baseline.py` |
| `SlaveWorker` | a worker and its terminal, one `order_send` per step | `mt5_worker.py`, `mt5_adapter.py`, `linkage.py` |
| `Supervisor` | worker processes, pipes, clocks, tick, start and stop | `supervisor.py`, `controller.py` |
| `CopySystem` | `CopyEngine` between the master's and the slaves' terminals: pipes, executions, crashes | `mt5_worker.py`, `supervisor.py`, `controller.py` |
| `ConfigEdit` | a slave's configuration in the list, the engine, the handle and the worker | `main_window.py`, `slave_editor.py`, `controller.py`, `supervisor.py` |
| `UpdateFlow` | checks, downloads, the popup, the helper, relaunches | `main_window.py`, `update_prompt.py`, `updater.py`, `update_helper.py` |
| `MC*` | the instances TLC checks | - |
| `*Proofs` (all modules but `CopyLink`) | the theorems about that module, and their proofs | - |

`CopyEngine`, `SlaveWorker` and `LotPipeline` extend `LotSizing`; `CopySystem`
extends `CopyEngine`. Definitions
written for the mutation runs (a plausible bug of the definition they stand in
for) have a comment that begins with "Mutant".

### CopyEngine

One handler of the supervisor's thread is one action: `ReadSnapshot`
(`_read_master` and `ingest_snapshot`: the diff, every event handled for every
slave, the commands sent, the queued info requests sent), `ApplyAck`,
`ApplySymbolInfo` (with the re-derivation of what was held), `ApplyStatus`,
`ApplyRecovery`, `RestartWorker` (`reset_slave` and the new pipe),
`UpdateSlaveConfig`. `LoseWorker` is the death of a worker, noticed later:
commands written meanwhile are lost, as `_send` swallows them. The worker is
reduced to its obligations, `commands` and `asked`.

A ticket's state on one slave is gathered in a *cell* (record, held event,
pending, commands, requests). The handlers are functions from cell to cell
(`Derive`, `Rederive`, `HandleEvent`, `HandleDiff`, `AckedRecord`, `Freed`), since
what an event does to a ticket depends on no other ticket. The engine's order of
commands for *different* tickets is therefore not modelled.

SL and TP are one abstract level, prices and the side of a trade are left out;
a symbol map is what it resolves to.

### CopyLink

For a ticket on a slave: a link (no record, a record without a slave ticket, or a
slave position) and the one command it may have outstanding. It is opened
only without a link, every other command goes to the linked position, a link is
made only by the answer to its OPEN or by recovery and undone only by the answer
to its CLOSE or by a restart. `CopyEngine!Link` is the refinement mapping: the
link is the `slave_ticket` of the record, the outstanding command is the one in
`commands`, or "lost" when the ticket is pending and its worker is gone.

### SlaveWorker

`Receive` takes a command and plans its orders (chunks of a split, or one order
per leg found); each `Attempt` is one `order_send` with the outcomes of
`OpenResults`, `CloseResults`, `ModifyResults`; `Answer` computes the ok flag and
fill as the code does and applies the engine's side of the ack. Between any two
attempts the broker may close a leg (`BrokerCloses`), and the worker or the whole
program may be restarted (`Restart`), after which `Recover` rebuilds the records
from comments and merges the legs of one ticket, for the tickets that have none. As
in the code, nothing makes the engine wait for the records of a worker it has
restarted: it derives commands from the table as it is. Only the start of the
program waits (`starting`: the master's worker is spawned when all slaves have
reported). `EarlyLoss` lets the worker die between the start and the first snapshot,
when the engine knows of no position at all: the case of `system_duplicates`. Without
it a worker may die at any time once the snapshot has named the copied positions
(`SnapshotRead`). The order in which the terminal
lists its positions is arbitrary: a command may visit its legs, and recovery may
find the first leg, in any order. `Mangled` are the positions
whose comment the broker rewrites, `ScansFail` lets `positions_get` answer None.
`LostOn` are the actions whose `order_send` may be executed and then answered None:
the worker takes the attempt for a failure and tries again.

Simplifications: an answer is applied in the step that sends it (CopyEngine has
the delay), the two scans at the start of a command are one, the size of a copy
is the master's, and the volumes of a netting account's merged positions are
not modelled (its clamp of an oversized order is).

### Supervisor

A tick is `Drain`, `ReadMaster` (one message), a `Check` per handle in any order,
`EndTick`; a restart is split into `Terminate` and `Respawn`, because
`_restart` waits for processes in between. `Terminate` reads the clock, as `_restart`
does before anything else: the next pause (`backoff`) is counted from there, runs
down while the processes are waited for, and `Respawn` hands what is left of it to
the new handle. The ghost `storm` is the time since the first restart of a row began.
Workers connect, write, hang, die or
fail fatally between any of these, `Passes` is a unit of time, and the GUI's
thread (`StopRequested`, `Stops`) interleaves. In the start sequence
(`SlavesReady`, `MasterReady`, `GivesUp`) the ticks are the starting thread's.
Messages are reduced to "first", "data" and "fatal". The backoff a handle carries is
`Doubled` of its restart count, cut off at `MaxRestarts`.

### CopySystem

`CopyEngine` accepts any snapshot, any answer and any recovery records. Here they
come from somewhere: `master` is what the master holds, `MasterTrades` opens,
changes and closes it, `Sends` puts a snapshot in the master's pipe and
`ReadsSnapshot` takes it out; `Executes` changes `terminal`, the slave's positions,
and puts the answer in the pipe, `ReadsAnswer` takes it out; `Connects` scans the
terminal for recovery records (`Records`), `ReadsRecovery` applies them. Every one
of these wraps the engine's own action (`ReadSnapshot`, `ApplyAck`, ...), so that a
copy is lost, doubled or left open only if the handlers make it so. `LosesWorker`
and `RestartsWorker` are those of `CopyEngine` with what is in the pipes gone;
`RestartsManager` is stop and start, or a crash and a launch: a fresh engine, with
tables from the terminals; `LosesMaster` is a restart of the master's worker.
`missed` is a ghost that remembers the events the code gives up, each only if some copy
on the slave is then not what the master's position asks for (`Owed`): the command failed
and no later event of its kind was held behind it (`Refused`); it was under way or held when
its worker was lost (`LostKinds`); or it made no event, or one in vain (`Unseen`):
it happened before the manager's first snapshot and the copy was there; it was
read while the table of a restarted worker was empty; it was a MODIFY held back that a
partial close replaced. A missed MODIFY is forgotten when the next change of the
SL/TP is read, and a restart of the manager forgets everything. `EngineIsDriven` says that this
composition is within `CopyEngine`: each step is a step of it or a restart of the manager,
so that what is proved of `CopyEngine` holds here between restarts.

Simplifications: a command is executed for all legs or for none (`SlaveWorker` has
the attempts); nobody edits the configuration (`ConfigEdit`); a restart of the
manager is one step.

### ConfigEdit

The list of slaves, and the copies of a slave's parameters: in the engine (amounts
and mapper, replaced one after the other by `UpdateEngine`), in the supervisor's
handle (`UpdateHandle`), and in the worker, which got them when it was spawned or by
a message (`SendReconfigure`, `WorkerReads`). The edit is on the GUI's thread, and each
of its looks at the supervisor's state is a step: `reconfigure_slave` fetches the
installed handle (`LookUp`), writes its configuration, which the handle that replaces
it shares, and tests the pipe and the fatal flag of the handle it fetched (`TestPipe`);
`_send` fetches the installed handle again and tests its pipe (`LookUpAgain`), and writes
(`SendReconfigure`). What became of the fetched handle is in `edit.fetched`: still
installed, or replaced, with its pipe closed by `_restart` or already None. On the
supervisor's thread `FindsDead` reads a dead worker's pipe to its end, and
`RestartSpawns` and `RestartInstalls` are the two halves of `_restart`: in between, the
new process has its configuration and the old handle is still the one an edit finds. `AddSlave` and `RemoveSlave` change only
the list, as in the code, whether the copier runs or not. `started` and `unheard` are
ghosts: the ids started whose row was not removed since, and the ids whose worker
missed the last edit because its handle was installed too late (`EndsUnsent`).

### UpdateFlow

`released` is the server's version, `wheel` and `sha` the two files every download
writes in place (`OpenWheel`, `EndWheel`, `Verify`, `DownloadFails`), `checks` and
`done` the answers of threads that the GUI has not handled. `UpdateFound` and
`Predownloaded` are the handlers; `MaybeRestart` marks the version and shows the
popup, which fires, is delayed or dismissed. `Apply` hands a wheel to the helper and
quits; `Quits` is the end of the process, `Gone` what it takes with it. The helper
waits (or kills: `ForceKill`), reinstalls with success or failure (`Reinstall`), and
relaunches (`HelperRelaunches`); `Launch` reads the settings. `CliUpdate` is
`copytrades update`. Versions are numbers, a file is the version it holds or `Torn`.
`tried` is a ghost: the versions auto-restarted for and not dismissed since.

## 3. What is checked

Each property has a mutant of the code in `PROJECT.json` that breaks it.

| Run | Instance | Shows |
|---|---|---|
| `engine_safety` | one slave, one ticket with two volumes and two SL/TP levels, two slave tickets, three configurations (own name, mapped, cap 0), fresh and stale trades | the five safety invariants of the engine, and that it implements `CopyLink` |
| `engine_liveness` | the same with one volume and two configurations, under `FairSpec` | held events are released, closed positions settle (`TicketSettles`) |
| `lot_pipeline` | all modes, 14 configurations, 6 symbols with lot steps 0.01, 0.1 and 1, `volume_max` on and off the grid, 8 volumes, 4 balances | sizing is the largest allowed, capped, monotone; splits conserve, are tradable, are minimal (`SplitIsRight`) |
| `worker_commands` | a trade of up to two legs at a time (orders split above 2 units), four positions in all, rejections, missing ticks, lost answers to MODIFY and CLOSE, worker and program restarts, events read before a restarted worker's records, no worker lost before the first snapshot (`EarlyLoss = FALSE`), under `FairSpec` | no overfill, truthful ok answers, proportional partial closes, every command answered |
| `worker_two_tickets` | two trades, chunks filled in part, a rewritten comment | the fill is true, closes reach the rewritten leg, trades do not touch each other |
| `supervisor_safety` | a master and a slave, start to stop | no unfounded heartbeat alarm, no worker left after stop |
| `supervisor_restarts` | a master that dies or hangs up to three times, backoff up to its maximum, under `FairSpec` | the n-th restart of a row begins at least the sum of the pauses after the first, and restarts do happen |
| `copy_system` | one slave, one ticket with two volumes and two SL/TP levels, two slave tickets, one snapshot in the pipe, two crashes of worker or manager, OPEN, MODIFY and CLOSE that may fail, under `SysFairSpec` | no duplicates, closes only what is closed, closes what is closed and SL/TP follow but for the events given up (`missed`), the engine is used as `CopyEngine` says |
| `config_edit` | two ids, two terminals, two parameter sets (each set symmetric), a list of up to two rows, two unread messages | list, engine, handle and worker agree after any edits and restarts, one worker per terminal; a worker hears of an edit unless its handle was installed too late (`unheard`) |
| `update_flow` | one new release, two downloads at a time, one delay, with the helper's window, under `FairSpec` | the cached wheel is whole, one automatic restart per release, the manager and the copy job come back, the release is offered |

**Why the bounds are enough.** In the engine a ticket's cell depends on no other
ticket, so one ticket is all there is to see except for `infoInflight`, which is
shared: `NoStuckHold` with more tickets, and all else for any number of tickets
and slaves, is proved (section 4). Two slave tickets tell a right link from a
wrong one. Two volumes and two levels make every kind of diff. In the worker a
volume of 4 with orders split above 2 has two chunks and a fraction that does
not divide evenly; three and more legs repeat the second. `MaxLegs` bounds the
positions ever opened, enough for a split, its recovery and a second copy.
`RetryCount` is 2 instead of 3. In the supervisor ages are cut off above the
threshold they are compared with, which loses nothing; `MaxPipe` is 1 message
unread per worker; `MaxRestarts` is where the restart count stops growing, after
the backoff has reached its maximum (an assumption of the module).

In `copy_system` two crashes are a worker and the manager in either order, or one of
them twice, and the second slave ticket is the duplicate that must not be; tickets
and slaves share nothing there that `NoStuckHold` does not cover. One snapshot
unread is enough for the engine to be behind the master; more are older still. In
`config_edit` two ids and terminals make every mix-up of two slaves, two parameter
sets every difference between the four copies, and a third row adds nothing an
equal id does not show. In `update_flow` two downloads are the least that overlap,
and a mixture is the same for two versions and a torn file; with a second release
`AutoOncePerVersion` has a counterexample (below), so the run has one.
With `CliWhileUp = TRUE` (`copytrades update` also reinstalls under a running manager)
the properties of the run hold as well, in 213,132 states; the run leaves it out for
its time.

**Deadlock** is checked except in the `Lot*` runs, which stop when the order is split.

**Fairness.** `CopyEngine!FairSpec`: the supervisor keeps reading snapshots (the
master sends one each interval, changed or not), and a worker that lives sends its
recovery, answers commands and info requests. No fairness on restarts: a worker
that failed fatally stays down, and the properties except that case.
`SlaveWorker!FairSpec`: a worker that is spawned connects and sends its records (one
that fails for good is in the engine's properties, as `~up`), its loop takes its
commands in order (strong fairness per ticket, since the loop serves one command at
a time) and `order_send` returns. `Supervisor!FairSpec`: the ticking thread ticks and time
passes; nothing is asked of workers or user.
`CopySystem!SysFairSpec`: the master sends (its worker, when it dies, is restarted)
and snapshots are read again and again, strongly, since a restart of the master
empties the pipe; a slave's worker that lives connects, executes and answers, for
each ticket. No fairness on the master's trader, the broker, crashes or restarts.
`UpdateFlow!FairSpec`: the GUI's thread handles what is waiting, threads and the
helper go on, the manager that quits does quit or is killed; the check runs hourly,
so strong fairness says that some download gets through and matches (without it
nothing can be offered). No fairness on the user.
`ConfigEdit` has invariants only.

### Disagreements found

These runs end in a counterexample, each to something a document or comment says.

| Run | What happens |
|---|---|
| `engine_held_new` | A trade waiting for symbol info whose SL/TP changes meanwhile is never opened (`copy_loop.py:223`). |
| `system_duplicates` | The slave's worker is lost between the readiness gate and the first snapshot; the engine knows nothing of the copies it has and opens them again when the snapshot is read before the recovery records (`supervisor.py:269`). In that instance (`EarlyLoss = TRUE`) `ClosedIsClosed` and `SlTpFollows` fail too: when the second OPEN fails, its record keeps the recovered one out, and the copy that was there is never closed or changed. |

Further ones have no run of their own; TLC shows each with the change named.

| Statement | Change | What happens |
|---|---|---|
| `LotWithinGridCap` | `LotPipeline.cfg`, `Infos <- MCAllInfos` | A lot step of 0.5 or 0.25 is rounded to whole lots or tenths (`transform.py:122`), which takes a size above a cap that is on the grid: 1.5 becomes 2.0. |
| `LotWithinCap` | `LotPipeline.cfg` with this invariant | A cap off the symbol's grid is rounded to the nearest step after it was applied: 0.36 becomes 0.4. |
| `RebalanceOnlyOffGrid` | `LotPipeline.cfg`, `Infos <- MCOnGridInfos` | `split_volume`'s docstring: a small remainder needs `volume_max` off the grid. A `volume_min` above one step is enough. |
| `ClosedWhileDownIsClosed` | `CopyEngine.cfg` with this property | A position closed on the master while the manager was down stays open on the slave (`copy_loop.py:206`); the design says the first diff closes it. |
| `HeldPartialIsKept` | `CopyEngine.cfg` with this property | A partial close held back is replaced by a later SL/TP change and never sent (`copy_loop.py:223`). The converse, an SL/TP change replaced by a partial close, is one of the cases `SlTpFollows` excepts: without the case of a held event in `Unseen`, TLC finds it violated. |
| `OpensAfterRecovery` | `CopyEngine.cfg` with this property | A slave restarted after the readiness gate is told to open what it may have already. |
| `NeverOverfills` | `SlaveWorker.cfg`, `EarlyLoss = TRUE` | The duplicate of `system_duplicates`, on one worker (`supervisor.py:269`). |
| `NeverOverfills` | `SlaveWorker.cfg`, `OpenResults = {"done", "partial"}` | An unsplit order that comes back DONE_PARTIAL is sent again in full (`mt5_worker.py:221`). |
| `NeverOverfills` | `SlaveWorker.cfg`, `LostOn = {"OPEN"}` | An OPEN that was executed but not answered is sent again (`mt5_worker.py:122`): a double position. |
| `NeverClosesMoreThanMaster` | `SlaveWorker.cfg`, `LostOn = {"PARTIAL_CLOSE"}` | The same for a partial close: twice the fraction is closed. |
| `FillIsTrue` | `SlaveWorker.cfg`, `OpenResults = {"done", "no_tick"}` | A missing tick in the middle of a split answers ok=False although chunks are filled. |
| `NeverClosesMoreThanMaster` | `SlaveWorker.cfg`, `Info <- MCInfoWide`, `MasterVolumes = {4, 8}`, `CloseResults = {"done", "partial", "rejected"}` | A partial close filled in part is sent again in full. |
| `PartialKeepsProportion` | `SlaveWorker.cfg`, `Info <- MCInfoSplit4`, `MasterVolumes = {4, 8}`, `OpenResults = {"done", "partial"}` | A chunk filled in part keeps the requested volume in its comment; later shares are taken of that. |
| `CloseLeavesNothing` | `SlaveWorker.cfg`, `ScansFail = TRUE` | A failed `positions_get` reads as "nothing left": the CLOSE is answered ok. |
| `NeverOverfills` | `SlaveWorker.cfg`, `ScansFail = TRUE` | The same in the recovery scan: the trade is opened again. |
| `FatalIsNotRestarted` | `Supervisor.cfg` with this property | A worker whose fatal message is still unread when it is found dead is restarted (`supervisor.py:340`), although the comment above says it must not be. |
| `MasterStatusIsSeen` | `Supervisor.cfg` with this property | A master restarted during start reports its status in vain. |
| `NoWorkerSurvivesStop` | `Supervisor.cfg`, `JoinTimesOut = TRUE` | A restart that outlasts the 5 s join leaves a new worker running. |
| `ClosesOnlyClosed` | `CopySystem.cfg`, `Glitches = TRUE` | A failed `positions_get` on the master reads as an empty account (`mt5_adapter.py:179`), and every copy is closed. |
| `EverySlaveIsCopied` | `ConfigEdit.cfg`, `DistinctIds = FALSE` | Two rows may have one id (a blank one is "s1", `slave_editor.py:198`); start checks terminals only, and one of the slaves is not copied. |
| `EditIsHeard` | `ConfigEdit.cfg` with this invariant | An edit whose lookup finds the old handle of a worker already spawned with the old configuration is not sent (its pipe is None, `supervisor.py:323`) or goes to the old pipe (`supervisor.py:307`), even if the new handle is installed before the test. |
| `UpdateIsNewer` | `UpdateFlow.cfg`, `SPECIFICATION Spec`, `MaxVersion = 2`, `Downloads = {d1}`, with this property | `copytrades update` installs a verified wheel of an older release that is still in the cache (`updater.py:183-184`). |
| `HelperGetsVerified` | `UpdateFlow.cfg`, `SPECIFICATION Spec`, with this property | A second download truncates the file; the button or the popup then hands over the path kept from the first. |
| `MarkIsAccountedFor` | `UpdateFlow.cfg`, `SPECIFICATION Spec`, with this invariant | The popup is shown, the button is clicked, and quitting takes longer than the helper waits: the popup's mark is not taken back, and if pip fails the version is never restarted for. |
| `AutoOncePerVersion` | `UpdateFlow.cfg`, `SPECIFICATION Spec`, `MaxVersion = 2` | The answer of a later check moves the window's version under the shown popup: the newer release is restarted for under the older one's mark, and again after the relaunch. |
| `ComesBack` | `UpdateFlow.cfg`, `Window = FALSE` | Without a display an exception in `_reinstall` (a torn wheel) ends the helper before it relaunches. |

The passing runs exclude these cases by the constants named above, and a program
restart while a comment is rewritten (recovery has nothing but the comments): the
worker's runs have no failed scan, no close filled in part and no missing tick in
an OPEN, and no lost answer to an OPEN or a partial close; chunks filled in part
occur where they leave every property intact, and no worker is lost between the
start and the first snapshot.

## 4. What is proved

TLAPS checks the following for every value of the constants that satisfies the
modules' assumptions (`ConstantsOK`, `PipelineConstants`, `WorkerConstants`, ...) and
the hypotheses a theorem names. Each hypothesis holds in the instance of some run, or
the case it leaves out is one of the disagreements above. Of the safety properties
that the runs check, those that no theorem states are listed at the end.

**Engine** (`CopyEngineProofs`). `Invariance`: `Spec => []IInv`, with

    IInv == TypeOK /\ CellsOK /\ CommandsOK /\ NoStuckHold /\ DownIsSilent

The five safety invariants follow from it (`TypeCorrect`, `OneCommandAtATime`,
`CommandsMatchRecords`, `MarkersHaveMasters`, `HeldEventsAreLatest`,
`NothingHeldForGood`). They are not inductive alone: that a command matches its
record after an answer needs that a pending ticket has exactly one command; that
an event held back may be derived later needs that it agrees with the snapshot;
and what a restart may forget needs that a worker that is down owes nothing
(`DownIsSilent`). `CellsOK` states the per-ticket part on a single cell, so
that the handlers are dealt with once, as functions: `DeriveCases` says what
`derive_command` can return, `RederiveGood`, `HandleEventGood` and `HandleDiffGood`
that a handler takes a good cell to a good one (`GoodStep`: its new command is for
this ticket and matches the record, and it waits for symbol info only if it asked for it).
Each action then has one lemma (`ReadSnapshotIInv`, `ApplyAckIInv`,
`ApplySymbolInfoIInv`, ...), and those that touch one slave share `OneSlaveIInv`.

`EngineImplementsLink`: the engine implements `CopyLink`, for every slave and ticket.
`LinkStep` says in terms of cells what handling events may make of a link and its
command; each handler is shown to make a `LinkStep`, and a `LinkStep` is one of
`CopyLink`'s actions or a stutter. `IInv` says which record the answered command had.

**Sizing** (`LotSizingProofs`). `SlaveLotInt`: the size is an integer for any
arguments. `SlaveLotCapped`: with a lot step of 1, 0.1 or 0.01 lots and a cap on
the grid, the size never exceeds the cap, in any mode. The argument: the floor to the grid
of a capped size is on the grid and within the cap, and rounding a multiple of such a
step to the step's digits changes nothing (`RoundOnGrid`); that last step
is what fails for half and quarter lots. `SplitVolumeRight`: the chunks of a volume on
the grid add up to it, are tradable, and are as few as `volume_max` allows. Sums over
chunks are `SumFunctionOnSet`; that such a sum takes its elements in any order is
derived from the definition of the fold (`SumOver`), by induction on the size of the
set with the least counterexample in place of an induction theorem.

**Pipeline** (`LotPipelineProofs`). From `PipeInv` (what size and parts are, as
functions of the input): `CapHolds`, `ScalingHolds` (no hypothesis), `LargestFitHolds`
and `SplitHolds`. Hypotheses: steps are decimal and `volume_min` is on the grid
(`DecimalSymbols`), `volume_max` holds twice `volume_min` less a step
(`SplittableSymbols`; otherwise a remainder cannot be made tradable), and no cap
rounds to a volume below `volume_min` other than 0 (`CapsReachMinimum`; otherwise
the clamp gives an untradable size).

**Worker** (`SlaveWorkerProofs`). An attempt is first reduced to what one
`order_send` did (`AttemptSends`: what it touched, what it filled, how the worker goes
on); every later lemma starts there. `TypeCorrect` needs no hypothesis; its invariant
adds that the job's command is the one outstanding and its orders are for positions
that exist. The other theorems, each with the reason for its hypotheses:

| Theorem | Property | Hypotheses | Invariant |
|---|---|---|---|
| `CloseIsComplete`, `ModifyIsComplete` | `CloseLeavesNothing`, `ModifyReachesEveryLeg` | scans do not fail (a failed one reads as "no position") | `ReachInv`: until a leg is done there is an order for it, for all that is left of it |
| `NeverClosesMore` | `NeverClosesMoreThanMaster` | `TradeAssumptions` (below), with them `~EarlyLoss`; a partial close is not filled in part or lost (it would be sent again in full) | `TradeInv` |
| `FillReported` | `FillIsTrue` | `OpensAnswered`: no opening order is lost, unsplit ones are not filled in part; no missing tick (after a first chunk it reports a failure although something is open) | `FillInv`: the fill so far is the sum of what was opened since the command came |
| `NeverTooMuch` | `NeverOverfills` | scans do not fail, no worker is lost between the start and the first snapshot (`~EarlyLoss`), comments are kept, `OpensAnswered`, splittable symbol | `FitInv` and `RoomInv`: what is open and still to be opened fits the master's volume |
| `PartialIsProportional` | `PartialKeepsProportion` | `ExactComments`: hedging, comments kept, opening orders filled whole, splittable symbol (so that SV is what was opened) | `ShareInv`: a leg is within a step of its share, or an order that brings it there is still to be sent |

`TradeInv` is the argument about volumes. A `Link` says that a recorded ticket is a
copy of its master ticket, that all copies of that ticket have the recorded master
volume, and that a recorded total leaves the leg whose comment is rewritten its
share after the others' SV. `TradeInv` says that every record and command of the engine is such a link, that a ticket not
yet handled and without a record has no leg on the slave, unless the program is
starting and waits for the records (`FreshInv`; the engine may open it then), that a job's
orders are for legs of its ticket and keep the fraction (`ClosingInv`), and that a
split in progress has the link its answer will record (`OpeningInv`). It assumes `TradeAssumptions`:
scans do not fail (recovery would forget a trade and open it again), no worker is
lost between the start and the first snapshot (the engine would open its trades
again), the symbol is splittable, and, only if a broker rewrites comments at all, that the total recorded
from an OPEN is exact (`SharesKnown`: fills are whole, answered and not clamped).

**Supervisor** (`SupervisorProofs`). Five invariants in turn: `Typed` (types, and fewer
failures than `consecutive_failures` between ticks), `Beat` (until a master is heard
its heartbeat is as old as its handle) for `GraceIsKept`, `Owned` (a process that runs
has a handle) and `Shut` (after a shutdown nobody has) for `NoWorkerSurvivesStop`,
`Storms` for `StormIsThrottled` (`Throttled`: the time of a row of restarts is that of
the restarts begun (`Begun`, the one under way with them), and with what is left of
the pause that of the next). Hypotheses: a restart under way ends before `join`
gives up (`~JoinTimesOut`), and the grace window is at least as long as the longest
backoff (90 and 30 seconds in the code): otherwise a handle that waits for its backoff
would be restarted again before it is over.

**Configuration** (`ConfigEditProofs`). Whatever ids are typed: `TypeCorrect` and
`OneTerminalOneWorker` (`Basic`, with `Coherent`: engine, handles and workers know the
same slaves). With ids that differ: `SlavesAreCopied` and `WorkersHear`, from `Listed`,
which says for each row what an edit under way has already changed (`RowCopied`) and
what the worker was told last (`RowHeard`, but for the workers in `unheard`, which an
edit ends without reaching only when their handle was not installed, or installed
since it looked).

**Update** (`UpdateFlowProofs`). `TypeCorrect`, and `CachedWheelIsWhole` from
`CacheInv`: a finished download is queued once (`QueuedOnce`); when none is active and
the last to finish succeeded, the files are whole (`LastIsWhole`); a button that can
be clicked has a wheel (`EnabledIsCached`, why no second download starts then). The
window's own flag is not inductive: it is the last signal of the queue that counts.
`RestartedForOnce` proves `AutoOncePerVersion` for any number of releases of every
behaviour in which no other release replaces the one that the popup, or its delay, is
about (`SameRelease`); section 3 has the counterexample without it. `MarkInv` is the
argument: while one is asked for, the mark is the window's version, and everything
restarted for is at most the mark before, which declining takes back; the mark
is on disk at every moment. `OneReleaseOnce`: with one release (`MaxVersion = 1`, the
run's) the condition follows from the code, as a check that finds something is of it.

**All together** (`CopySystemProofs`). `SysInvariance`: `Calm => (SysSpec => []SysInv)`,

    SysInv == IInv /\ SysTypeOK /\ Driven /\ Answered
                /\ Order /\ FreshIsUntouched /\ OneCopy /\ ClosesOnlyClosed

and from it `NeverTwoCopies`, `OnlyClosedAreClosed` and `TerminalsDriveTheEngine`
(each step is a step of `CopyEngine` or a restart of the manager; `IInv` is reused
from the engine's proof). `Order` says in which order previous snapshot, pipe and
master can have the position; `FreshIsUntouched` that of a position the engine may
still find new nothing is under way, and that a slave has a copy of it only before
the first snapshot, with a record; `OneCopy` is `NoDuplicates` strengthened by the
open command and the held NEW that would make a second one. `Calm`: no worker is lost
before the first snapshot (otherwise `NoDuplicates` is false, run
`system_duplicates`), no failed scan on the master (otherwise `ClosesOnlyClosed` is
false), and the terminals can fill the sizes the engine computes (an assumption of
the instance: `Fills` is a constant).

**Only model-checked**: all liveness (TLAPS does not treat fairness and ENABLED):
`TicketSettles`, `CommandIsAnswered`, `DownComesBack`, `ClosedIsClosed`, `SlTpFollows`,
`ComesBack`, `NewerIsOffered`; and the worker's properties outside the
hypotheses above, in particular `NeverClosesMoreThanMaster` with a rewritten comment
and chunks filled in part, which `worker_two_tickets` checks for one volume.

## 5. What is not modelled

Prices and their rounding; the text of comments, messages and the symbol map;
netting accounts beyond the clamp of an order. In `CopySystem` the legs of a split
fail together, and a copy's live volume is left out. In `ConfigEdit` the
engine's numeric parameters are replaced in one step, before the mapper. In `UpdateFlow` writing `settings.json` succeeds, and the user does not
launch the manager by hand while the helper is at work. Terminal discovery, the autostart
registry value, the installer and the release workflow keep no state that
interleaves. `PROJECT.json` says per component what is left out and why.

Two behaviours of an edit need no interleaving and have no property: editing a slave
that was added after Start raises a KeyError in `update_slave_config`
(`copy_loop.py:187`; the model's edit then ends after the list is changed), and a
removed slave is copied to until Stop.

## 6. Plan

All components with state that interleaves are modelled, and the safety invariants
of every run have a theorem. What is left:

1. `CopySystem`: what `SysInv` says of SL/TP on the way, the safety half of `SlTpFollows`.
2. `SlaveWorker`: weaker hypotheses for a rewritten comment (a bound on how far
   chunks filled in part can make a share too small).
