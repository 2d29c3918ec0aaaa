# migkit in TLA+

A formal model of the parts of migkit where several machines, a target
database and a crash meet. Each module names the source files it stands
for; paths below are under `src/migkit/`.

## The system

migkit moves databases: it copies the rows, then *tails* the source's log
into the target until the application is cut over. A *hop* is one such
move. The parts, the state each keeps, and what makes each correct:

| part | state | operations | what makes it correct |
|---|---|---|---|
| **mover** (`ha.py`, `lease.py`) | lease record, saved bundle and ledger in the machines' store | acquire, renew, let lapse, take over, seal, push, place, release | one machine writes at a time; the next goes on exactly where the last one got to; the evidence of it is true |
| **fencing** (`fencing.py`) | a number row on the target | raise, hold (compare under a shared lock), bump | a transaction of an earlier holder never commits after one of a later holder |
| **tail** (`engines/hetero.py`, `tailctl.py`) | position file, the target's mark of the last batch | read, set down, apply, save, resolve a lost answer | no batch twice, none lost |
| **tail's state** (`tailtables.py`) | sqlite store: each table's state, what it set aside, an undo of the last batch | prepare, settle, undo, align | the state is that of the batches the position covers |
| **recovery** (`faults.py`, `attempts.py`) | a ledger of units begun and ended | retry, reconcile | what landed is not done again |
| **shared ranges** (`claims.py`, `fleet.py`, `shared.py`) | one record a table, a checkpoint file, number rows a claim | claim, renew, start, copy, give back, finish, audit | every range ends as the source's rows; all machines come to an end |
| **load window** (`setaside.py`, `engines/mssql.py`) | one file a load: what it took off | take over a dead load's file, record, take off, put back | what is off is on record; nothing its users had off comes on; all comes back |
| **table hold** (`engines/base.py`, `claims.py`) | who holds a table several machines load | first one in takes off, last one out puts back | nothing is on while one still writes |
| **pause** (`tailctl.py`) | three files: pause, paused, stop | ask, acknowledge, resume, end | while an asker holds the tail it writes nothing; none asks for ever |
| **cutover** (`cutover.py`, `freeze.py`, `rollback.py`, `reverse.py`, `jobs.py`) | a phase record, frozen roles, jobs on or off | freeze, drain, prove, flip, undo, point of no return, stream back | the application is on exactly one writable side, or told so |
| **copy in ranges** (`ranges.py`, `engines/hetero.py`) | the table's checkpoint entry: plan, marks, ranges done | plan, begin, empty, read and write, finish, sweep | whatever the interleaving with the source's changes, the target ends as the source |
| **checkpoint** (`checkpoint.py`, `cli.py`) | the file and its journal | save, journal, resume | a stopped copy goes on; no range is left out |
| **durable files** (`durable.py`) | files and their directory | write whole, sync, move in place | a reader finds the old or the new, never a torn file |
| **two-way** (`twoway.py`, `marks.py`) | a mark in every batch, conflict rules a column | apply, recognise an echo, settle | both sides end alike; nothing circles |
| **archive, split, reshard** (`archive.py`, `split.py`, `reshard.py`) | rules that place rows | copy, prove, remove | a row is removed only when proved elsewhere |
| **repairs** (`repairways.py`, `repairlog.py`) | a log of statements | pause, repair, resume | a repair never overwrites what the tail wrote later |
| engines, conversion, planning, cloud, web and command line | drivers, translators, rules, output | | no state of their own that several actors share |

How the first five interact: `ha.lock` waits for the lease, `Holding.take`
raises the number on the target and restores the bundle into the machine's
files, `hetero.look` reads a batch and hands it to `tailctl.apply_unit`; the
last statement of the batch's transaction is `fencing.hold`, which asks the
lease (`Lease.check`), pushes the bundle (`Holding.before`) and compares the
number row under a shared lock. A second thread renews the lease, a third
pushes the bundle between batches.

What is hard in it: two holders at once after a pause; a kill between any two
writes to four places that have no transaction in common (lease, bundle,
target, own disk); a commit whose answer is lost, or that is still under way;
compare-and-set loops that run twice; a store that forgets a record. The
`hazards` of `PROJECT.json` list them at their lines.

## Modules

| module | what it is |
|---|---|
| `OneWriter` | abstract: batches land one after another, each from where the one before ended or once more after a lost answer, under numbers that only rise |
| `Mover` | the mover, its fencing, the tail's batches and the tail's own state; every machine a process with memory it loses and files it keeps |
| `MCMover` | `Mover` for the model checker: interchangeable machines |
| `MoverProofs` | ten theorems about `Mover` for every value of its constants, the refinement of `OneWriter` among them |
| `RangeCopy` | one table copied in ranges while its source changes, and the tail that leaves out what the copy read |
| `MCRangeCopy` | `RangeCopy` on a table of two keys |
| `RangeCopyProofs` | three theorems about `RangeCopy` for every value of its constants |
| `Claims`, `MCClaims` | the ranges of one table claimed, copied and fenced by several machines, and the table finished |
| `ClaimsProofs` | three theorems about `Claims` for every value of its constants |
| `Archive`, `MCArchive` | old rows archived, proved, removed and put back, and the ledger that says which |
| `ArchiveProofs` | three theorems about `Archive` for every value of its constants |
| `LoadWindow`, `MCLoadWindow` | what loads take off a target, their records, and what they put back |
| `LoadWindowProofs` | three theorems about `LoadWindow` for every value of its constants |
| `TailPause`, `MCTailPause` | a tail that holds still or ends for others, and the repair of a row beside it |
| `TailPauseProofs` | three theorems about `TailPause` for every value of its constants |
| `TwoWay`, `MCTwoWay` | one row on two sides, each hop settling and applying the other's changes |
| `TwoWayProofs` | six theorems about `TwoWay` for every value of its constants |
| `Cutover`, `MCCutover` | the cutover of a hop: its path, its undo, the point of no return, going back, with the job and the streams |
| `CutoverProofs` | six theorems about `Cutover` for every value of its constants |

### Mover: state and actions

`lease` is the lease's record, `bundle` the record with the saved position
(`fence`, the tail's files, the epoch of its holder and of those before it),
`ledger` the ledger of closed epochs: the machines' store, each changed by
compare-and-set. `row` is the number row on the target; `by` is the process
(`Token.by` holds host and process, so a machine's earlier process is someone
else). `mark` is the target's mark of the last numbered batch, written in the
batch's transaction; `applied` is the history of committed batches. `txn` is the
transaction that holds the mark's row locked: the mark is its first
statement (`_apply_session`), so there is one at a time; `held` is that it also
holds the number row under a shared lock, which `Raise` waits for. `disk[m]` is
the tail's position and store on machine m, `mem[m]` the process.

| actions | code |
|---|---|
| `Start`, `Acquire`, `Renew`, `Lapse`, `Release` | `ha.lock`, `lease.Lease` |
| `Raise`, `Bump`, `Hold`, `Refused` | `fencing.raise_to`, `Holding.take`, `fencing.hold` |
| `SealRead`, `SealWrite`, `First`, `CloseEpoch`, `Place` | `Holding.restore`, its read and its conditional write apart |
| `CommittedAhead`, `Align` | `hetero._committed_ahead`, `tailtables.Store.align` |
| `SetDown`, `Begin`, `Before`, `Commit`, `Save` | `hetero.look`, `_apply_session`, `Holding.before` |
| `Pushing`, `LetGo`, `StopLost` | `Holding._pushing`, `Holding.unlink`, `tailctl.run_loop` |
| `LoseAnswer`, `Resolve`, `OrphanEnds` | `tailctl.apply_unit` with `faults.retried`, `hetero.resolve` |
| `Crash`, `Interrupt`, `Silent`, `Pause`, `ForgetLease` | the environment, each allowed by `Faults`, at most `MaxFaults` in a run |

Decisions of the model:

* Only *numbered* batches (`twoway.exact`): those are the ones the code promises
  to apply once. A batch's number and the position's generation rise together,
  so one field stands for both; the random first number of a run is 0.
* The clock is left out. `Lapse` ends the term of a holder that is gone; `Pause`
  ends the term of one that lives. Whether the lease is fresh enough to be
  trusted without asking is nondeterministic (`Before` may or may not notice).
* The tail's own state is what the batches it covers add up to: `at` says which
  changes, `was` what the undo of its last batch brings back, `gen` the batch.
* A store behind its position stops the tail, as where any table is set aside
  (`Store.align` with `safe_behind` false): the worst case.
* Compare-and-set loops are one action where what they write depends only on
  the record they read; the seal's is two, because it keeps what its first try
  made.
* One database in the hop; a process reads and puts back its files in one step.

### RangeCopy: state and actions

`first`, `log` and `shown` are the source: the table at the tail's position, the
transactions logged after it, and those its readers see. A transaction is
logged before it is shown; two may be shown in the other order, except two of
one row, whose second writer waits. A row is known by the transaction that wrote
it. `plan`, `seen`, `newest`, `done` are the table's checkpoint entry, which
survives a kill; `work`, `span`, `moment` are the copying process. `saved` is
the tail's position on disk, `at` and `past` the tail's process. `readAt`,
`leftOut`, `lost` (the keys whose copied row a sweep removed), `repeated` (those to
which this tail, its entry retired, applied a change the marks cover) and
`forgot` (those of the tails killed before) are histories.

| actions | code |
|---|---|
| `Commit`, `Show` | the application and the source's server |
| `StartCopy`, `Outside`, `CopyDone` | `hetero._move_in_ranges`, `ranges._plan_whole` |
| `Begin`, `Finished` | `ranges.started` with `snapshot_mark`, `ranges.finished` |
| `Empty`, `Batch` | `hetero.copy_range` with `neutral_empty`, `neutral_read` |
| `Apply`, `Save` | `_CopiedRanges.leave_out`, `_past`, `neutral_apply`, `tailctl.keep` |
| `CopyKilled`, `TailKilled` | the process killed, `Killed` and `MaxStops` |

Decisions of the model:

* The tail starts when the copy is done, as `cli` runs a move; its position is
  taken before (`cli._tail_before_copy`), so `log` starts there.
* `Apply` is a batch of one change. A larger batch decides for all its changes
  before it counts them towards retirement, as several batches of one do where
  none retires in between.
* `Exports` chooses the rung of `read_moment`: one snapshot for the table, taken
  as the copy starts, or each statement reading what is committed by then.
* A mark is the set of transactions shown (`pg_current_snapshot`): what
  `mark_covers` answers from xmin, xmax and the list between them.
* `RetireAfter` stands for 1000 changes of one table in a row: each counts
  once, whichever rows they touch, so a bound of 1 or 2 reaches the same
  orders of retiring, covered and uncovered changes.

### Claims: state and actions

`state`, `by`, `number`, `current`, `mark` are the record's entry of each range
(`current`: the claim's term has not run out), `numbers`, `lapsed`, `finished`
the rest of the record; every change of it is one conditional write over the
version read (`claims.Table._do`), so one action. `entry` is the table's
checkpoint entry. `row` is the target's number row of each range, `rows` the
number its rows were written under, `open` the transactions open on the target.
`mem[m]` is the worker of machine m and the claim it has in hand, which may no
longer be the record's.

| actions | code |
|---|---|
| `Claim`, `Renew`, `Started`, `Done`, `Error`, `Finish` | `claims.claim`, `renew`, `started`, `done`, `give_back`, `finish` |
| `Lapse`, `Departed` | a term run out, `fleet.departed` |
| `Empty`, `Raise`, `Hold`, `Commit`, `Read`, `Write` | `hetero.copy_range` with `neutral_empty`, `fencing.raise_once`, `fencing.hold` |
| `NothingLeft`, `Look`, `Save`, `Start` | `claims._copied`, `cli._share_ranges` |
| `Kill`, `Pause`, `OrphanEnds`, `SourceDelete` | the environment, and the application |

Decisions of the model:

* A range is emptied in one transaction and written in another, as one batch:
  each ends with `Hold`. The first write of a claim raises the row (`lazy`), on
  a connection of its own, after its DELETE has run: `Empty` keeps the rows the
  DELETE saw (`seen`), and loses those only.
* `Raise` waits for the transactions that hold the row under a shared lock;
  that one writer waits for another at a single row is left out, and with it
  the orders it forbids.
* A transaction that passed `Hold` when its connection is lost may still commit
  (`Cut`, `OrphanEnds`).
* One worker a machine, so that two machines stand for any two workers.
* The rows removed outside every range are `RangeCopy`'s `Outside`; a table
  taken whole is one range.

### LoadWindow: state and actions

`on` are the triggers switched on, `users` those off before any load. `files`
are the records on disk (`of`, `n`: whose process; `defs`: what it lists).
`load[p]` is command p's process with what it holds in memory: `mine` it found
on, `left` dead loads list, `stale` their files, `back` what it puts back.

| actions | code |
|---|---|
| `Plan`, `LeftBehind`, `Adopt`, `Save`, `Unlink` | `_LoadWindow.__enter__`, `SetAside.left_behind`, `save` (its write and its removals apart) |
| `SwitchOff`, `Loading` | `__enter__`'s loop, and the load |
| `Leave`, `PutBack`, `End` | `__exit__`, `SetAside.done` |
| `Start`, `Kill` | the commands; one that failed is run again |

The windows of `indexes.py` (indexes, foreign keys), `movers.py` and four
engines keep their record the same way: save before anything goes off, take
over dead loads' files, remove at the end or keep what failed. One machine and
one report directory; a statement in flight when a process is killed has ended.

### TailPause: state and actions

`pause`, `paused`, `stop` are the files `tail.pause`, `tail.paused`, `tail.stop`;
`tail` the tail's process and the batch in its hand, `saved` its position.
`asker[a]` is the process of one who asks, with the row a repair read. `log` is
the source's changes of one row, `target` that row on the target, `named` what
the last check said of it. Histories: `own[a]`, the hold a was granted was the
tail's own answer to a request that stood, and nobody else has lifted it since;
`harm`, why the target's row may differ; `left`, a request stays whose asker is
gone.

| actions | code |
|---|---|
| `Start`, `Begin`, `End`, `Interrupt` | `tailctl.Running`, its lease and its marks apart |
| `SeesPause`, `Answer`, `SeesResume`, `TakesBack` | `tailctl.hold_if_asked`, each look and each write apart |
| `SeesStop`, `Read`, `Apply`, `Save`, `LosesLink` | `tailctl.run_loop`, `hetero.look` |
| `Look`, `Ask`, `Granted`, `GivesUp`, `LetGo` | `cli._make_room_for_rows`, `kept._fence`, `tailctl.pause`, `resume` |
| `SaysStop`, `LetsEnd`, `Waited`, `NoTailToEnd` | `cli._stream_leg`'s `tail_end` |
| `Check`, `ReadsRow`, `WritesRow` | `Engine._localise`, `Engine._apply_rows` |
| `KillTail`, `KillAsker`, `Change`, `StrayWrite` | the environment, the application, the target's users |

Decisions of the model:

* The tail is alive where it holds its lease, which is one machine's view
  (`lease.liveness`): a term that runs out under a living tail is `Mover`'s.
* A batch is on the target whole or not at all, and has ended when its process
  is gone; that the server may still be committing it is `Mover`'s as well.
* A check names the row in one step; what it found may be used any time later,
  since the drilldown's files stay.
* An asker that is neither a repair nor a cutover stands for all who ask and let go (kept proofs, drains, the web page,
  resharding); those who ask nothing where something asked already are `Polite`.

### Cutover: state and actions

`rec` is `cutover.json` (state; phases begun; streams down and back; `off` the
streams back dropped at the point of no return; whether the target's hold was
given up and the flip command run), `log` the last line of `cutover-runs.jsonl`, `switched` is
`cutover-jobs.json`. `side` is the two sides as they are: databases frozen on the
source and held on the target, where the application is, the pooler, the job,
the streams. `lag` says what each database has that the other side has not:
`behind` and `ahead` the streams will still carry, `missed` and `only` none will.
`work` is the command's process: the phase it is in and what of it is left.

| actions | code |
|---|---|
| `Begin`, `Enter`, `Leave`, `Closes` | `_run`, `_phased`'s `phase` and `done` |
| `NoteBack`, `Arm`, `NoteJobOff`, `JobOff`, `Pause`, `Freeze`, `Drain`, `Verify`, `NoteDown`, `Down`, `Back`, `Reached`, `NoteJobOn`, `JobOn`, `NoteThawed`, `Thawed`, `NoteRan`, `Command`, `Route`, `Flipped` | the phases, what each writes down apart from what it does |
| `GoesBack`, `UndoNext`, `Unflip`, `Hold`, `BackDown`, `Up`, `Thaw`, `JobBack`, `Resume`, `Refused`, `UndoEnds` | `_undone`, `_undo`, a step refused |
| `Logged`, `Unlinked`, `TakeUp` | `_flipped`, `_close`; the next run |
| `NoReturn`, `GiveBack`, `Onward`, `Drop`, `NoteOff`, `NoReturnFails`, `FreezeAgain` | `no_return`, `_no_return_back` |
| `Stop`, `RollBack` | the operator stops the application; `back_apply` |
| `WriteSource`, `WriteTarget`, `Carry`, `Kill` | the application, the job, the streams, the environment |

Decisions of the model:

* A hop is the set of its options: whether a stream put back starts from the
  target's position (`after_thaw`) or from now, a stream back asked for
  (`reverse`) and made ahead (`armed`), and the reverse loop warmed up after the flip
  (`failback`).
* Going back comes after an interrupted run was taken up (`MayGoBack`); what the
  code does of it earlier is told under the disagreements.
* A pooler, a flip command with its undo and a held target are always there: a
  hop without one does less.
* The budget running out, a proof failing, a server refusing a phase are one
  fault (`fails`), possible at any point of a phase; `Verify` fails by itself on a
  difference.
* A hop has a database (`DBsAssumption`): without one there is nothing to freeze.
* A paused tail, a dropped subscription and a stopped pipeline are all a stream
  that is down; `cli._stream_leg` says which start again from where they stood.

### TwoWay: state and actions

`row[s]` is the row on side s, `log[s]` what its application wrote there. `pos`
and `mark` are of the hop *into* a side: the position its tail saved in the other
side's log, and what the mark on the side says it carried. `sent` is the batch
between its settling and its position's save: `settled`, `unanswered` (landed, the
commit's answer lost) or `committed`. `sum` in a log's change is what
the counter was moved by up to it; `seen` how far the other's log was carried
then. `apart` is a history of what the properties except.

| actions and operators | code |
|---|---|
| `Write` | the application of a side |
| `Resolve`: `Settle`, `Merge`, `Taken`, `Group`, `Incoming`, `Tie`, `Union`, `Whole`, `Added` | `twoway.resolve`, `settle`, `_merge`, `_group`, `_tie`, `_union`, `_whole_row`, `_as_added` |
| `Commit`: `Lands`, `Applied` | `apply_unit`, `Engine._apply_added`, `_added_row`: `canon.Added` moves a counter where the row stands, `canon.Kept` leaves a column |
| `LoseAnswer` | the connection lost as it lands: `check` in `apply_unit` says NOTHING of a keyed batch, so `faults.retried` runs it again as it was settled |
| `Save` | `tailctl.moved` |
| `Stop`: `CommittedAhead` | the tail killed, or that recovery given up: `hetero._committed_ahead`, `twoway.exact`: a hop with counters asks the mark |

Decisions of the model:

* A batch whose answer is lost is run again before anything is settled anew and
  before the mark is asked. Only a tail that starts again asks it. What is run
  again in place is the same write: what it adds to a counter is added twice
  (`doubled`). `answer_twice` finds the same step of the mover.
* A transaction still committing on the server when a stopped tail starts again
  and asks the mark is left out; that is the mover's fault `late`.
* The rules are a constant of the hop into `Home`; the hop back has the rules
  `apart` asks of it (`Mirrored`), as the configuration check refuses others. A
  group of rule `delta` is the counter alone, as `Rules._table` refuses others.
* What a tail applied is not in a log here: it is marked and its echo left out.
* A batch is any number of the next changes; what one row's changes of a batch
  come to is their net (`_net`), its counter the sum of what each added
  (`merged_values`).
* The conflict by values is as in the code: from the net's previous row, the row
  it ends as and the target's row. A group goes whole.
* Every change has its whole previous row. Values are integers, a set a set of
  them; NULL, text and rendering are left out, so a tie compares values.
* Rules *in order* (`ordered`): every write moves the time, the maximum only
  rises, the row stays. The text of `twoway.py` promises convergence under any
  interleaving of these; of other rules only where each side's changes
  reach the other once, which is one write a side here.

### Archive: state and actions

`source` and `archive` are the table on both sides, every row of it picked by
the rule; `ledger` is `archive-ledger.jsonl`, `cmd` the command's process.
Histories: `gone[k]`, the row last taken off at k and not put back; `raced`,
keys where that was not the row the command had read; `halted`, keys a killed
restore had yet to put back.

| actions | code |
|---|---|
| `Start`, `ReadToCopy`, `Copy`, `Copied` | `move`, `_copy`, `Engine._every_row` |
| `Prove` | `prove` as `move` calls it |
| `ReadToRemove`, `List` | `remove` up to the "removing" line |
| `Delete`, `DeleteFails`, `DeleteOne`, `DeleteOneFails` | `decide.attempt` over `_remove_ways`: the batch at once, then a row at a time, then none |
| `Removed`, `RemovedAll` | `remove` from the look at what is left to the "removed" line |
| `StartRestore`, `PutBack`, `SaysRestored`, `RestoredAll` | `restore` |
| `Write`, `Kill` | the application on the source; the process killed |

Decisions of the model:

* A page and a batch are stretches of keys of any length (the code measures
  them). What a batch writes to the archive and the look at it are one step:
  nobody else writes the archive, and one command runs at a time.
* `prove` is one step; `remove` compares every row again, so that a row proved
  at another moment makes no difference to what is removed.
* Leave and approvals are given; a run that may not remove is one killed after
  `Prove`. A line of the ledger is written whole.

## Runs

For the mover: two machines and two changes in the source's log are enough for every takeover
to happen at every point of a first batch, a second one, and a batch cut
elsewhere (one of two changes against two of one). `MaxFence` bounds the
holdings.
`MaxFaults = 2` lets two machines fail in one history. Runs stop where the log
ends or the holdings are used up, so deadlock is not asked.

| run | faults | shows |
|---|---|---|
| `takeover` | crash, interrupt, silent store, lost answers, pause, lost lease record | type; `OneBatchBehind` (the saved position is the committed one or one before); `HolderGoesOn` (no holder is left with the tail's state and its position apart by more than the one batch it can take back); `HolderAtMark`; `StateAtPosition`; `NoHoldingForgotten`; `SavedNeverGoesBack`; `Mover` implements `OneWriter` (`top <- row.n, log <- applied`): `OneWriterAtATime`; and `AllApplied` |
| `in_flight` | late commits, crash, pause | `NumbersRise`: the shared lock, not the lease, keeps an old batch from landing late |
| `answer_twice` | one lost answer | a disagreement between the code and what its text says, below |

`in_flight` uses the symmetry of the machines; `takeover` does not, being
temporal. `MaxFence = 8` leaves room for every holding its faults can cause, so
that the bound itself stops nothing. That no batch lands twice or is left out is
`OneWriterAtATime`, which allows one exception, `Again`: the holder's own batch
once more after a lost answer; `ExactlyOnce`, which allows none, is asked by
`answer_twice`, and proved where every commit is answered.

For the copy: two keys, planned as one range, which is read in one batch or two,
or as two ranges side by side, as the source's statistics have it. Two
transactions give every pair of changes around a mark; with a third, one may make
an entry retire and two of a row follow. Every table to begin with is tried, and a
target empty or full of rows nobody here wrote. Runs stop when the log is full,
so deadlock is not asked.

| run | changes | killed | shows |
|---|---|---|---|
| `range_copy` | put, delete, move | copy or tail, once | type; `LeftOutWasRead`: what the tail leaves out was in what the copy read, of every row the change touches; `EndsAsSourceUnlessMoved`: once the tail is through the log the target is the source's table, also where a copy was started again and its plan grown at an end |
| `range_moment` | put | none | a disagreement, below |

`EndsAsSourceUnlessMoved` leaves out, by name, what is known to break the
equality: moved keys, rows a range had copied that the sweep of a copy
started again removed (`lost`), and rows to which a tail killed since had, its
entry retired, applied a covered change (`forgot`). The second speaks of every run
of the copy, not of the last one's ends: with two kills the source may shrink
before one run and grow again before the next.

For the claims: two machines and two ranges, one of whose rows the application
may delete. Two faults let a claim lapse, be taken, and lapse again, or two
machines fail with a commit of each under way; a third holder of one range is
the first machine again, under a new number.

| run | faults | shows |
|---|---|---|
| `claims` | kill, pause, error: two | type; `AuditClean`: `fleet.audit` finds nothing in any record; `DoneComplete`: a range done holds its own claim's row; `AllCopied`: every range is done in the end and stays so |

For the load window: two commands, two triggers, every set of tables each
writes, every set of triggers its users have off. Two faults: killed twice,
killed and then refused, and so on. A command that ended well is not run again
(`MaxRuns`), one that failed is, which is how a dead load's record is met.

| run | faults | shows |
|---|---|---|
| `load_window` | kill, refused, lost answer, full disk: two | type; `OffIsRecorded`; `UsersOffStaysOff`; `AllBackOn` |

For the tail's pause: a repair, a proof that does not ask beside another, and a
cutover; two of them, or one twice (`MaxAsks`), which is every pair at once. Two
changes of the row make it come and go; two faults let a tail be killed and
its successor too, or a tail killed under a row somebody else wrote.

| run | faults | shows |
|---|---|---|
| `tail_pause` | tail killed, interrupted, its link lost; asker killed; stray write: two | type; `OwnHoldIsKept`: whoever holds the tail by its own answer works with no batch under way; `EndsAsSource`: a tail through the log leaves the source's row, whatever repairs wrote beside it; `AllApplied`: every change arrives, however often the tail was held and ended |

`OwnHoldIsKept` and `EndsAsSource` except by name what breaks them; the
disagreements below tell each.

For the cutover: two databases, so that a phase stops between them; three hops,
which between them take every option; two cutovers, so that the second meets
what the first left; two faults, so that an undo fails too.

| run | faults | shows |
|---|---|---|
| `cutover` | kill, a phase fails, a step refused, a drop that fails: two | type; `UndoneIsWhole`; `UndoneCarriesAll`; `FlippedHasAll`; `JobOnOneSide`; `RolledBackHasAll`; `ComesToAnEnd` |

For two-way: two sides, five sets of rules that between them take every rule that
settles, in groups and alone, ranked and not, and every way of a delete against a
change. Under the rules in order three writes of both sides in any distribution,
cut in any way, with one stop or one lost answer; under the others every pair of
one write a side, of every row of small values, with the row there or not to begin
with. A stop after a lost answer is beyond the run's one fault and is proved.

| run | faults | shows |
|---|---|---|
| `two_way` | one stop or lost answer | type; `EndsAlike`: both rows are one once both logs are carried; `EveryAdditionKept`: at every moment a side's counter has its own additions and the other's carried ones, each once; `HighestStands`: the newest version and the highest value ever written stand; `NothingOwnLost`: neither side loses what only it changed |
| `two_way_additions` | none | a disagreement, below |

`apart` says what is excepted: `raced` (a column the batch sets was written since
it was settled, or since it landed the first time), `forgotten` (an addition
left out, which is what `two_way_additions` finds), `again` (a batch of a hop
without counters settled and applied once more after a stop, over a later write
or where what it had set turns a comparison into a tie) and `doubled` (a batch
that adds to a counter run again in place after its answer was lost).
`EveryAdditionKept` excepts `forgotten` and `doubled`, `HighestStands` `raced`
alone, the other two all four.

For the archive: a table of two keys, so that a removal is one batch or two, of
every content; one write of the application, anywhere; two restores, so that one
that was killed is asked again; two faults, which is what it takes for both ways
of deleting to fail.

| run | faults | shows |
|---|---|---|
| `archive` | kill, a delete that fails or whose answer is lost: two | `RemovedIsKept`: what was taken off the source stays in the archive as it was, and on the ledger; `AllPutBack`: a restore that comes to its end has put all back, but removals with no line of their end and rows a killed restore had left; `RunsGoOn`: a run that was stopped goes on from what is left, until the source has none of the rows or the archive holds one otherwise |

The runs stop where the copy, the loads, the askers, the cutovers or the writes
are through, so deadlock is not asked of them either.

Fairness (`takeover`): a process that can take its next step takes it
(threads are scheduled); `Renew` is its own thread; a service manager starts
an ended process again (`Start`); a term nobody renews ends (`Lapse`, a clock);
a server ends a transaction whose connection is gone (`OrphanEnds`). Weak
fairness suffices for all, and none is assumed of the environment's faults.
`claims` assumes the same of its workers, terms and server. `load_window`: a
load goes on, and a command that failed is run again, as its text asks the
operator (`Start` of one that ended badly). `tail_pause`: the tail's loop goes
on and one that ended is started again (a service manager, or the operator: a
move in mode cdc is meant to run), and whoever asked goes on to let go. `cutover`: the command goes on, an
interrupted one is run again, and a stream carries what it has; nothing is
assumed of faults, of a new cutover, of the point of no return or of going
back. `archive`: the operator runs it again, as its text asks, and a run goes on.

## Disagreements found

With a run:

* `answer_twice` - `tailctl.apply_unit` tells the recovery that a keyed batch
  can always be run again; a numbered one must not be (`twoway.exact`). Of a
  two-way hop it means that a counter is added to twice on one side, which
  `TwoWay` has as `doubled`.
* `range_moment` - every range of a source that exports a snapshot is begun
  under a mark taken after the snapshot its rows are read from. Between the two
  a change is covered by the mark and not in the rows. (`engines/mysql.py`
  10029-10033 has it right: there the moment's own position is the mark.)
* `two_way_additions` - a counter both sides left at the same value counts as
  settled (`twoway.py` 874), though each added to it: where another column of the
  row is the target's to keep, the outcome is `keep` and the change is dropped
  with its addition (922). The same where a side's additions of one batch cancel out with
  one it took over in between. Two sides that both add 2 end at 4 and at 2.

Without a run of their own, each found as a counterexample of the module named
or by reading, and kept here because a property excepts it or none covers it:

* A range claimed again is emptied by a DELETE that has run before the claim's
  number is raised (`engines/postgres.py` 2505); the raise waits for an older
  claim's transaction, whose rows the DELETE did not see. A row deleted on the
  source before the new claim's mark stays on the target (`Claims`, one pause, a
  row deleted), though "a range copied twice empties and copies its own span, and
  ends as the source's rows" (`claims.py` 27). `DoneComplete` speaks only of rows
  the source still has. (Raising before emptying would end it.)
* Going back ends a flip in the log only where the log has it (`cutover.py`
  3636); where the flipping run was killed before the log, the record still says
  flipped, the next run closes it so, and the one after gives the old source
  back for good with the application on it, though a flip "ended by going back"
  is "not this one's point of no return" (3644).
* A batch is settled against the row as it was read, without a lock
  (`twoway.py` 1127); what the target's side writes before its transaction into a
  column the batch sets is written over, and the sides end apart (`raced`).
  `canon.Kept` (277) protects the columns the target keeps, and counters are
  added where they stand.
* A hop without counters does not ask the mark after a stop (`exact`, 459): the
  batch is applied again over what the target's side wrote since, which
  `overwrite` loses there and not on the other side (`again`). And with nothing
  written since: where a group is settled by a column of another group, the first
  try may have set that column alone; the two sides then tie on it, and the
  group that was kept is compared by its own values and may be overwritten, on
  that side only. The row both made with `v` newest by `ts` and `ts`
  overwritten does it: (1, 0) here and (0, 1) there end as (0, 0) and (1, 0)
  (`TiedSince`, part of `again`). `exact` asks the mark where counters add,
  since a batch of those "applied twice would be wrong" (460); so is this one.
* Both sides write a row, A's write is carried to B and B writes again over it;
  then B's two changes meet A's own as one conflict, and where the rule at A is
  `ignore` B's later write, made knowing A's, is dropped at A alone: the sides
  end apart, though each one's changes reach the other in order and so "both
  end alike in any order and batching" (`twoway.py` 111). Further on, the
  text promises "whatever the interleaving" for the rules in order only, which
  is what `EndsAlike` states.
* `hetero.resolve` (4860) takes the mark's silence for "not committed" while the
  server may still be committing (`Mover`, a late commit at a lost connection).
* `Store.align`'s stop (`tailtables.py` 618) is not one of the two exceptions
  after which `run_led` stands by again: the process ends.
* A seal tried twice keeps the first try's epoch (`ha.py` 537); `judge` then
  reports two writers where there was one. `judge` also looks two holdings back
  for the one the mark belongs to; with a holding between that wrote nothing it
  is the third (`ha.py` 1036).
* A moved key is left out only where both its ranges were read after it
  (`ranges.py` 929); applied whole, it deletes a row written at the old key
  later, by a change that was left out.
* A copy started again takes the source's ends anew and keeps its older, wider
  plan (`hetero.py` 2418); the sweep removes what a range copied beyond the end.
* An entry retires for the tail's process alone (`hetero.py` 5543; `RangeCopy`
  without the exception of `forgot`, three puts and a killed tail).
  A log need not be in the order its transactions are shown, so covered changes
  may follow the uncovered ones that made it retire; the tail applies them, and
  killed in between, its successor leaves out the row's next one: the older
  value stays, though "Retiring leaves nothing out that it would have" (5417).
  One transaction of `RETIRE_AFTER` changes, logged and not yet shown, is
  enough of uncovered ones.
* `claims._copied` makes the record say finished (600) before the table's
  checkpoint entry is saved (618). A machine that dies between leaves the others
  in `cli._share_ranges` asking for an entry nobody saves, though it "Returns
  once every table is done, by whichever machines".
* A DISABLE TRIGGER whose answer was lost is taken for one left on
  (`engines/mssql.py` 5077) and its record removed at the end while the trigger is
  off: `OffIsRecorded` and `AllBackOn` except what a load said it leaves on.
* A stream the undo could not put back does not keep the source frozen
  (`cutover.py` 3497): `UndoneCarriesAll` excepts it.
* `_phased` undoes a flip whose record says flipped where the reverse loop's
  warm-up fails (2752), though "the flip stands"; what the application wrote to
  the target meanwhile is on the target only. The same writes are lost to the
  source where the flip fails after its command ran.
* The point of no return writes a dropped stream back down only after it dropped
  it (`cutover.py` 3005); a drop that took effect and failed is undone as if it
  had not, and says that "going back is still possible" (`Cutover`, fault drop).
* Going back leaves the scheduled job on the target: its switch was forgotten at
  the flip. A flip command that ran out of its time may still act later.
  `_no_return_back` says the source is frozen also where that was refused.
* A tail killed while it holds leaves `tail.paused`; the next tail's start does
  not remove it (`tailctl.py` 327-331), so the next ask is granted at once
  while that tail writes. The same of an ask that comes between a tail's
  look at the lifted request and its removing the answer (492-494): the old
  answer grants it. `resume` (516) removes the request of whoever asked, so of
  two askers the first to be done, or to give up, lets the tail go under the
  other. A cutover's word to end, given between a tail's taking the lease and
  its removal of an earlier run's stop (331), is removed with it; `tail_end`
  then waits in vain and says so. `own` is false in each of these.
* A killed asker's request stays, as does a cutover's where the tail was gone
  when it came to end it (`cli.py` 6307): every later tail holds on it until
  somebody removes the file (`left`).
* A repair removes the rows a check named as extra without looking at the source
  again (`engines/base.py` 4865): one that came back since, and that the tail
  applied before it was held, is removed and not replayed, though "All three are
  exact - what they leave is the source's rows" (`repairways.py` 29). The check
  that follows a repair does say so. A repair that found no tail running asks
  nothing (`cli.py` 2939); a tail started meanwhile applies between its read and
  its write, and the older row stays. `harm` is "returned" and "raced".
* A machine that dies between the target's commit of a range and its named write
  leaves an audit that calls the range lost (`claims.py` 537).
* `archive.remove` deletes by key alone (493) after it has read its page: a row
  the application changed in between goes with the change, though "a row changed
  since it was archived stays and is named" (31). `RemovedIsKept` excepts `raced`.
* A removal killed between its DELETE and its "removed" line, or that finds a row
  made again at a key it took (497-504), leaves a "removing" line alone: its rows
  are neither put back nor proved again (`Unfinished` in `AllPutBack`).
* One "restored" line takes back all the "removed" lines of its table (529). A
  restore killed after its first batch says "nothing removed to put back" when
  asked again, though it "puts every removed row back" (37); `prove` counts by
  key and is right. `halted` excepts it.
* `restore` writes over a row the application made again at a key it puts back.
* Rows that differ stay, and "the next run archives them as they are" (514);
  the next run's `_copy` refuses them (363), and each later one: `RunsGoOn` ends
  there.

## Proofs

`MoverProofs` proves, for every set of machines, every log, every bound and
every choice of faults:

* `TypeSafe`: `Spec => []TypeOK`. One lemma per group of actions; helpers
  (`Record`, `Push`, `TakenBack`, `WithMark`, `Lands`) have typing lemmas.
* `OneWriterAfterAnother`: `Spec => []NumbersRise`. `NumbersRise` speaks of the
  past only; it is inductive together with `Fenced`: nothing has landed
  under a number above the row's (`NothingAbove`), and an open transaction that
  passed `Hold` has the row's own number for as long as it holds the shared
  lock (`RowLocked`), with the process at the step that transaction says
  (`Mine`). So whatever lands carries the row's number, and the row only rises.
  Late commits are allowed: the orphan keeps its lock.

* `SavedOneBatchBehind`, `HolderAlwaysGoesOn`, `HolderAlwaysAtMark`,
  `StateAlwaysAtPosition`, `EveryWriterKept`, `SavedOnlyGoesOn`, for a server that
  ends the transaction of a lost connection before it is asked about it
  (`"late" \notin Faults`; every other fault allowed). None is inductive: they
  relate the bundle, a machine's files, its process and the mark, four places that
  a stop may leave in any order. `HopInv` says what each is to the others:
  - `Numbers`: no two processes raised the same number, and the bundle's is never
    above the row's. The machine of the bundle's number is its `Owner`; whoever
    else runs has yet to find out that it lost the hop.
  - `Filed`: the bundle's files, and the owner's own, are `Good`: at the mark with
    the tail's state there or one batch ahead of it, or one batch behind with the
    state set down for the very batch that landed, and so what `Align` can bring
    together. `HeldBatch` says that the batch on its way is the one the owner's
    files and the bundle speak of; `MarkIsLast` that the mark is the last batch's.
  - `Kept`: every number in `applied` is in the ledger or the bundle, and what the
    bundle will carry no more has reached the ledger before.

  A late commit falsifies `Filed`: the next holder took the mark for final. That
  is the hazard at `hetero.py` 4860.
* `MoversAreOneWriter`: under the same hypothesis `Mover` implements `OneWriter`,
  step by step. A `Commit` maps to `Land` or `Again`, a `Raise` or `Bump` to a new
  holding, and all else to a stutter.
* `EachBatchOnce`: `ExactlyOnce` where besides every commit is answered
  (`"answer" \notin Faults`). `Again` is left to be excluded: `NextInOrder` says that
  a batch set down and not committed is one ahead of the mark.

The assumptions are `MachinesAssumption` (`NoOne` is no machine) and
`BoundsAssumption` (the bounds are naturals, the faults known kinds).

`RangeCopyProofs` proves `LeftOutAlwaysRead`: where `Exports` is false,
`Spec => []LeftOutWasRead` for any keys, cuts, log, kinds of change and kills.
`LeftOutWasRead` alone is not inductive: it needs that the tail runs after the
copy only and with every range of the plan copied (`Phases`), and that each key
of a range was read at a moment no earlier than the range's mark, as far as the
range has been read (`ReadUnderMark`); marks and reads in turn only hold what
is shown (the first conjuncts). Where the source exports a snapshot
`ReadUnderMark` is false, which is what `range_moment` finds. It needs no
assumption on the constants beyond that one. It also proves

* `RangeCopyTypes`: `Spec => []TypeOK`, with or without a snapshot.
* `EndsAsSourceAlways`: `Spec => []EndsAsSourceUnlessMoved` where `Exports` is
  false. Any number of keys, cuts, transactions and kills of copy and tail. The
  property speaks of the end; `EndInv` says of each step on the way what the
  target owes: while copying, that it has what was read, of the keys read
  (`TargetAsRead`); while the tail runs, that each key either has what the copy
  read and nothing passed beyond that (`AsCopied`), or was never planned and
  nothing passed (`Unplanned`), or has the last change passed or a later one which
  no mark covers, but for a covered one that this tail applied with its entry
  retired (`Followed`). `SourceOrder` (of two changes of a row the later is logged
  after the first has shown) is what makes a mark cover a row's changes from the
  first on (`Closed`); `PlanWhole` that nothing of the source lies outside the
  plan unseen.
* The attempt showed the property's earlier form, which excepted the last run's
  ends only, to be false with two kills; `lost` came from there.
* Assumptions: `KeysAssumption`, `FlagsAssumption`, `BoundsAssumption`.

`ClaimsProofs` proves, for any machines, finite set of ranges, deletes and
faults within `FaultKinds`, with the bound any natural:

* `ShapeSafe`, `AuditAlwaysClean`, `DoneAlwaysComplete`. The inductive invariant
  is `TypeOK`, `Numbered` (a claim's number is new: above every number in the
  record, in a worker's hand, on a row or in `lapsed` of its range), `Claimed` (a
  claim in the record that a worker still has in hand agrees with how far that
  worker is) and `Written`: a transaction that holds a range's row carries the
  row's own number for as long as it is open, since `Raise` waits for it, and a
  range that is done is settled - its row raised to its last number, nothing
  open under it that could still land. `DoneComplete` alone is not inductive:
  it says nothing of an older claim's transaction that may yet commit.
* Assumptions: `MachinesAssumption`, `RangesAssumption`, `FaultsAssumption`.

`LoadWindowProofs` proves, for any loads, triggers and faults:

* `ShapeSafe`, `OffAlwaysRecorded`, `UsersOffAlwaysStaysOff`. The inductive
  invariant says of every trigger that is off, owed and not said to be left:
  some file *answers* for it - it lists the trigger, and either its load is dead
  and no live load is about to remove the file without having listed the trigger
  itself, or its load lives and will put it back or keep the file. The second
  theorem needs that what any load or file lists was on when some load planned.
* Assumption: `BoundsAssumption`.

`TailPauseProofs` proves, for any askers, log and faults:

* `TailPauseTypes`, `HoldsStill`: `Spec => []OwnHoldIsKept`. The property alone
  is not inductive: that no batch is under way now says nothing of the tail's
  next step. `HoldInv` adds why none can begin: while an asker rests on its own
  hold the request stands and the tail is before its next look at it (`Writes`
  names the places past it); once told to end, the word stands until the
  tail it was said to is ending or gone. A dead tail's successor starts before
  its first look, which is why the hold outlives a kill.
* `AlwaysEndsAsSource`: `Spec => []EndsAsSource`. `StandsInv`: unless `harm` says what
  was done to it, the target's row is the source's at some place of the log that
  the tail has yet to reach or is at, so what is replayed leads to the same end; and
  so is the row a repair has in hand, unless it did not ask the tail.
* Assumption: `BoundsAssumption`.

`ArchiveProofs` proves, for any table, values, writes, kills and failures:

* `ArchiveTypes`, `RemovedAlwaysKept`: `Spec => []RemovedIsKept`. The property is
  about rows gone already; what makes the next delete keep it is `BatchIsListed`:
  from the "removing" line to the batch's end that line is the last one, and the
  archive has every row yet to delete as the line has it. `BackIsBack` says that
  a "restored" line, which takes rows off the ledger, is only written with all of
  them back.
* `RestoreAlwaysWhole`: `Spec => []AllPutBack`. `OwedInv` says what a restore under way
  owes: its page is of the removals no line has ended (`RowsOwed`), and what was
  taken off and not put back is in it, or of a removal with no line of its end, or of
  a restore that was killed.
* Assumptions: `ValuesAssumption`, `BoundsAssumption`.

`CutoverProofs` proves every safety property of `Cutover`, for any number of
databases, any set of hops and any faults within any bounds:

* `CutoverTypes`, `UndoneAlwaysWhole`, `UndoneAlwaysCarriesAll`,
  `FlippedAlwaysHasAll`, `JobAlwaysOnOneSide`, `RolledBackAlwaysHasAll`. The
  properties speak of the ends of a cutover and none is inductive: what is true
  at the end was done phases ago, possibly by a process that was killed. The
  invariant `Inv` says it of every moment between:
  - `WorkFitsRecord`, `LogFitsRecord`: what the process does, as the record and
    the log have it. A kill leaves the record, so this is what a next run may
    count on.
  - `OutOfPlaceIsRecorded`: as long as the cutover may be undone, whatever is out of
    its place is recorded, which is what writing down before acting buys; and
    a database whose stream is down is frozen, or its stream will start from its own
    position, or a server refused.
  - `PathDone`, `WayBackDone`: of each thing the cutover moves, from which phase on it
    is moved, and from which step of the undo on it is back, unless that undo
    met an error and so keeps the record. The order of `Path` and `WayBack` is
    used here: the sets `Past...` are what follows each phase.
  - `AtRestIsWhole`, `NothingMissed`: undone, or never begun, nothing is out of its
    place and no write was lost.
  - `OverIsOver`: past the flip the target has all, the old source's job is off
    and its streams down, frozen until the point of no return.
  - `OneJob`.
* Assumptions: `DBsAssumption` (without a database "frozen" says nothing) and
  `OptionsAssumption`.

`TwoWayProofs` proves, for any rulebooks, texts, amounts, bounds, stops and lost
answers:

* `AdditionsOnce`: `Spec => []EveryAdditionKept`. The invariant says of the batch
  on its way what it was settled from and that it either adds what its changes
  sum to, or leaves the counter alone and then the values say the source did not
  move it, or moved it to what the target has (`BatchInv`); and that the mark is
  the saved position but for a batch landed. A batch on its way again adds its
  changes' sum once more, so it adds nothing or is `doubled`. `MergeWrites` is the
  heart: of
  every rule for the other columns, whatever is kept, dropped or merged, the
  counter is added to, or is one of those two cases. `AppliedCounter` says the
  same of the row it is applied to, whatever was written to it since.
* `TwoWayTypes`: `Spec => []TypeOK`, under any rules.
* `HighestAlwaysStands`, `EndsAlikeInOrder`: `HighestStands` and `EndsAlike` under
  rules in order that are `Versioned` - a version settled newest by its time, a
  maximum beside it. `StandingInv` says what each side's version and maximum are
  at every moment: the winner of the side's own writes and the carried ones
  of the other, and of a batch on its way that it will make it so, or that the row
  has been written past it.
* `EndsAlikeOnce`, `OwnNeverLost`: `EndsAlike` and `NothingOwnLost` under any
  rules, each side writing once. `OnceInv` says what the row is at every moment:
  its side's write or the carried one, or, of two writes made apart, `JoinedRow` -
  what settling the one against the other comes to. Two facts carry it.
  `JoinedAlike`: settled from either end the row is the same; rule by rule, with
  the mirrored rule at one end, a tie going the same way by rank or by the first
  column that differs, deletes against changes, sets and counters. `JoinedAgain`:
  without counters, settling the row so made once more leaves it, so that a batch
  settled again after a stop does no harm - unless `Retied`. That exception is
  what the proof found: `EndsAlike` was false without it, with a rulebook no run
  had (`TimeApart` has it now). A batch run again in place needs less: what it set
  stands as it left it (`LeftAs`) or was written since, which is `raced`, so with
  nothing counted twice the same write changes nothing (`StandAgain` for a version
  and a maximum, `LandsAgain` for a single write).
* Assumptions: `SidesAssumption`, `BoundsAssumption`, `BooksAssumption` (rules are
  as `Rules._table` lets them be), `NoRowAssumption`.

Rules in order that are not `Versioned` are in no run. With three writes TLC finds
the sides alike where one group newest by its time has all columns but the
counter, and apart where a version is overwritten or a rising number settled by
`min` (above, `twoway.py` 111).

Only model-checked:
liveness (`AllApplied`, `AllCopied`, `AllBackOn`, `ComesToAnEnd`, `RunsGoOn`), which
the prover has no rules for; and the mover's files with a commit that lands late.

## Plan

1. `TableHold`: triggers and keys off and on around a table that several
   machines load; composed with `Claims`' record and `LoadWindow`.
2. `Checkpoint` and `Durable`: files across a power loss; a copy going on.

Theorems next: `EndsAlikeInOrder` for a version of any columns, in place of `v`
alone; the mover's `HolderGoesOn` and its like with a late commit, excepting
the batch that lands late by name; and the theorems of the modules above.

## Not modelled, and why

Of the copy in ranges: a plan cut again while it runs (`ranges.refine`), the
tail beside a running copy (`ahead`), ways that go from server to server
(`crossmove`), the read-back of a batch, updates of some columns only, a source
table with no row, text and composite keys (never left out).

Of the claims: tables taken whole, a plan that grows, the bound on a machine's
workers, the hold and the shared moment of a table. Of the cutover: counters,
restore points, the mark's table, the traffic state machine, the lease of the
command, a rollback killed half way, a cutover by hand, `tail_off`, `left` and
`origin` of the point of no return, what is said and never undone. Of the
pause: a tail on another machine, its beat, schedules and slots. Of repairs:
spans and whole tables, the statement record and its rollback. Checkpoints are
in the plan, with resharding last. Of the archive: several tables and the order
their keys give, masks, a key whose columns are renamed, leave and approvals, two
commands at once. Of two-way: `park` and `error` (which wait for an operator),
keys that move, changes without a previous row, NULL, tombstones (no caller
sets them), the ladder of marks, two-site Redis.

Engines' dialects and drivers, schema and code conversion, cost and planning
rules, cloud providers, the web page and the command line: input, output and
pure translation, with no state that several actors share. Verification's
digests are arithmetic on rows; of its protocol parts
the pause is `TailPause`'s and the kept proof is not modelled. Fencing by targets without a row of their own (documents, keys, light
transactions) is not: six variants of the one comparison, two of which the
code itself says cannot refuse.
