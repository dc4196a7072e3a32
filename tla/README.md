# Shantytown in TLA+

Shantytown (`st`) runs a crew of coding agents on one or several hosts. There is no
daemon: the state is a directory of JSON files (`<root>`), and the processes that
change it are short. A timer starts a *tend pass*; every agent's harness calls *hooks* when a
tool ran or a turn ended; an operator types `st` commands; some commands leave a
*detached child* behind. Nothing serialises these but a few file locks, any of
them may be killed between two writes, and what they write outside (a tracker, a forge, an inbox, a pane, a
graph) may land late, twice or never. This directory models the components where that
matters, checks them with TLC, and proves with TLAPS, for every size of them, most of what is checked.

Names in the modules are those of the code where TLA+ allows; `PROJECT.json` maps each
definition to the lines it stands for.

## The system and its components

| component | state it keeps | operations | talks to | modelled |
|---|---|---|---|---|
| **jobs** (`jobs.py`) | `jobs/.state/<name>.json` (cursor, seen ids, slot, `pending` queue, history), `.lock`, `.result.json` | `Runner.sweep/tick/run_now`, detached `_exec` | inboxes, tracker, `gh`, quipu, administrator | `Jobs`, `Firings` |
| **maintenance windows** (`window.py`, `_cmd_window`) | `window/active.json`: journal and lease | plan, drain, clear, release, abort | systemd timer, panes, every launcher (gate) | `Window` |
| **stop events** (`events.py`, drain of `stop_event.py`) | `events/ev-*.json` | persist (numbered or keyed), pending, drain | hooks of all agents; the Stop hook of the destination | `Events` |
| **owned work** (`owned_work.py`) | `owned-work/state.json`, `graph-revision` | launch, heartbeat, stop, wake, tick | stop intents, tracker, inboxes, the graph publisher | `OwnedWork`, `Notices` |
| **stop intents** (`stopped.py`) | `stopped/` | record, forget | owned work, tend | inside `OwnedWork` |
| **composer custody** (`delivery.py`, `tmux.send`, `submit_owned`) | `delivery/*.json`, lock per pane | begin, finish, failed, supervise | tmux, the inbox, the human at the pane | `Delivery` |
| **overdue reminders** (`overdue.py`) | ledger of entries, a pending packet per recipient | one pass: read, settle, pack, deliver, acknowledge, prune | board, inbox, producers of unlock events | `Reminders` |
| **dispatch, admission** (`plate_capacity.py`, `producer_capacity.py`, `dispatch.py`) | a lock per owner; the tracker | create, update, `st go` | tracker, panes | `Plates` |
| **pull requests** (`pr_binding.py`, `pr_queue.py`, `pr_merge_slot.py`) | registry file: bindings, outbox, merge slot | register, reconcile, enqueue_review, drain_outbox, execute_one | forge, work item | `Pulls` |
| **file memory** (`memory_lifecycle.py`, `memory_sync.py`) | generations, outbox, batch, accepted head, receipts | launch, start and stop hooks, synchronize | quipu, a session on each root | `FileMemory` |
| **cycling** (`cycle.py`, `AutoCycler` of `notify.py`) | `cycle-requests.json`, lifecycle lock, stop intent, launch stamp | request, cycle, stop, sweep | the pane, tend, the waiter a session leaves behind | `Cycles` |
| **cli** (`cli.py`) | none | some fifty commands | everything | the handlers of the above |
| **stop policy** (`stop_event.py`, `stop_policy.py`) | samples, holds | route, feed, hold, ceiling | events, tracker | the drain and the ceiling |
| **inbox** (`inbox*.py`, `admin_inbox.py`) | tracker items; the bridge's spool | deliver, unread, mark_read, relay | trackers, http | only as the above call it |
| **notify, peer watch** | `notify/*.json` | one wake per episode | panes, events | no |
| **deferrals** (`DeferralAlerter` of `notify.py`, `deferrals.py`) | `deferral-sweep.json`, `-retries.json`, `-summary.json`, a lock | one pass: judge, release, tell, record | tracker, administrator | `Deferrals` |
| **unblocked events** (`unblocked_events.py`) | `unblocked-events.json`: cursor and firings done | one pass: read firings, classify, reopen, tell, save | graph, tracker, administrator | `Unblocked` |
| **tend, supervisor** | restart back-off | restart, call every sweep | all of the above | as processes |
| **governor, quiet time, gaming** | observations, holds | probe, hold, lift | providers, Steam | no |
| trackers, graph, harnesses, accounts, provisioning, configuration, roles, statistics | – | adapters and pure reads | external programs | no |

What is hard in this code, component by component (the full list, with lines, is
`hazards` in `PROJECT.json`):

* *Jobs* must not lose, repeat, reorder or over-attempt a firing although passes overlap, die
  at any point, and start children that outlive them; `docs/jobs.md` promises "late, never lost".
* *Windows* are one file used as a lock, with look-then-write updates; CLEAR must be
  true when it is announced, and the tend timer must come back.
* *Stop events* are stored by any number of hooks without a lock, and are to be told once.
* *Owned work* talks to a slow remote inbox outside its lock and must not send twice, never
  undo a receipt, never end a launch by an older stop, and never overlook new mail.
* *Custody* can see only a composer's text and whether a turn runs; from that it must decide whether the agent
  got a body, and type it again at most once, while a human and other senders use the same composer.
* *Reminders* cannot know whether a message whose answer was lost arrived; they must not repeat it, and must not
  close an event nobody was told of.
* *Plates* are counted in one tracker and written in another call; the lock is per owner, an item is not.
* *Pull requests* are written to a forge that proves a write late or never; a comment, a request or a merge
  must not be sent a second time for want of proof.
* *File memory* uploads a set of files one compare-and-set at a time, while the files, the head and the
  generation a session runs on all move.
* *Deferrals* are released by a machine on the word of a list that is older than the release, and told to a person who must not be told
  twice, nor left out when something comes up again.
* *Unblock events* are read from a cursor of seconds that several events share, by a pass that breaks off at the first it cannot deal with.
* *Cycling* replaces the process of the agent that asked for it. Tend, the waiter and a person may all be about to do so, each step
  may fail over to a rougher one, and a person may stop the agent meanwhile.

## Modules

### Jobs (`Jobs.tla`, `Firings.tla`, `JobsProofs.tla`, `JobsHistoryProofs.tla`, `MCJobs.tla`)

One job, with its file (trigger, guard, `catch_up`, action, `retry.max`) chosen from `JobFiles` at the start, stands for all. The jobs of a pass share two things:
the clock, and the list of the tracker's items, which `Sources` reads once for the pass when the first job asks (`_beads_cache`). So a pass may come to this
job with a list from before it had the job's lock: `Lists` is the reading for another job, `Skips` the pass that turned away at the
lock and goes on, and `list[p]` what `PollClosed` goes by. Another pass may have polled in between, and then the older list takes an id out of `seen` or puts it back.

* `disk` is the state file, `lock` the flock, `result` the one result file of the job's
  detached children, and `mem[p]` the dictionary a pass works on. `write_state` is an
  assignment of `mem` to `disk`; a crash discards `mem`.
* `Look` is a tick up to and including its first `write_state`: taking the lock, `evaluate`
  for all six kinds of trigger (cron, every, when, gh, bead, quipu), the guard, the enqueue.
  `PollFails` is its early return. `Drain` is one turn of the loop in `_drain`: an attempt, a harvest,
  or the final write. A firing ends in `_finish` (`Succeed`, `Retry`, `GiveUp`).
* Two of the steps of a pass are split because something else can happen in between: `HarvestRead`/
  `HarvestLook` (the child may write its result and exit) and creating a work item/handing it over
  (`Create`/`Go`, where a crash leaves an item behind).
* A job on closed items may therefore fire once more than the item was closed. `FiredOnce` does not exclude that but counts it: `overtaken` are the passes whose list is
  older than another pass's poll, `stale` the polls that moved `seen` by such a list, and a key fires at most once for each closing and each of these.
* The outside is `Arrives`, `Closes`, `Reopens`, `ClockTicks`, `ChildExits`, `ChildDies`, `Crash`.
* History variables record firings made durable, attempts that reached the outside, items
  created, endings, and what the administrator was told; no action reads them in a guard.
* `Firings` is what all this is to amount to: a durable queue, first in first out. A pass *opens* it, behind what its trigger fired, *attempts* the head
  as often as it takes, *settles* it as done or given up, and *closes* it; one that *dies* leaves it as it was opened. `FiringsServed` is its specification with the queue
  mapped to the keys of `disk.pending`, `view` to those of the copy of whoever holds the lock, `open` to the lock, `fired`, `tried` and `outcome` to the histories.

### Delivery (`Delivery.tla`, `DeliveryProofs.tla`, `MCDelivery.tla`)

One pane. `pane` is what tmux could tell if it could tell everything: the text in the composer, the bodies Codex
queued, whether a turn runs. `rec` is the custody records, `holder` the pane's flock, `hand[p]` what each process
has in hand: its label, the record it made, and what it saw when it looked.

* `tmux.send` is `Call` (lock), `Look` (its refusals, and the clearing of the sender's own failed text), `Type`
  (after `delivery.begin`), `Enter`, `Watch` (press again while the text is still there; the body is in when the composer
  is not, or a turn that was not running now is), `GiveUp`. `Wipe`, `Erase`, `Erased` are the erasure in `failed()`,
  with its looks before and after the keys.
* `supervise` is `Begin`, `Lock`, `Scan`, `Point` (the inbox pointer, whose answer may be lost), `Unlock`, `Mark`
  (the lock taken again), then `Submit` (`submit_owned`, with no lock) or `Send`, and `Failed` or `Sent`.
* Outside are the agent (`Turn`, `Read`), the human at the composer (`Human`: clears it, types into it, or presses
  Enter), and `Crash`.
* `taken`, `asked`, `wiped`, `made` are histories: how often a body reached the agent, how often somebody asked for
  that, what a human took away, how many pointers were made.

### Pulls (`Pulls.tla`, proofs in `HoldingsProofs.tla`)

The pull requests of one branch, with `bind`, `slot` and `outbox` of the registry, and `op`, what the holder of its
lock is about. A write outside is *journaled* (`tried`, `slot`, `outbox`), then *sent* once, then *proved*: `flying` holds the writes that
were sent and have not landed, and `Land` may take one at any time, or never. Each operation is a chain of these steps; `Raise` is its
failure at any of them. `People` push, close, reopen, draft, open new pull requests, and move the work item.

### Plates (`Plates.tla`, proofs in `HoldingsProofs.tla`)

`item` is the tracker (of each item the owner, the status, whether it is deferred to a later date, and whether it is urgent) and `lock` the plates' locks. `Create`, `Update`
and `Go` choose an operation and read the item, before any lock, as the code does; `Acquire` takes the lock of the plate concerned and reads it again; `Admit`
counts the plate and `Write` writes it, `Plan`, `Send` and `Track` are `dispatch.go`. A write may fail to land, an answer may be lost, and a writer may die.

An item with a future `defer_until` is not counted, and its date comes with no write (`Lapse`). Priority 0 overrides a full plate at the time of the write only; an update of
the priority alone is not guarded (`Rerank`). So a plate can hold more than its bound, and `PlateBounded` bounds what the guard is answerable for. `Ground` says why an item
may be where it is to go (it is counted in, it is urgent and the plate is full, or it takes no new place), `over` remembers which items came onto a plate
by a lapse or by urgency, and all others are at most `MaxActive`. An update that names a priority besides is a `Rerank` before it, `st go --reassign` is an `Update` and then a `Go`.

### Reminders (`Reminders.tla`, proofs in `SweepsProofs.tla`)

A pass under the lock: `Start` (the clock, read once), `Read` (rows and events, or rows alone when events cannot be read), `Settle` (look for the message of
each packet in doubt), `Pack` (save the packet as attempted), `Deliver` (the answer may be lost, with the message or
without), `Acks` and `Ack` (close the events told by a message that was seen), `Prune`. `Board`, `Tomorrow` and `Dies`
are the outside. Whatever a pass tells and records bears the day on which it began, though midnight may pass before it sends: a person may find two messages on one
calendar day, the first of a pass of the day before. `ToldOnce` goes by the day the pass began and by the board that it read.

### FileMemory (`FileMemory.tla`, proofs in `StoresProofs.tla`)

One owner. `roots` are the generations of files, `live` those a session runs on, `handed` those staged for a launch,
`remote` the head, which is the sequence of edits that led to it. `Launch` stages a generation; `Hook` and `Begin` are the start
and stop hooks (acknowledge, then synchronize); `Step` is one call of `memory_sync.step`, in its order: `Capture`, `Freeze` and
the `Deliver` of what the batch has left, whose commit is taken, refused, or lands later; `Select` is the swap of generations. `Edit` is a
session's edit, or another host's.

### Cycles (`Cycles.tla`, proofs in `SweepsProofs.tla`)

One agent: `agent` is its session, whether a turn runs and whether its context is past the line; `request` the entry in
`cycle-requests.json`, `stop` the record of a deliberate stop, `stamp` the launch stamp by which tend brings back what is down,
`lock` the lifecycle lock, `proc[p]` what a command is doing and what it read before.

* `Ask` is `st agent cycle --self`, `Sweep`/`Decide` is `AutoCycler.sweep`, which reads depths and requests once and acts on them later.
  `Serve` is tend or the waiter taking up a request, `Order` and `Stop` are a person's `st agent cycle` and `st agent stop`.
* `Enter` takes the lock and, for a server, reads intent and pane again; a person's cycle was planned before the lock and is not read again.
  Then come `Type`/`Settle` (clear the context), `Respawn`, and `Down`/`Record`/`Launch` (replace the session), each falling back to the next;
  `Verify` ends the last two. `Down` kills and `Record` writes the stop, two steps because the launchers take no lifecycle lock.
  A server clears the request inside the lock, and everybody who succeeded clears it once more after it (`Tidy`).
* tend bringing an agent back is two steps: `Revive` reads the stamp and whether the session is there; `Raise`, after the workspace was ensured and the trees refreshed, looks for
  a session again and launches. It takes no lifecycle lock and reads neither stamp nor stop again, so a stop of an agent *already down* that falls in between is undone.
  The model has that behaviour. `StopHolds` excepts it: `halted` are those whom a stop binds, all but a server that is past its gate.
* `New`, `Dies`, `ClearByHand`, `Turn` are the outside, `Killed` the death of a command.
* Any server may do what tend does, which adds behaviour. Left out: the resume brief, `stop --after-turn`, a change of account on the way, and that tend takes an unreadable stamp store for a stamp. The gates on trees, checkpoints and quotas are a refusal at any time.

### Deferrals (`Deferrals.tla`, proofs in `SweepsProofs.tla`)

`row` is the tracker: an item is free, or deferred with a condition that is unmet, met in a way a machine can tell, or for a person to rule on.
`noted`, `retries` and `summary` are the three ledgers, `sweep` is the pass that holds the lock, with the list it read at `Begin`. `Judge` takes one
finding, which may be unreadable; an item that looks met is read again (`LastLook`) and written by `Release`, whose answer may be lost
with the write or without. `Save` writes the retry counts; `Push`, `Suppress` or `Silent` tell what is new and interrupts, `Summarise` and `Record` write what was said.
`Move` is people and their conditions, `Falls` the death of a pass between any two of these.

### Unblocked (`Unblocked.tla`, proofs in `SweepsProofs.tla`)

`log` is the graph's firings with their seconds, `ledger` the cursor and the firings done, `pass[p]` a pass with its copy of it. `Load` reads the firings from the
cursor on, `Show` asks the tracker what the item of the first is, `Reopen` corrects a stale status, `Tell` reports, `Save` writes the copy back, also
when the pass broke off (`Breaks`). `Move`, `Fire` and `Falls` are the outside.

### Window (`Window.tla`, proofs in `HoldingsProofs.tla`)

A command is a chain of steps, one for each look at the file and each write of it. `Create` is the
exclusive `open`, `Fill` the write through that descriptor; `UpdateReads`/`UpdateWrites` are
`require` and `write_json_atomic`, `FinishReads`/`FinishUnlinks` are `require` and `unlink`. systemctl may
fail before or after it took effect, agents may fail to start, launchers pass
`_window_launch_gate` and launch later.

### Events (`Events.tla`, proofs in `StoresProofs.tla`)

Files are modelled as inodes behind names, because two writers of one `ev-N.json.tmp`
share an inode and a rename moves it away under the other one: `text` is the sequence of the files
ever made, with what each holds, and `dir`, `tmp` and `fd` are places in it. `Persist` picks the number,
`Open`, `Write`, `Replace` are `_write_json`; `PersistKeyed` links into place. A reader peeks at
what is pending, prepares its payload, claims, marks each event with the same `_write_json`, and
only then tells. `Drop` is `discard_busy`.

### Notices and OwnedWork (`Notices.tla`, `OwnedWork.tla`, `OwnedWorkProofs.tla`, `MCOwnedWork.tla`)

`Notices` is what owned work promises: for each episode a send is *reserved*, then made *once*, then
*confirmed* only if it was made. `OwnedWork` has one action for each read-modify-write under the lock and one for
each look outside it. Its property `SendsOnce` is the specification of `Notices` with
`sent` refined by the contents of the recipients' inboxes. Times are abstracted: a lease may have expired
whenever it is looked at, a deadline may or may not have been reached; a `stamp` keeps records distinct
where the code's compare-and-swap would see a different time.

### MCLedgers (`MCLedgers.tla`)

Nine components are modelled without a file, lock or process in common: `Events`, `Window`, `Reminders`, `Plates`, `Pulls`, `FileMemory`, `Cycles`, `Deferrals` and `Unblocked`.
Interleaving them would multiply their states and show nothing, so this module is their *sum*: `subject` is chosen
from `Subjects` at the start and only that component moves. Each property is that of the component, under "it is the subject"; with every other
component at its initial state this is the check of each component alone, in one run. The components' variables are renamed where their names collide.
The last disjunct lets `events`, `reminders` and `plates` stop where their counters run out; none of the others may ever be stuck, and for them deadlock stays checked.
The proofs about a component are made on its sum too, so that they speak of the very properties the run checks: a theorem reads `LSpec => []X`, or
`Serial => (LSpec => []X)` where the component needs that assumption. `LedgersAssumption` and `RecordsAssumption` say that the sets are apart and that `None` is
a member of none of them, `BoundsAssumption` that the bounds of the run are numbers and its subjects components; TLC evaluates all three.
`LedgersProofs` brings the invariants of all nine together, for `AllTypesOK`.
The sets that are symmetric (hooks, operators, recipients, writers, runners, servers, passes) are given the same two model values, so that one set of permutations serves
each of them.

## Runs

| run | instance | properties | result |
|---|---|---|---|
| `jobs` | 2 passes + operator, 2 children, 7 job files covering every trigger and action, 3 events (2 items), clock 0..2, 1 crash, 1 timed-out check, 1 list read for another job, one retry of a closed job's dispatch | nine, below | holds, 2.4M states |
| `jobs_live` | the same with 2 job files, fair | `EveryFiringFinishes` | holds, 128k states |
| `jobs_burst` | a listing of 1 row, 3 events | `NeverDropped` | violated |
| `owned_work` | 1 agent, any 2 of the processes, 2 generations, 2 episodes, 1 message, 1 crash, `Orderly` | `TypeOK`, `NoStaleStop`, `SendsOnce`, `ReceiptStays` | holds, 2.9M states |
| `owned_work_mail` | the same with 1 generation, 1 episode, no crash | `NoMailBuried` | violated |
| `delivery` | 2 bodies, 1 sender, 1 tend pass, 2 records, 2 sends, 1 crash or human key, `Serial` | `DTypeOK`, `OneTake`, `DeliveredIsTaken`, `PointerOnce` | holds, 1.6M states |
| `delivery_race` | the same, no fault, not `Serial` | `DeliveredIsTaken` | violated |
| `ledgers` | the nine below, `Serial` | twenty-two and the types, below | holds, 2.0M states |
| `events_race` | 2 hooks, not `Serial` | `Survives` | violated |
| `dispatch_race` | 1 item, 2 owners, 2 writers, not `Serial` | `GivenToOne` | violated |
| `memory_stale` | 1 file, 1 process, not `Serial` | `NoRevert` | violated |
| `deferral_recur` | 2 items, both urgent, no death | `RecordedIsTold` | violated |

The instances of `ledgers`:

| subject | instance | properties |
|---|---|---|
| `events` | 2 hooks, 1 reader, 1 key, 3 events, 2 drains, 1 crash | `Survives`, `BlockOnce`, `MarkedIsTold` |
| `window` | 2 operators, 1 launcher, 2 ids, 2 agents, 1 crash | `ClearIsQuiet`, `TimerComesBack`, `LeaseKept` |
| `reminders` | 1 overdue item, 1 unlock event, 2 recipients, 2 days, 2 packets, 2 changes of the board or deaths | `ToldOnce`, `AckIsTold` |
| `plates` | 2 items, 2 owners, 2 writers, room for 1, 3 operations, any number of lapses and changes of priority | `PlateBounded`, `GivenToOne` |
| `pulls` | 2 pull requests, 2 acts of people (the properties are proved for every number) | `NoReplay`, `OneMergeAtATime` |
| `memory` | 2 files, 2 processes, 2 edits, 2 generations | `NoRevert`, `AcceptedWhole` |
| `cycles` | tend and the waiter, 2 persons, 2 requests, 2 deaths, starts or clears by hand | `StopHolds`, `ServedOnce`, `RequestKept` |
| `deferrals` | 2 items, one of them urgent, and the store; 3 moves or failures, 1 death, a retry limit of 2 | `ReleasedWhenMet`, `SaidOnce` |
| `unblocked` | 1 item, 3 firings in up to 3 seconds, 2 passes, 2 moves or failures, 1 death | `NothingPassedOver`, `ReportedOnce` |

`AllTypesOK` is the type invariant of whichever is the subject.

What the properties of `jobs` say:
`FiringsServed` (the refinement of `Firings`: what was enqueued leaves the queue only from its head, with an outcome, and a success only if it was attempted), `NeverDropped` (what the cursor passed was
enqueued), `FiredOnce` (once for each event, slot or closing, plus once for each poll by an overtaken list; and an outage is not turned into a burst), `InOrder`,
`AttemptsBounded`, `OneItem` (a retry does not create a second item), `OneRunner` (a runner that is alive is
not started again, and a firing gets the outcome of its own runner), `ToldTruth`.
Where a crash makes a stronger statement false, the property counts the crashes rather than
excluding them: one more round of the attempts on a firing, or of its items, for each crash, and one more runner.

What those of the others say:

* `delivery`: `OneTake` (the agent is not given a body more often than it was asked for, the one recovery
  and a human's own Enter included), `DeliveredIsTaken` (a body whose record is closed as delivered reached the agent, or a human took it out),
  `PointerOnce` (one inbox pointer at most for each body, through lost answers and crashes).
* `events`: a stored event is not replaced, no reader finds half a file, a destination is told of an event once,
  and what is marked was told unless its drain died.
* `window`: CLEAR means that nobody runs but who passed the gate before;
  with no window and no command the timer is as it was; only a release or an abort of the window that holds the lease ends it.
* `reminders`: nobody is told twice of one event, nor of one item by passes that began on one day unless the item changed between their readings; an event is acknowledged
  by a message that told it.
* `plates`: the bound on the work of one owner that the count let in, and an item is sent to one agent at most unless its dispatch was reported as unverified or it was placed anew.
* `pulls`: no comment, closing, drafting or review request is sent twice; no merge is launched twice, nor beside one that may still land.
* `memory`: no upload puts older bytes over newer ones; every accepted head is one whole capture and never a mixture of two.
* `owned_work`: the refinement of `Notices`, a receipt is not undone, and a launch is not ended by a stop recorded for the one before it.
* `deferrals`: a pass writes to an item only while its condition is met and nothing else holds it; the state of an item is told once, through failed
  reads, failed deliveries and retries.
* `unblocked`: a firing nobody dealt with is neither behind the cursor nor recorded as done; a firing is reported once. Each pass that dies may repeat what it told.
* `cycles`: an agent a person stopped stays down until a person starts it, or a tend that was past its gate before, whatever cycle was waiting for the lock, failed over or was tried again;
  no request is served twice; a request goes only with the context it asked about, by a person's stop, or by tend if tend made it.

**Bounds.** Every hazard listed needs at most two processes at once, one crash, and a second object to be confused with: two events of
one source and one that does not match, two window ids, two episodes, two launches, two bodies, two recipients, two owners, two pull requests,
two files. The bounds give each of these and no more. With `retry.max` 0 and 1 both branches of `_finish` and the
boundary between them occur; with slots 1 and 2 and a clock to 2 a slot can be on
time, late and caught up, or skipped. `Page = 1` makes a quipu page too short, `Limit = 3` lets a
gh listing show everything. With `MaxActive = 1` and two items a plate can be full, a second item
be refused, come on top as urgent work, or come back from a deferral; two writers with three operations can defer, refill and resume. `MaxListings = 1` gives one pass an old list, which is
what makes the two readings of a poll differ. Two edits and
two generations let a file be edited on the old root after a new one was staged from it. A retry limit of 2 instead of 3 keeps a failure
that is retried, one that is reported, and one after that. That every action of a
passing run fires is part of the check. `CHECK_DEADLOCK FALSE` stands where the bounded counters (calls,
sends, generations) run out, which ends a behaviour that in the program goes on.

**Assumptions named by a constant.** Each is what makes the difference between a passing run and the run
that shows what happens without it.

| constant | means | without it |
|---|---|---|
| `Serial` in `Window` | one command at a time on one window, as one operator working through the documented sequence | `LeaseKept` fails: `update` and `finish` look, then write the bare path |
| `Serial` in `Events` | one unkeyed `persist` at a time | `events_race` |
| `Serial` in `Delivery` | nobody takes a pane's lock while a pass presses keys without it | `delivery_race` |
| `Serial` in `Plates` | no two writers have one item in hand under different locks | `dispatch_race` |
| `Serial` in `FileMemory` | a launch is prepared when no session and no hook of the owner runs | `memory_stale` |
| `Serial` in `Cycles` | no request is made while a command holds an older one; no agent is started between its kill and the record of its stop | – |
| `Serial` in `Deferrals` | nobody moves an item between a pass's last look at it and its write | `ReleasedWhenMet` fails: the tracker has no conditional write |
| `Serial` in `Unblocked` | one pass at a time, as tend runs; `ReportedOnce` needs it, `NothingPassedOver` is proved without | `ReportedOnce` fails: the consumer takes no lock |
| `Orderly` in `OwnedWork` | no launch of an agent while a stop of it, or a message to it, is under way | – |

`st agent stop` writes its stop without a generation to compare, so a launch that overlaps it can be marked as stopped; the
fence the code has is for the supervisor's replay, and that is what `NoStaleStop` checks; `Orderly` is
needed only for it, and is made to keep the two cases apart. Without `Serial` in `Cycles` the name under which a request is cleared may be that
of a newer one (`RequestKept`), and a start between kill and record is marked as stopped (`StopHolds`). Two more are in the sizes of the sets: one reader per
destination (`Readers = {r1}`; a destination is one agent, whose hook runs one at a time), and one tend pass at a time over
one pane (`Passes = {p1}`; `supervise` decides on a record it read under an earlier lock, and nothing in
`delivery.py` keeps two passes from both finding it untried).

**Fairness** (`jobs_live` only). The timer starts passes for ever and a pass that runs goes on:
weak fairness of `Look` and `Drain` for each pass. The clock goes on. A runner ends, since `run_exec` kills it at its
timeout. A source that is down comes back: `PollFails` is a step of its own and does not
satisfy the fairness of `Look`. No fairness is assumed of crashes, arrivals or the operator. `EveryFiringFinishes`
excepts a firing whose retry lies past the end of the bounded clock, and no other. The other components promise safety and
give progress up on purpose (a packet, a merge or a pointer in doubt waits for ever for a proof or a person), so no liveness is claimed for them.

## Findings

* `jobs_burst`: `docs/jobs.md` and `jobs.py` promise that a missed pass never drops an event; the cursor of a
  gh source moves to the newest row of a listing that shows 100 at most.
* `events_race`: two hooks number an event at once, and one event replaces the other.
* `owned_work_mail`: mail stored between another process's read of the queue and its record of "empty" stays
  behind that record: `wake` looks for an `empty` that is not written yet.
* `delivery_race`: `docs/cli.md` says that a later sender may clear an older failed body and that the body remains retained. `supervise` runs
  `submit_owned` with the lock released: it takes the composer the sender emptied, and the sender's turn, for its own, and closes the older body as delivered.
* `deferral_recur`: `notify.py` and `deferrals.py` say that an item which stopped being lapsed may be reported again. The digest of the last message delivered is
  cleared only when nothing urgent is left: an urgent item that is settled and comes up again while another still waits renders that same message, which is suppressed, and is recorded as said.
* `dispatch_race`: `dispatch.py` says it does not take over work someone is doing; two dispatches of one item to two agents hold two locks, and both find the item nobody's.
* `memory_stale`: `docs/crew-memory.md` says stale starts refuse. A staged generation is acknowledged by its name; when the old
  session's edit was accepted after the staging, the next synchronization uploads the older bytes over it.

## Proofs

Eight modules prove, for all values of the constants that satisfy the named assumptions, that an inductive invariant holds, and the
properties that follow from it. There is one lemma for each action, and below it one step for each conjunct the action can disturb.
What an action does is stated once at the head of its lemma, and the steps cite that. Of the forty checks of a property that the passing runs make,
thirty-nine are also a theorem: all but the one of liveness. `Serial` and `Orderly` stand as hypotheses where the
property needs them; where it turned out not to, the theorem is without.

| module | theorems (the property they state) | hypothesis |
|---|---|---|
| `JobsProofs` | `TypeCorrect` (`TypeOK`), `MutualExclusion` (`Exclusive`), `FiringsAreNotLost` (`NothingLost`) | |
| `JobsHistoryProofs` | `NothingFiresTwice` (`FiredOnce`), `EventsWaitTheirTurn` (`InOrder`), `AttemptsAreBounded` (`AttemptsBounded`), `ItemsAreMadeOnce` (`OneItem`), `RunnersAreAlone` (`OneRunner`), `TheAdministratorIsToldTheTruth` (`ToldTruth`), `FiringsAreServed` (the refinement `FiringsServed`) | |
| | `NothingIsDropped` (`NeverDropped`) | `ListingsReach` |
| `OwnedWorkProofs` | `TypeCorrect` (`TypeOK`), `NoticesOnce` (the refinement `SendsOnce`), `ReceiptIsFinal` (`ReceiptStays`) | |
| | `StopsAreCurrent` (`NoStaleStop`) | `Orderly` |
| `DeliveryProofs` | `TypeCorrect` (`DTypeOK`), `OnePointer` (`PointerOnce`) | |
| | `DeliveredWasTaken` (`DeliveredIsTaken`) | `Serial` |
| | `TakenOnce` (`OneTake`) | `Serial`, one pass |
| `HoldingsProofs` | `PullsTypesKept` (`FTypeOK`), `NothingIsReplayed` (`NoReplay`), `MergesAreSerial` (`OneMergeAtATime`) | |
| | `PlatesAreBounded` (`PlateBounded`), `ItemsAreGivenOnce` (`GivenToOne`) | `Serial` |
| | `LeaseIsKept` (`LeaseKept`), `ClearMeansQuiet` (`ClearIsQuiet`), `TheTimerComesBack` (`TimerComesBack`) | `Serial` |
| `SweepsProofs` | `StopsHold` (`StopHolds`), `RequestsAreServedOnce` (`ServedOnce`), `RequestsAreKept` (`RequestKept`), `FiringsAreReportedOnce` (`ReportedOnce`), `WritesAreMet` (`ReleasedWhenMet`) | `Serial` |
| | `NothingIsPassedOver` (`NothingPassedOver`), `StatesAreToldOnce` (`SaidOnce`), `NobodyIsToldTwice` (`ToldOnce`), `ReceiptsAreOfMessages` (`AckIsTold`) | |
| `StoresProofs` | `AcceptedHeadsAreWhole` (`AcceptedWhole`) | |
| | `NothingOlderReturns` (`NoRevert`) | `Serial` |
| | `EventsSurvive` (`Survives`), `EventsAreToldOnce` (`BlockOnce`), `MarkedEventsAreTold` (`MarkedIsTold`) | `Serial`, one reader |
| `LedgersProofs` | `TypesAreKept` (`AllTypesOK`) | `Serial`, one reader |

**`JobsProofs`**, from `JobsAssumption` and `DoublingAssumption` (powers of two are natural numbers, which the
provers do not know): `TypeCorrect` (`TypeOK`), `MutualExclusion` (`Exclusive`: a pass works only while it holds the lock, through crashes), `FiringsAreNotLost` (`NothingLost`), all from

    IInv == TypeOK /\ Exclusive /\ Attempted /\ CopyKeeps /\ NothingLost

`NothingLost` speaks of `disk`, but a pass writes back a copy it changed in memory, so it
is not inductive alone. `CopyKeeps` adds that whatever the durable queue holds is, in the copy of the process
that holds the lock, still queued or already finished: then a write loses nothing, and a
crash, which discards the copy, leaves the durable queue as it was. That the copy is of the *current* durable queue
needs `Exclusive`: nobody else wrote since it was read. `Attempted` (a firing being worked on has been attempted)
gives the arithmetic of the back-off its type. The lemmas about sequences and queues (`Append`, the popped queue, the head)
are cited by name. The listed events are handled through facts about their range, since what the sort of the
community modules computes is not provable here; `Ascending` enters only as a sequence over a set.

**`JobsHistoryProofs`** carries the histories of a job, on top of `JobsProofs`, with three invariants over the *queue in force*: the copy of the
pass that holds the lock, or else what is on disk.

* `History`: the copy has the trigger's mark of the file (`Copied`); what was fired lies behind that mark and ascends, and so do both queues (`Sorted`);
  a time trigger has one firing at a time (`AtMostOne`); a closed item was fired at most once for each closing and each poll by an overtaken list, and strictly less often while
  it is still owed a firing by what is closed, or by a list that no other pass has overtaken (`SeenOnce`); what is still queued is not
  finished (`Unfinished`). `FiredOnce` and `InOrder` follow: an event is not before the mark twice, and what is attempted is the head of an ascending queue.
* `Budget`: what was spent on a key and what its queued firings may still spend is at most the allowance, a full round of attempts for
  each firing and one more for each crash (`Covered`). A crash throws the copy away and brings the queue on disk back, in which every firing has
  at most one full round left, so it costs one round of every key. Trying to prove the
  bound of an earlier version of the model, one attempt or item more for each crash, showed that it is false: a crash between the attempts and the write can bring back a whole round, and with two firings of one
  key two. TLC confirms that as soon as the job file on closed items retries, as it does in the run now.
* `Runners`: only the head of the queue has a runner; every live runner but that one is paid for by a crash, and a result that another runner wrote by one more.

On these rests the refinement.

* `FiringsAreServed`, the refinement of `Firings`: initial states map to initial states and every step to a step of `Firings` or a stutter (`NextMaps`), from `IInv`, `History`, and
  `AllRan`, that a firing with a runner did reach the outside. `AllRan` is what lets a collected "ok" be a success: the attempt it answers was made by an earlier turn, perhaps of another pass.
  `IInv` gives that one pass at a time opens the queue and works on what it found on disk; `History` enters where a pass looks, for what its trigger adds.
  `KeysInOrder` and `MoreKeys` carry heads, tails and additions over from firings to their keys.
  It implies `NothingLost`, and says more: in what order and with what outcome a firing leaves.

`NothingIsDropped` needs `ListingsReach`, that no gh job has more rows than one listing shows: the run `jobs_burst` shows the loss without it. The other triggers need nothing.

**`OwnedWorkProofs`**, from `OwnedWorkAssumption`. The invariant `IInv` says of the files that no record is ahead of what was minted and a lease has a notice exactly
once it has ended (`FileOK`), and of each process what it has in hand (`Held`). Three arguments stand on it.

* `ReceiptIsFinal`: whatever step is taken, a record becomes a running lease, or ends one under a new episode, or its notice goes one way. Each action is shown
  to be one of these (`OneTurns`), and the receipt stays through all of them.
* `NoticesOnce`, the refinement: initial states map to initial states, every step to a step of `Notices` or a stutter (`StepMaps`). Its invariant (`NoticeInv`) is that a notice which may
  still be reserved was never reserved, that a process about to send has an episode reserved and not sent, and that an inbox has one message of an episode at most.
* `StopsAreCurrent`: `StopInv` adds to `NoStaleStop` that a stop under way, or one recorded, belongs to the agent's last launch. A launch while a stop is under way breaks it, which `Orderly` excludes.

**`DeliveryProofs`**, from `DeliveryAssumption` (a sender is no pass, and neither an empty composer nor foreign text is a body). With `Serial` or without:
`TypeCorrect` (`DTypeOK`) and `OnePointer` (`PointerOnce`), from

    IInv == DTypeOK /\ (\A p : Held(p)) /\ (\A k : Pointed(k))

`Held` says what each process has in hand at each label and that it holds the lock where the code has it; `Pointed` relates a record's `ptr` to the
pointers made. The pointer is written as attempted before the inbox is called, and this copy is written back under the same lock: `Held`
says that nobody changed the record in between. Two more, under `Serial`:

* `DeliveredWasTaken`. `CarefulInv` adds `Work`: who has the lock at each label, that records and copies keep their bodies, and that a body whose
  key was pressed is in the composer, in Codex's queue, or gone (`Here`). So where `_verify_codex_submission` finds an empty composer, nothing queued
  and a turn that was not running, the body is gone. `Serial` says that whoever takes the lock finds no pass pressing keys, and that a pass presses only beside a free lock; so what a process
  under the lock erases or types over is never what a pass beside it waits for.
* `TakenOnce`. The sum that `CountInv` bounds by `asked` is what was given (`taken`) and the ways in which the agent may still be given the body: it stands in the composer or is
  being erased from it, it is queued, a sender is to type it, or a record is `Due`, cleared and untried or in the hand of a pass that is to type it. Only a call, and a
  human's Enter, makes the sum larger, and `asked` with it; every other step exchanges one way for another (typing a
  due body needs that its record was marked as tried first, `Marked`; erasing one makes its record due) or loses one. That a marked record is due to nobody else takes *one pass* at a time
  (`OnePass`); the proof uses it at that step only.

**`HoldingsProofs`** has the three components in which a process writes what it looked at before: `Pulls` from `PullsAssumption` alone, the other two from `LedgersAssumption` and under `Serial`. Plates:

    PlatesInv == PlatesTyped /\ PlateBounded /\ for each writer: Locked, Apart, Names, Admitted, Planned /\ for each item: Known

`Locked` says which writer holds the lock of which plate, `Apart` that two writers at work have different items. The bound is on a plate's `Tally`, what it holds without `over`. `Admitted` says
that what a writer counted in still fits there. It is stable: between the count and the write nobody else adds to that tally, since a lapse or an urgent item adds to the plate and to `over`
at once, and whatever leaves makes room. That a lapse or a change of priority needs no lock is therefore no gap in the argument. `Known` relates an item to whom it was sent: an item that has been
given away is its receiver's, unless the dispatch is in doubt. The cardinality of a plate is the argument's only arithmetic.

Maintenance windows: `WindowInv` says for each command at each label what the file holds (`Holds`), that a
command that holds the file is alone at it (`Distinct`), and what it knows (`Knows`); and for the timer: if the lease in force says that it ran, it ran, and else it is as it was.
The lease that recorded a running timer goes only through `unlink`, and a command comes there only after the timer was started; that survives crashes because the lease does.

Pull requests: `PullsTypesKept` (`FTypeOK`), `NothingIsReplayed` (`NoReplay`), `MergesAreSerial` (`OneMergeAtATime`), from

    PullsInv == FTypeOK /\ Journaled /\ Bindings /\ Working

`Journaled` says that a write that was sent is recorded in the registry (in `tried`, in the slot, in the outbox, or in the outcome that replaced it),
so the guard that looks there refuses a second one. `Bindings` says that what is in flight was sent, and `Working` what the holder
of the lock has read and established at each of its labels: between the journal and the send, the journal already names the write but nothing was sent.
The theorem covers lost proofs and deaths at every label, which is why the journal must come first.

**`SweepsProofs`**, from `LedgersAssumption` and `RecordsAssumption`, has the four components that a pass sweeps.

* *Cycles*. `CyclesInv`: whoever is past `Enter` holds the lifecycle lock (`Locks`), what it holds in hand was not served yet (`Undone`), and when the context was replaced the request,
  if it is still there, is no longer about the present one (`Shed`). `Held` is what a person's stop rests on: no stamp by which tend would start the agent, no
  record about to overwrite the stop, no server that has read the intent already, and nobody between gate and launch whom the stop binds.
* *Unblocked*. `UnblockedInv`: a firing that is not done is not older than the cursor, neither that of the file nor that of any pass's copy (`Reaches`, `Complete`). A pass that overwrites a
  later one's cursor can thus only move it back, and so `NothingIsPassedOver` needs no `Serial`. For `FiringsAreReportedOnce`, `TellInv` counts: as often as passes died, and once more if the ledger of the pass at work has it.
* *Deferrals*. `Paid`: what was told of an item and what is recorded of it differ by no more than the deaths, unless the pass is about to record it. `Judged`: what a pass is about to
  write was met when it looked last, and, under `Serial`, nobody moved it since.
* *Reminders*. `Vouched`: a message that arrived is in the entries of the ledger, or in a packet whose fate is in doubt, or is about an item that the board changed since. A packet in doubt
  is not made anew (`Grouped`), so nobody is told twice whatever answer is lost. Entries and messages bear the day their pass began, and passes begin in order, so
  midnight in the middle of a pass changes nothing. `Placed` and `NumberedOnce` say where a packet is and that its number is its own.

**`StoresProofs`**, from `LedgersAssumption` and `RecordsAssumption`, has the two components that keep files under names which move.

* *File memory*, the accepted head. `WholeInv`: whoever captures, freezes or delivers holds the sync lock (`AtBatch`), and what is uploaded has the files of a capture, also between two calls of
  `step`, when nobody holds it. A head is accepted only when it is that batch, all of it, whatever lands late or fails. This needs no `Serial`.
* *File memory*, its order. `OrderInv` relates four heads: the files of the generation in force are ahead of the batch under upload, or else of the accepted head; what was captured is ahead
  of the head it was compared with, and the session has at most moved past it (`Compared`); while a generation is staged nothing is uploaded, and it is ahead of the accepted head as the one in force is (`Staged`).
  `Staged` fails as soon as a session or a hook runs beside a launch, which `Serial` excludes and `memory_stale` shows.
* *Stop events*, the files. No file is behind two names (`OneName`), and the temporary name of what a process saves is the file that it writes, and nobody else's (`Saving`): a hook's number is free and
  its event in no other file (`Numbered`), and a reader saves an event of its batch (`Marking`). A temporary file that a killed process left behind is truncated by whoever opens that name next, before the rename can publish it.
  The proof needs that one hook at a time takes a number; `events_race` shows two.
* *Stop events*, the batches. A batch holds pending events that nobody was given (`Draining`), every event that was told or dropped is marked (`Given`), and no event is in two files (`Published`). So
  an event is told once. *One reader* (any two readers of the destination are the same) is what the code relies on: `drain` takes no lock, and a destination is one agent, whose Stop hook runs once at a time.

**`LedgersProofs`**, from the assumptions of the sum, has what speaks of all nine at once. `AllTypesOK` follows from the invariants of the components
(`AllInvs`), which hold together because only the subject moves, and `Counted`: the counters of moves, falls, days and packets stay within their bounds, and a few sets that
nothing else speaks of keep their members. The hypotheses are those of the components' invariants.

**Only model-checked.** Liveness (`EveryFiringFinishes`), and ENABLED, are out of the prover's reach. So is induction over data:
what a fold or a sort computes. Every invariant, action property
and refinement of a passing run is a theorem. Each property of a passing run is broken by a mutation of the code's definition that is kept beside it in the module (`Mutant:`).

## Hazards without a property

* A request can be stranded: a relaunch that finds the session already gone records "stop requested while already down", and if the launch
  then fails, the next server reads that reason as a person's stop and stands down. `RequestKept` says that the request is kept, not
  that it is served; the code promises no time for that.

Not in the list, because they are meant, or because no property of these modules could see them: a source that cannot be read returns before the
drain, so what is queued waits for it (`jobs.py:1044`); an unlock event that changes hands while its packet is in doubt is packed again, for the
other recipient (`overdue.py:158`; `ToldOnce` is stated for one recipient at a time); a kill between the exclusive `open` of a lease and its
write leaves it torn (`window.py:84`); the reuse of a dead runner's process id (`jobs.py:976`), a `when` check that
times out and hides an edge (`jobs.py:749`), the resume brief of a cycle, which is written and dropped apart from the request (`Cycles` leaves it out), the journal of a pull request's creation (`create_bound`), the roster a window plan was made from.

## What is not modelled

* *Text and data*: parsing and validation of files, templates, wording, log rotation; the pane text
  heuristics of `triage.py`, `tmux.py`, `notify.py`, which `Delivery` takes as readable or not; arithmetic on quotas (`governor.py`); rendering and statistics.
* *Programs outside*: trackers, quipu, gh, systemd, the harnesses and accounts appear as nondeterministic answers
  where modelled code calls them. Provisioning and configuration write files once; roles are pure reads of cards.
* *Inside modelled components*: in `Jobs`, process ids are not reused and `systemd-run` scopes are ignored. In `Events`, `BeadsEvents` and file-system errors
  other than a kill. In `OwnedWork` the report file and the registry lookups are abstracted to "may fail". In `Delivery`, a session that restarts, two sends of
  one text told apart by time, the stall watch, and panes without custody (Claude). In `Pulls`, `create_bound` and the choice of a reviewer. In
  `Plates`, feed checks, ranking and policy. In `FileMemory`, an owner's bootstrap and retirement and the validation of file trees.
  In `Deferrals`, the parsing of conditions, `gate_backstop`, the reading list and the log of what does not interrupt. In `Unblocked`, the caps on the page and on the firings kept, the comment on a corrected
  item, and a firing the graph shows with an older second than one it showed before.
* *Components that only appear as processes, or not yet*: notify and peer watch, supervision,
  quiet time and gaming holds. Much of each is classification of pane text or reads of external programs; their ledgers are in the plan.

## Plan

1. The resume brief of `Cycles`; a run that shows a stranded request.
2. `create_bound` in `Pulls`; an unlock event that changes hands in `Reminders`.
3. The other ledgers of `notify.py`, `gate_backstop.py`, the readers of resume events; the debounce of `gaming.py` and `quiet_time.py`.
4. A composition of `Window`'s gate with the launches of `OwnedWork`.
