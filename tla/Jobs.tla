-------------------------------- MODULE Jobs --------------------------------
(***************************************************************************)
(* One declared job of shantytown/jobs.py and everything that races on it: *)
(* the tend passes that evaluate it (a timer, launchd and an operator can  *)
(* overlap), `st work jobs run`, the detached exec children that outlive   *)
(* a pass, the event source it polls, and crashes of any of them.          *)
(*                                                                         *)
(* `disk` is <root>/jobs/.state/<name>.json, `lock` the job's flock,       *)
(* `result` the one <name>.result.json every detached child of the job     *)
(* writes.  `mem[p]` is the dict a pass read and works on until it writes  *)
(* it back; a crash loses exactly that.  The jobs of one pass share the    *)
(* clock and the list of the tracker's items, which the first of them that *)
(* asks reads: a pass may come to this job with an old list.  So one job,  *)
(* and that list, stand for all; TLC chooses its file from JobFiles.       *)
(***************************************************************************)
EXTENDS Integers, Sequences, FiniteSets, Functions

CONSTANTS
  Passes,      \* processes that run Runner.sweep
  Operator,    \* the process that runs Runner.run_now
  Children,    \* detached `_exec` runners that can ever be started
  JobFiles,    \* the job files considered
  MaxEvent,    \* events (or items) the source can ever produce
  Items,       \* the tracker's items, the events of a `closed` job
  Matching,    \* the events the job's `match` table accepts
  Slots,       \* instants the cron expression matches
  MaxNow,      \* the clock stops here
  Every,       \* every_s
  LateGrace,   \* LATE_GRACE_S
  Limit,       \* GH_LIMIT: newest rows one gh listing shows
  Page,        \* QUIPU_PAGE
  SeedPages,   \* QUIPU_SEED_PAGES
  Backoff,     \* backoff_s
  MaxCrashes,  \* passes that die in the middle
  MaxTimeouts, \* when-checks that time out
  MaxClosings, \* how often items can be closed
  MaxListings, \* how often a pass lists the items for another job first
  None

Procs  == Passes \union {Operator}
Time   == 0 .. MaxNow
Events == 1 .. MaxEvent
Keys   == Nat

TriggerKinds == {"cron", "every", "when", "gh", "closed", "quipu"}
ActionKinds  == {"inbox", "dispatch", "exec"}

Job == [trigger : TriggerKinds, guarded : BOOLEAN, catchUp : BOOLEAN,
        action : ActionKinds, retryMax : Nat]

ASSUME JobsAssumption ==
  /\ JobFiles \subseteq Job
  /\ MaxEvent \in Nat /\ MaxNow \in Nat
  /\ MaxCrashes \in Nat /\ MaxTimeouts \in Nat /\ MaxClosings \in Nat
  /\ MaxListings \in Nat
  /\ Matching \subseteq Events /\ Items \subseteq Events
  /\ Slots \subseteq Time
  /\ Every \in Nat \ {0} /\ LateGrace \in Nat /\ Backoff \in Nat \ {0}
  /\ Limit \in Nat \ {0} /\ Page \in Nat \ {0} /\ SeedPages \in Nat \ {0}
  /\ Operator \notin Passes
  /\ None \notin Procs /\ None \notin Children /\ None \notin Nat

\* An arithmetic fact the provers do not know: the backoff can be doubled.
ASSUME DoublingAssumption ==
  \A f \in JobFiles : \A n \in 0 .. f.retryMax : 2 ^ n \in Nat

(***************************************************************************)
(* A firing in the `pending` queue, and the job's state file.  `lastSlot`  *)
(* is `last_slot or since`: since is only read as the slot before the      *)
(* first one.  `item` is fire["memo"]["item"], `child` fire["running"].    *)
(***************************************************************************)
Fire  == [key : Keys, attempts : Nat, retryAt : Nat,
          child : Children \union {None}, item : BOOLEAN]
State == [lastSlot : Time \union {None}, lastDone : Time \union {None},
          seeded : BOOLEAN, cursor : Nat, seen : SUBSET Events,
          whenLast : BOOLEAN, pending : Seq(Fire)]

NewFire(k) == [key |-> k, attempts |-> 0, retryAt |-> 0, child |-> None,
               item |-> FALSE]
NoState    == [lastSlot |-> None, lastDone |-> None, seeded |-> FALSE,
               cursor |-> 0, seen |-> {}, whenLast |-> FALSE, pending |-> <<>>]

VARIABLES
  job,       \* the parsed job file; never changes
  now,       \* Runner.now
  top,       \* how many events the source has produced (when: edges of the check)
  closed,    \* the items that are closed now
  closings,  \* history: how often each item was closed
  disk, result, lock,
  pc, mem,
  list,      \* Sources._beads_cache: the closed items a pass has listed for another job
  overtaken, \* history: passes with a list from before another pass moved `seen`
  stale,     \* history: polls that moved `seen` by an overtaken list
  listings,  \* how often a pass has listed for another job
  child,     \* what each detached runner is doing
  fired,     \* history: keys of the firings made durable, in order
  tries,     \* history: attempts of a firing that reached the outside world
  created,   \* history: work items created for a firing
  final,     \* history: the firings finished, and how
  told,      \* history: the firings whose give-up reached the administrator
  seed,      \* history: the cursor the first poll stored
  honest,    \* history: no outcome was recorded against the exit of its own child
  crashes, timeouts

world == <<top, closed, closings>>
ghost == <<fired, tries, created, final, told, seed, honest>>
faults == <<crashes, timeouts>>
cache == <<list, overtaken, stale, listings>>
vars  == <<job, now, world, disk, result, lock, pc, mem, cache, child, ghost, faults>>

KeysOf(q) == {q[i].key : i \in DOMAIN q}
Total(f)  == FoldFunction(LAMBDA a, b : a + b, 0, f)
Live      == {c \in Children : child[c] = "running"}
Times(k)  == Cardinality({i \in DOMAIN fired : fired[i] = k})
TimedKinds   == {"cron", "every", "when"}
NumberedKinds == {"gh", "quipu"}

Init ==
  /\ job \in JobFiles
  /\ now = 0 /\ top = 0 /\ closed = {} /\ closings = [e \in Events |-> 0]
  /\ disk = NoState /\ result = None /\ lock = None
  /\ pc = [p \in Procs |-> "idle"] /\ mem = [p \in Procs |-> NoState]
  /\ list = [p \in Passes |-> None] /\ overtaken = {} /\ stale = 0 /\ listings = 0
  /\ child = [c \in Children |-> "unused"]
  /\ fired = <<>> /\ seed = None /\ told = {} /\ honest = TRUE
  /\ tries = [k \in {} |-> 0] /\ created = [k \in {} |-> 0]
  /\ final = [k \in {} |-> "ok"]
  /\ crashes = 0 /\ timeouts = 0

\* Histories are partial functions over the keys met so far.
Count(f, k)   == IF k \in DOMAIN f THEN f[k] ELSE 0
AddOne(f, k)  == [x \in DOMAIN f \union {k} |-> Count(f, x) + (IF x = k THEN 1 ELSE 0)]

-----------------------------------------------------------------------------
(* tick: take the lock, read the state, evaluate, and make the enqueue      *)
(* durable before anything is run.  A pass that finds the lock held skips   *)
(* the job, which changes nothing.                                          *)

\* st.setdefault("since", now)
Opened == [disk EXCEPT !.lastSlot = IF @ = None THEN now ELSE @]
Enqueue(p, s, keys) ==
  LET st == [s EXCEPT !.pending =
                @ \o [i \in DOMAIN keys |-> NewFire(keys[i])]]
  IN /\ pc[p] = "idle" /\ lock = None
     /\ lock' = p
     /\ disk' = st
     /\ mem' = [mem EXCEPT ![p] = st]
     /\ pc' = [pc EXCEPT ![p] = "drain"]
     /\ fired' = fired \o keys
     /\ UNCHANGED <<job, now, world, result, child, tries, created, final,
                    told, honest>>

Quiet(p, s) == Enqueue(p, s, <<>>) /\ UNCHANGED <<seed, faults>>
Fires(p, s, keys) == Enqueue(p, s, keys) /\ UNCHANGED <<seed, faults>>

\* The key of a firing that has no event or slot of its own.
NextKey == Len(fired) + 1

\* `when` beside another trigger: a failing or unreadable guard consumes nothing.
GuardHolds(p) == job.guarded /\ Quiet(p, Opened)

\* One firing of a time trigger at a time.
StillPending(p) ==
  /\ job.trigger \in TimedKinds
  /\ disk.pending # <<>>
  /\ Quiet(p, Opened)

CronTick(p) ==
  LET s   == Opened
      due == {t \in Slots : s.lastSlot < t /\ t <= now}
  IN /\ job.trigger = "cron" /\ s.pending = <<>>
     /\ \/ due = {} /\ Quiet(p, s)
        \/ \E slot \in due :
             /\ \A t \in due : t <= slot
             /\ LET missed == now - slot > LateGrace /\ ~job.catchUp
                    s1     == [s EXCEPT !.lastSlot = slot]
                IN \/ missed /\ Quiet(p, s1)
                   \/ ~missed /\ Fires(p, s1, <<slot>>)
                   \/ ~missed /\ GuardHolds(p)

EveryTick(p) ==
  LET early == disk.lastDone # None /\ now < disk.lastDone + Every
  IN /\ job.trigger = "every" /\ disk.pending = <<>>
     /\ \/ early /\ Quiet(p, Opened)
        \/ ~early /\ Fires(p, Opened, <<NextKey>>)
        \/ ~early /\ GuardHolds(p)

\* The check is true between its odd and its even edges.  A check that timed
\* out or could not run reads as false.
WhenTick(p) ==
  /\ job.trigger = "when" /\ disk.pending = <<>>
  /\ \/ /\ top % 2 = 1 /\ ~disk.whenLast
        /\ Fires(p, [Opened EXCEPT !.whenLast = TRUE], <<NextKey>>)
     \/ /\ top % 2 = 1 /\ disk.whenLast
        /\ Quiet(p, Opened)
     \/ /\ top % 2 = 0
        /\ Quiet(p, [Opened EXCEPT !.whenLast = FALSE])
     \/ /\ top % 2 = 1 /\ timeouts < MaxTimeouts
        /\ Enqueue(p, [Opened EXCEPT !.whenLast = FALSE], <<>>)
        /\ timeouts' = timeouts + 1 /\ UNCHANGED <<seed, crashes>>
\* Mutant: the rows as gh lists them, newest first.
Descending(S) == {q \in [1 .. Cardinality(S) -> S] :
                    /\ S = {q[i] : i \in DOMAIN q}
                    /\ \A i, j \in DOMAIN q : i < j => q[i] > q[j]}

\* The rows of S in ascending order.
Ascending(S) == {q \in [1 .. Cardinality(S) -> S] :
                   /\ S = {q[i] : i \in DOMAIN q}
                   /\ \A i, j \in DOMAIN q : i < j => q[i] < q[j]}

\* What a numbered source shows beyond the cursor: gh lists the newest rows
\* only, quipu the oldest page.
Rows(cursor) == {n \in 1 .. top : /\ n > cursor
                                  /\ job.trigger = "gh" => n > top - Limit
                                  /\ job.trigger = "quipu" => n <= cursor + Page}
\* Mutant: a guard that holds the firing consumes its events all the same.
PollNumberedEagerly(p) ==
  LET s    == Opened
      rows == Rows(s.cursor)
  IN /\ job.trigger \in NumberedKinds /\ s.seeded
     /\ \E last \in rows, keys \in Ascending(rows \intersect Matching) :
          /\ \A n \in rows : n <= last
          /\ Fires(p, [s EXCEPT !.cursor = last],
                   IF job.guarded THEN <<>> ELSE keys)

PollNumbered(p) ==
  LET s    == Opened
      rows == Rows(s.cursor)
  IN /\ job.trigger \in NumberedKinds /\ s.seeded
     /\ \/ rows = {} /\ Quiet(p, s)
        \/ \E last \in rows, keys \in Ascending(rows \intersect Matching) :
             /\ \A n \in rows : n <= last
             /\ \/ Fires(p, [s EXCEPT !.cursor = last], keys)
                \/ keys # <<>> /\ GuardHolds(p)

\* First sight seeds the cursor and fires nothing.  Seeding a quipu cursor
\* stops after SeedPages pages and goes on in the next pass.
SeedNumbered(p) ==
  LET s     == Opened
      reach == s.cursor + SeedPages * Page
  IN /\ job.trigger \in NumberedKinds /\ ~s.seeded
     /\ \/ /\ job.trigger = "gh" \/ top < reach
           /\ Enqueue(p, [s EXCEPT !.cursor = top, !.seeded = TRUE], <<>>)
           /\ seed' = top /\ UNCHANGED faults
        \/ /\ job.trigger = "quipu" /\ top >= reach
           /\ Quiet(p, [s EXCEPT !.cursor = reach])

\* Another job of the same pass asks first: the list is in the cache.
Lists(p) ==
  /\ job.trigger = "closed" /\ pc[p] = "idle" /\ list[p] = None
  /\ listings < MaxListings /\ listings' = listings + 1
  /\ list' = [list EXCEPT ![p] = closed]
  /\ UNCHANGED <<job, now, world, disk, result, lock, pc, mem, child, overtaken,
                 stale, ghost, faults>>

\* A pass that listed goes without this job: its lock is held, or the pass dies.
Skips(p) ==
  /\ list[p] # None
  /\ list' = [list EXCEPT ![p] = None]
  /\ overtaken' = overtaken \ {p}
  /\ UNCHANGED <<job, now, world, disk, result, lock, pc, mem, child, stale,
                 listings, ghost, faults>>

\* The list a pass sees, and what becomes of the lists when it has polled: those
\* of the other passes are behind if the poll moved `seen`.
Listed(p) == IF list[p] = None THEN closed ELSE list[p]
Polled(p, moves) ==
  /\ list' = [list EXCEPT ![p] = None]
  /\ overtaken' = IF moves THEN {q \in Passes \ {p} : list[q] # None}
                            ELSE overtaken \ {p}
  /\ UNCHANGED listings
  /\ stale' = IF p \in overtaken /\ moves THEN stale + 1 ELSE stale

\* Mutant: the ids seen are stored when the set is seeded and never again.
PollClosedForgets(p) ==
  LET s    == Opened
      rows == Listed(p)
  IN /\ job.trigger = "closed"
     /\ \/ /\ ~s.seeded /\ Polled(p, rows # s.seen)
           /\ Enqueue(p, [s EXCEPT !.seen = rows, !.seeded = TRUE], <<>>)
           /\ seed' = 0 /\ UNCHANGED faults
        \/ /\ s.seeded /\ Polled(p, FALSE)
           /\ \E keys \in Ascending((rows \ s.seen) \intersect Matching) :
                Fires(p, s, keys)

PollClosed(p) ==
  LET s    == Opened
      rows == Listed(p)
  IN /\ job.trigger = "closed"
     /\ \/ /\ ~s.seeded /\ Polled(p, rows # s.seen)
           /\ Enqueue(p, [s EXCEPT !.seen = rows, !.seeded = TRUE], <<>>)
           /\ seed' = 0 /\ UNCHANGED faults
        \/ /\ s.seeded
           /\ \E keys \in Ascending((rows \ s.seen) \intersect Matching) :
                \/ /\ Fires(p, [s EXCEPT !.seen = rows], keys)
                   /\ Polled(p, rows # s.seen)
                \/ keys # <<>> /\ GuardHolds(p) /\ Polled(p, FALSE)

\* The source raised: nothing is consumed and the pass gives the lock back.
PollFails(p) ==
  /\ \/ job.trigger \in NumberedKinds
     \/ job.trigger = "closed" /\ list[p] = None
  /\ pc[p] = "idle" /\ lock = None
  /\ disk' = Opened
  /\ UNCHANGED <<job, now, world, cache, result, lock, pc, mem, child, ghost, faults>>

\* Everything a pass does with a job it could look at.
Look(p) ==
  \/ /\ \/ StillPending(p) \/ CronTick(p) \/ EveryTick(p) \/ WhenTick(p)
        \/ PollNumbered(p) \/ SeedNumbered(p)
     /\ UNCHANGED cache
  \/ PollClosed(p)

-----------------------------------------------------------------------------
(* _drain: the head of the queue, until it runs, waits or the queue is empty. *)
(* Nothing below is durable until WriteBack.                                  *)

First(p) == mem[p].pending[1]

\* The copy of the head that process p works on becomes f.
Work(p, f) == mem' = [mem EXCEPT ![p].pending[1] = f]
At(p, label) == pc' = [pc EXCEPT ![p] = label]

Record(f, how) == final' = [k \in DOMAIN final \union {f.key} |->
                              IF k = f.key THEN how ELSE final[k]]
\* Mutant: the time of the next run instead of the last.
PoppedNext(p, f) == mem' = [mem EXCEPT ![p].pending = Tail(@),
                                       ![p].lastDone = now + Every]

Popped(p, f) == mem' = [mem EXCEPT ![p].pending = Tail(@), ![p].lastDone = now]

Succeed(p, f) ==
  /\ Popped(p, f) /\ At(p, "drain") /\ Record(f, "ok") /\ UNCHANGED told
\* Mutant: one retry too many.
RetryOnceMore(p, f) ==
  /\ f.attempts <= job.retryMax + 1
  /\ Work(p, [f EXCEPT !.retryAt = now + Backoff * 2 ^ (f.attempts - 1)])
  /\ At(p, "drain") /\ UNCHANGED <<final, told>>

\* Mutant: the administrator is told at every failure.
RetryTells(p, f) ==
  /\ f.attempts <= job.retryMax
  /\ Work(p, [f EXCEPT !.retryAt = now + Backoff * 2 ^ (f.attempts - 1)])
  /\ told' = told \union {f.key}
  /\ At(p, "drain") /\ UNCHANGED final

\* Mutant: a firing that is put off goes to the end of the queue.
RetryLast(p, f) ==
  /\ f.attempts <= job.retryMax
  /\ mem' = [mem EXCEPT ![p].pending =
                Append(Tail(@), [f EXCEPT !.retryAt = now + Backoff * 2 ^ (f.attempts - 1)])]
  /\ At(p, "drain") /\ UNCHANGED <<final, told>>

\* A pass that scheduled a retry stops there: retry_at lies in the future.
Retry(p, f) ==
  /\ f.attempts <= job.retryMax
  /\ Work(p, [f EXCEPT !.retryAt = now + Backoff * 2 ^ (f.attempts - 1)])
  /\ At(p, "drain") /\ UNCHANGED <<final, told>>

\* The notice is best effort: the administrator may not hear of it.
GiveUp(p, f) ==
  /\ f.attempts > job.retryMax
  /\ Popped(p, f) /\ At(p, "drain") /\ Record(f, "gaveup")
  /\ told' \in {told, told \union {f.key}}

Finish(p, f, ok) == \/ ok /\ Succeed(p, f)
                    \/ ~ok /\ (Retry(p, f) \/ GiveUp(p, f))

CanAttempt(p) == /\ mem[p].pending # <<>>
                 /\ First(p).child = None
                 /\ First(p).retryAt <= now

Attempt(p) ==
  /\ pc[p] = "drain" /\ CanAttempt(p)
  /\ Work(p, [First(p) EXCEPT !.attempts = @ + 1])
  /\ At(p, "act")
  /\ UNCHANGED <<job, now, world, cache, disk, result, lock, child, ghost, faults>>

\* The command may fail before or after it reached its recipient.
Send(p) ==
  /\ pc[p] = "act" /\ job.action = "inbox"
  /\ \E sent, ok \in BOOLEAN :
       /\ ok => sent
       /\ tries' = IF sent THEN AddOne(tries, First(p).key) ELSE tries
       /\ Finish(p, First(p), ok)
  /\ UNCHANGED <<job, now, world, cache, disk, result, lock, child, fired, created,
                 seed, honest, faults>>
\* Mutant: the item is not looked up on the firing.
CreateAnew(p) ==
  /\ pc[p] = "act" /\ job.action = "dispatch"
  /\ created' = AddOne(created, First(p).key)
  /\ Work(p, [First(p) EXCEPT !.item = TRUE])
  /\ UNCHANGED <<job, now, world, cache, disk, result, lock, child, fired, tries,
                 seed, honest, pc, final, told, faults>>

\* _job_dispatch makes the item once and remembers it on the firing...
Create(p) ==
  /\ pc[p] = "act" /\ job.action = "dispatch" /\ ~First(p).item
  /\ \/ /\ Finish(p, First(p), FALSE)
        /\ UNCHANGED created
     \/ /\ created' = AddOne(created, First(p).key)
        /\ Work(p, [First(p) EXCEPT !.item = TRUE])
        /\ UNCHANGED <<pc, final, told>>
  /\ UNCHANGED <<job, now, world, cache, disk, result, lock, child, fired, tries,
                 seed, honest, faults>>

\* ... and hands that one over, on a retry too.
Go(p) ==
  /\ pc[p] = "act" /\ job.action = "dispatch" /\ First(p).item
  /\ \E ok \in BOOLEAN : Finish(p, First(p), ok)
  /\ tries' = AddOne(tries, First(p).key)
  /\ UNCHANGED <<job, now, world, cache, disk, result, lock, child, fired, created,
                 seed, honest, faults>>

\* The old result is unlinked before the runner is spawned.
Spawn(p) ==
  /\ pc[p] = "act" /\ job.action = "exec"
  /\ result' = None
  /\ \/ /\ Finish(p, First(p), FALSE)
        /\ UNCHANGED <<child, tries>>
     \/ \E c \in Children :
          /\ child[c] = "unused"
          /\ child' = [child EXCEPT ![c] = "running"]
          /\ Work(p, [First(p) EXCEPT !.child = c])
          /\ At(p, "write")
          /\ tries' = AddOne(tries, First(p).key)
          /\ UNCHANGED <<final, told>>
  /\ UNCHANGED <<job, now, world, cache, disk, lock, fired, created, seed, honest,
                 faults>>

\* What the result file says counts as the outcome of the running head,
\* whichever child wrote it.
Collect(p) ==
  /\ result # None
  /\ Finish(p, [First(p) EXCEPT !.child = None], result.ok)
  /\ honest' = (honest /\ result.by = First(p).child)

HarvestRead(p) ==
  /\ pc[p] = "drain" /\ mem[p].pending # <<>> /\ First(p).child # None
  /\ \/ Collect(p)
     \/ result = None /\ At(p, "look") /\ UNCHANGED <<mem, final, told, honest>>
  /\ UNCHANGED <<job, now, world, cache, disk, result, lock, child, fired, tries,
                 created, seed, faults>>
\* Mutant: no result means the runner failed, alive or not.
HarvestImpatient(p) ==
  /\ pc[p] = "look"
  /\ Finish(p, [First(p) EXCEPT !.child = None], FALSE)
  /\ UNCHANGED <<job, now, world, cache, disk, result, lock, child, fired, tries,
                 created, seed, honest, faults>>

\* Mutant: no result means the runner is still at work, dead or not.
HarvestPatient(p) ==
  /\ pc[p] = "look" /\ At(p, "write")
  /\ UNCHANGED <<job, now, world, cache, disk, result, lock, mem, child, ghost, faults>>

\* No result: still alive, or dead and read once more.
HarvestLook(p) ==
  /\ pc[p] = "look"
  /\ \/ /\ child[First(p).child] = "running"
        /\ At(p, "write") /\ UNCHANGED <<mem, final, told, honest>>
     \/ /\ child[First(p).child] # "running"
        /\ \/ Collect(p)
           \/ /\ result = None
              /\ Finish(p, [First(p) EXCEPT !.child = None], FALSE)
              /\ UNCHANGED honest
  /\ UNCHANGED <<job, now, world, cache, disk, result, lock, child, fired, tries,
                 created, seed, faults>>

Stops(p) == \/ pc[p] = "write"
            \/ /\ pc[p] = "drain"
               /\ \/ mem[p].pending = <<>>
                  \/ /\ mem[p].pending # <<>>
                     /\ First(p).child = None /\ First(p).retryAt > now

WriteBack(p) ==
  /\ Stops(p)
  /\ disk' = mem[p]
  /\ lock' = None
  /\ mem' = [mem EXCEPT ![p] = NoState]
  /\ At(p, "idle")
  /\ UNCHANGED <<job, now, world, cache, result, child, ghost, faults>>

Drain(p) == \/ Attempt(p) \/ Send(p) \/ Create(p) \/ Go(p) \/ Spawn(p)
            \/ HarvestRead(p) \/ HarvestLook(p) \/ WriteBack(p)

-----------------------------------------------------------------------------
(* run_now: one attempt in the foreground, outside the queue.  It reads the  *)
(* state after the command has run; only `since` is from before.  The        *)
(* operator asks once.                                                       *)

RunNow ==
  /\ pc[Operator] = "idle" /\ lock = None
  /\ lock' = Operator /\ At(Operator, "run")
  /\ mem' = [mem EXCEPT ![Operator].lastSlot = now]
  /\ UNCHANGED <<job, now, world, cache, disk, result, child, ghost, faults>>

RunNowRecords ==
  /\ pc[Operator] = "run"
  /\ \E ok \in BOOLEAN :
       disk' = [disk EXCEPT
                  !.lastSlot = IF @ = None THEN mem[Operator].lastSlot ELSE @,
                  !.lastDone = IF ok THEN now ELSE @]
  /\ mem' = [mem EXCEPT ![Operator] = NoState]
  /\ lock' = None /\ At(Operator, "done")
  /\ UNCHANGED <<job, now, world, cache, result, child, ghost, faults>>

-----------------------------------------------------------------------------
(* The surroundings.                                                         *)

\* A process dies: the kernel drops its flock, its copy of the state is gone.
Crash(p) ==
  /\ lock = p /\ crashes < MaxCrashes
  /\ crashes' = crashes + 1
  /\ lock' = None
  /\ mem' = [mem EXCEPT ![p] = NoState]
  /\ At(p, IF p = Operator THEN "done" ELSE "idle")
  /\ UNCHANGED <<job, now, world, cache, disk, result, child, ghost, timeouts>>

\* _exec_main: the runner writes its result, then exits.  Its own timeout ends it.
ChildExits(c) ==
  /\ child[c] = "running"
  /\ child' = [child EXCEPT ![c] = "exited"]
  /\ \E ok \in BOOLEAN : result' = [by |-> c, ok |-> ok]
  /\ UNCHANGED <<job, now, world, cache, disk, lock, pc, mem, ghost, faults>>

\* Killed, or the host restarted: no result.
ChildDies(c) ==
  /\ child[c] = "running"
  /\ child' = [child EXCEPT ![c] = "killed"]
  /\ UNCHANGED <<job, now, world, cache, disk, result, lock, pc, mem, ghost, faults>>

ClockTicks ==
  /\ now < MaxNow
  /\ now' = now + 1
  /\ UNCHANGED <<job, world, cache, disk, result, lock, pc, mem, child, ghost, faults>>

Arrives ==
  /\ job.trigger \in NumberedKinds \union {"when"} /\ top < MaxEvent
  /\ top' = top + 1
  /\ UNCHANGED <<job, now, cache, closed, closings, disk, result, lock, pc, mem, child,
                 ghost, faults>>

Closes(e) ==
  /\ job.trigger = "closed" /\ e \notin closed /\ Total(closings) < MaxClosings
  /\ closed' = closed \union {e}
  /\ closings' = [closings EXCEPT ![e] = @ + 1]
  /\ UNCHANGED <<job, now, cache, top, disk, result, lock, pc, mem, child, ghost, faults>>

Reopens(e) ==
  /\ e \in closed
  /\ closed' = closed \ {e}
  /\ UNCHANGED <<job, now, cache, top, closings, disk, result, lock, pc, mem, child,
                 ghost, faults>>

World == \/ ClockTicks \/ Arrives
         \/ \E e \in Items : Closes(e) \/ Reopens(e)
         \/ \E c \in Children : ChildExits(c) \/ ChildDies(c)

Pass(p) == Lists(p) \/ Skips(p) \/ Look(p) \/ PollFails(p) \/ Drain(p)

Next == \/ \E p \in Passes : Pass(p)
        \/ RunNow \/ RunNowRecords
        \/ \E p \in Procs : Crash(p)
        \/ World

Spec == Init /\ [][Next]_vars

\* The timer starts a pass for ever, a pass that runs goes on, time passes, a
\* runner ends at its timeout, and a source that is down comes back: a pass
\* that fails to look changes nothing and so cannot stand in for one that does.
Fairness == /\ \A p \in Passes : WF_vars(Look(p)) /\ WF_vars(Drain(p))
            /\ WF_vars(RunNowRecords) /\ WF_vars(ClockTicks)
            /\ \A c \in Children : WF_vars(ChildExits(c) \/ ChildDies(c))

FairSpec == Spec /\ Fairness

-----------------------------------------------------------------------------
(* What a job promises.                                                      *)

Labels  == {"idle", "drain", "act", "look", "write", "run", "done"}
Statuses == {"unused", "running", "exited", "killed"}

CacheOK == /\ list \in [Passes -> (SUBSET Events) \union {None}]
           /\ overtaken \subseteq Passes
           /\ stale \in Nat /\ listings \in 0 .. MaxListings

\* Every variable keeps its type: the state file and the copies of it hold
\* what the code reads back from them.
TypeOK ==
  /\ job \in JobFiles /\ now \in Time /\ top \in 0 .. MaxEvent
  /\ closed \subseteq Events /\ closings \in [Events -> Nat]
  /\ disk \in State /\ mem \in [Procs -> State]
  /\ result \in {None} \union [by : Children, ok : BOOLEAN]
  /\ lock \in Procs \union {None}
  /\ CacheOK
  /\ pc \in [Procs -> Labels] /\ child \in [Children -> Statuses]
  /\ fired \in Seq(Keys) /\ seed \in Nat \union {None} /\ honest \in BOOLEAN
  /\ crashes \in 0 .. MaxCrashes /\ timeouts \in 0 .. MaxTimeouts

\* A process is inside a pass exactly while it holds the lock.
Exclusive == \A p \in Procs : pc[p] \notin {"idle", "done"} <=> lock = p

\* "late, never lost": what was enqueued is still in the durable queue or has
\* been finished, whichever process died in between.
NothingLost ==
  \A k \in Range(fired) : k \in KeysOf(disk.pending) \union DOMAIN final

\* docs/jobs.md: "a missed pass makes a job late but never drops it".  What the
\* cursor has passed was enqueued.
NeverDropped ==
  job.trigger \in NumberedKinds /\ seed # None =>
    \A n \in Matching : seed < n /\ n <= disk.cursor => n \in Range(fired)

\* A slot or an event is enqueued once however many passes look at it; an item
\* once for each time it was closed, and once more at most for each poll that went
\* by a list older than another pass's (it takes closed items out of `seen`); an
\* outage is not turned into a burst: a time trigger has one firing in the queue
\* at a time.
FiredOnce ==
  /\ \A k \in Range(fired) :
       Times(k) <= IF job.trigger = "closed" THEN closings[k] + stale ELSE 1
  /\ job.trigger \in TimedKinds => Len(disk.pending) <= 1

\* "serialize per job": an event is acted on only when every earlier one of the
\* same source is finished.
InOrder ==
  job.trigger \in NumberedKinds =>
    \A m \in DOMAIN tries, n \in Range(fired) : n < m => n \in DOMAIN final

\* A firing is attempted at most once and retry.max times more, even though
\* the count is on disk only after a pass: a crash can cost one more round of
\* every firing of the queue, and of an item closed twice there can be two.
AttemptsBounded ==
  \A k \in DOMAIN tries : tries[k] <= (job.retryMax + 1) * (Times(k) * (1 + crashes))

\* A retry hands over the item the first attempt made; only a crash between
\* making it and writing it down makes a second one.
OneItem == \A k \in DOMAIN created : created[k] <= Times(k) * (1 + crashes)

\* A firing whose runner is alive is not started again: without a crash there
\* is one runner, and its firing gets the outcome of its own runner.
OneRunner == Cardinality(Live) <= 1 + crashes /\ (crashes = 0 => honest)

\* The administrator is told of a firing only when it was given up for good.
ToldTruth == crashes = 0 /\ job.trigger # "closed" =>
               \A k \in told : k \in DOMAIN final /\ final[k] = "gaveup"

\* The queue in force: the copy of the pass that holds the lock, or the file's.
Queue == IF lock \in Passes THEN mem[lock].pending ELSE disk.pending
KeySeq(q) == [i \in DOMAIN q |-> q[i].key]

\* "Enqueue is durable first", then served "serially, from the head", by one pass
\* at a time: job files, locks, runners and crashes come to the queue of module
\* Firings, whose firings leave from the head and with an outcome.
Q == INSTANCE Firings WITH queue <- KeySeq(disk.pending), view <- KeySeq(Queue),
                           open <- lock \in Passes, tried <- DOMAIN tries,
                           outcome <- final
FiringsServed == Q!QSpec

\* Every firing made durable is finished, unless its retry lies beyond the
\* last instant considered.
EveryFiringFinishes ==
  \A k \in 1 .. MaxEvent :
    k \in Range(fired) ~> \/ k \in DOMAIN final
                          \/ \E i \in DOMAIN disk.pending : disk.pending[i].retryAt > MaxNow

=============================================================================
