------------------------------- MODULE Window -------------------------------
(***************************************************************************)
(* Fleet-maintenance windows, shantytown/window.py with `st fleet window`  *)
(* of cli.py: one JSON file is both the journal of a window and the lease  *)
(* that keeps agents from being relaunched.  Operators plan, drain, clear, *)
(* release and abort; launchers start agents if no lease stands; agents    *)
(* stop when they like.  A command is a chain of steps: every look at the  *)
(* file and every write of it is one, since nothing locks the file.        *)
(***************************************************************************)
EXTENDS Naturals, FiniteSets

CONSTANTS
  Operators,   \* processes that run `st fleet window`
  Launchers,   \* processes that start agents: tend, `st agent start`
  Ids,         \* window ids
  Agents,
  Serial,      \* TRUE: at most one command at a time names the same window
  MaxCrashes,
  None

Commands  == {"plan", "drain", "clear", "release", "abort"}
States    == {"planned", "draining", "clear", "restoring", "restore_failed"}

\* The manifest: `roster` is the set of rows with live = true.
Manifest == [id : Ids, state : States, roster : SUBSET Agents, timer : BOOLEAN]
Absent   == [id |-> None, state |-> "absent", roster |-> {}, timer |-> FALSE]
Blank    == [id |-> None, state |-> "blank",  roster |-> {}, timer |-> FALSE]

VARIABLES
  ledger,    \* window/active.json: absent, created and still empty, or a manifest
  mine,      \* the operator whose open descriptor the file at that path is
  live,      \* the agents whose pane exists
  timer,     \* whether the tend timer is active
  pc, cmd, on,
  cur,       \* the manifest a command works on
  todo,      \* the agents a restore has yet to start
  gate,      \* the launchers that found no lease and have not launched yet
  crashes,
  strays,    \* history: agents launchers started since CLEAR was last observed
  before     \* the timer's state before any window; never changes

proc == <<pc, cmd, on, cur, todo>>
vars == <<ledger, mine, live, timer, proc, gate, crashes, strays, before>>

Init ==
  /\ ledger = Absent /\ mine = None
  /\ live \in SUBSET Agents /\ timer \in BOOLEAN /\ before = timer
  /\ pc = [o \in Operators |-> "idle"] /\ cmd = [o \in Operators |-> None]
  /\ on = [o \in Operators |-> None] /\ cur = [o \in Operators |-> Absent]
  /\ todo = [o \in Operators |-> {}]
  /\ gate = {} /\ strays = {} /\ crashes = 0

Goto(o, label) == pc' = [pc EXCEPT ![o] = label]

\* The command ends, well or refused.
Ends(o) == /\ pc' = [pc EXCEPT ![o] = "idle"]
           /\ cmd' = [cmd EXCEPT ![o] = None]
           /\ on' = [on EXCEPT ![o] = None]
           /\ cur' = [cur EXCEPT ![o] = Absent]
           /\ todo' = [todo EXCEPT ![o] = {}]

Begins(o, c, w, manifest, label) ==
  /\ pc[o] = "idle"
  /\ Serial => \A q \in Operators : on[q] # w
  /\ Goto(o, label)
  /\ cmd' = [cmd EXCEPT ![o] = c]
  /\ on' = [on EXCEPT ![o] = w]
  /\ cur' = [cur EXCEPT ![o] = manifest]
  /\ UNCHANGED <<ledger, mine, live, timer, todo, gate, crashes, strays, before>>

Away == UNCHANGED <<ledger, mine, gate, crashes, before>>
Here == Away /\ UNCHANGED strays

-----------------------------------------------------------------------------
(* plan: the roster and the timer are read first, then the file is created. *)

Plan(o, w) ==
  Begins(o, "plan", w,
         [id |-> w, state |-> "planned", roster |-> live, timer |-> timer], "create")

\* Mutant: look-then-write instead of O_EXCL, so that an existing file is no refusal.
CreateOver(o) ==
  /\ pc[o] = "create"
  /\ ledger' = Blank /\ mine' = o /\ Goto(o, "fill")
  /\ UNCHANGED <<live, timer, cmd, on, cur, todo, gate, crashes, strays, before>>

\* os.open(O_CREAT | O_EXCL): the file exists, empty, before it is written.
Create(o) ==
  /\ pc[o] = "create"
  /\ \/ /\ ledger = Absent
        /\ ledger' = Blank /\ mine' = o /\ Goto(o, "fill")
        /\ UNCHANGED <<cmd, on, cur, todo>>
     \/ /\ ledger # Absent
        /\ Ends(o) /\ UNCHANGED <<ledger, mine>>
  /\ UNCHANGED <<live, timer, gate, crashes, strays, before>>

\* The manifest goes through the descriptor, which is the file at that path
\* unless it was replaced; a write that fails unlinks the path.
Fill(o) ==
  /\ pc[o] = "fill"
  /\ \/ mine = o /\ ledger' = cur[o]
     \/ mine # o /\ UNCHANGED ledger
     \/ ledger' = Absent
  /\ mine' = IF mine = o \/ ledger' = Absent THEN None ELSE mine
  /\ Ends(o)
  /\ UNCHANGED <<live, timer, gate, crashes, strays, before>>

-----------------------------------------------------------------------------
(* drain, clear, release and abort read the file, act, and update it.       *)

\* What require(w) and the state of the manifest let a command begin with.
Command(o, w) ==
  /\ ledger.id = w
  /\ \/ /\ ledger.state \in {"planned", "draining"}
        /\ Begins(o, "drain", w, ledger, "pause")
     \/ /\ ledger.state \in {"draining", "clear"}
        /\ Begins(o, "clear", w, ledger, "observe")
     \/ /\ ledger.state = "clear"
        /\ Begins(o, "release", w, ledger, "update")
     \/ Begins(o, "abort", w, ledger, "update")

\* The timer is stopped and read back; systemctl may fail, or time out half-way.
Pause(o) ==
  /\ pc[o] = "pause"
  /\ \/ ~cur[o].timer /\ Goto(o, "update") /\ UNCHANGED <<timer, cmd, on, cur, todo>>
     \/ /\ cur[o].timer /\ timer' = FALSE
        /\ Goto(o, "update") /\ UNCHANGED <<cmd, on, cur, todo>>
     \/ cur[o].timer /\ timer' \in {timer, FALSE} /\ Ends(o)
  /\ UNCHANGED live /\ Here

\* Mutant: only the agents that were up when the window was planned are looked at.
ObserveRoster(o) ==
  /\ pc[o] = "observe"
  /\ \/ /\ live \intersect cur[o].roster = {} /\ ~timer
        /\ Goto(o, "update") /\ strays' = {} /\ UNCHANGED <<cmd, on, cur, todo>>
     \/ ~(live \intersect cur[o].roster = {} /\ ~timer) /\ Ends(o) /\ UNCHANGED strays
  /\ UNCHANGED <<live, timer>> /\ Away

\* CLEAR looks at every recorded pane, live or not when the window was planned,
\* and at the writers.
Observe(o) ==
  /\ pc[o] = "observe"
  /\ \/ /\ live = {} /\ ~timer
        /\ Goto(o, "update") /\ strays' = {} /\ UNCHANGED <<cmd, on, cur, todo>>
     \/ ~(live = {} /\ ~timer) /\ Ends(o) /\ UNCHANGED strays
  /\ UNCHANGED <<live, timer>> /\ Away

\* Mutant: the manifest says which command is at work on it.
BecomesNamed(o) == IF cmd[o] = "drain" THEN "draining" ELSE cmd[o]

Becomes(o) == CASE cmd[o] = "drain" -> "draining"
                [] cmd[o] = "clear" -> "clear"
                [] pc[o] = "failed" -> "restore_failed"
                [] OTHER -> "restoring"

\* update: require once more ...
UpdateReads(o) ==
  /\ pc[o] \in {"update", "failed"}
  /\ \/ /\ ledger.id = on[o]
        /\ cur' = [cur EXCEPT ![o] = [ledger EXCEPT !.state = Becomes(o)]]
        /\ Goto(o, "write") /\ UNCHANGED <<cmd, on, todo>>
     \/ ledger.id # on[o] /\ Ends(o)
  /\ UNCHANGED <<live, timer>> /\ Here

\* ... and write_json_atomic, whatever the file holds by now.
UpdateWrites(o) ==
  /\ pc[o] = "write"
  /\ ledger' = cur[o] /\ mine' = None
  /\ \/ /\ cur[o].state = "restoring"
        /\ Goto(o, "start") /\ todo' = [todo EXCEPT ![o] = cur[o].roster]
        /\ UNCHANGED <<cmd, on, cur>>
     \/ cur[o].state # "restoring" /\ Ends(o)
  /\ UNCHANGED <<live, timer, gate, crashes, strays, before>>

-----------------------------------------------------------------------------
(* restore keeps the lease until everything it wants has been read back.    *)

StartAgent(o) ==
  /\ pc[o] = "start"
  /\ \E a \in todo[o] :
       \/ /\ live' = live \union {a} /\ todo' = [todo EXCEPT ![o] = @ \ {a}]
          /\ UNCHANGED pc
       \/ Goto(o, "failed") /\ live' \in {live, live \union {a}} /\ UNCHANGED todo
  /\ UNCHANGED <<timer, cmd, on, cur>> /\ Here

\* Mutant: the exit code of systemctl is trusted, the timer is not read back.
ResumeTrusts(o) ==
  /\ pc[o] = "start" /\ todo[o] = {}
  /\ timer' \in {timer, cur[o].timer}
  /\ Goto(o, "finish")
  /\ UNCHANGED <<live, cmd, on, cur, todo>> /\ Here

Resume(o) ==
  /\ pc[o] = "start" /\ todo[o] = {}
  /\ \/ ~cur[o].timer /\ Goto(o, "readback") /\ UNCHANGED timer
     \/ cur[o].timer /\ Goto(o, "readback") /\ timer' = TRUE
     \/ cur[o].timer /\ Goto(o, "failed") /\ timer' \in {timer, TRUE}
  /\ UNCHANGED <<live, cmd, on, cur, todo>> /\ Here

ReadBack(o) ==
  /\ pc[o] = "readback"
  /\ \/ cur[o].roster \subseteq live /\ timer = cur[o].timer /\ Goto(o, "finish")
     \/ ~(cur[o].roster \subseteq live /\ timer = cur[o].timer) /\ Goto(o, "failed")
  /\ UNCHANGED <<live, timer, cmd, on, cur, todo>> /\ Here

\* finish: require ...
FinishReads(o) ==
  /\ pc[o] = "finish"
  /\ \/ ledger.id = on[o] /\ Goto(o, "unlink") /\ UNCHANGED <<cmd, on, cur, todo>>
     \/ ledger.id # on[o] /\ Ends(o)
  /\ UNCHANGED <<live, timer>> /\ Here

\* ... and unlink, whatever the file holds by now.
FinishUnlinks(o) ==
  /\ pc[o] = "unlink"
  /\ ledger' = Absent /\ mine' = None
  /\ Ends(o)
  /\ UNCHANGED <<live, timer, gate, crashes, strays, before>>

Step(o) == \/ Create(o) \/ Fill(o) \/ Pause(o) \/ Observe(o) \/ UpdateReads(o)
           \/ UpdateWrites(o) \/ StartAgent(o) \/ Resume(o) \/ ReadBack(o)
           \/ FinishReads(o) \/ FinishUnlinks(o)

-----------------------------------------------------------------------------
(* The surroundings.                                                        *)

\* The operator's process dies, its command unfinished.
Crash(o) ==
  /\ pc[o] # "idle" /\ crashes < MaxCrashes
  /\ crashes' = crashes + 1
  /\ Ends(o)
  /\ UNCHANGED <<ledger, mine, live, timer, gate, strays, before>>

\* _window_launch_gate: a lease, or a ledger that cannot be read, refuses.
Gate(l) ==
  /\ l \notin gate /\ ledger = Absent
  /\ gate' = gate \union {l}
  /\ UNCHANGED <<ledger, mine, live, timer, proc, crashes, strays, before>>

\* The launch that follows the gate, which is not looked at again.
Launch(l) ==
  /\ l \in gate
  /\ gate' = gate \ {l}
  /\ \E a \in Agents : live' = live \union {a} /\ strays' = strays \union {a}
  /\ UNCHANGED <<ledger, mine, timer, proc, crashes, before>>

AgentStops(a) ==
  /\ a \in live
  /\ live' = live \ {a}
  /\ UNCHANGED <<ledger, mine, timer, proc, gate, crashes, strays, before>>

Next == \/ \E o \in Operators : \/ \E w \in Ids : Plan(o, w) \/ Command(o, w)
                               \/ Step(o) \/ Crash(o)
        \/ \E l \in Launchers : Gate(l) \/ Launch(l)
        \/ \E a \in Agents : AgentStops(a)

Spec == Init /\ [][Next]_vars

-----------------------------------------------------------------------------
(* What a window promises.                                                  *)

Labels == {"idle", "create", "fill", "pause", "observe", "update", "write",
           "start", "readback", "failed", "finish", "unlink"}

\* Every variable keeps its type; a lease is absent, empty, or a full manifest.
TypeOK ==
  /\ ledger \in Manifest \union {Absent, Blank} /\ mine \in Operators \union {None}
  /\ live \subseteq Agents /\ strays \subseteq Agents /\ gate \subseteq Launchers
  /\ timer \in BOOLEAN /\ before \in BOOLEAN /\ crashes \in 0 .. MaxCrashes
  /\ pc \in [Operators -> Labels] /\ cmd \in [Operators -> Commands \union {None}]
  /\ on \in [Operators -> Ids \union {None}]
  /\ cur \in [Operators -> Manifest \union {Absent}]
  /\ todo \in [Operators -> SUBSET Agents]

\* "two simultaneous window ids cannot coexist": once a window holds the lease,
\* only a release or an abort of that same window takes it away.
LeaseKept ==
  [][\A w \in Ids : ledger.id = w /\ ledger'.id # w =>
       \E o \in Operators : on[o] = w /\ pc[o] = "unlink" /\ pc'[o] = "idle"]_vars

\* CLEAR means that no agent runs, whether the roster had it live or not: none
\* but one that a launcher, past its gate when the lease was taken, started after
\* the panes were looked at.
ClearIsQuiet == ledger.state = "clear" => live \subseteq strays

\* When no window stands and no command is under way, the tend timer is back in
\* the state it had before, whatever failed or crashed on the way.
TimerComesBack ==
  ledger = Absent /\ (\A o \in Operators : pc[o] = "idle") => timer = before

=============================================================================
