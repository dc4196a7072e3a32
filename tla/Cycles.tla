------------------------------- MODULE Cycles -------------------------------
(***************************************************************************)
(* Shedding an agent's context: the requests of shantytown/cycle.py, `st   *)
(* agent cycle` and `st agent stop` of cli.py, and notify.AutoCycler.  The *)
(* agent asks from inside; what serves it is tend, the waiter it left      *)
(* behind, or a person, each of which looks at the pane, takes the         *)
(* lifecycle lock of cycle and stop, looks again, and clears the context,  *)
(* replaces the process or replaces the session, in this order.  One       *)
(* agent, in a fleet of which others have launch stamps.  tend also brings *)
(* back what is down.  What a cycle checks outside (trees, checkpoints,    *)
(* quotas) may refuse it any time.                                         *)
(***************************************************************************)
EXTENDS Naturals

CONSTANTS
  Servers,       \* tend and the waiter
  Humans,        \* who run `st agent cycle` and `st agent stop`
  MaxRequests,   \* bound on the cycles asked for
  MaxUpsets,     \* bound on deaths, starts and clears by hand
  Serial,        \* TRUE: no request is made while a command holds an older one, and
                 \* no agent is started between its kill and the record of its stop
  None

Procs == Servers \union Humans
Asked == 1 .. MaxRequests

VARIABLES
  agent,    \* its session, whether a turn runs, whether the context is past the line
  request,  \* cycle-requests.json; `here`: the context that is asked about still lives
  stop,     \* the record of a deliberate stop, by its reason: a cycle's or a person's
  stamp,    \* whether the agent has a launch stamp
  lock,     \* who holds the lifecycle lock
  proc,     \* what each command is doing, and what it read
  ids, upsets,
  done,     \* history: how often each cycle was completed
  halted    \* history: who is bound by a person's stop, nobody once a person started
            \* the agent: all but those who had passed tend's gate when it was stopped

cvars == <<agent, request, stop, stamp, lock, proc, ids, upsets, done, halted>>

\* `shell`: the session is there and the harness is not.
Agent == [session : {"gone", "shell", "up"}, busy : BOOLEAN, deep : BOOLEAN]
Request == [id : Asked, auto : BOOLEAN, here : BOOLEAN]
Labels == {"idle", "swept", "wait", "type", "settle", "respawn", "down", "record", "launch",
           "verify", "tidy", "revive"}
Unlocked == {"idle", "swept", "wait", "tidy", "revive"}
Modes == {"soft", "respawn", "relaunch"}
Sights == {"under", "mint", "nothing"}
Command == [pc : Labels, id : Asked \union {None}, mode : Modes \union {None},
            sight : Sights \union {None}]

Rest == [pc |-> "idle", id |-> None, mode |-> None, sight |-> None]

CInit ==
  /\ agent = [session |-> "up", busy |-> FALSE, deep |-> FALSE]
  /\ request = None /\ stop = "none" /\ stamp = TRUE /\ lock = None
  /\ proc = [p \in Procs |-> Rest] /\ ids = 0 /\ upsets = 0
  /\ done = [i \in Asked |-> 0] /\ halted = {}

Session == agent.session # "gone"
Quiet == agent.session = "up" /\ ~agent.busy
At(p, label) == proc[p].pc = label
Goto(p, label) == proc' = [proc EXCEPT ![p].pc = label]
Upset == upsets < MaxUpsets /\ upsets' = upsets + 1
NextId == ids < MaxRequests /\ ids' = ids + 1
Unasked(q) == proc[q].pc \in {"idle", "revive"}
Alone(p) == Serial => \A q \in Procs \ {p} : Unasked(q)

Leaves(session) ==
  /\ agent' = [session |-> session, busy |-> FALSE, deep |-> FALSE]
  /\ request' = IF request = None THEN None ELSE [request EXCEPT !.here = FALSE]

\* runtime.start and _launched_now: a context begins, if the harness comes up.
Starts ==
  /\ \E session \in {"up", "shell"} : Leaves(session)
  /\ stamp' = TRUE /\ stop' = "none"

-----------------------------------------------------------------------------
(* The agent, the people at its pane, and those who start it.               *)

Bystanders == UNCHANGED <<stop, stamp, lock, proc, done>>

Turn ==
  /\ agent.session = "up"
  /\ \E deep \in BOOLEAN : /\ agent.deep => deep
                           /\ agent' = [agent EXCEPT !.busy = ~@, !.deep = deep]
  /\ UNCHANGED <<request, ids, upsets, halted>> /\ Bystanders

Dies ==
  /\ Session /\ Upset /\ Leaves("gone")
  /\ UNCHANGED <<ids, halted>> /\ Bystanders

ClearByHand ==
  /\ Quiet /\ Upset /\ Leaves("up")
  /\ UNCHANGED <<ids, halted>> /\ Bystanders

\* `st agent cycle --self`: the last request of an agent stands.
Ask ==
  /\ agent.session = "up" /\ agent.busy /\ NextId
  /\ Serial => \A q \in Procs : Unasked(q)
  /\ request' = [id |-> ids + 1, auto |-> FALSE, here |-> TRUE]
  /\ UNCHANGED <<agent, upsets, halted>> /\ Bystanders

\* The launchers take no lifecycle lock.
Recorded == Serial => \A q \in Procs : ~At(q, "record")

\* `st agent new` refuses a session that is there.
New ==
  /\ ~Session /\ Recorded /\ Upset /\ Starts /\ halted' = {}
  /\ UNCHANGED <<lock, proc, ids, done>>

\* tend brings back what is down and has a stamp.  It reads the stamp, sets up the
\* workspace and refreshes the trees, and looks again for a session alone: what it
\* starts then may have been stopped by a person meanwhile.
Revive(p) ==
  /\ At(p, "idle") /\ ~Session /\ stamp /\ Goto(p, "revive")
  /\ halted' = IF halted = {} THEN {} ELSE halted \union {p}
  /\ UNCHANGED <<agent, request, stop, stamp, lock, ids, upsets, done>>

\* A launch that fails may leave the session it made.
Raise(p) ==
  /\ At(p, "revive") /\ proc' = [proc EXCEPT ![p] = Rest]
  /\ \/ UNCHANGED <<agent, request, stop, stamp, halted>>
     \/ /\ ~Session /\ Recorded
        /\ halted' = IF p \in halted THEN halted ELSE {}
        /\ \/ Starts
           \/ Leaves("shell") /\ UNCHANGED <<stop, stamp>>
  /\ UNCHANGED <<lock, ids, upsets, done>>

-----------------------------------------------------------------------------
(* AutoCycler.sweep: the depths and the requests are read once, used later. *)

Sweep(p) ==
  /\ At(p, "idle") /\ agent.session = "up"
  /\ \E sight \in Sights :
       /\ sight = "under" => ~agent.deep /\ request # None /\ request.auto
       /\ sight = "mint" => agent.deep /\ Quiet /\ request = None
       /\ proc' = [proc EXCEPT ![p] = [Rest EXCEPT !.pc = "swept", !.sight = sight]]
  /\ UNCHANGED <<agent, request, stop, stamp, lock, ids, upsets, done, halted>>

Decide(p) ==
  /\ At(p, "swept") /\ proc' = [proc EXCEPT ![p] = Rest]
  /\ \/ proc[p].sight = "under" /\ request' = None /\ UNCHANGED ids
     \/ /\ proc[p].sight = "mint" /\ NextId /\ Alone(p)
        /\ request' = [id |-> ids + 1, auto |-> TRUE, here |-> TRUE]
     \/ UNCHANGED <<request, ids>>
  /\ UNCHANGED <<agent, stop, stamp, lock, upsets, done, halted>>

-----------------------------------------------------------------------------
(* A cycle, up to the lock.                                                 *)

\* _cycle_stop_refusal and _automatic_cycle_refusal: what lets a server go on.
Standing == stop # "person" /\ request # None
Boundary == Session => Quiet

\* cycle.plan; what else decides (the card, the flag, the input box) is any.
Plan(mode) ==
  \/ mode = "relaunch" /\ ~Session
  \/ mode = "respawn" /\ Session
  \/ mode = "soft" /\ Quiet

\* A server's cycle is planned under the lock, a person's before it.
Serve(p) ==
  /\ At(p, "idle") /\ Standing /\ Boundary /\ (request.auto => Quiet)
  /\ proc' = [proc EXCEPT ![p] = [Rest EXCEPT !.pc = "wait", !.id = request.id]]
  /\ UNCHANGED <<agent, request, stop, stamp, lock, ids, upsets, done, halted>>

Order(p) ==
  /\ At(p, "idle") /\ NextId
  /\ \E mode \in Modes :
       /\ Plan(mode)
       /\ proc' = [proc EXCEPT ![p] = [Rest EXCEPT !.pc = "wait", !.id = ids + 1, !.mode = mode]]
  /\ UNCHANGED <<agent, request, stop, stamp, lock, upsets, done, halted>>

Stop(p) ==
  /\ At(p, "idle") /\ lock = None /\ lock' = p /\ Goto(p, "down")
  /\ UNCHANGED <<agent, request, stop, stamp, ids, upsets, done, halted>>


Ends(p) == /\ proc' = [proc EXCEPT ![p] = Rest]
           /\ lock' = IF lock = p THEN None ELSE lock

\* Mutant: a request is taken as it is served.
RefusedTaken(p) ==
  Ends(p) /\ request' = None

\* A refusal leaves the request for the next pass.
Refused(p) ==
  Ends(p) /\ UNCHANGED request

-----------------------------------------------------------------------------
(* A cycle, under the lock: each mechanism falls back to the next, and the   *)
(* session is down only between the kill and the launch of the last.        *)

Kept == UNCHANGED <<ids, upsets, done>>
Same == UNCHANGED <<agent, stop, stamp, halted>>

\* Mutant: the intent is read before the lock only.
ConfirmedBefore(p) == p \in Servers => Boundary

\* A server reads the intent and the pane again.
Confirmed(p) == p \in Servers => Standing /\ Boundary

FirstStep == [soft |-> "type", respawn |-> "respawn", relaunch |-> "down"]

Enter(p) ==
  /\ At(p, "wait") /\ lock = None
  /\ \/ ~Confirmed(p) /\ Refused(p)
     \/ /\ Confirmed(p) /\ lock' = p /\ UNCHANGED request
        /\ \E mode \in Modes :
             /\ IF p \in Servers THEN Plan(mode) ELSE mode = proc[p].mode
             /\ proc' = [proc EXCEPT ![p].pc = FirstStep[mode], ![p].mode = mode]
  /\ Same /\ Kept

\* _cycle_soft: a clear that is typed may land, and may not be seen to have landed.
Type(p) ==
  /\ At(p, "type")
  /\ \/ Quiet /\ Leaves("up") /\ Goto(p, "settle")
     \/ Goto(p, "respawn") /\ UNCHANGED <<agent, request>>
  /\ UNCHANGED <<stop, stamp, lock, halted>> /\ Kept

\* Whoever is started by a person's command is no longer halted.
Wanted(p) == halted' = IF p \in Humans THEN {} ELSE halted

\* The session stays; a launch is refused before the process is touched.
Respawn(p) ==
  /\ At(p, "respawn")
  /\ \/ Refused(p) /\ Same
     \/ /\ Session /\ Starts /\ Wanted(p) /\ UNCHANGED lock
        /\ proc' = [proc EXCEPT ![p].pc = "verify", ![p].mode = "respawn"]
     \/ /\ Session /\ Leaves("shell") /\ UNCHANGED <<stop, stamp, halted, lock>>
        /\ proc' = [proc EXCEPT ![p].pc = "down", ![p].mode = "relaunch"]
  /\ Kept

\* _stop_locked: of a stop, and inside a cycle.  The kill is seen to have worked.
Cancels(p) ==
  IF proc[p].id = None
    THEN /\ request' = None /\ Ends(p)
         /\ halted' = {q \in Procs : ~At(q, "revive")}
    ELSE UNCHANGED <<request, halted, lock>> /\ Goto(p, "launch")

Down(p) ==
  /\ At(p, "down")
  /\ \/ Refused(p) /\ Same
     \/ Session /\ Leaves("gone") /\ Goto(p, "record") /\ UNCHANGED <<stop, stamp, halted, lock>>
     \* Already down: "stop requested while already down", whoever asked.
     \/ ~Session /\ stop' = "person" /\ stamp' = FALSE /\ Cancels(p) /\ UNCHANGED agent
  /\ Kept

Record(p) ==
  /\ At(p, "record") /\ stamp' = FALSE
  /\ stop' = IF proc[p].id = None THEN "person" ELSE "cycle"
  /\ Cancels(p) /\ UNCHANGED agent /\ Kept

Launch(p) ==
  /\ At(p, "launch")
  /\ \/ Refused(p) /\ Same
     \/ /\ ~Session /\ Wanted(p) /\ UNCHANGED lock
        /\ proc' = [proc EXCEPT ![p].pc = "verify", ![p].mode = "relaunch"]
        /\ \/ Starts
           \/ Leaves("shell") /\ UNCHANGED <<stop, stamp>>
  /\ Kept

\* Mutant: the request is cleared once, after the lock is let go.
CompletedLater(p) ==
  UNCHANGED request

\* A server clears inside the lock, so that the server behind it stands down.
Completed(p) ==
  IF p \in Servers THEN request' = None ELSE UNCHANGED request

Succeeds(p) ==
  /\ agent.session = "up" /\ Completed(p)
  /\ done' = [done EXCEPT ![proc[p].id] = @ + 1]
  /\ lock' = None /\ Goto(p, "tidy")

Settle(p) ==
  /\ At(p, "settle")
  /\ \/ Succeeds(p)
     \/ Goto(p, "respawn") /\ UNCHANGED <<request, done, lock>>
  /\ Same /\ UNCHANGED <<ids, upsets>>

\* Hooks found missing after a respawn are a refusal; what cannot be told falls back.
Verify(p) ==
  /\ At(p, "verify")
  /\ \/ Succeeds(p)
     \/ Refused(p) /\ UNCHANGED done
     \/ /\ proc[p].mode = "respawn" /\ UNCHANGED <<request, done, lock>>
        /\ proc' = [proc EXCEPT ![p].pc = "down", ![p].mode = "relaunch"]
  /\ Same /\ UNCHANGED <<ids, upsets>>

\* Every cycle that completed clears the request, by the agent's name.
Tidy(p) ==
  /\ At(p, "tidy") /\ request' = None /\ Ends(p)
  /\ Same /\ Kept

\* A command dies; the lock goes with it.
Killed(p) ==
  /\ ~At(p, "idle") /\ Upset /\ Ends(p)
  /\ UNCHANGED <<request, ids, done>> /\ Same

CNext ==
  \/ Turn \/ Dies \/ ClearByHand \/ Ask \/ New
  \/ \E p \in Servers : Revive(p) \/ Raise(p) \/ Sweep(p) \/ Decide(p) \/ Serve(p)
  \/ \E p \in Humans : Order(p) \/ Stop(p)
  \/ \E p \in Procs :
       \/ Enter(p) \/ Type(p) \/ Settle(p) \/ Respawn(p) \/ Down(p) \/ Record(p)
       \/ Launch(p) \/ Verify(p) \/ Tidy(p) \/ Killed(p)

CSpec == CInit /\ [][CNext]_cvars

-----------------------------------------------------------------------------
(* Properties *)

\* The variables have their types, and the lock is held by whoever is behind it.
CTypeOK ==
  /\ agent \in Agent /\ request \in Request \union {None}
  /\ stop \in {"none", "cycle", "person"} /\ stamp \in BOOLEAN /\ halted \in SUBSET Procs
  /\ ids \in 0 .. MaxRequests /\ upsets \in 0 .. MaxUpsets
  /\ proc \in [Procs -> Command] /\ done \in [Asked -> Nat]
  /\ \A p \in Procs : lock = p <=> proc[p].pc \in Labels \ Unlocked

\* An agent a person stopped stays down until a person starts it, whatever cycle was
\* waiting for the stop to end, retried after it or fell back meanwhile (cycle.py:50,
\* "Order stop against cycle mutation"), and whatever tend finds down from then on.
\* Only a tend that had passed its gate before the stop undoes it.
StopHolds == halted # {} => ~Session

\* No request is served twice, although tend and the waiter may both hold it
\* (_perform_cycle: "so a second server ... sees no request and stands down").
ServedOnce == \A i \in Asked : done[i] <= 1

\* A request goes only with its context, by a person's stop, or, if tend minted it,
\* by tend: a refusal, a failed launch or a dead server leaves it (Requests.clear:
\* "a request cleared on intent ... is a request that vanishes").
RequestKept ==
  [][ request # None /\ request' = None =>
        \/ ~request.here \/ halted' # {}
        \/ request.auto /\ \E p \in Servers : At(p, "swept") ]_cvars
=============================================================================
