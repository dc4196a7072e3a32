---------------------------- MODULE SweepsProofs ----------------------------
(***************************************************************************)
(* The sweeps of a tend pass, as MCLedgers runs them, for every number of  *)
(* commands, requests, items, firings and deaths: context cycling, unblock *)
(* events, deferrals and reminders.                                        *)
(***************************************************************************)
EXTENDS MCLedgers, Sequences, SequenceTheorems, WellFoundedInduction, TLAPS

-----------------------------------------------------------------------------
(* Cycles: what the commands have in hand.                                  *)

\* The labels at which a command holds the lifecycle lock.
Behind == {"type", "settle", "respawn", "down", "record", "launch", "verify"}

\* The variables of Cycles have their types, without the bounds of the run.
CyclesTyped ==
  /\ agent \in C!Agent /\ request \in C!Request \union {None}
  /\ stop \in {"none", "cycle", "person"} /\ stamp \in BOOLEAN /\ halted \in SUBSET C!Procs
  /\ ids \in 0 .. MaxRequests
  /\ proc \in [C!Procs -> C!Command] /\ done \in [C!Asked -> Nat]

\* Whoever is behind the lifecycle lock holds it.
Locks(p) == lifecycle = p <=> proc[p].pc \in Behind

\* What a command is at each label: a stop has no identifier, a cycle has one.
InHand(p) ==
  /\ proc[p].pc \in {"idle", "swept", "revive"} => proc[p].id = None
  /\ proc[p].pc \in {"wait", "type", "settle", "respawn", "launch", "verify", "tidy"} =>
        proc[p].id # None
  /\ proc[p].id # None => proc[p].id <= ids
  /\ p \in Servers /\ proc[p].pc \notin {"swept", "idle", "revive"} => proc[p].id # None
  /\ proc[p].pc = "record" => agent.session = "gone"

\* A person's cycle is asked for by nobody else.
Own(p) ==
  p \in Humans /\ proc[p].id # None =>
    /\ request # None => request.id # proc[p].id
    /\ \A q \in C!Procs : proc[q].id = proc[p].id => q = p

\* What a command waits for or does is not done yet; a server may have been
\* forestalled by another, and then there is no request.
Undone(p) ==
  /\ proc[p].pc \in Behind /\ proc[p].id # None => done[proc[p].id] = 0
  /\ proc[p].pc = "wait" =>
        done[proc[p].id] = 0 \/ (p \in Servers /\ request = None)

\* What is still asked for, and what is yet to be asked for, was never served.
Unserved ==
  /\ request # None => request.id <= ids /\ done[request.id] = 0
  /\ \A i \in C!Asked : i > ids => done[i] = 0

\* A context that was replaced took with it what the request was about, and no
\* request is made while a command is at work.
Shed(p) ==
  /\ proc[p].pc \in {"settle", "verify", "tidy"} => request = None \/ ~request.here
  /\ proc[p].pc = "swept" /\ proc[p].sight = "under" => request = None \/ request.auto

\* An agent that was stopped has nothing by which it would be started: no stamp, no
\* server that has confirmed its request, and nobody it binds past tend's gate.
Held ==
  halted # {} =>
    /\ agent.session = "gone" /\ stamp = FALSE /\ stop = "person"
    /\ \A p \in C!Procs : /\ proc[p].pc # "record"
                          /\ p \in Servers => proc[p].pc \notin Behind
                          /\ proc[p].pc = "revive" => p \notin halted

CyclesInv ==
  /\ CyclesTyped /\ Unserved /\ Held /\ C!ServedOnce
  /\ \A p \in C!Procs : Locks(p) /\ InHand(p) /\ Own(p) /\ Undone(p) /\ Shed(p)

-----------------------------------------------------------------------------
(* What a step of one command leaves the others.                            *)

\* The request stays, loses its context, or goes.
Fades == \/ request' = None
         \/ /\ request # None /\ request' # None
            /\ request'.id = request.id /\ request'.auto = request.auto
            /\ request'.here => request.here

\* Where an identifier comes from.
Identified(p) ==
  \/ proc'[p].id \in {None, proc[p].id}
  \/ p \in Humans /\ proc'[p].id = ids + 1 /\ ids' = ids + 1
  \/ p \in Servers /\ request # None /\ proc'[p].id = request.id

\* The lock is taken when it is free and let go by who holds it.
Turns(p) == \/ lifecycle' = lifecycle /\ (proc'[p].pc \in Behind <=> proc[p].pc \in Behind)
            \/ lifecycle = None /\ lifecycle' = p /\ proc'[p].pc \in Behind
            \/ lifecycle = p /\ lifecycle' = None /\ proc'[p].pc \notin Behind

\* A step of p that serves nothing keeps what holds of the others; what it must keep
\* itself are its own conjuncts.
LEMMA CommandKeeps ==
  ASSUME CyclesInv, NEW p \in C!Procs, CyclesTyped',
         \A q \in C!Procs : q # p => proc'[q] = proc[q],
         ids' \in {ids, ids + 1}, done' = done, Fades, Identified(p), Turns(p),
         \/ agent' = agent \/ proc[p].pc \in Behind
         \/ \A q \in C!Procs : proc[q].pc # "record",
         InHand(p)', Undone(p)', Shed(p)', Held'
  PROVE  CyclesInv'
<1> USE LedgersAssumption
<1>1. Unserved'
  BY DEF CyclesInv, CyclesTyped, Unserved, Fades, C!Asked, C!Request
<1>2. C!ServedOnce'
  BY DEF CyclesInv, C!ServedOnce
<1>3. ASSUME NEW q \in C!Procs PROVE Locks(q)'
  <2>1. Locks(q) /\ Locks(p) /\ q # None /\ p # None
    BY DEF CyclesInv, C!Procs
  <2> QED BY <2>1 DEF Locks, Turns
<1>4. ASSUME NEW q \in C!Procs PROVE InHand(q)'
  <2>1. CASE q = p
    BY <2>1
  <2>2. CASE q # p
    <3>1. Locks(q) /\ Locks(p) /\ InHand(q)
      BY DEF CyclesInv
    <3>2. proc[q].pc = "record" => agent' = agent
      BY <2>2, <3>1 DEF Locks, Behind
    <3>3. ids \in Nat /\ (proc[q].id # None => proc[q].id \in Nat)
      BY DEF CyclesInv, CyclesTyped, C!Command, C!Asked
    <3>4. proc'[q] = proc[q] /\ ids' >= ids
      BY <2>2, <3>3
    <3> QED BY <3>1, <3>2, <3>3, <3>4 DEF InHand
  <2> QED BY <2>1, <2>2
<1>5. ASSUME NEW q \in C!Procs PROVE Own(q)'
  <2> SUFFICES ASSUME q \in Humans, proc'[q].id # None
               PROVE  /\ request' # None => request'.id # proc'[q].id
                      /\ \A r \in C!Procs : proc'[r].id = proc'[q].id => r = q
    BY DEF Own
  <2>0. /\ ids \in Nat /\ (request # None => request.id <= ids /\ request.id \in Nat)
        /\ \A r \in C!Procs : proc[r].id # None => proc[r].id <= ids /\ proc[r].id \in Nat
    BY DEF CyclesInv, CyclesTyped, Unserved, InHand, C!Command, C!Request, C!Asked
  <2>1. Own(q) /\ q \notin Servers
    BY DEF CyclesInv
  <2>2. CASE q # p
    BY <2>0, <2>1, <2>2 DEF Own, Fades, Identified
  <2>3. CASE q = p /\ proc'[p].id = proc[p].id
    BY <2>0, <2>1, <2>3 DEF Own, Fades
  <2>4. CASE q = p /\ proc'[p].id = ids + 1
    BY <2>0, <2>1, <2>4 DEF Own, Fades
  <2> QED BY <2>1, <2>2, <2>3, <2>4 DEF Identified
<1>6. ASSUME NEW q \in C!Procs, q # p PROVE Undone(q)' /\ Shed(q)'
  BY <1>6 DEF CyclesInv, Undone, Shed, Fades
<1> QED BY <1>1, <1>2, <1>3, <1>4, <1>5, <1>6 DEF CyclesInv

-----------------------------------------------------------------------------
(* How a command goes on.                                                   *)

\* What a command has in hand is of its type, and so is what it takes up.
LEMMA CommandFields ==
  ASSUME CyclesTyped, NEW p \in C!Procs
  PROVE  /\ proc \in [C!Procs -> C!Command] /\ proc[p] \in C!Command
         /\ proc[p].pc \in C!Labels /\ proc[p].id \in C!Asked \union {None}
         /\ proc[p].mode \in C!Modes \union {None} /\ proc[p].sight \in C!Sights \union {None}
         /\ C!Rest \in C!Command
BY DEF CyclesTyped, C!Command, C!Labels, C!Rest

\* Only p moves, to a label, with the identifier and the sight it had.
Now(p, label) ==
  /\ proc' \in [C!Procs -> C!Command] /\ \A q \in C!Procs : q # p => proc'[q] = proc[q]
  /\ proc'[p].pc = label /\ proc'[p].id = proc[p].id /\ proc'[p].sight = proc[p].sight

\* Only p moves, and is done.
Over(p) ==
  /\ proc' \in [C!Procs -> C!Command] /\ \A q \in C!Procs : q # p => proc'[q] = proc[q]
  /\ proc'[p].pc = "idle" /\ proc'[p].id = None

\* A step that only changes the label, or label and mechanism.
LEMMA GoesTo ==
  ASSUME CyclesTyped, NEW p \in C!Procs, NEW label \in C!Labels, NEW mode \in C!Modes,
         \/ proc' = [proc EXCEPT ![p].pc = label]
         \/ proc' = [proc EXCEPT ![p].pc = label, ![p].mode = mode]
  PROVE  Now(p, label)
<1>1. proc \in [C!Procs -> C!Command] /\ proc[p] \in C!Command
  BY CommandFields
<1> DEFINE x == [proc[p] EXCEPT !.pc = label]
           y == [proc[p] EXCEPT !.pc = label, !.mode = mode]
<1>2. /\ x \in C!Command /\ x.pc = label /\ x.id = proc[p].id /\ x.sight = proc[p].sight
      /\ y \in C!Command /\ y.pc = label /\ y.id = proc[p].id /\ y.sight = proc[p].sight
  BY <1>1 DEF C!Command
<1>3. proc' = [proc EXCEPT ![p] = x] \/ proc' = [proc EXCEPT ![p] = y]
  BY <1>1
<1> HIDE DEF x, y
<1> QED BY <1>1, <1>2, <1>3 DEF Now

\* A step that ends a command.
LEMMA IsOver ==
  ASSUME CyclesTyped, NEW p \in C!Procs, proc' = [proc EXCEPT ![p] = C!Rest]
  PROVE  Over(p)
<1>1. C!Rest.pc = "idle" /\ C!Rest.id = None
  BY DEF C!Rest
<1> QED BY <1>1, CommandFields DEF Over

\* The variables but `proc` and `done` have their types after a step.
Shared ==
  /\ agent' \in C!Agent /\ request' \in C!Request \union {None}
  /\ stop' \in {"none", "cycle", "person"} /\ stamp' \in BOOLEAN
  /\ halted' \in SUBSET C!Procs
  /\ ids' = ids

\* Behind the lock a command keeps what it is about.
LEMMA GoesOnKeeps ==
  ASSUME CyclesInv, NEW p \in C!Procs, NEW label \in Behind, proc[p].pc \in Behind,
         Now(p, label), Shared, Fades, done' = done, lifecycle' = lifecycle,
         proc[p].id = None => label \in {"down", "record"} /\ p \in Humans,
         label = "record" => agent'.session = "gone",
         Shed(p)', Held'
  PROVE  CyclesInv'
<1> USE LedgersAssumption
<1>1. CyclesTyped /\ InHand(p) /\ Undone(p) /\ Locks(p)
  BY DEF CyclesInv
<1>2. CyclesTyped'
  BY <1>1 DEF CyclesTyped, Shared, Now
<1>3. InHand(p)' /\ Undone(p)'
  BY <1>1 DEF InHand, Undone, Now, Shared, Behind
<1>4. Identified(p) /\ Turns(p)
  BY DEF Identified, Turns, Now
<1> QED BY <1>2, <1>3, <1>4, CommandKeeps DEF Now, Shared

\* A command that ends leaves the lock.
LEMMA OverKeeps ==
  ASSUME CyclesInv, NEW p \in C!Procs, Over(p), Shared, Fades, done' = done,
         lifecycle' = IF lifecycle = p THEN None ELSE lifecycle,
         \/ agent' = agent \/ proc[p].pc \in Behind
         \/ \A q \in C!Procs : proc[q].pc # "record",
         Held'
  PROVE  CyclesInv'
<1>1. CyclesTyped /\ Locks(p)
  BY DEF CyclesInv
<1>2. CyclesTyped'
  BY <1>1 DEF CyclesTyped, Shared, Over
<1>3. InHand(p)' /\ Undone(p)' /\ Shed(p)'
  BY DEF InHand, Undone, Shed, Over, Behind
<1>4. Identified(p) /\ Turns(p)
  BY <1>1 DEF Identified, Turns, Over, Locks, Behind
<1> QED BY <1>2, <1>3, <1>4, CommandKeeps DEF Over, Shared

\* A context that is left takes the request's with it.
LEMMA LeavesFades ==
  ASSUME CyclesTyped, NEW session \in {"gone", "shell", "up"}, C!Leaves(session)
  PROVE  /\ agent' \in C!Agent /\ request' \in C!Request \union {None} /\ Fades
         /\ agent'.session = session /\ (request' = None \/ ~request'.here)
<1> USE LedgersAssumption
<1>1. /\ agent' \in C!Agent /\ agent'.session = session
  BY DEF C!Leaves, C!Agent
<1>2. CASE request = None
  BY <1>1, <1>2 DEF C!Leaves, Fades
<1>3. CASE request # None
  <2>1. request \in C!Request /\ request' = [request EXCEPT !.here = FALSE]
    BY <1>3 DEF CyclesTyped, C!Leaves
  <2>2. request' \in C!Request /\ request'.id = request.id /\ request'.auto = request.auto
        /\ request'.here = FALSE
    BY <2>1 DEF C!Request
  <2>3. CASE request' = None
    BY <1>1, <2>2, <2>3 DEF Fades
  <2>4. CASE request' # None
    BY <1>1, <1>3, <2>2, <2>4 DEF Fades
  <2> QED BY <2>3, <2>4
<1> QED BY <1>2, <1>3

\* What starts the agent leaves it with a new context, a stamp and no stop.
LEMMA StartsFades ==
  ASSUME CyclesTyped, C!Starts
  PROVE  /\ agent' \in C!Agent /\ request' \in C!Request \union {None} /\ Fades
         /\ (request' = None \/ ~request'.here) /\ stamp' = TRUE /\ stop' = "none"
BY LeavesFades DEF C!Starts

-----------------------------------------------------------------------------
(* The steps of a command, one lemma for each.                              *)

\* tend passes its gate: what is stamped is not halted.
LEMMA ReviveKeeps ==
  ASSUME CyclesInv, NEW p \in Servers, C!Revive(p)
  PROVE  CyclesInv'
<1>0. p \in C!Procs /\ CyclesTyped /\ InHand(p) /\ Locks(p) /\ Held
  BY DEF C!Procs, CyclesInv
<1>1. /\ proc[p].pc = "idle" /\ stamp /\ proc' = [proc EXCEPT ![p].pc = "revive"]
      /\ UNCHANGED <<agent, request, stop, stamp, lifecycle, ids, jolts, done>>
      /\ halted' = IF halted = {} THEN {} ELSE halted \union {p}
  BY DEF C!Revive, C!At, C!Goto
<1>2. halted = {} /\ halted' = {}
  BY <1>0, <1>1 DEF Held
<1>3. Now(p, "revive")
  BY <1>0, <1>1, GoesTo DEF C!Labels, C!Modes
<1>4. CyclesTyped'
  BY <1>0, <1>1, <1>2, <1>3 DEF CyclesTyped, Now
<1>5. InHand(p)' /\ Undone(p)' /\ Shed(p)' /\ Held'
  BY <1>0, <1>1, <1>2, <1>3 DEF InHand, Undone, Shed, Held, Behind, Now
<1>6. Fades /\ Identified(p) /\ Turns(p)
  BY <1>0, <1>1, <1>3 DEF Fades, Identified, Turns, Behind, Now
<1> QED BY <1>0, <1>1, <1>3, <1>4, <1>5, <1>6, CommandKeeps DEF Now

\* tend starts what it found down: whom a stop binds is not past the gate.
LEMMA BroughtUpKeeps ==
  ASSUME Serial, CyclesInv, NEW p \in Servers, C!Raise(p)
  PROVE  CyclesInv'
<1>0. p \in C!Procs /\ CyclesTyped /\ Locks(p) /\ Held
  BY DEF C!Procs, CyclesInv
<1>1. /\ proc[p].pc = "revive" /\ proc' = [proc EXCEPT ![p] = C!Rest]
      /\ UNCHANGED <<lifecycle, ids, jolts, done>>
  BY DEF C!Raise, C!At
<1>2. Over(p) /\ lifecycle # p
  BY <1>0, <1>1, IsOver DEF Locks, Behind
<1>3. CASE UNCHANGED <<agent, request, stop, stamp, halted>>
  <2>1. Shared /\ Fades /\ Held'
    BY <1>0, <1>1, <1>2, <1>3 DEF Shared, Fades, CyclesTyped, Held, Over, Behind
  <2> QED BY <1>0, <1>1, <1>2, <1>3, <2>1, OverKeeps
<1>4. CASE /\ C!Recorded /\ halted' = (IF p \in halted THEN halted ELSE {})
           /\ C!Starts \/ (C!Leaves("shell") /\ UNCHANGED <<stop, stamp>>)
  <2>1. halted' = {}
    BY <1>0, <1>1, <1>4 DEF Held
  <2>2. \A q \in C!Procs : proc[q].pc # "record"
    BY <1>4 DEF C!Recorded, C!At
  <2>3. Shared /\ Fades
    <3>1. CASE C!Starts
      BY <1>0, <1>1, <2>1, <3>1, StartsFades DEF Shared
    <3>2. CASE C!Leaves("shell") /\ UNCHANGED <<stop, stamp>>
      BY <1>0, <1>1, <2>1, <3>2, LeavesFades DEF Shared, CyclesTyped
    <3> QED BY <1>4, <3>1, <3>2
  <2>4. Held'
    BY <2>1 DEF Held
  <2> QED BY <1>0, <1>1, <1>2, <2>2, <2>3, <2>4, OverKeeps
<1> QED BY <1>3, <1>4 DEF C!Raise

\* A sweep looks.
LEMMA SweepKeeps ==
  ASSUME CyclesInv, NEW p \in Servers, C!Sweep(p)
  PROVE  CyclesInv'
<1>0. p \in C!Procs /\ CyclesTyped /\ InHand(p) /\ Locks(p) /\ Held
  BY DEF C!Procs, CyclesInv
<1>1. PICK sight \in C!Sights :
        /\ sight = "under" => ~agent.deep /\ request # None /\ request.auto
        /\ proc' = [proc EXCEPT ![p] = [C!Rest EXCEPT !.pc = "swept", !.sight = sight]]
  BY DEF C!Sweep
<1>2. /\ proc[p].pc = "idle"
      /\ UNCHANGED <<agent, request, stop, stamp, lifecycle, ids, jolts, done, halted>>
  BY DEF C!Sweep, C!At
<1>3. proc'[p].pc = "swept" /\ proc'[p].id = None /\ proc'[p].sight = sight
  BY <1>0, <1>1, CommandFields DEF C!Rest
<1>4. CyclesTyped'
  BY <1>0, <1>1, <1>2, CommandFields DEF CyclesTyped, C!Command, C!Labels, C!Rest
<1>5. InHand(p)' /\ Undone(p)' /\ Shed(p)'
  BY <1>1, <1>2, <1>3 DEF InHand, Undone, Shed, Behind
<1>6. Held'
  BY <1>0, <1>1, <1>2, <1>3 DEF Held, Behind
<1>7. Fades /\ Identified(p) /\ Turns(p)
  BY <1>0, <1>2, <1>3 DEF Fades, Identified, Turns, Behind
<1> QED BY <1>0, <1>1, <1>2, <1>4, <1>5, <1>6, <1>7, CommandKeeps

\* A sweep clears what tend asked for, or asks where nobody is at work.
LEMMA DecideKeeps ==
  ASSUME Serial, CyclesInv, NEW p \in Servers, C!Decide(p)
  PROVE  CyclesInv'
<1> USE LedgersAssumption
<1>0. p \in C!Procs /\ CyclesTyped /\ InHand(p) /\ Locks(p) /\ Held /\ Unserved
  BY DEF C!Procs, CyclesInv
<1>1. /\ proc[p].pc = "swept" /\ proc' = [proc EXCEPT ![p] = C!Rest]
      /\ UNCHANGED <<agent, stop, stamp, lifecycle, jolts, done, halted>>
  BY DEF C!Decide, C!At
<1>2. Over(p) /\ lifecycle # p
  BY <1>0, <1>1, IsOver DEF Locks, Behind
<1>3. Held'
  BY <1>0, <1>1, <1>2 DEF Held, Over, Behind
<1>4. CASE request' \in {request, None} /\ ids' = ids
  BY <1>0, <1>1, <1>2, <1>3, <1>4, OverKeeps DEF Shared, Fades, CyclesTyped
<1>5. CASE C!NextId /\ C!Alone(p) /\ request' = [id |-> ids + 1, auto |-> TRUE, here |-> TRUE]
  <2>1. ids' = ids + 1 /\ ids \in Nat /\ ids' \in 0 .. MaxRequests /\ ids' \in C!Asked
    BY <1>0, <1>5 DEF C!NextId, CyclesTyped, C!Asked
  <2>2. request' \in C!Request /\ request'.id = ids'
    BY <2>1, <1>5 DEF C!Request
  <2>3. CyclesTyped'
    BY <1>0, <1>1, <1>2, <2>1, <2>2 DEF CyclesTyped, Over
  <2>4. \A q \in C!Procs : proc'[q].pc \in {"idle", "revive"} /\ proc'[q].id = None
    BY <1>0, <1>2, <1>5 DEF C!Alone, C!Unasked, Over, CyclesInv, InHand
  <2>5. Unserved'
    BY <1>0, <1>1, <2>1, <2>2 DEF Unserved, C!Asked
  <2>6. ASSUME NEW q \in C!Procs
        PROVE  InHand(q)' /\ Own(q)' /\ Undone(q)' /\ Shed(q)'
    BY <2>4 DEF InHand, Own, Undone, Shed, Behind
  <2>7. ASSUME NEW q \in C!Procs PROVE Locks(q)'
    <3>1. Locks(q) /\ (q # p => proc[q].pc \in {"idle", "revive"})
      BY <1>0, <1>5 DEF CyclesInv, C!Alone, C!Unasked
    <3> QED BY <1>1, <1>2, <2>4, <3>1 DEF Locks, Behind
  <2> QED BY <1>0, <1>1, <1>3, <2>3, <2>5, <2>6, <2>7 DEF CyclesInv, C!ServedOnce
<1> QED BY <1>4, <1>5 DEF C!Decide

\* A server takes up the request.
LEMMA ServeKeeps ==
  ASSUME CyclesInv, NEW p \in Servers, C!Serve(p)
  PROVE  CyclesInv'
<1> USE LedgersAssumption
<1>0. p \in C!Procs /\ CyclesTyped /\ InHand(p) /\ Locks(p) /\ Held /\ Unserved
  BY DEF C!Procs, CyclesInv
<1>1. /\ proc[p].pc = "idle" /\ request # None
      /\ proc' = [proc EXCEPT ![p] = [C!Rest EXCEPT !.pc = "wait", !.id = request.id]]
      /\ UNCHANGED <<agent, request, stop, stamp, lifecycle, ids, jolts, done, halted>>
  BY DEF C!Serve, C!At, C!Standing
<1>2. /\ request.id \in C!Asked /\ request.id <= ids /\ done[request.id] = 0
      /\ request.id # None
  BY <1>0, <1>1 DEF CyclesTyped, Unserved, C!Request, C!Asked
<1>3. proc'[p].pc = "wait" /\ proc'[p].id = request.id
  BY <1>0, <1>1, CommandFields DEF C!Rest
<1>4. CyclesTyped'
  BY <1>0, <1>1, <1>2, CommandFields DEF CyclesTyped, C!Command, C!Labels, C!Rest
<1>5. InHand(p)' /\ Undone(p)' /\ Shed(p)'
  BY <1>1, <1>2, <1>3 DEF InHand, Undone, Shed, Behind
<1>6. Held'
  BY <1>0, <1>1, <1>3 DEF Held, Behind
<1>7. Fades /\ Identified(p) /\ Turns(p)
  BY <1>0, <1>1, <1>3 DEF Fades, Identified, Turns, Behind
<1> QED BY <1>0, <1>1, <1>4, <1>5, <1>6, <1>7, CommandKeeps

\* A person asks for a cycle that has an identifier of its own.
LEMMA OrderKeeps ==
  ASSUME CyclesInv, NEW p \in Humans, C!Order(p)
  PROVE  CyclesInv'
<1> USE LedgersAssumption
<1>0. p \in C!Procs /\ CyclesTyped /\ InHand(p) /\ Locks(p) /\ Held /\ Unserved
  BY DEF C!Procs, CyclesInv
<1>1. PICK mode \in C!Modes :
        proc' = [proc EXCEPT ![p] = [C!Rest EXCEPT !.pc = "wait", !.id = ids + 1, !.mode = mode]]
  BY DEF C!Order
<1>2. /\ proc[p].pc = "idle" /\ ids < MaxRequests /\ ids' = ids + 1
      /\ UNCHANGED <<agent, request, stop, stamp, lifecycle, jolts, done, halted>>
  BY DEF C!Order, C!At, C!NextId
<1>3. /\ ids \in Nat /\ ids + 1 \in C!Asked /\ ids + 1 # None /\ ids' \in 0 .. MaxRequests
      /\ done[ids + 1] = 0
  BY <1>0, <1>2 DEF CyclesTyped, Unserved, C!Asked
<1>4. proc'[p].pc = "wait" /\ proc'[p].id = ids + 1
  BY <1>0, <1>1, CommandFields DEF C!Rest
<1>5. CyclesTyped'
  BY <1>0, <1>1, <1>2, <1>3, CommandFields DEF CyclesTyped, C!Command, C!Labels, C!Rest
<1>6. InHand(p)' /\ Undone(p)' /\ Shed(p)'
  BY <1>2, <1>3, <1>4 DEF InHand, Undone, Shed, Behind
<1>7. Held'
  BY <1>0, <1>1, <1>2, <1>4 DEF Held, Behind
<1>8. Fades /\ Identified(p) /\ Turns(p)
  BY <1>0, <1>2, <1>4 DEF Fades, Identified, Turns, Behind
<1> QED BY <1>0, <1>1, <1>2, <1>5, <1>6, <1>7, <1>8, CommandKeeps

\* A person's stop takes the lock.
LEMMA StopKeeps ==
  ASSUME CyclesInv, NEW p \in Humans, C!Stop(p)
  PROVE  CyclesInv'
<1> USE LedgersAssumption
<1>0. p \in C!Procs /\ p \notin Servers /\ CyclesTyped /\ InHand(p) /\ Locks(p) /\ Held
  BY DEF C!Procs, CyclesInv
<1>1. /\ proc[p].pc = "idle" /\ lifecycle = None /\ lifecycle' = p
      /\ proc' = [proc EXCEPT ![p].pc = "down"]
      /\ UNCHANGED <<agent, request, stop, stamp, ids, jolts, done, halted>>
  BY DEF C!Stop, C!At, C!Goto
<1>2. Now(p, "down")
  BY <1>0, <1>1, GoesTo DEF C!Labels, C!Modes
<1>3. CyclesTyped' /\ proc[p].id = None
  BY <1>0, <1>1, <1>2 DEF CyclesTyped, Now, InHand
<1>4. InHand(p)' /\ Undone(p)' /\ Shed(p)'
  BY <1>0, <1>2, <1>3 DEF InHand, Undone, Shed, Behind, Now
<1>5. Held'
  BY <1>0, <1>1, <1>2 DEF Held, Behind, Now
<1>6. Fades /\ Identified(p) /\ Turns(p)
  BY <1>0, <1>1, <1>2 DEF Fades, Identified, Turns, Behind, Now
<1> QED BY <1>0, <1>1, <1>2, <1>3, <1>4, <1>5, <1>6, CommandKeeps DEF Now

\* What a command that ended changes is the lock and itself.
LEMMA EndsOver ==
  ASSUME CyclesInv, NEW p \in C!Procs, C!Ends(p)
  PROVE  Over(p) /\ lifecycle' = IF lifecycle = p THEN None ELSE lifecycle
BY IsOver DEF C!Ends, CyclesInv

\* A refusal changes nothing but the command that is refused.
LEMMA RefusedKeeps ==
  ASSUME CyclesInv, NEW p \in C!Procs, C!Refused(p),
         UNCHANGED <<agent, stop, stamp, halted, ids, done>>
  PROVE  CyclesInv'
<1>1. CyclesTyped /\ Held
  BY DEF CyclesInv
<1>2. Over(p) /\ lifecycle' = (IF lifecycle = p THEN None ELSE lifecycle) /\ request' = request
  BY EndsOver DEF C!Refused
<1>3. Shared /\ Fades
  BY <1>1, <1>2 DEF Shared, Fades, CyclesTyped
<1>4. Held'
  BY <1>1, <1>2 DEF Held, Over, Behind
<1> QED BY <1>2, <1>3, <1>4, OverKeeps

\* A command enters: of a halted agent only a person's cycle goes on.
LEMMA EnterKeeps ==
  ASSUME CyclesInv, NEW p \in C!Procs, C!Enter(p)
  PROVE  CyclesInv'
<1> USE LedgersAssumption
<1>0. CyclesTyped /\ InHand(p) /\ Locks(p) /\ Undone(p) /\ Held
  BY DEF CyclesInv
<1>1. /\ proc[p].pc = "wait" /\ lifecycle = None
      /\ UNCHANGED <<agent, stop, stamp, halted, ids, jolts, done>>
  BY DEF C!Enter, C!At, C!Same, C!Kept
<1>2. CASE C!Refused(p)
  BY <1>1, <1>2, RefusedKeeps
<1>3. CASE C!Confirmed(p) /\ lifecycle' = p /\ request' = request
           /\ \E mode \in C!Modes :
                 proc' = [proc EXCEPT ![p].pc = C!FirstStep[mode], ![p].mode = mode]
  <2> PICK mode \in C!Modes :
         proc' = [proc EXCEPT ![p].pc = C!FirstStep[mode], ![p].mode = mode]
    BY <1>3
  <2>1. C!FirstStep[mode] \in {"type", "respawn", "down"}
    BY DEF C!FirstStep, C!Modes
  <2> DEFINE label == C!FirstStep[mode]
  <2>2. Now(p, label) /\ label \in {"type", "respawn", "down"}
    BY <1>0, <2>1, GoesTo DEF C!Labels
  <2> HIDE DEF label
  <2>3. proc[p].id # None /\ (p \in Servers => stop # "person" /\ request # None)
    BY <1>0, <1>1, <1>3 DEF InHand, C!Confirmed, C!Standing
  <2>4. CyclesTyped' /\ InHand(p)' /\ Undone(p)' /\ Shed(p)'
    BY <1>0, <1>1, <1>3, <2>2, <2>3 DEF CyclesTyped, InHand, Undone, Shed, Behind, Now
  <2>5. Held'
    BY <1>0, <1>1, <2>2, <2>3 DEF Held, Now
  <2>6. Fades /\ Identified(p) /\ Turns(p)
    BY <1>0, <1>1, <1>3, <2>2 DEF Fades, Identified, Turns, Behind, Now
  <2> QED BY <1>1, <2>2, <2>4, <2>5, <2>6, CommandKeeps DEF Now
<1> QED BY <1>2, <1>3 DEF C!Enter

\* A clear is typed, or left to the next mechanism.
LEMMA TypeKeeps ==
  ASSUME CyclesInv, NEW p \in C!Procs, C!Type(p)
  PROVE  CyclesInv'
<1>0. CyclesTyped /\ InHand(p) /\ Held
  BY DEF CyclesInv
<1>1. /\ proc[p].pc = "type" /\ proc[p].id # None
      /\ UNCHANGED <<stop, stamp, lifecycle, halted, ids, jolts, done>>
  BY <1>0 DEF C!Type, C!At, C!Kept, InHand
<1>2. CASE C!Quiet /\ C!Leaves("up") /\ C!Goto(p, "settle")
  <2>1. Now(p, "settle")
    BY <1>0, <1>2, GoesTo DEF C!Goto, C!Labels, C!Modes
  <2>2. Shared /\ Fades /\ (request' = None \/ ~request'.here)
    BY <1>0, <1>1, <1>2, LeavesFades DEF Shared, CyclesTyped
  <2>3. halted = {}
    BY <1>0, <1>2 DEF Held, C!Quiet
  <2>4. Held' /\ Shed(p)'
    BY <1>1, <2>1, <2>2, <2>3 DEF Held, Shed, Now
  <2> QED BY <1>1, <2>1, <2>2, <2>4, GoesOnKeeps DEF Behind
<1>3. CASE C!Goto(p, "respawn") /\ UNCHANGED <<agent, request>>
  <2>1. Now(p, "respawn")
    BY <1>0, <1>3, GoesTo DEF C!Goto, C!Labels, C!Modes
  <2>2. Shared /\ Fades
    BY <1>0, <1>1, <1>3 DEF Shared, CyclesTyped, Fades
  <2>3. Held' /\ Shed(p)'
    BY <1>0, <1>1, <1>3, <2>1 DEF Held, Shed, Now, Behind
  <2> QED BY <1>1, <2>1, <2>2, <2>3, GoesOnKeeps DEF Behind
<1> QED BY <1>2, <1>3 DEF C!Type

\* The process is replaced, or killed without another.
LEMMA RespawnKeeps ==
  ASSUME CyclesInv, NEW p \in C!Procs, C!Respawn(p)
  PROVE  CyclesInv'
<1>0. CyclesTyped /\ InHand(p) /\ Held
  BY DEF CyclesInv
<1>1. proc[p].pc = "respawn" /\ proc[p].id # None /\ UNCHANGED <<ids, jolts, done>>
  BY <1>0 DEF C!Respawn, C!At, C!Kept, InHand
<1>2. CASE C!Refused(p) /\ C!Same
  BY <1>1, <1>2, RefusedKeeps DEF C!Same
<1>3. CASE C!Session /\ C!Starts /\ C!Wanted(p) /\ lifecycle' = lifecycle
           /\ proc' = [proc EXCEPT ![p].pc = "verify", ![p].mode = "respawn"]
  <2>1. Now(p, "verify")
    BY <1>0, <1>3, GoesTo DEF C!Labels, C!Modes
  <2>2. halted = {} /\ halted' = {}
    BY <1>0, <1>3 DEF Held, C!Session, C!Wanted, CyclesTyped
  <2>3. Shared /\ Fades /\ (request' = None \/ ~request'.here)
    BY <1>0, <1>1, <1>3, <2>2, StartsFades DEF Shared
  <2>4. Held' /\ Shed(p)'
    BY <2>1, <2>2, <2>3 DEF Held, Shed, Now
  <2> QED BY <1>1, <1>3, <2>1, <2>3, <2>4, GoesOnKeeps DEF Behind
<1>4. CASE C!Session /\ C!Leaves("shell") /\ UNCHANGED <<stop, stamp, halted, lifecycle>>
           /\ proc' = [proc EXCEPT ![p].pc = "down", ![p].mode = "relaunch"]
  <2>1. Now(p, "down")
    BY <1>0, <1>4, GoesTo DEF C!Labels, C!Modes
  <2>2. Shared /\ Fades
    BY <1>0, <1>1, <1>4, LeavesFades DEF Shared, CyclesTyped
  <2>3. halted' = {}
    BY <1>0, <1>4 DEF Held, C!Session
  <2>4. Held' /\ Shed(p)'
    BY <2>1, <2>3 DEF Held, Shed, Now
  <2> QED BY <1>1, <1>4, <2>1, <2>2, <2>4, GoesOnKeeps DEF Behind
<1> QED BY <1>2, <1>3, <1>4 DEF C!Respawn

\* A stop is over when it is recorded; a cycle goes on to the launch.
LEMMA CancelsKeeps ==
  ASSUME CyclesInv, NEW p \in C!Procs, proc[p].pc \in {"down", "record"},
         agent.session = "gone", C!Cancels(p),
         agent' = agent, stamp' = FALSE, stop' \in {"cycle", "person"},
         halted # {} \/ proc[p].id = None => stop' = "person", UNCHANGED <<ids, done>>
  PROVE  CyclesInv'
<1> USE LedgersAssumption
<1>0. CyclesTyped /\ InHand(p) /\ Held /\ Locks(p) /\ \A q \in C!Procs : Locks(q)
  BY DEF CyclesInv
<1>1. CASE proc[p].id = None
  <2>1. /\ request' = None /\ C!Ends(p)
        /\ halted' = {q \in C!Procs : proc[q].pc # "revive"}
    BY <1>1 DEF C!Cancels, C!At
  <2>2. Over(p) /\ lifecycle' = IF lifecycle = p THEN None ELSE lifecycle
    BY <2>1, EndsOver
  <2>3. Shared /\ Fades
    BY <1>0, <2>1 DEF Shared, Fades, CyclesTyped
  <2>4. \A q \in C!Procs : q # p => proc[q].pc \notin Behind
    BY <1>0 DEF Locks, Behind
  <2>5. Held'
    <3>1. agent'.session = "gone" /\ stamp' = FALSE /\ stop' = "person"
      BY <1>1
    <3>2. proc'[p].pc \notin Behind \union {"record", "revive"}
      BY <2>2 DEF Over, Behind
    <3>3. ASSUME NEW q \in C!Procs, q # p
          PROVE  /\ proc'[q].pc \notin Behind
                 /\ proc'[q].pc = "revive" => q \notin halted'
      BY <2>1, <2>2, <2>4, <3>3 DEF Over
    <3>4. "record" \in Behind
      BY DEF Behind
    <3> QED BY <3>1, <3>2, <3>3, <3>4 DEF Held
  <2> QED BY <2>2, <2>3, <2>5, OverKeeps
<1>2. CASE proc[p].id # None
  <2>1. UNCHANGED <<request, halted, lifecycle>> /\ C!Goto(p, "launch")
    BY <1>2 DEF C!Cancels
  <2>2. Now(p, "launch")
    BY <1>0, <2>1, GoesTo DEF C!Goto, C!Labels, C!Modes
  <2>3. Shared /\ Fades
    BY <1>0, <2>1 DEF Shared, Fades, CyclesTyped
  <2>4. Held' /\ Shed(p)'
    BY <1>0, <2>1, <2>2 DEF Held, Shed, Now, Behind
  <2> QED BY <1>2, <2>1, <2>2, <2>3, <2>4, GoesOnKeeps DEF Behind
<1> QED BY <1>1, <1>2

\* The session is killed, or found gone.
LEMMA DownKeeps ==
  ASSUME CyclesInv, NEW p \in C!Procs, C!Down(p)
  PROVE  CyclesInv'
<1>0. CyclesTyped /\ InHand(p) /\ Held
  BY DEF CyclesInv
<1>1. proc[p].pc = "down" /\ UNCHANGED <<ids, jolts, done>>
  BY DEF C!Down, C!At, C!Kept
<1>2. CASE C!Refused(p) /\ C!Same
  BY <1>1, <1>2, RefusedKeeps DEF C!Same
<1>3. CASE C!Session /\ C!Leaves("gone") /\ C!Goto(p, "record")
           /\ UNCHANGED <<stop, stamp, halted, lifecycle>>
  <2>1. Now(p, "record")
    BY <1>0, <1>3, GoesTo DEF C!Goto, C!Labels, C!Modes
  <2>2. Shared /\ Fades /\ agent'.session = "gone"
    BY <1>0, <1>1, <1>3, LeavesFades DEF Shared, CyclesTyped
  <2>3. halted' = {}
    BY <1>0, <1>3 DEF Held, C!Session
  <2>4. Held' /\ Shed(p)'
    BY <2>1, <2>3 DEF Held, Shed, Now
  <2>5. proc[p].id = None => p \in Humans
    BY <1>0, <1>1 DEF InHand, C!Procs
  <2> QED BY <1>1, <1>3, <2>1, <2>2, <2>4, <2>5, GoesOnKeeps DEF Behind
<1>4. CASE ~C!Session /\ stop' = "person" /\ stamp' = FALSE /\ C!Cancels(p) /\ UNCHANGED agent
  BY <1>1, <1>4, CancelsKeeps DEF C!Session
<1> QED BY <1>2, <1>3, <1>4 DEF C!Down

\* The stop is recorded for what it was.
LEMMA RecordKeeps ==
  ASSUME CyclesInv, NEW p \in C!Procs, C!Record(p)
  PROVE  CyclesInv'
<1>0. CyclesTyped /\ InHand(p) /\ Held
  BY DEF CyclesInv
<1>1. /\ proc[p].pc = "record" /\ stamp' = FALSE /\ C!Cancels(p)
      /\ stop' = (IF proc[p].id = None THEN "person" ELSE "cycle")
      /\ UNCHANGED <<agent, ids, jolts, done>>
  BY DEF C!Record, C!At, C!Kept
<1>2. agent.session = "gone" /\ halted = {}
  BY <1>0, <1>1 DEF InHand, Held
<1> QED BY <1>1, <1>2, CancelsKeeps

\* A new session: a server has none to start while the agent is halted.
LEMMA LaunchKeeps ==
  ASSUME CyclesInv, NEW p \in C!Procs, C!Launch(p)
  PROVE  CyclesInv'
<1>0. CyclesTyped /\ InHand(p) /\ Held
  BY DEF CyclesInv
<1>1. proc[p].pc = "launch" /\ proc[p].id # None /\ UNCHANGED <<ids, jolts, done>>
  BY <1>0 DEF C!Launch, C!At, C!Kept, InHand
<1>2. CASE C!Refused(p) /\ C!Same
  BY <1>1, <1>2, RefusedKeeps DEF C!Same
<1>3. CASE /\ ~C!Session /\ C!Wanted(p) /\ lifecycle' = lifecycle
           /\ proc' = [proc EXCEPT ![p].pc = "verify", ![p].mode = "relaunch"]
           /\ C!Starts \/ (C!Leaves("shell") /\ UNCHANGED <<stop, stamp>>)
  <2>1. Now(p, "verify")
    BY <1>0, <1>3, GoesTo DEF C!Labels, C!Modes
  <2>2. halted' = {}
    BY <1>0, <1>1, <1>3 DEF Held, C!Wanted, C!Procs, CyclesTyped, Behind
  <2>3. Shared /\ Fades /\ (request' = None \/ ~request'.here)
    <3>1. CASE C!Starts
      BY <1>0, <1>1, <2>2, <3>1, StartsFades DEF Shared
    <3>2. CASE C!Leaves("shell") /\ UNCHANGED <<stop, stamp>>
      BY <1>0, <1>1, <2>2, <3>2, LeavesFades DEF Shared, CyclesTyped
    <3> QED BY <1>3, <3>1, <3>2
  <2>4. Held' /\ Shed(p)'
    BY <2>1, <2>2, <2>3 DEF Held, Shed, Now
  <2> QED BY <1>1, <1>3, <2>1, <2>3, <2>4, GoesOnKeeps DEF Behind
<1> QED BY <1>2, <1>3 DEF C!Launch

\* A cycle is completed once: a server leaves no request behind, and whoever waits
\* with the same identifier finds none.
LEMMA SucceedsKeeps ==
  ASSUME CyclesInv, NEW p \in C!Procs, proc[p].pc \in {"settle", "verify"}, C!Succeeds(p),
         UNCHANGED <<agent, stop, stamp, halted, ids>>
  PROVE  CyclesInv'
<1> USE LedgersAssumption
<1>0. /\ CyclesTyped /\ InHand(p) /\ Held /\ Undone(p) /\ Unserved /\ Own(p) /\ Shed(p)
      /\ lifecycle = p
  BY DEF CyclesInv, Locks, Behind
<1>1. /\ request' \in {request, None} /\ (p \in Servers => request' = None)
      /\ done' = [done EXCEPT ![proc[p].id] = @ + 1] /\ lifecycle' = None
  BY DEF C!Succeeds, C!Completed
<1>2. Now(p, "tidy")
  BY <1>0, GoesTo DEF C!Succeeds, C!Goto, C!Labels, C!Modes
<1>3. /\ proc[p].id # None /\ proc[p].id \in C!Asked /\ done[proc[p].id] = 0
      /\ proc[p].id <= ids
  BY <1>0, CommandFields DEF InHand, Undone, Behind
<1>4. /\ done' \in [C!Asked -> Nat] /\ done'[proc[p].id] = 1
      /\ \A j \in C!Asked : j # proc[p].id => done'[j] = done[j]
  BY <1>0, <1>1, <1>3 DEF CyclesTyped
<1>5. CyclesTyped'
  BY <1>0, <1>1, <1>2, <1>4 DEF CyclesTyped, Now
<1>6. Unserved'
  <2>1. ASSUME request' # None PROVE request'.id <= ids /\ done'[request'.id] = 0
    <3>1. request # None /\ request' = request /\ p \in Humans
      BY <1>1, <2>1 DEF C!Procs
    <3>2. request.id # proc[p].id /\ request.id \in C!Asked /\ request.id <= ids
          /\ done[request.id] = 0
      BY <1>0, <1>3, <3>1 DEF Own, Unserved, CyclesTyped, C!Request
    <3> QED BY <1>4, <3>1, <3>2
  <2>2. ASSUME NEW j \in C!Asked, j > ids PROVE done'[j] = 0
    <3>1. j # proc[p].id
      BY <1>0, <1>3, <2>2 DEF CyclesTyped, C!Asked
    <3> QED BY <1>0, <1>4, <2>2, <3>1 DEF Unserved
  <2> QED BY <2>1, <2>2 DEF Unserved
<1>7. C!ServedOnce'
  BY <1>4 DEF C!ServedOnce, CyclesInv
<1>8. Held'
  BY <1>0, <1>2 DEF Held, Now, Behind
<1>9. ASSUME NEW q \in C!Procs PROVE Locks(q)'
  <2>1. Locks(q) /\ q # None
    BY DEF CyclesInv, C!Procs
  <2> QED BY <1>0, <1>1, <1>2, <2>1 DEF Locks, Now, Behind
<1>10. ASSUME NEW q \in C!Procs PROVE InHand(q)' /\ Own(q)' /\ Shed(q)'
  <2>1. InHand(q) /\ Own(q) /\ Shed(q)
    BY DEF CyclesInv
  <2>2. \A r \in C!Procs : proc'[r].id = proc[r].id
    BY <1>2 DEF Now
  <2>3. Own(q)'
    BY <1>1, <2>1, <2>2 DEF Own
  <2>4. InHand(q)'
    BY <1>2, <1>3, <2>1, <2>2 DEF InHand, Now
  <2>5. Shed(q)'
    BY <1>0, <1>1, <1>2, <2>1 DEF Shed, Now
  <2> QED BY <2>3, <2>4, <2>5
<1>11. ASSUME NEW q \in C!Procs PROVE Undone(q)'
  <2>1. CASE q = p
    BY <1>2, <2>1 DEF Undone, Now, Behind
  <2>2. CASE q # p
    <3>1. Locks(q) /\ Undone(q) /\ Own(q) /\ InHand(q) /\ proc'[q] = proc[q]
      BY <1>2, <2>2 DEF CyclesInv, Now
    <3>2. proc[q].pc \notin Behind
      BY <1>0, <2>2, <3>1 DEF Locks
    <3>3. ASSUME proc[q].pc = "wait", ~(q \in Servers /\ request' = None)
          PROVE  done'[proc[q].id] = 0
      <4>1. proc[q].id # None /\ proc[q].id \in C!Asked
        BY <1>0, <3>1, <3>3, CommandFields DEF InHand
      <4>2. proc[q].id # proc[p].id
        BY <1>0, <1>1, <1>3, <2>2, <3>1, <3>3, <4>1 DEF Own, C!Procs
      <4>3. done[proc[q].id] = 0
        BY <1>1, <3>1, <3>3 DEF Undone
      <4> QED BY <1>4, <4>1, <4>2, <4>3
    <3> QED BY <3>1, <3>2, <3>3 DEF Undone
  <2> QED BY <2>1, <2>2
<1> QED BY <1>5, <1>6, <1>7, <1>8, <1>9, <1>10, <1>11 DEF CyclesInv

\* The context is cleared, or that is not seen.
LEMMA SettleKeeps ==
  ASSUME CyclesInv, NEW p \in C!Procs, C!Settle(p)
  PROVE  CyclesInv'
<1>0. CyclesTyped /\ InHand(p) /\ Held
  BY DEF CyclesInv
<1>1. /\ proc[p].pc = "settle" /\ proc[p].id # None
      /\ UNCHANGED <<agent, stop, stamp, halted, ids>>
  BY <1>0 DEF C!Settle, C!At, C!Same, InHand
<1>2. CASE C!Succeeds(p)
  BY <1>1, <1>2, SucceedsKeeps
<1>3. CASE C!Goto(p, "respawn") /\ UNCHANGED <<request, done, lifecycle>>
  <2>1. Now(p, "respawn")
    BY <1>0, <1>3, GoesTo DEF C!Goto, C!Labels, C!Modes
  <2>2. Shared /\ Fades
    BY <1>0, <1>1, <1>3 DEF Shared, CyclesTyped, Fades
  <2>3. Held' /\ Shed(p)'
    BY <1>0, <1>1, <1>3, <2>1 DEF Held, Shed, Now, Behind
  <2> QED BY <1>1, <1>3, <2>1, <2>2, <2>3, GoesOnKeeps DEF Behind
<1> QED BY <1>2, <1>3 DEF C!Settle

\* The harness is seen to be up, or not, or a respawn falls back to a new session.
LEMMA VerifyKeeps ==
  ASSUME CyclesInv, NEW p \in C!Procs, C!Verify(p)
  PROVE  CyclesInv'
<1>0. CyclesTyped /\ InHand(p) /\ Held
  BY DEF CyclesInv
<1>1. /\ proc[p].pc = "verify" /\ proc[p].id # None
      /\ UNCHANGED <<agent, stop, stamp, halted, ids>>
  BY <1>0 DEF C!Verify, C!At, C!Same, InHand
<1>2. CASE C!Succeeds(p)
  BY <1>1, <1>2, SucceedsKeeps
<1>3. CASE C!Refused(p) /\ UNCHANGED done
  BY <1>1, <1>3, RefusedKeeps
<1>4. CASE /\ UNCHANGED <<request, done, lifecycle>>
           /\ proc' = [proc EXCEPT ![p].pc = "down", ![p].mode = "relaunch"]
  <2>1. Now(p, "down")
    BY <1>0, <1>4, GoesTo DEF C!Labels, C!Modes
  <2>2. Shared /\ Fades
    BY <1>0, <1>1, <1>4 DEF Shared, CyclesTyped, Fades
  <2>3. Held' /\ Shed(p)'
    BY <1>0, <1>1, <1>4, <2>1 DEF Held, Shed, Now, Behind
  <2> QED BY <1>1, <1>4, <2>1, <2>2, <2>3, GoesOnKeeps DEF Behind
<1> QED BY <1>2, <1>3, <1>4 DEF C!Verify

\* The request is cleared once more.
LEMMA TidyKeeps ==
  ASSUME CyclesInv, NEW p \in C!Procs, C!Tidy(p)
  PROVE  CyclesInv'
<1>0. CyclesTyped /\ Held
  BY DEF CyclesInv
<1>1. request' = None /\ C!Ends(p) /\ UNCHANGED <<agent, stop, stamp, halted, ids, jolts, done>>
  BY DEF C!Tidy, C!Same, C!Kept
<1>2. Over(p) /\ lifecycle' = IF lifecycle = p THEN None ELSE lifecycle
  BY <1>1, EndsOver
<1>3. Shared /\ Fades /\ Held'
  BY <1>0, <1>1, <1>2 DEF Shared, Fades, CyclesTyped, Held, Over, Behind
<1> QED BY <1>1, <1>2, <1>3, OverKeeps

\* A command that is killed leaves everything as it is.
LEMMA KilledKeeps ==
  ASSUME CyclesInv, NEW p \in C!Procs, C!Killed(p)
  PROVE  CyclesInv'
BY RefusedKeeps DEF C!Killed, C!Refused, C!Same

-----------------------------------------------------------------------------
(* The steps of the agent and of those about it.                            *)

\* What happens to the agent and its request outside the commands keeps the
\* invariant, if a start finds nobody at the record of a stop.
LEMMA OutsideKeeps ==
  ASSUME CyclesInv, Shared, Fades, UNCHANGED <<lifecycle, proc, done>>,
         \A p \in C!Procs : proc[p].pc = "record" => agent'.session = "gone",
         halted' # {} => agent'.session = "gone" /\ UNCHANGED <<stop, stamp, halted>>
  PROVE  CyclesInv'
<1>1. CyclesTyped'
  BY DEF CyclesInv, CyclesTyped, Shared
<1>2. Unserved'
  BY DEF CyclesInv, Unserved, Fades, Shared
<1>3. Held'
  BY DEF CyclesInv, Held
<1>4. C!ServedOnce'
  BY DEF CyclesInv, C!ServedOnce
<1>5. ASSUME NEW p \in C!Procs
      PROVE  Locks(p)' /\ InHand(p)' /\ Own(p)' /\ Undone(p)' /\ Shed(p)'
  <2>1. Locks(p) /\ InHand(p) /\ Own(p) /\ Undone(p) /\ Shed(p)
    BY DEF CyclesInv
  <2>2. InHand(p)' /\ Locks(p)'
    BY <2>1 DEF InHand, Locks, Shared
  <2>3. Own(p)'
    BY <2>1 DEF Own, Fades
  <2>4. Undone(p)' /\ Shed(p)'
    BY <2>1 DEF Undone, Shed, Fades
  <2> QED BY <2>2, <2>3, <2>4
<1> QED BY <1>1, <1>2, <1>3, <1>4, <1>5 DEF CyclesInv

\* The agent works, dies or is cleared by hand, and is started by a person.
LEMMA AgentKeeps ==
  ASSUME Serial, CyclesInv, C!Turn \/ C!Dies \/ C!ClearByHand \/ C!New
  PROVE  CyclesInv'
<1>0. CyclesTyped /\ Held /\ \A p \in C!Procs : proc[p].pc = "record" => agent.session = "gone"
  BY DEF CyclesInv, InHand
<1>1. CASE C!Turn
  <2>1. PICK deep \in BOOLEAN : agent' = [agent EXCEPT !.busy = ~@, !.deep = deep]
    BY <1>1 DEF C!Turn
  <2>2. /\ agent.session = "up" /\ UNCHANGED <<request, ids, halted, stop, stamp, lifecycle, proc, done>>
    BY <1>1 DEF C!Turn, C!Bystanders
  <2>3. Shared /\ Fades /\ halted = {}
    BY <1>0, <2>1, <2>2 DEF Shared, Fades, CyclesTyped, C!Agent, Held
  <2> QED BY <1>0, <2>2, <2>3, OutsideKeeps
<1>2. CASE C!Dies
  <2>1. C!Leaves("gone") /\ UNCHANGED <<ids, halted, stop, stamp, lifecycle, proc, done>>
    BY <1>2 DEF C!Dies, C!Bystanders
  <2> QED BY <1>0, <2>1, LeavesFades, OutsideKeeps DEF Shared, CyclesTyped
<1>3. CASE C!ClearByHand
  <2>1. /\ agent.session = "up" /\ C!Leaves("up")
        /\ UNCHANGED <<ids, halted, stop, stamp, lifecycle, proc, done>>
    BY <1>3 DEF C!ClearByHand, C!Bystanders, C!Quiet
  <2>2. halted = {}
    BY <1>0, <2>1 DEF Held
  <2> QED BY <1>0, <2>1, <2>2, LeavesFades, OutsideKeeps DEF Shared, CyclesTyped
<1>4. CASE C!New
  <2>1. /\ C!Starts /\ halted' = {} /\ UNCHANGED <<lifecycle, proc, ids, done>>
        /\ \A p \in C!Procs : proc[p].pc # "record"
    BY <1>4 DEF C!New, C!Recorded, C!At
  <2> QED BY <1>0, <2>1, StartsFades, OutsideKeeps DEF Shared, CyclesTyped
<1> QED BY <1>1, <1>2, <1>3, <1>4

\* The agent asks where no command is at work.
LEMMA AskKeeps ==
  ASSUME Serial, CyclesInv, C!Ask
  PROVE  CyclesInv'
<1> USE LedgersAssumption
<1>0. CyclesTyped /\ Unserved
  BY DEF CyclesInv
<1>1. /\ request' = [id |-> ids + 1, auto |-> FALSE, here |-> TRUE]
      /\ ids < MaxRequests /\ ids' = ids + 1
      /\ UNCHANGED <<agent, stop, stamp, lifecycle, proc, done, halted>>
      /\ \A p \in C!Procs : proc[p].pc \in {"idle", "revive"}
  BY DEF C!Ask, C!NextId, C!Unasked, C!Bystanders
<1>2. ids \in Nat /\ ids' \in 0 .. MaxRequests /\ ids' \in C!Asked
  BY <1>0, <1>1 DEF CyclesTyped, C!Asked
<1>3. request' \in C!Request /\ request'.id = ids'
  BY <1>1, <1>2 DEF C!Request
<1>4. CyclesTyped'
  BY <1>0, <1>1, <1>2, <1>3 DEF CyclesTyped
<1>5. Unserved'
  BY <1>0, <1>1, <1>2, <1>3 DEF Unserved, C!Asked
<1>6. ASSUME NEW p \in C!Procs
      PROVE  Locks(p)' /\ InHand(p)' /\ Own(p)' /\ Undone(p)' /\ Shed(p)'
  <2>1. Locks(p) /\ InHand(p) /\ proc[p].pc \in {"idle", "revive"} /\ proc'[p] = proc[p]
    BY <1>1 DEF CyclesInv
  <2> QED BY <1>1, <2>1 DEF Locks, InHand, Own, Undone, Shed, Behind
<1>7. Held' /\ C!ServedOnce'
  BY <1>1 DEF CyclesInv, Held, C!ServedOnce
<1> QED BY <1>4, <1>5, <1>6, <1>7 DEF CyclesInv

\* At first nothing is asked for and nobody at work.
LEMMA CyclesBegin == C!CInit => CyclesInv
<1> SUFFICES ASSUME C!CInit PROVE CyclesInv
  OBVIOUS
<1> USE LedgersAssumption DEF C!CInit
<1>0. C!Rest \in C!Command
  BY DEF C!Command, C!Labels, C!Rest
<1>1. CyclesTyped
  <2>1. agent \in C!Agent /\ ids \in 0 .. MaxRequests
    BY DEF C!Agent
  <2>2. proc \in [C!Procs -> C!Command] /\ done \in [C!Asked -> Nat]
    BY <1>0
  <2> QED BY <2>1, <2>2 DEF CyclesTyped
<1>2. Unserved /\ C!ServedOnce
  BY DEF Unserved, C!ServedOnce
<1>3. Held
  BY DEF Held
<1>4. ASSUME NEW p \in C!Procs
      PROVE  Locks(p) /\ InHand(p) /\ Own(p) /\ Undone(p) /\ Shed(p)
  <2>1. proc[p].pc = "idle" /\ proc[p].id = None /\ p # None
    BY DEF C!Rest, C!Procs
  <2> QED BY <2>1 DEF Locks, InHand, Own, Undone, Shed, Behind
<1> QED BY <1>1, <1>2, <1>3, <1>4 DEF CyclesInv

\* Every step keeps the invariant.
LEMMA CyclesStep == Serial /\ CyclesInv /\ [C!CNext]_C!cvars => CyclesInv'
<1> SUFFICES ASSUME Serial, CyclesInv, [C!CNext]_C!cvars PROVE CyclesInv'
  OBVIOUS
<1>1. CASE C!Turn \/ C!Dies \/ C!ClearByHand \/ C!Ask \/ C!New
  BY <1>1, AgentKeeps, AskKeeps
<1>2. CASE \E p \in Servers : \/ C!Revive(p) \/ C!Raise(p) \/ C!Sweep(p) \/ C!Decide(p)
                                \/ C!Serve(p)
  BY <1>2, ReviveKeeps, BroughtUpKeeps, SweepKeeps, DecideKeeps, ServeKeeps
<1>3. CASE \E p \in Humans : C!Order(p) \/ C!Stop(p)
  BY <1>3, OrderKeeps, StopKeeps
<1>4. CASE \E p \in C!Procs :
             \/ C!Enter(p) \/ C!Type(p) \/ C!Settle(p) \/ C!Respawn(p) \/ C!Down(p)
             \/ C!Record(p) \/ C!Launch(p) \/ C!Verify(p) \/ C!Tidy(p) \/ C!Killed(p)
  BY <1>4, EnterKeeps, TypeKeeps, SettleKeeps, RespawnKeeps, DownKeeps, RecordKeeps,
     LaunchKeeps, VerifyKeeps, TidyKeeps, KilledKeeps
<1>5. CASE UNCHANGED C!cvars
  <2>1. UNCHANGED <<agent, request, stop, stamp, lifecycle, proc, ids, done, halted>>
    BY <1>5 DEF C!cvars
  <2>2. Shared /\ Fades
    BY <2>1 DEF Shared, Fades, CyclesInv, CyclesTyped
  <2>3. /\ \A p \in C!Procs : proc[p].pc = "record" => agent'.session = "gone"
        /\ halted' # {} => agent'.session = "gone" /\ UNCHANGED <<stop, stamp, halted>>
    BY <2>1 DEF CyclesInv, InHand, Held
  <2> QED BY <2>1, <2>2, <2>3, OutsideKeeps
<1> QED BY <1>1, <1>2, <1>3, <1>4, <1>5 DEF C!CNext

\* A behaviour of the ledgers about cycles is one of Cycles.
LEMMA CyclesOnly ==
  /\ LInit => C!CInit
  /\ [LNext]_all => subject' = subject /\ (subject = "cycles" => [C!CNext]_C!cvars)
                    /\ (subject # "cycles" => UNCHANGED C!cvars)
BY DEF LInit, LNext, all, cycles, C!cvars

\* The invariant holds throughout.
LEMMA CyclesInvariance == Serial => (LSpec => [](subject = "cycles" => CyclesInv))
<1> SUFFICES ASSUME Serial PROVE LSpec => [](subject = "cycles" => CyclesInv)
  OBVIOUS
<1>1. LInit => (subject = "cycles" => CyclesInv)
  BY CyclesOnly, CyclesBegin
<1>2. (subject = "cycles" => CyclesInv) /\ [LNext]_all => (subject = "cycles" => CyclesInv)'
  BY CyclesOnly, CyclesStep
<1> QED BY <1>1, <1>2, PTL DEF LSpec

\* An agent a person stopped stays down until a person starts it, whatever cycle waits
\* for the lock, fails over to a rougher mechanism, dies or is tried again, and however
\* often tend finds it down: the intent is read again under the lock, and a stop leaves
\* no stamp to pass tend's gate with.
THEOREM StopsHold == Serial => (LSpec => []StopHolds)
<1>1. (subject = "cycles" => CyclesInv) => StopHolds
  BY DEF CyclesInv, Held, StopHolds, C!StopHolds, C!Session
<1> QED BY <1>1, CyclesInvariance, PTL

\* However many servers take up a request, it is served once, and so is every cycle a
\* person asks for: who serves clears it before the lock is let go.
THEOREM RequestsAreServedOnce == Serial => (LSpec => []ServedOnce)
<1>1. (subject = "cycles" => CyclesInv) => ServedOnce
  BY DEF CyclesInv, ServedOnce
<1> QED BY <1>1, CyclesInvariance, PTL

\* What a step may take a request away for.
LEMMA StepKeepsRequests ==
  ASSUME CyclesInv, [C!CNext]_C!cvars, request # None, request' = None
  PROVE  \/ ~request.here \/ halted' # {}
         \/ request.auto /\ \E p \in Servers : C!At(p, "swept")
<1> USE LedgersAssumption, RecordsAssumption
<1>0. CyclesTyped /\ request \in C!Request /\ \A r \in C!Request : r # None
  BY DEF CyclesInv, CyclesTyped
<1>1. ASSUME NEW p \in Servers, C!Decide(p)
      PROVE  request.auto /\ \E q \in Servers : C!At(q, "swept")
  <2>1. Shed(p) /\ proc[p].pc = "swept" /\ C!At(p, "swept")
    BY <1>1 DEF CyclesInv, C!Decide, C!At, C!Procs
  <2>2. CASE proc[p].sight = "under"
    BY <2>1, <2>2 DEF Shed
  <2>3. CASE proc[p].sight # "under"
    <3>1. ids \in Nat /\ ids < MaxRequests
          /\ request' = [id |-> ids + 1, auto |-> TRUE, here |-> TRUE]
      BY <1>0, <1>1, <2>3 DEF C!Decide, C!NextId, CyclesTyped
    <3>2. request' \in C!Request
      BY <3>1 DEF C!Request, C!Asked
    <3> QED BY <1>0, <3>2
  <2> QED BY <2>2, <2>3
<1>2. ASSUME NEW p \in C!Procs, C!Cancels(p), proc[p].pc \in {"down", "record"}
      PROVE  halted' # {}
  BY <1>2 DEF C!Cancels, C!At
<1>3. ASSUME NEW p \in C!Procs, proc[p].pc \in {"settle", "verify", "tidy"} PROVE ~request.here
  BY <1>3 DEF CyclesInv, Shed
<1>4. ASSUME NEW session, C!Leaves(session) PROVE FALSE
  <2>1. [request EXCEPT !.here = FALSE] \in C!Request
    BY <1>0 DEF C!Request
  <2> QED BY <1>0, <1>4, <2>1 DEF C!Leaves
<1>5. ~C!Starts
  BY <1>4 DEF C!Starts
<1>6. CASE C!Turn \/ C!Dies \/ C!ClearByHand \/ C!New
  BY <1>4, <1>5, <1>6 DEF C!Turn, C!Dies, C!ClearByHand, C!New
<1>7. ASSUME C!Ask PROVE FALSE
  <2>1. ids \in Nat /\ ids < MaxRequests
        /\ request' = [id |-> ids + 1, auto |-> FALSE, here |-> TRUE]
    BY <1>0, <1>7 DEF C!Ask, C!NextId, CyclesTyped
  <2>2. request' \in C!Request
    BY <2>1 DEF C!Request, C!Asked
  <2> QED BY <1>0, <2>2
<1>8. CASE \E p \in Servers : \/ C!Revive(p) \/ C!Raise(p) \/ C!Sweep(p) \/ C!Decide(p)
                                \/ C!Serve(p)
  BY <1>1, <1>4, <1>5, <1>8 DEF C!Revive, C!Raise, C!Sweep, C!Serve
<1>9. CASE \E p \in Humans : C!Order(p) \/ C!Stop(p)
  BY <1>9 DEF C!Order, C!Stop
<1>10. ASSUME NEW p \in C!Procs, C!Settle(p) \/ C!Verify(p) \/ C!Tidy(p) PROVE ~request.here
  BY <1>3, <1>10 DEF C!Settle, C!Verify, C!Tidy, C!At
<1>11. ASSUME NEW p \in C!Procs, C!Down(p) \/ C!Record(p) PROVE halted' # {}
  BY <1>2, <1>4, <1>11 DEF C!Down, C!Record, C!Refused, C!At
<1>12. ASSUME NEW p \in C!Procs, C!Enter(p) \/ C!Killed(p) PROVE FALSE
  BY <1>12 DEF C!Enter, C!Killed, C!Refused
<1>13. ASSUME NEW p \in C!Procs, C!Type(p) \/ C!Respawn(p) \/ C!Launch(p) PROVE FALSE
  BY <1>4, <1>5, <1>13 DEF C!Type, C!Respawn, C!Launch, C!Refused
<1>14. ~UNCHANGED C!cvars
  BY DEF C!cvars
<1> QED BY <1>6, <1>7, <1>8, <1>9, <1>10, <1>11, <1>12, <1>13, <1>14 DEF C!CNext

\* A request goes only with the context it asked about, by a person's stop, or, if tend
\* made it, by tend: refusals, failed launches and dead servers leave it.
THEOREM RequestsAreKept == Serial => (LSpec => RequestKept)
<1> SUFFICES ASSUME Serial PROVE LSpec => RequestKept
  OBVIOUS
<1>1. (subject = "cycles" => CyclesInv) /\ [LNext]_all =>
        [request # None /\ request' = None =>
           \/ ~request.here \/ halted' # {}
           \/ request.auto /\ \E p \in Servers : C!At(p, "swept")]_C!cvars
  BY CyclesOnly, StepKeepsRequests
<1> QED BY <1>1, CyclesInvariance, PTL DEF LSpec, RequestKept, C!RequestKept

-----------------------------------------------------------------------------
(* Unblocked: the cursor never passes a firing nobody dealt with, because a *)
(* pass takes the firings in the order in which they were recorded.         *)

\* The firings are recorded in the order of their seconds.
Logged ==
  /\ log \in Seq([bead : Blocked, at : Nat]) /\ Len(log) <= MaxFirings
  /\ \A f, g \in DOMAIN log : f <= g => log[f].at <= log[g].at

\* What a pass has read and is not through with, and what it makes of the ledger.
Reading == [pc : {"idle", "next", "reopen", "tell"}, left : SUBSET Nat,
            verdict : U!Verdicts \union {None}, since : Nat, done : SUBSET Nat]

UnblockedTyped ==
  /\ Logged /\ status \in [Blocked -> U!Verdicts]
  /\ cursor \in [since : Nat, done : SUBSET Nat]
  /\ pass \in [Passes -> Reading] /\ dealt \subseteq DOMAIN log

\* A ledger that keeps `since`, the second of some firing, and `through` will have every
\* other firing read.
Reaches(since, through) ==
  /\ since = 0 \/ \E f \in DOMAIN log : since = log[f].at
  /\ through \subseteq dealt
  /\ \A f \in DOMAIN log \ dealt : log[f].at >= since

\* A pass knows of every firing nobody dealt with, but of those recorded after all that
\* it has left to read.
Complete(p) ==
  /\ Reaches(pass[p].since, pass[p].done) /\ pass[p].left \subseteq DOMAIN log
  /\ \A f \in DOMAIN log \ dealt : \A g \in pass[p].left : f \in pass[p].left \/ g < f
  /\ pass[p].pc \in {"reopen", "tell"} => pass[p].left # {}

UnblockedInv ==
  /\ UnblockedTyped /\ Reaches(cursor.since, cursor.done)
  /\ \A p \in Passes : Complete(p)

\* A firing was told of as often as passes died, and once more if it is in the ledger in
\* force, which is that of the pass at work.
TellInv ==
  /\ heard \in [1 .. MaxFirings -> Nat] /\ ufalls \in Nat
  /\ \A p, q \in Passes : pass[p].pc # "idle" /\ pass[q].pc # "idle" => p = q
  /\ \A p \in Passes : pass[p].left \intersect pass[p].done = {}
  /\ (\A p \in Passes : pass[p].pc = "idle") =>
        \A f \in 1 .. MaxFirings : heard[f] <= ufalls + (IF f \in cursor.done THEN 1 ELSE 0)
  /\ \A p \in Passes : pass[p].pc # "idle" =>
        \A f \in 1 .. MaxFirings : heard[f] <= ufalls + (IF f \in pass[p].done THEN 1 ELSE 0)

\* A set of numbers that is not empty has a least one.
LEMMA LeastIsThere ==
  ASSUME NEW S, S \subseteq Nat, S # {}
  PROVE  U!Min(S) \in S /\ \A y \in S : U!Min(S) <= y
<1>1. PICK x \in S : \A y \in S : ~ (<<y, x>> \in OpToRel(<, Nat))
  BY NatLessThanWellFounded, WFMin
<1>2. \A y \in S : x <= y
  <2> TAKE y \in S
  <2>1. x \in Nat /\ y \in Nat /\ ~(y < x)
    BY <1>1 DEF OpToRel
  <2> QED BY <2>1
<1> QED BY <1>2 DEF U!Min

\* What holds of the numbers of the firings.
LEMMA FiringFacts ==
  ASSUME UnblockedTyped
  PROVE  /\ Len(log) \in Nat /\ DOMAIN log = 1 .. Len(log) /\ U!Firings = DOMAIN log
         /\ DOMAIN log \subseteq 1 .. MaxFirings /\ DOMAIN log \subseteq Nat
         /\ \A f \in DOMAIN log : log[f].at \in Nat /\ log[f].bead \in Blocked
<1> USE LedgersAssumption
<1>1. log \in Seq([bead : Blocked, at : Nat]) /\ Len(log) <= MaxFirings
  BY DEF UnblockedTyped, Logged
<1>2. Len(log) \in Nat /\ DOMAIN log = 1 .. Len(log)
  BY <1>1, LenProperties
<1>3. \A f \in DOMAIN log : log[f] \in [bead : Blocked, at : Nat]
  BY <1>1, <1>2, ElementOfSeq
<1> QED BY <1>1, <1>2, <1>3 DEF U!Firings

\* What a pass has in hand is of its type, and the first firing it has left is one.
LEMMA PassFields ==
  ASSUME UnblockedTyped, NEW p \in Passes, Complete(p)
  PROVE  /\ pass[p] \in Reading /\ pass[p].left \subseteq DOMAIN log
         /\ pass[p].left # {} => /\ U!First(p) \in pass[p].left /\ U!First(p) \in DOMAIN log
                                 /\ \A g \in pass[p].left : U!First(p) <= g
<1>1. pass[p] \in Reading /\ pass[p].left \subseteq DOMAIN log /\ pass[p].left \subseteq Nat
  BY FiringFacts DEF UnblockedTyped, Complete
<1> QED BY <1>1, LeastIsThere DEF U!First

\* A step of one pass that lets more firings be dealt with keeps what holds of the others.
LEMMA PassKeeps ==
  ASSUME UnblockedInv, NEW p \in Passes, NEW x \in Reading, pass' = [pass EXCEPT ![p] = x],
         status' \in [Blocked -> U!Verdicts], log' = log,
         dealt \subseteq dealt', dealt' \subseteq DOMAIN log,
         cursor' \in {cursor, [since |-> pass[p].since, done |-> pass[p].done]},
         Complete(p)'
  PROVE  UnblockedInv'
<1>1. UnblockedTyped /\ pass[p] \in Reading
  BY DEF UnblockedInv, UnblockedTyped
<1>2. cursor' \in [since : Nat, done : SUBSET Nat]
  BY <1>1 DEF UnblockedTyped, Reading
<1>3. UnblockedTyped'
  BY <1>1, <1>2 DEF UnblockedTyped, Logged
<1>4. Reaches(cursor.since, cursor.done)'
  <2>1. Reaches(cursor.since, cursor.done) /\ Reaches(pass[p].since, pass[p].done)
    BY DEF UnblockedInv, Complete
  <2> QED BY <2>1 DEF Reaches
<1>5. ASSUME NEW q \in Passes, q # p PROVE Complete(q)'
  <2>1. Complete(q) /\ pass'[q] = pass[q]
    BY <1>1, <1>5 DEF UnblockedInv, UnblockedTyped
  <2> QED BY <2>1 DEF Complete, Reaches
<1> QED BY <1>3, <1>4, <1>5 DEF UnblockedInv

\* People move the items.
LEMMA MoveKeeps ==
  ASSUME UnblockedInv, NEW b \in Blocked, U!Move(b)
  PROVE  UnblockedInv'
<1>1. /\ status' \in [Blocked -> U!Verdicts] /\ UNCHANGED <<log, cursor, pass, dealt>>
  BY DEF U!Move, U!Heard, UnblockedInv, UnblockedTyped
<1> QED BY <1>1 DEF UnblockedInv, UnblockedTyped, Logged, Reaches, Complete

\* A firing is recorded last, and not before the second of the one before it.
LEMMA FireKeeps ==
  ASSUME UnblockedInv, NEW b \in Blocked, U!Fire(b)
  PROVE  UnblockedInv'
<1> USE LedgersAssumption
<1>0. UnblockedTyped /\ Logged
  BY DEF UnblockedInv, UnblockedTyped
<1> DEFINE n == Len(log) + 1
           last == IF log = <<>> THEN 1 ELSE log[Len(log)].at
<1>1. PICK second \in {last, last + 1} : log' = Append(log, [bead |-> b, at |-> second])
  BY DEF U!Fire
<1>2. Len(log) < MaxFirings /\ UNCHANGED <<status, cursor, pass, dealt>>
  BY DEF U!Fire, U!Heard
<1>3. /\ Len(log) \in Nat /\ DOMAIN log = 1 .. Len(log)
      /\ \A f \in DOMAIN log : log[f].at \in Nat
  BY <1>0, FiringFacts
<1>4. log # <<>> => Len(log) \in DOMAIN log
  BY <1>0, <1>3, EmptySeq DEF Logged
<1>5. last \in Nat /\ \A f \in DOMAIN log : log[f].at <= last
  BY <1>0, <1>3, <1>4 DEF Logged
<1> HIDE DEF last
<1>6. second \in Nat /\ \A f \in DOMAIN log : log[f].at <= second
  BY <1>3, <1>5
<1>7. /\ log' \in Seq([bead : Blocked, at : Nat]) /\ Len(log') = n
      /\ \A f \in 1 .. Len(log) : log'[f] = log[f]
      /\ log'[n] = [bead |-> b, at |-> second]
  BY <1>0, <1>1, <1>6, AppendProperties DEF Logged
<1>8. DOMAIN log' = 1 .. n /\ n \in DOMAIN log' /\ log'[n].at = second /\ Len(log') <= MaxFirings
  BY <1>2, <1>3, <1>7, LenProperties
<1>9. \A f \in DOMAIN log' : f \in DOMAIN log \/ f = n
  BY <1>3, <1>8
<1>10. \A f \in DOMAIN log : f < n /\ f \in DOMAIN log' /\ log'[f] = log[f]
  BY <1>3, <1>7, <1>8
<1> HIDE DEF n
<1>11. Logged'
  <2> SUFFICES ASSUME NEW f \in DOMAIN log', NEW g \in DOMAIN log', f <= g
               PROVE  log'[f].at <= log'[g].at
    BY <1>7, <1>8 DEF Logged
  <2>1. CASE f \in DOMAIN log /\ g \in DOMAIN log
    BY <1>0, <1>10, <2>1 DEF Logged
  <2>2. CASE f \in DOMAIN log /\ g = n
    BY <1>6, <1>8, <1>10, <2>2
  <2>3. CASE f = n /\ g = n
    BY <1>6, <1>8, <2>3
  <2>4. CASE f = n /\ g \in DOMAIN log
    <3>1. f \in Nat /\ g \in Nat /\ g < f
      BY <1>3, <1>10, <2>4 DEF n
    <3> QED BY <3>1
  <2> QED BY <1>9, <2>1, <2>2, <2>3, <2>4
<1>12. ASSUME NEW since \in Nat, NEW through, Reaches(since, through) PROVE Reaches(since, through)'
  <2>1. through \subseteq dealt' /\ (since = 0 \/ \E f \in DOMAIN log' : since = log'[f].at)
    BY <1>2, <1>10, <1>12 DEF Reaches
  <2>2. since <= second
    BY <1>6, <1>12 DEF Reaches
  <2>3. ASSUME NEW f \in DOMAIN log' \ dealt' PROVE log'[f].at >= since
    <3>1. CASE f \in DOMAIN log
      BY <1>2, <1>10, <1>12, <2>3, <3>1 DEF Reaches
    <3>2. CASE f = n
      BY <1>6, <1>8, <2>2, <3>2
    <3> QED BY <1>9, <2>3, <3>1, <3>2
  <2> QED BY <2>1, <2>3 DEF Reaches
<1>13. UnblockedTyped'
  BY <1>0, <1>2, <1>10, <1>11 DEF UnblockedTyped
<1>14. Reaches(cursor.since, cursor.done)'
  <2>1. Reaches(cursor.since, cursor.done) /\ cursor.since \in Nat /\ cursor' = cursor
    BY <1>0, <1>2 DEF UnblockedInv, UnblockedTyped
  <2> QED BY <1>12, <2>1
<1>15. ASSUME NEW p \in Passes PROVE Complete(p)'
  <2>1. Complete(p) /\ pass[p] \in Reading /\ pass'[p] = pass[p] /\ pass[p].since \in Nat
    BY <1>0, <1>2 DEF UnblockedInv, UnblockedTyped, Reading
  <2>2. Reaches(pass[p].since, pass[p].done)'
    BY <1>12, <2>1 DEF Complete
  <2>3. pass[p].left \subseteq DOMAIN log'
    BY <1>10, <2>1 DEF Complete
  <2>4. ASSUME NEW f \in DOMAIN log' \ dealt', NEW g \in pass[p].left
        PROVE  f \in pass[p].left \/ g < f
    <3>1. g \in DOMAIN log /\ g < n
      BY <1>10, <2>1, <2>4 DEF Complete
    <3> QED BY <1>2, <1>9, <2>1, <2>4, <3>1 DEF Complete
  <2> QED BY <2>1, <2>2, <2>3, <2>4 DEF Complete
<1> QED BY <1>13, <1>14, <1>15 DEF UnblockedInv

\* A pass reads every firing nobody dealt with.
LEMMA LoadKeeps ==
  ASSUME UnblockedInv, NEW p \in Passes, U!Load(p)
  PROVE  UnblockedInv'
<1>0. UnblockedTyped /\ Reaches(cursor.since, cursor.done)
  BY DEF UnblockedInv
<1> DEFINE x == [pc |-> "next", left |-> U!Unread(cursor.since) \ cursor.done, verdict |-> None,
                 since |-> cursor.since, done |-> cursor.done]
<1>1. /\ pass' = [pass EXCEPT ![p] = x] /\ UNCHANGED <<status, log, cursor, dealt>>
  BY DEF U!Load, U!Becomes, U!Outside, U!Heard
<1>2. U!Unread(cursor.since) = {f \in DOMAIN log : log[f].at >= cursor.since}
  BY <1>0, FiringFacts DEF U!Unread
<1>3. x \in Reading
  BY <1>0, <1>2, FiringFacts DEF Reading, UnblockedTyped
<1>4. pass'[p] = x
  BY <1>0, <1>1 DEF UnblockedTyped
<1>5. \A f \in DOMAIN log \ dealt : f \in x.left
  BY <1>0, <1>2 DEF Reaches
<1>6. x.left \subseteq DOMAIN log /\ x.pc = "next" /\ x.since = cursor.since /\ x.done = cursor.done
  BY <1>2
<1> HIDE DEF x
<1>7. Complete(p)'
  BY <1>0, <1>1, <1>4, <1>5, <1>6 DEF Complete, Reaches
<1> QED BY <1>0, <1>1, <1>3, <1>7, PassKeeps DEF UnblockedTyped

\* A pass that breaks off, or goes on with the same firings.
LEMMA BreaksKeeps ==
  ASSUME UnblockedInv, NEW p \in Passes,
         \/ U!Breaks(p)
         \/ \E pc1 \in {"reopen", "tell"}, v \in U!Verdicts :
              pass' = [pass EXCEPT ![p] = [pass[p] EXCEPT !.pc = pc1, !.verdict = v]]
         \/ pass' = [pass EXCEPT ![p] = [pass[p] EXCEPT !.pc = "tell"]],
         pass[p].left # {}, status' \in [Blocked -> U!Verdicts],
         UNCHANGED <<log, cursor, dealt>>
  PROVE  UnblockedInv'
<1>0. UnblockedTyped /\ Complete(p) /\ pass[p] \in Reading
  BY DEF UnblockedInv, UnblockedTyped
<1> DEFINE Goes(x) == /\ pass' = [pass EXCEPT ![p] = x]
                      /\ x.left \in {{}, pass[p].left}
                      /\ x.left = {} => x.pc = "next"
                      /\ x.since = pass[p].since /\ x.done = pass[p].done
<1>1. PICK x \in Reading : Goes(x)
  <2>1. CASE U!Breaks(p)
    <3>1. [pass[p] EXCEPT !.pc = "next", !.left = {}] \in Reading
      BY <1>0 DEF Reading
    <3> QED BY <1>0, <2>1, <3>1 DEF U!Breaks, U!Becomes, Reading
  <2>2. ASSUME NEW pc1 \in {"reopen", "tell"}, NEW v \in U!Verdicts,
               pass' = [pass EXCEPT ![p] = [pass[p] EXCEPT !.pc = pc1, !.verdict = v]]
        PROVE  \E x \in Reading : Goes(x)
    <3>1. [pass[p] EXCEPT !.pc = pc1, !.verdict = v] \in Reading
      BY <1>0 DEF Reading
    <3> QED BY <1>0, <2>2, <3>1 DEF Reading
  <2>3. CASE pass' = [pass EXCEPT ![p] = [pass[p] EXCEPT !.pc = "tell"]]
    <3>1. [pass[p] EXCEPT !.pc = "tell"] \in Reading
      BY <1>0 DEF Reading
    <3> QED BY <1>0, <2>3, <3>1 DEF Reading
  <2> QED BY <2>1, <2>2, <2>3
<1>2. pass'[p] = x
  BY <1>0, <1>1 DEF UnblockedTyped
<1>3. Complete(p)'
  BY <1>0, <1>1, <1>2 DEF Complete, Reaches
<1> QED BY <1>0, <1>1, <1>3, PassKeeps DEF UnblockedTyped

\* The tracker shows what the item is, or cannot be read.
LEMMA ShowKeeps ==
  ASSUME UnblockedInv, NEW p \in Passes, U!Show(p)
  PROVE  UnblockedInv'
<1>0. UnblockedTyped /\ Complete(p)
  BY DEF UnblockedInv
<1>1. pass[p].left # {} /\ UNCHANGED <<status, log, cursor, dealt>>
  BY DEF U!Show, U!Outside, U!Heard
<1>2. status[log[U!First(p)].bead] \in U!Verdicts /\ status \in [Blocked -> U!Verdicts]
  BY <1>0, <1>1, PassFields, FiringFacts DEF UnblockedTyped
<1> DEFINE v == status[log[U!First(p)].bead]
           l == IF v = "corrected" THEN "reopen" ELSE "tell"
<1>3. \/ U!Breaks(p)
      \/ pass' = [pass EXCEPT ![p] = [pass[p] EXCEPT !.pc = l, !.verdict = v]]
  BY DEF U!Show, U!Becomes
<1>4. l \in {"reopen", "tell"}
  OBVIOUS
<1> HIDE DEF l
<1>5. v \in U!Verdicts
  BY <1>2
<1> HIDE DEF v
<1> QED BY <1>1, <1>2, <1>3, <1>4, <1>5, BreaksKeeps

\* A stale status is corrected, or that fails, with the write or without.
LEMMA ReopenKeeps ==
  ASSUME UnblockedInv, NEW p \in Passes, U!Reopen(p)
  PROVE  UnblockedInv'
<1>0. UnblockedTyped /\ Complete(p)
  BY DEF UnblockedInv
<1>1. pass[p].pc = "reopen" /\ UNCHANGED <<log, cursor, dealt>>
  BY DEF U!Reopen, U!At, U!Heard
<1>2. pass[p].left # {}
  BY <1>0, <1>1 DEF Complete
<1>3. [status EXCEPT ![log[U!First(p)].bead] = "noop"] \in [Blocked -> U!Verdicts]
  BY <1>0 DEF UnblockedTyped, U!Verdicts
<1>4. status' \in [Blocked -> U!Verdicts]
  BY <1>0, <1>3 DEF U!Reopen, UnblockedTyped
<1>5. U!Breaks(p) \/ pass' = [pass EXCEPT ![p] = [pass[p] EXCEPT !.pc = "tell"]]
  BY DEF U!Reopen, U!Becomes
<1> QED BY <1>1, <1>2, <1>4, <1>5, BreaksKeeps

\* The first of the firings is dealt with: no other that nobody dealt with is older.
LEMMA DealtKeeps ==
  ASSUME UnblockedInv, NEW p \in Passes, pass[p].left # {}, U!Dealt(p),
         UNCHANGED <<status, log, cursor>>
  PROVE  UnblockedInv'
<1>0. UnblockedTyped /\ Complete(p) /\ pass[p] \in Reading /\ Logged
  BY DEF UnblockedInv, UnblockedTyped
<1> DEFINE f == U!First(p)
           s == IF log[f].at > pass[p].since THEN log[f].at ELSE pass[p].since
           x == [pc |-> "next", left |-> pass[p].left \ {f}, verdict |-> None, since |-> s,
                 done |-> pass[p].done \union {f}]
<1>1. f \in pass[p].left /\ f \in DOMAIN log /\ \A g \in pass[p].left : f <= g
  BY <1>0, PassFields
<1>2. pass' = [pass EXCEPT ![p] = x] /\ dealt' = dealt \union {f}
  BY DEF U!Dealt, U!Becomes
<1> HIDE DEF f
<1>3. log[f].at \in Nat /\ f \in Nat /\ pass[p].since \in Nat /\ DOMAIN log \subseteq Nat
  BY <1>0, <1>1, FiringFacts DEF Reading
<1>4. s \in Nat /\ (s = log[f].at \/ s = pass[p].since)
  BY <1>3
<1>5. x \in Reading
  BY <1>0, <1>3, <1>4 DEF Reading
<1>6. x.pc = "next" /\ x.left = pass[p].left \ {f} /\ x.since = s /\ x.done = pass[p].done \union {f}
  OBVIOUS
<1>7. pass'[p] = x
  BY <1>0, <1>2 DEF UnblockedTyped
<1> HIDE DEF s, x
<1>8. /\ s = 0 \/ \E g \in DOMAIN log : s = log[g].at
      /\ x.done \subseteq dealt' /\ \A g \in DOMAIN log \ dealt' : log[g].at >= s
  <2>1. s = 0 \/ \E g \in DOMAIN log : s = log[g].at
    BY <1>0, <1>1, <1>4 DEF Complete, Reaches
  <2>2. ASSUME NEW g \in DOMAIN log \ dealt' PROVE log[g].at >= s
    <3>1. g \in pass[p].left \/ f < g
      BY <1>0, <1>1, <1>2, <2>2 DEF Complete
    <3>2. f <= g /\ g \in DOMAIN log
      BY <1>1, <1>3, <2>2, <3>1
    <3>3. log[f].at <= log[g].at
      BY <1>0, <1>1, <3>2 DEF Logged
    <3>4. log[g].at >= pass[p].since
      BY <1>0, <1>2, <2>2 DEF Complete, Reaches
    <3> QED BY <1>3, <1>4, <3>3, <3>4
  <2>3. x.done \subseteq dealt'
    BY <1>0, <1>2, <1>6 DEF Complete, Reaches
  <2> QED BY <2>1, <2>2, <2>3
<1>9. Complete(p)'
  <2>1. /\ pass'[p].since = s /\ pass'[p].done = x.done /\ pass'[p].left = pass[p].left \ {f}
        /\ pass'[p].pc = "next"
    BY <1>6, <1>7
  <2>2. pass'[p].left \subseteq DOMAIN log'
    BY <1>0, <2>1 DEF Complete
  <2>3. ASSUME NEW h \in DOMAIN log' \ dealt', NEW g \in pass'[p].left
        PROVE  h \in pass'[p].left \/ g < h
    BY <1>0, <1>2, <2>1, <2>3 DEF Complete
  <2> QED BY <1>8, <2>1, <2>2, <2>3 DEF Complete, Reaches
<1>10. dealt' \subseteq DOMAIN log /\ dealt \subseteq dealt'
  BY <1>0, <1>1, <1>2 DEF UnblockedTyped
<1> QED BY <1>0, <1>2, <1>5, <1>9, <1>10, PassKeeps DEF UnblockedTyped

\* The administrator is told, or the pass breaks off.
LEMMA TellKeeps ==
  ASSUME UnblockedInv, NEW p \in Passes, U!Tell(p)
  PROVE  UnblockedInv'
<1>0. UnblockedTyped /\ Complete(p)
  BY DEF UnblockedInv
<1>1. pass[p].pc = "tell" /\ UNCHANGED <<status, log, cursor>>
  BY DEF U!Tell, U!At, U!Outside
<1>2. pass[p].left # {} /\ status \in [Blocked -> U!Verdicts]
  BY <1>0, <1>1 DEF Complete, UnblockedTyped
<1>3. CASE U!Dealt(p)
  BY <1>1, <1>2, <1>3, DealtKeeps
<1>4. CASE U!Breaks(p) /\ UNCHANGED dealt
  BY <1>1, <1>2, <1>4, BreaksKeeps
<1> QED BY <1>3, <1>4 DEF U!Tell

\* A pass writes its ledger back, or dies.
LEMMA EndKeeps ==
  ASSUME UnblockedInv, NEW p \in Passes, U!Save(p) \/ U!Falls(p)
  PROVE  UnblockedInv'
<1>0. UnblockedTyped
  BY DEF UnblockedInv
<1>1. /\ pass' = [pass EXCEPT ![p] = U!Rest] /\ UNCHANGED <<status, log, dealt>>
      /\ cursor' \in {cursor, [since |-> pass[p].since, done |-> pass[p].done]}
  BY DEF U!Save, U!Falls, U!Becomes, U!Kept, U!Outside, U!Heard
<1>2. U!Rest \in Reading /\ pass'[p] = U!Rest
  BY <1>0, <1>1 DEF U!Rest, Reading, UnblockedTyped
<1>3. \A f \in DOMAIN log : log[f].at >= 0
  BY <1>0, FiringFacts
<1>4. Complete(p)'
  BY <1>0, <1>1, <1>2, <1>3 DEF Complete, Reaches, U!Rest
<1> QED BY <1>0, <1>1, <1>2, <1>4, PassKeeps DEF UnblockedTyped

\* At first there is no firing.
LEMMA UnblockedBegin == U!UInit => UnblockedInv /\ TellInv
<1> SUFFICES ASSUME U!UInit PROVE UnblockedInv /\ TellInv
  OBVIOUS
<1> USE LedgersAssumption DEF U!UInit
<1>1. log = <<>> /\ log \in Seq([bead : Blocked, at : Nat]) /\ DOMAIN log = {} /\ Len(log) = 0
  BY EmptySeq
<1>2. Logged
  BY <1>1 DEF Logged
<1>3. U!Rest \in Reading
  BY DEF U!Rest, Reading
<1>4. UnblockedTyped
  BY <1>1, <1>2, <1>3 DEF UnblockedTyped
<1>5. Reaches(cursor.since, cursor.done) /\ \A p \in Passes : Complete(p)
  BY <1>1 DEF Reaches, Complete, U!Rest
<1>6. TellInv
  BY DEF TellInv, U!Rest
<1> QED BY <1>4, <1>5, <1>6 DEF UnblockedInv

\* Every step keeps the invariant, whether passes overlap or not.
LEMMA UnblockedStep == UnblockedInv /\ [U!UNext]_U!uvars => UnblockedInv'
<1> SUFFICES ASSUME UnblockedInv, [U!UNext]_U!uvars PROVE UnblockedInv'
  OBVIOUS
<1>1. CASE UNCHANGED U!uvars
  <2>1. UNCHANGED <<status, log, cursor, pass, dealt>>
    BY <1>1 DEF U!uvars
  <2> QED BY <2>1 DEF UnblockedInv, UnblockedTyped, Logged, Reaches, Complete
<1>2. CASE U!UNext
  BY <1>2, MoveKeeps, FireKeeps, LoadKeeps, ShowKeeps, ReopenKeeps, TellKeeps, EndKeeps DEF U!UNext
<1> QED BY <1>1, <1>2

-----------------------------------------------------------------------------
(* Unblocked: one pass at a time tells of a firing once.                    *)

\* What TellInv says of one pass and its ledger.
Tells(p) ==
  /\ pass[p].left \intersect pass[p].done = {}
  /\ pass[p].pc # "idle" =>
        \A f \in 1 .. MaxFirings : heard[f] <= ufalls + (IF f \in pass[p].done THEN 1 ELSE 0)

\* A pass at work goes on, alone, and what is told since is in its ledger.
LEMMA AloneTells ==
  ASSUME UnblockedInv, TellInv, NEW p \in Passes, pass[p].pc # "idle",
         NEW x \in Reading, x.pc # "idle", pass' = [pass EXCEPT ![p] = x],
         heard' \in [1 .. MaxFirings -> Nat], ufalls' = ufalls, Tells(p)'
  PROVE  TellInv'
<1>1. /\ pass'[p] = x /\ \A q \in Passes : q # p => pass'[q] = pass[q] /\ pass[q].pc = "idle"
  BY DEF UnblockedInv, UnblockedTyped, TellInv
<1> QED BY <1>1 DEF TellInv, Tells

\* A step of a pass that tells nothing, does not end it, and leaves no more to do.
LEMMA SilentTells ==
  ASSUME UnblockedInv, TellInv, NEW p \in Passes, pass[p].pc # "idle",
         \/ U!Breaks(p)
         \/ \E pc1 \in {"reopen", "tell"}, v \in U!Verdicts :
              pass' = [pass EXCEPT ![p] = [pass[p] EXCEPT !.pc = pc1, !.verdict = v]]
         \/ pass' = [pass EXCEPT ![p] = [pass[p] EXCEPT !.pc = "tell"]],
         UNCHANGED <<heard, ufalls>>
  PROVE  TellInv'
<1>0. UnblockedTyped /\ pass[p] \in Reading
  BY DEF UnblockedInv, UnblockedTyped
<1> DEFINE Goes(x) == /\ pass' = [pass EXCEPT ![p] = x] /\ x.pc # "idle"
                      /\ x.left \subseteq pass[p].left /\ x.done = pass[p].done
<1>1. PICK x \in Reading : Goes(x)
  <2>1. CASE U!Breaks(p)
    <3>1. [pass[p] EXCEPT !.pc = "next", !.left = {}] \in Reading
      BY <1>0 DEF Reading
    <3> QED BY <1>0, <2>1, <3>1 DEF U!Breaks, U!Becomes, Reading
  <2>2. ASSUME NEW pc1 \in {"reopen", "tell"}, NEW v \in U!Verdicts,
               pass' = [pass EXCEPT ![p] = [pass[p] EXCEPT !.pc = pc1, !.verdict = v]]
        PROVE  \E x \in Reading : Goes(x)
    <3>1. [pass[p] EXCEPT !.pc = pc1, !.verdict = v] \in Reading
      BY <1>0 DEF Reading
    <3> QED BY <1>0, <2>2, <3>1 DEF Reading
  <2>3. CASE pass' = [pass EXCEPT ![p] = [pass[p] EXCEPT !.pc = "tell"]]
    <3>1. [pass[p] EXCEPT !.pc = "tell"] \in Reading
      BY <1>0 DEF Reading
    <3> QED BY <1>0, <2>3, <3>1 DEF Reading
  <2> QED BY <2>1, <2>2, <2>3
<1>2. pass'[p] = x
  BY <1>0, <1>1 DEF UnblockedTyped
<1>3. Tells(p)'
  BY <1>1, <1>2 DEF Tells, TellInv
<1>4. heard' \in [1 .. MaxFirings -> Nat]
  BY DEF TellInv
<1> QED BY <1>1, <1>3, <1>4, AloneTells

\* A pass that starts alone has the ledger for its own.
LEMMA LoadTells ==
  ASSUME Serial, UnblockedInv, TellInv, NEW p \in Passes, U!Load(p)
  PROVE  TellInv'
<1> DEFINE x == [pc |-> "next", left |-> U!Unread(cursor.since) \ cursor.done, verdict |-> None,
                 since |-> cursor.since, done |-> cursor.done]
<1>1. /\ pass' = [pass EXCEPT ![p] = x] /\ UNCHANGED <<cursor, ufalls, heard>>
      /\ \A q \in Passes : pass[q].pc = "idle"
  BY DEF U!Load, U!Becomes, U!Heard, U!At
<1>2. x.left \intersect x.done = {} /\ x.done = cursor.done /\ x.pc = "next"
  OBVIOUS
<1> HIDE DEF x
<1>3. pass'[p] = x /\ \A q \in Passes : q # p => pass'[q] = pass[q]
  BY <1>1 DEF UnblockedInv, UnblockedTyped
<1> QED BY <1>1, <1>2, <1>3 DEF TellInv

\* What is dealt with, told of or not, is in the ledger of the pass from then on.
LEMMA DealtTells ==
  ASSUME UnblockedInv, TellInv, NEW p \in Passes, pass[p].pc = "tell", U!Dealt(p),
         ufalls' = ufalls,
         heard' \in {heard, [heard EXCEPT ![U!First(p)] = @ + 1]}
  PROVE  TellInv'
<1> USE LedgersAssumption
<1>0. UnblockedTyped /\ Complete(p) /\ pass[p] \in Reading /\ pass[p].left # {}
  BY DEF UnblockedInv, UnblockedTyped, Complete
<1> DEFINE f == U!First(p)
           x == [pc |-> "next", left |-> pass[p].left \ {f}, verdict |-> None,
                 done |-> pass[p].done \union {f},
                 since |-> IF log[f].at > pass[p].since THEN log[f].at ELSE pass[p].since]
<1>1. f \in pass[p].left /\ f \in 1 .. MaxFirings /\ f \in DOMAIN log
  BY <1>0, PassFields, FiringFacts
<1>2. pass' = [pass EXCEPT ![p] = x] /\ heard' \in {heard, [heard EXCEPT ![f] = @ + 1]}
  BY DEF U!Dealt, U!Becomes
<1> HIDE DEF f
<1>3. log[f].at \in Nat /\ pass[p].since \in Nat /\ f \in Nat
  BY <1>0, <1>1, FiringFacts DEF Reading
<1>4. x \in Reading
  BY <1>0, <1>3 DEF Reading
<1>5. x.pc = "next" /\ x.left = pass[p].left \ {f} /\ x.done = pass[p].done \union {f}
  OBVIOUS
<1> HIDE DEF x
<1>6. pass'[p] = x
  BY <1>0, <1>2 DEF UnblockedTyped
<1>7. /\ heard \in [1 .. MaxFirings -> Nat] /\ ufalls \in Nat
      /\ pass[p].left \intersect pass[p].done = {}
      /\ \A g \in 1 .. MaxFirings : heard[g] <= ufalls + (IF g \in pass[p].done THEN 1 ELSE 0)
  BY DEF TellInv
<1>8. heard' \in [1 .. MaxFirings -> Nat]
  <2>1. heard[f] + 1 \in Nat
    BY <1>1, <1>7
  <2>2. [heard EXCEPT ![f] = @ + 1] \in [1 .. MaxFirings -> Nat]
    BY <1>7, <2>1
  <2> QED BY <1>2, <1>7, <2>2
<1>9. ASSUME NEW g \in 1 .. MaxFirings
      PROVE  heard'[g] <= ufalls + (IF g \in x.done THEN 1 ELSE 0)
  <2>1. heard[g] \in Nat /\ heard[g] <= ufalls + (IF g \in pass[p].done THEN 1 ELSE 0)
    BY <1>7
  <2>2. CASE g = f
    <3>1. heard[g] <= ufalls /\ heard'[g] <= heard[g] + 1 /\ g \in x.done
      BY <1>1, <1>2, <1>5, <1>7, <2>1, <2>2
    <3>2. heard'[g] \in Nat
      BY <1>8
    <3> QED BY <1>7, <2>1, <3>1, <3>2
  <2>3. CASE g # f
    BY <1>2, <1>5, <1>7, <2>1, <2>3
  <2> QED BY <2>2, <2>3
<1>10. Tells(p)'
  BY <1>5, <1>6, <1>7, <1>9 DEF Tells
<1> QED BY <1>2, <1>4, <1>5, <1>8, <1>10, AloneTells

\* The ledger that is written back is that of the pass; a death forgets what was told.
LEMMA EndTells ==
  ASSUME UnblockedInv, TellInv, NEW p \in Passes, U!Save(p) \/ U!Falls(p)
  PROVE  TellInv'
<1>1. CASE U!Save(p)
  <2>1. /\ pass[p].pc = "next" /\ pass' = [pass EXCEPT ![p] = U!Rest]
        /\ cursor'.done = pass[p].done /\ UNCHANGED <<heard, ufalls>>
    BY <1>1 DEF U!Save, U!At, U!Becomes, U!Kept, U!Heard
  <2>2. /\ pass'[p].pc = "idle" /\ pass'[p].left = {}
        /\ \A q \in Passes : q # p => pass'[q] = pass[q] /\ pass[q].pc = "idle"
    BY <2>1 DEF UnblockedInv, UnblockedTyped, TellInv, U!Rest
  <2> QED BY <2>1, <2>2 DEF TellInv
<1>2. CASE U!Falls(p)
  <2>1. /\ pass[p].pc # "idle" /\ pass' = [pass EXCEPT ![p] = U!Rest]
        /\ cursor' = cursor /\ heard' = heard /\ ufalls' = ufalls + 1
    BY <1>2 DEF U!Falls, U!At, U!Becomes, U!Heard
  <2>2. /\ pass'[p].pc = "idle" /\ pass'[p].left = {}
        /\ \A q \in Passes : q # p => pass'[q] = pass[q] /\ pass[q].pc = "idle"
    BY <2>1 DEF UnblockedInv, UnblockedTyped, TellInv, U!Rest
  <2>3. \A f \in 1 .. MaxFirings : heard[f] \in Nat /\ heard[f] <= ufalls + 1 /\ ufalls \in Nat
    BY <2>1 DEF TellInv
  <2> QED BY <2>1, <2>2, <2>3 DEF TellInv
<1> QED BY <1>1, <1>2

\* Every step keeps it, one pass at a time.
LEMMA TellStep == Serial /\ UnblockedInv /\ TellInv /\ [U!UNext]_U!uvars => TellInv'
<1> SUFFICES ASSUME Serial, UnblockedInv, TellInv, [U!UNext]_U!uvars PROVE TellInv'
  OBVIOUS
<1>1. CASE UNCHANGED <<cursor, pass, heard, ufalls>>
  BY <1>1 DEF TellInv
<1>2. ASSUME NEW b \in Blocked, U!Move(b) \/ U!Fire(b)
      PROVE  UNCHANGED <<cursor, pass, heard, ufalls>>
  BY <1>2 DEF U!Move, U!Fire, U!Heard
<1>3. ASSUME NEW p \in Passes, U!Show(p) PROVE TellInv'
  <2>0. UnblockedTyped /\ Complete(p)
    BY DEF UnblockedInv
  <2>1. pass[p].pc = "next" /\ pass[p].left # {} /\ UNCHANGED <<heard, ufalls>>
    BY <1>3 DEF U!Show, U!At, U!Heard
  <2> DEFINE v == status[log[U!First(p)].bead]
             l == IF v = "corrected" THEN "reopen" ELSE "tell"
  <2>2. v \in U!Verdicts
    BY <2>0, <2>1, PassFields, FiringFacts DEF UnblockedTyped
  <2>3. \/ U!Breaks(p)
        \/ pass' = [pass EXCEPT ![p] = [pass[p] EXCEPT !.pc = l, !.verdict = v]]
    BY <1>3 DEF U!Show, U!Becomes
  <2>4. l \in {"reopen", "tell"}
    OBVIOUS
  <2> HIDE DEF l, v
  <2> QED BY <2>1, <2>2, <2>3, <2>4, SilentTells
<1>4. ASSUME NEW p \in Passes, U!Reopen(p) PROVE TellInv'
  <2>1. pass[p].pc = "reopen" /\ UNCHANGED <<heard, ufalls>>
    BY <1>4 DEF U!Reopen, U!At, U!Heard
  <2>2. U!Breaks(p) \/ pass' = [pass EXCEPT ![p] = [pass[p] EXCEPT !.pc = "tell"]]
    BY <1>4 DEF U!Reopen, U!Becomes
  <2> QED BY <2>1, <2>2, SilentTells
<1>5. ASSUME NEW p \in Passes, U!Tell(p) PROVE TellInv'
  <2>1. pass[p].pc = "tell" /\ ufalls' = ufalls
    BY <1>5 DEF U!Tell, U!At
  <2>2. CASE U!Breaks(p) /\ heard' = heard
    BY <2>1, <2>2, SilentTells
  <2>3. CASE U!Dealt(p) /\ heard' \in {heard, [heard EXCEPT ![U!First(p)] = @ + 1]}
    BY <2>1, <2>3, DealtTells
  <2> QED BY <1>5, <2>2, <2>3 DEF U!Tell
<1>6. CASE UNCHANGED U!uvars
  BY <1>1, <1>6 DEF U!uvars
<1> QED BY <1>1, <1>2, <1>3, <1>4, <1>5, <1>6, LoadTells, EndTells DEF U!UNext

\* A behaviour of the ledgers about unblock events is one of Unblocked.
LEMMA UnblockedOnly ==
  /\ LInit => U!UInit
  /\ [LNext]_all => subject' = subject /\ (subject = "unblocked" => [U!UNext]_U!uvars)
BY DEF LInit, LNext, all, unblocked, U!uvars

\* The invariant holds throughout.
LEMMA UnblockedInvariance == LSpec => [](subject = "unblocked" => UnblockedInv)
<1>1. LInit => (subject = "unblocked" => UnblockedInv)
  BY UnblockedOnly, UnblockedBegin
<1>2. (subject = "unblocked" => UnblockedInv) /\ [LNext]_all =>
        (subject = "unblocked" => UnblockedInv)'
  BY UnblockedOnly, UnblockedStep
<1> QED BY <1>1, <1>2, PTL DEF LSpec

\* A firing nobody dealt with is neither behind the cursor nor recorded as done, whatever
\* failed before it, however many share its second, and also where passes overlap and
\* write over each other's ledgers.
THEOREM NothingIsPassedOver == LSpec => []NothingPassedOver
<1>1. (subject = "unblocked" => UnblockedInv) => NothingPassedOver
  BY FiringFacts DEF UnblockedInv, Reaches, NothingPassedOver, U!NothingPassedOver, U!Unread
<1> QED BY <1>1, UnblockedInvariance, PTL

\* One pass at a time tells of a firing once, through failed reads, failed writes and
\* reports that did not arrive, and once more for each pass that died.
THEOREM FiringsAreReportedOnce == Serial => (LSpec => []ReportedOnce)
<1> SUFFICES ASSUME Serial PROVE LSpec => []ReportedOnce
  OBVIOUS
<1>1. LInit => (subject = "unblocked" => TellInv)
  BY UnblockedOnly, UnblockedBegin
<1>2. /\ (subject = "unblocked" => UnblockedInv) /\ (subject = "unblocked" => TellInv)
      /\ [LNext]_all
      => (subject = "unblocked" => TellInv)'
  BY UnblockedOnly, TellStep
<1>3. /\ (subject = "unblocked" => UnblockedInv) /\ (subject = "unblocked" => TellInv)
      => ReportedOnce
  <2> SUFFICES ASSUME UnblockedInv, TellInv, NEW f \in DOMAIN log PROVE heard[f] <= 1 + ufalls
    BY FiringFacts DEF UnblockedInv, ReportedOnce, U!ReportedOnce
  <2>1. f \in 1 .. MaxFirings
    BY FiringFacts DEF UnblockedInv
  <2>2. heard[f] \in Nat /\ ufalls \in Nat
    BY <2>1 DEF TellInv
  <2>3. heard[f] <= ufalls + 1 \/ heard[f] <= ufalls + 0
    BY <2>1 DEF TellInv
  <2> QED BY <2>2, <2>3
<1> QED BY <1>1, <1>2, <1>3, UnblockedInvariance, PTL DEF LSpec

-----------------------------------------------------------------------------
(* Deferrals: what is written to was looked at last, and what is told again *)
(* is told by a pass whose predecessor died before it recorded it.          *)

DeferralsTyped ==
  /\ row \in [Beads -> D!States] /\ sweep \in D!Pass \union {None}
  /\ noted \in [D!Things -> D!Findings \union {None}] /\ retries \in [D!Things -> 0 .. Limit]
  /\ said \in [D!Things -> D!Findings \union {None}] /\ repeats \in [D!Things -> Nat]
  /\ dfalls \in Nat

\* What was told and is not recorded so.
Unnoted(t) == said[t] # None /\ noted[t] # said[t]

\* An item is tried again, or judged, or neither yet; the one a pass writes to has its
\* condition met if nobody comes between, and the store is never up for a ruling.
Judged ==
  sweep # None =>
    /\ \A b \in sweep.retry \intersect Beads : sweep.reports[b] = None
    /\ \A b \in sweep.todo \union ({sweep.at} \intersect Beads) :
         sweep.reports[b] = None /\ b \notin sweep.retry
    /\ sweep.at \notin sweep.todo /\ sweep.reports[Store] # "ruling"
    /\ sweep.pc = "write" => sweep.at \in Beads /\ (Serial => row[sweep.at] = "met")

\* What differs from its record is paid for by a death, unless the pass at work is about
\* to record it.
Paid ==
  /\ said[Store] # "ruling"
  /\ \A t \in D!Things :
       /\ repeats[t] <= dfalls
       /\ Unnoted(t) =>
            \/ repeats[t] < dfalls
            \/ sweep # None /\ sweep.pc \in {"summary", "record"} /\ t \in D!Reported

DeferralsInv == DeferralsTyped /\ Judged /\ Paid

\* What is neither a state of an item nor of a finding.
LEMMA DeferralsNames ==
  /\ None \notin D!Findings /\ None \notin D!Pass /\ Store \in D!Things /\ Beads \subseteq D!Things
  /\ Store \notin Beads /\ \A t \in D!Things : t \in Beads \/ t = Store
  /\ None \notin Beads
BY LedgersAssumption, RecordsAssumption DEF D!Findings, D!Things

\* What a failure changes of a pass: it counts, and is tried again or reported.
LEMMA FailedFacts ==
  ASSUME DeferralsTyped, NEW x \in D!Pass, NEW t \in D!Things
  PROVE  /\ D!Failed(x, t) \in D!Pass
         /\ D!Failed(x, t).pc = x.pc /\ D!Failed(x, t).todo = x.todo
         /\ D!Failed(x, t).at = x.at
         /\ \A u \in D!Things : u # t => D!Failed(x, t).reports[u] = x.reports[u]
         /\ \/ D!Failed(x, t).reports = x.reports /\ D!Failed(x, t).retry = x.retry \union {t}
            \/ D!Failed(x, t).reports[t] = "failing" /\ D!Failed(x, t).retry = x.retry
<1> USE LedgersAssumption
<1> DEFINE count == IF retries[t] < Limit THEN retries[t] + 1 ELSE Limit
           counted == [x EXCEPT !.tally[t] = count]
<1>1. count \in 0 .. Limit
  BY DEF DeferralsTyped
<1>2. D!Failed(x, t) = IF count = Limit THEN [counted EXCEPT !.reports[t] = "failing"]
                                        ELSE [counted EXCEPT !.retry = @ \union {t}]
  BY DEF D!Failed
<1> HIDE DEF count
<1>3. /\ counted \in D!Pass /\ counted.pc = x.pc /\ counted.todo = x.todo /\ counted.at = x.at
      /\ counted.reports = x.reports /\ counted.retry = x.retry
  BY <1>1 DEF D!Pass
<1> HIDE DEF counted
<1>4. "failing" \in D!Findings
  BY DEF D!Findings
<1>5. CASE count = Limit
  <2>1. [counted EXCEPT !.reports[t] = "failing"] \in D!Pass
    BY <1>3, <1>4 DEF D!Pass
  <2> QED BY <1>2, <1>3, <1>5, <2>1 DEF D!Pass
<1>6. CASE count # Limit
  <2>1. [counted EXCEPT !.retry = @ \union {t}] \in D!Pass
    BY <1>3 DEF D!Pass
  <2> QED BY <1>2, <1>3, <1>6, <2>1 DEF D!Pass
<1> QED BY <1>5, <1>6

\* A pass that has not told anything yet, and goes on to tell no more.
LEMMA QuietKeeps ==
  ASSUME DeferralsInv, sweep = None \/ sweep.pc \in {"judge", "write"},
         row' \in [Beads -> D!States], sweep' \in D!Pass \union {None},
         retries' \in [D!Things -> 0 .. Limit],
         UNCHANGED <<noted, said, repeats, dfalls>>, Judged'
  PROVE  DeferralsInv'
<1>1. DeferralsTyped'
  BY DEF DeferralsInv, DeferralsTyped
<1>2. ASSUME NEW t \in D!Things PROVE Unnoted(t)' = Unnoted(t)
  BY DEF Unnoted
<1>3. \A t \in D!Things : Unnoted(t) => repeats[t] < dfalls
  BY DEF DeferralsInv, Paid
<1>4. Paid'
  BY <1>2, <1>3 DEF DeferralsInv, Paid
<1> QED BY <1>1, <1>4 DEF DeferralsInv

\* People move an item.
LEMMA MoveKeepsDeferrals ==
  ASSUME DeferralsInv, NEW b \in Beads, D!Move(b)
  PROVE  DeferralsInv'
<1>1. PICK state \in D!States : row' = [row EXCEPT ![b] = state]
  BY DEF D!Move
<1>2. /\ UNCHANGED <<sweep, noted, retries, said, repeats, dfalls>>
      /\ Serial /\ sweep # None => sweep.at # b
  BY DEF D!Move, D!Ledgers, D!Heard
<1>3. row' \in [Beads -> D!States] /\ \A c \in Beads : c # b => row'[c] = row[c]
  BY <1>1 DEF DeferralsInv, DeferralsTyped
<1>4. Judged'
  BY <1>2, <1>3 DEF DeferralsInv, Judged
<1>5. DeferralsTyped'
  BY <1>2, <1>3 DEF DeferralsInv, DeferralsTyped
<1>6. Paid'
  BY <1>2 DEF DeferralsInv, Paid, Unnoted, D!Reported
<1> QED BY <1>4, <1>5, <1>6 DEF DeferralsInv

\* A pass begins, whether it can read the store or not.
LEMMA BeginKeeps ==
  ASSUME DeferralsInv, D!Begin
  PROVE  DeferralsInv'
<1> USE DeferralsNames
<1>0. DeferralsTyped
  BY DEF DeferralsInv
<1> DEFINE fresh == [pc |-> "judge", seen |-> row, todo |-> {b \in Beads : row[b] # "free"},
                     at |-> None, tally |-> [t \in D!Things |-> 0],
                     reports |-> [t \in D!Things |-> None], retry |-> {}]
           blind == [fresh EXCEPT !.todo = {}, !.tally = retries,
                                  !.retry = {t \in D!Things : noted[t] # None}]
<1>1. /\ sweep = None /\ UNCHANGED <<row, noted, retries, said, repeats, dfalls>>
      /\ sweep' = fresh \/ sweep' = D!Failed(blind, Store)
  BY DEF D!Begin, D!Ledgers, D!Heard
<1>2. fresh \in D!Pass
  BY <1>0, LedgersAssumption DEF DeferralsTyped, D!Pass
<1>3. /\ blind \in D!Pass /\ blind.pc = "judge" /\ blind.todo = {} /\ blind.at = None
      /\ blind.reports = [t \in D!Things |-> None]
  BY <1>0, <1>2 DEF DeferralsTyped, D!Pass
<1>4. /\ fresh.pc = "judge" /\ fresh.at = None /\ fresh.retry = {} /\ fresh.todo \subseteq Beads
      /\ fresh.reports = [t \in D!Things |-> None]
  OBVIOUS
<1> HIDE DEF fresh, blind
<1>5. Judged'
  <2>1. CASE sweep' = fresh
    BY <1>4, <2>1, LedgersAssumption DEF Judged
  <2>2. CASE sweep' = D!Failed(blind, Store)
    <3>1. /\ sweep'.todo = {} /\ sweep'.at = None /\ sweep'.pc = "judge"
          /\ \A b \in Beads : sweep'.reports[b] = None
          /\ sweep'.reports[Store] \in {None, "failing"}
      BY <1>0, <1>3, <2>2, FailedFacts
    <3> QED BY <3>1, LedgersAssumption DEF Judged
  <2> QED BY <1>1, <2>1, <2>2
<1>6. sweep' \in D!Pass
  BY <1>0, <1>1, <1>2, <1>3, FailedFacts
<1> QED BY <1>0, <1>1, <1>5, <1>6, QuietKeeps DEF DeferralsTyped

\* An item is judged: it is kept for a ruling, tried again, left alone or written to next.
LEMMA JudgeKeeps ==
  ASSUME DeferralsInv, NEW b \in Beads, D!Judge(b)
  PROVE  DeferralsInv'
<1> USE DeferralsNames
<1>0. DeferralsTyped /\ Judged
  BY DEF DeferralsInv
<1> DEFINE rest == [sweep EXCEPT !.todo = @ \ {b}]
           ruled == [rest EXCEPT !.reports[b] = "ruling"]
           bound == [rest EXCEPT !.pc = "write", !.at = b]
<1>1. /\ sweep # None /\ sweep.pc = "judge" /\ b \in sweep.todo
      /\ UNCHANGED <<row, noted, retries, said, repeats, dfalls>>
      /\ \/ sweep' = D!Failed(rest, b) \/ sweep' = ruled \/ sweep' = rest
         \/ row[b] = "met" /\ sweep' = bound
  BY DEF D!Judge, D!At, D!Ledgers, D!Heard, D!LastLook
<1>2. sweep \in D!Pass
  BY <1>0, <1>1 DEF DeferralsTyped
<1>3. /\ rest \in D!Pass /\ rest.pc = "judge" /\ rest.todo = sweep.todo \ {b}
      /\ rest.at = sweep.at /\ rest.reports = sweep.reports /\ rest.retry = sweep.retry
  BY <1>1, <1>2 DEF D!Pass
<1> HIDE DEF rest
<1>4. "ruling" \in D!Findings
  BY DEF D!Findings
<1>5. /\ ruled \in D!Pass /\ ruled.pc = "judge" /\ ruled.todo = rest.todo /\ ruled.at = rest.at
      /\ ruled.reports[b] = "ruling" /\ ruled.retry = rest.retry
      /\ \A t \in D!Things : t # b => ruled.reports[t] = rest.reports[t]
  BY <1>3, <1>4 DEF D!Pass
<1> HIDE DEF ruled
<1>6. /\ bound \in D!Pass /\ bound.pc = "write" /\ bound.todo = rest.todo /\ bound.at = b
      /\ bound.reports = rest.reports /\ bound.retry = rest.retry
  BY <1>3 DEF D!Pass
<1> HIDE DEF bound
<1>7. sweep' \in D!Pass
  BY <1>0, <1>1, <1>3, <1>5, <1>6, FailedFacts
<1>8. /\ \A c \in sweep.retry \intersect Beads : sweep.reports[c] = None
      /\ \A c \in sweep.todo \union ({sweep.at} \intersect Beads) :
           sweep.reports[c] = None /\ c \notin sweep.retry
      /\ sweep.at \notin sweep.todo /\ sweep.reports[Store] # "ruling"
  BY <1>0, <1>1 DEF Judged
<1>9. Judged'
  <2>1. CASE sweep' = D!Failed(rest, b)
    <3>1. /\ sweep'.todo = sweep.todo \ {b} /\ sweep'.at = sweep.at /\ sweep'.pc = "judge"
          /\ \A u \in D!Things : u # b => sweep'.reports[u] = sweep.reports[u]
          /\ \/ sweep'.reports = sweep.reports /\ sweep'.retry = sweep.retry \union {b}
             \/ sweep'.reports[b] = "failing" /\ sweep'.retry = sweep.retry
      BY <1>0, <1>3, <2>1, FailedFacts
    <3>2. sweep.at # b /\ b \notin sweep.retry /\ sweep.reports[b] = None
      BY <1>1, <1>8
    <3>3. sweep.todo \subseteq Beads
      BY <1>2 DEF D!Pass
    <3>4. \A c \in sweep'.retry \intersect Beads : sweep'.reports[c] = None
      BY <1>8, <3>1, <3>2
    <3>5. ASSUME NEW c \in sweep'.todo \union ({sweep'.at} \intersect Beads)
          PROVE  sweep'.reports[c] = None /\ c \notin sweep'.retry
      BY <1>8, <3>1, <3>2, <3>3, <3>5
    <3>6. sweep'.reports[Store] # "ruling" /\ sweep'.at \notin sweep'.todo
      BY <1>8, <3>1
    <3> QED BY <3>1, <3>4, <3>5, <3>6 DEF Judged
  <2>2. CASE sweep' = ruled
    <3>1. /\ sweep'.todo = sweep.todo \ {b} /\ sweep'.at = sweep.at /\ sweep'.pc = "judge"
          /\ sweep'.retry = sweep.retry
          /\ \A u \in D!Things : u # b => sweep'.reports[u] = sweep.reports[u]
      BY <1>3, <1>5, <2>2
    <3>2. sweep.at # b /\ b \notin sweep.retry /\ Store # b
      BY <1>1, <1>8
    <3>3. sweep.todo \subseteq Beads
      BY <1>2 DEF D!Pass
    <3>4. \A c \in sweep'.retry \intersect Beads : sweep'.reports[c] = None
      BY <1>8, <3>1, <3>2
    <3>5. ASSUME NEW c \in sweep'.todo \union ({sweep'.at} \intersect Beads)
          PROVE  sweep'.reports[c] = None /\ c \notin sweep'.retry
      BY <1>8, <3>1, <3>2, <3>3, <3>5
    <3>6. sweep'.reports[Store] # "ruling" /\ sweep'.at \notin sweep'.todo
      BY <1>8, <3>1, <3>2
    <3> QED BY <3>1, <3>4, <3>5, <3>6 DEF Judged
  <2>3. CASE sweep' = rest
    BY <1>1, <1>3, <1>8, <2>3 DEF Judged
  <2>4. CASE row[b] = "met" /\ sweep' = bound
    BY <1>1, <1>3, <1>6, <1>8, <2>4 DEF Judged
  <2> QED BY <1>1, <2>1, <2>2, <2>3, <2>4
<1> QED BY <1>0, <1>1, <1>7, <1>9, QuietKeeps DEF DeferralsTyped

\* A write is tried once; it may land, and be seen to, or not.
LEMMA ReleaseKeeps ==
  ASSUME DeferralsInv, D!Release
  PROVE  DeferralsInv'
<1> USE DeferralsNames
<1>0. DeferralsTyped /\ Judged
  BY DEF DeferralsInv
<1> DEFINE back == [sweep EXCEPT !.pc = "judge", !.at = None]
<1>1. /\ sweep # None /\ sweep.pc = "write"
      /\ UNCHANGED <<noted, retries, said, repeats, dfalls>>
      /\ row' = row \/ row' = [row EXCEPT ![sweep.at] = "free"]
      /\ sweep' = back \/ sweep' = D!Failed(back, sweep.at)
  BY DEF D!Release, D!At, D!Ledgers, D!Heard
<1>2. sweep \in D!Pass /\ sweep.at \in Beads /\ sweep.at \in D!Things /\ sweep.todo \subseteq Beads
  BY <1>0, <1>1 DEF DeferralsTyped, Judged, D!Pass
<1>3. /\ back \in D!Pass /\ back.pc = "judge" /\ back.todo = sweep.todo /\ back.at = None
      /\ back.reports = sweep.reports /\ back.retry = sweep.retry
  BY <1>1, <1>2 DEF D!Pass
<1> HIDE DEF back
<1>4. [row EXCEPT ![sweep.at] = "free"] \in [Beads -> D!States]
  BY <1>0 DEF DeferralsTyped, D!States
<1>5. row' \in [Beads -> D!States] /\ sweep' \in D!Pass
  <2>1. D!Failed(back, sweep.at) \in D!Pass
    BY <1>0, <1>2, <1>3, FailedFacts
  <2> QED BY <1>0, <1>1, <1>3, <1>4, <2>1 DEF DeferralsTyped
<1>6. /\ \A c \in sweep.retry \intersect Beads : sweep.reports[c] = None
      /\ \A c \in sweep.todo : sweep.reports[c] = None /\ c \notin sweep.retry
      /\ sweep.reports[sweep.at] = None /\ sweep.at \notin sweep.retry
      /\ sweep.at \notin sweep.todo /\ sweep.reports[Store] # "ruling"
  BY <1>0, <1>1, <1>2 DEF Judged
<1>7. Judged'
  <2>1. CASE sweep' = back
    BY <1>2, <1>3, <1>6, <2>1 DEF Judged
  <2>2. CASE sweep' = D!Failed(back, sweep.at)
    <3>1. /\ sweep'.todo = sweep.todo /\ sweep'.at = None /\ sweep'.pc = "judge"
          /\ \A u \in D!Things : u # sweep.at => sweep'.reports[u] = sweep.reports[u]
          /\ \/ sweep'.reports = sweep.reports /\ sweep'.retry = sweep.retry \union {sweep.at}
             \/ sweep'.reports[sweep.at] = "failing" /\ sweep'.retry = sweep.retry
      <4> DEFINE failed == D!Failed(back, sweep.at)
      <4>1. /\ failed.todo = back.todo /\ failed.at = back.at /\ failed.pc = back.pc
            /\ \A u \in D!Things : u # sweep.at => failed.reports[u] = back.reports[u]
            /\ \/ failed.reports = back.reports /\ failed.retry = back.retry \union {sweep.at}
               \/ failed.reports[sweep.at] = "failing" /\ failed.retry = back.retry
        BY <1>0, <1>2, <1>3, FailedFacts
      <4>2. sweep' = failed
        BY <2>2
      <4> HIDE DEF failed
      <4> QED BY <1>3, <4>1, <4>2
    <3>3. \A c \in sweep'.retry \intersect Beads : sweep'.reports[c] = None
      BY <1>6, <3>1
    <3>4. ASSUME NEW c \in sweep'.todo \union ({sweep'.at} \intersect Beads)
          PROVE  sweep'.reports[c] = None /\ c \notin sweep'.retry
      BY <1>2, <1>6, <3>1, <3>4
    <3>5. sweep'.reports[Store] # "ruling" /\ sweep'.at \notin sweep'.todo
      BY <1>2, <1>6, <3>1
    <3> QED BY <3>1, <3>3, <3>4, <3>5 DEF Judged
  <2> QED BY <1>1, <2>1, <2>2
<1> QED BY <1>0, <1>1, <1>5, <1>7, QuietKeeps DEF DeferralsTyped

\* The count of the failures is saved.
LEMMA SaveKeeps ==
  ASSUME DeferralsInv, D!Save
  PROVE  DeferralsInv'
<1> USE DeferralsNames
<1>0. DeferralsTyped /\ Judged
  BY DEF DeferralsInv
<1>1. /\ sweep # None /\ sweep.pc = "judge" /\ UNCHANGED <<row, noted, said, repeats, dfalls>>
      /\ retries' = sweep.tally /\ sweep' = [sweep EXCEPT !.pc = "say"]
  BY DEF D!Save, D!At, D!Heard
<1>2. sweep \in D!Pass
  BY <1>0, <1>1 DEF DeferralsTyped
<1>3. /\ sweep' \in D!Pass /\ sweep'.pc = "say" /\ sweep'.todo = sweep.todo
      /\ sweep'.at = sweep.at /\ sweep'.reports = sweep.reports /\ sweep'.retry = sweep.retry
      /\ retries' \in [D!Things -> 0 .. Limit]
  BY <1>1, <1>2 DEF D!Pass
<1>4. Judged'
  BY <1>0, <1>1, <1>3 DEF Judged
<1> QED BY <1>0, <1>1, <1>3, <1>4, QuietKeeps DEF DeferralsTyped

\* A pass that has something to say goes on without another word on what was said before.
LEMMA SaysKeeps ==
  ASSUME DeferralsInv, sweep # None, NEW l \in {"summary", "record"},
         sweep' = [sweep EXCEPT !.pc = l],
         UNCHANGED <<row, noted, retries, dfalls>>,
         \/ sweep.pc \in {"say", "summary"} /\ UNCHANGED <<said, repeats>>
         \/ /\ sweep.pc = "say"
            /\ said' = [t \in D!Things |-> IF t \in D!News THEN sweep.reports[t] ELSE said[t]]
            /\ repeats' = [t \in D!Things |-> IF t \in D!News /\ said[t] = sweep.reports[t]
                                                THEN repeats[t] + 1 ELSE repeats[t]]
  PROVE  DeferralsInv'
<1> USE DeferralsNames
<1>0. DeferralsTyped /\ Judged /\ Paid /\ sweep \in D!Pass
  BY DEF DeferralsInv, DeferralsTyped
<1>1. /\ sweep' \in D!Pass /\ sweep'.pc = l /\ sweep'.todo = sweep.todo
      /\ sweep'.at = sweep.at /\ sweep'.reports = sweep.reports /\ sweep'.retry = sweep.retry
  BY <1>0 DEF D!Pass
<1>2. sweep.reports \in [D!Things -> D!Findings \union {None}] /\ sweep.reports[Store] # "ruling"
  BY <1>0 DEF D!Pass, Judged
<1>3. \A t \in D!News : t \in D!Reported /\ sweep.reports[t] # None /\ noted[t] # sweep.reports[t]
  BY DEF D!News, D!Reported
<1>4. /\ said \in [D!Things -> D!Findings \union {None}] /\ repeats \in [D!Things -> Nat]
      /\ dfalls \in Nat
  BY <1>0 DEF DeferralsTyped
<1>5. /\ said' \in [D!Things -> D!Findings \union {None}] /\ repeats' \in [D!Things -> Nat]
  BY <1>2, <1>4
<1>6. DeferralsTyped'
  BY <1>0, <1>1, <1>5 DEF DeferralsTyped
<1>7. Judged'
  BY <1>0, <1>1 DEF Judged
<1>8. D!Reported' = D!Reported
  BY <1>1 DEF D!Reported
<1>9. said'[Store] # "ruling"
  BY <1>0, <1>2 DEF Paid
<1>10. ASSUME NEW t \in D!Things
       PROVE  /\ repeats'[t] <= dfalls
              /\ Unnoted(t)' => repeats'[t] < dfalls \/ t \in D!Reported
  <2>1. /\ repeats[t] \in Nat /\ repeats[t] <= dfalls
        /\ Unnoted(t) => repeats[t] < dfalls \/ (sweep.pc # "say" /\ t \in D!Reported)
    BY <1>0, <1>4 DEF Paid
  <2>2. CASE said'[t] = said[t] /\ repeats'[t] = repeats[t]
    BY <2>1, <2>2 DEF Unnoted
  <2>3. CASE sweep.pc = "say" /\ t \in D!News /\ said[t] = sweep.reports[t]
               /\ repeats'[t] = repeats[t] + 1
    <3>1. Unnoted(t) /\ t \in D!Reported
      BY <1>3, <2>3 DEF Unnoted
    <3>2. repeats[t] + 1 <= dfalls
      BY <1>4, <2>1, <2>3, <3>1
    <3> QED BY <2>3, <3>1, <3>2
  <2>4. CASE t \in D!News /\ repeats'[t] = repeats[t]
    BY <1>3, <2>1, <2>4
  <2> QED BY <2>2, <2>3, <2>4
<1>11. Paid'
  BY <1>1, <1>8, <1>9, <1>10 DEF Paid
<1> QED BY <1>6, <1>7, <1>11 DEF DeferralsInv

\* A pass that ends has recorded what it found, but for what it could not deliver.
LEMMA SweepEnds ==
  ASSUME DeferralsInv, sweep # None, NEW unsaid \in {{}, D!News},
         unsaid # {} => sweep.pc = "say", D!Records(unsaid), D!Ends(unsaid),
         UNCHANGED <<row, retries, dfalls>>
  PROVE  DeferralsInv'
<1> USE DeferralsNames
<1>0. DeferralsTyped /\ Judged /\ Paid /\ sweep \in D!Pass
  BY DEF DeferralsInv, DeferralsTyped
<1>1. /\ sweep' = None /\ repeats' = repeats
      /\ noted' = [t \in D!Things |->
                     IF t \in D!Reported \ unsaid THEN sweep.reports[t]
                     ELSE IF t \in sweep.retry \union unsaid THEN noted[t] ELSE None]
      /\ said' = [t \in D!Things |-> IF \/ t \in unsaid \union sweep.retry
                                        \/ said[t] = sweep.reports[t] THEN said[t] ELSE None]
  BY DEF D!Records, D!Ends
<1>2. /\ sweep.reports \in [D!Things -> D!Findings \union {None}]
      /\ \A b \in sweep.retry \intersect Beads : sweep.reports[b] = None
      /\ sweep.reports[Store] # "ruling"
  BY <1>0 DEF D!Pass, Judged
<1>3. /\ noted \in [D!Things -> D!Findings \union {None}]
      /\ said \in [D!Things -> D!Findings \union {None}]
      /\ repeats \in [D!Things -> Nat] /\ dfalls \in Nat
  BY <1>0 DEF DeferralsTyped
<1>4. /\ noted' \in [D!Things -> D!Findings \union {None}]
      /\ said' \in [D!Things -> D!Findings \union {None}]
  BY <1>1, <1>2, <1>3
<1>5. DeferralsTyped'
  BY <1>0, <1>1, <1>4 DEF DeferralsTyped
<1>6. Judged'
  BY <1>1 DEF Judged
<1>7. said[Store] # "ruling" /\ said'[Store] # "ruling"
  BY <1>0, <1>1, LedgersAssumption DEF Paid
<1>8. ASSUME NEW t \in D!Things PROVE Unnoted(t)' => repeats[t] < dfalls
  <2>1. Unnoted(t) => \/ repeats[t] < dfalls
                      \/ sweep.pc \in {"summary", "record"} /\ t \in D!Reported
    BY <1>0 DEF Paid
  <2>2. CASE t \in unsaid
    BY <1>1, <2>1, <2>2 DEF Unnoted
  <2>3. CASE t \notin unsaid /\ t \in D!Reported
    <3>1. noted'[t] = sweep.reports[t] /\ sweep.reports[t] # None
      BY <1>1, <2>3 DEF D!Reported
    <3>2. CASE t \in sweep.retry
      <4>1. t = Store
        BY <1>2, <3>1, <3>2
      <4>2. sweep.reports[t] = "failing" /\ said'[t] \in {None, "failing"}
        BY <1>2, <1>4, <1>7, <3>1, <4>1 DEF D!Findings
      <4> QED BY <3>1, <4>2 DEF Unnoted
    <3>3. CASE t \notin sweep.retry
      BY <1>1, <2>3, <3>1, <3>3 DEF Unnoted
    <3> QED BY <3>2, <3>3
  <2>4. CASE t \notin unsaid /\ t \notin D!Reported
    <3>1. sweep.reports[t] = None
      BY <2>4 DEF D!Reported
    <3>2. CASE t \in sweep.retry
      BY <1>1, <2>1, <2>4, <3>2 DEF Unnoted
    <3>3. CASE t \notin sweep.retry
      BY <1>1, <2>4, <3>1, <3>3 DEF Unnoted
    <3> QED BY <3>2, <3>3
  <2> QED BY <2>2, <2>3, <2>4
<1>9. Paid'
  BY <1>0, <1>1, <1>7, <1>8 DEF Paid
<1> QED BY <1>5, <1>6, <1>9 DEF DeferralsInv

\* A pass that dies pays for one repetition of everything.
LEMMA FallsKeeps ==
  ASSUME DeferralsInv, D!Falls
  PROVE  DeferralsInv'
<1>1. /\ sweep' = None /\ UNCHANGED <<row, noted, retries, said, repeats>>
      /\ dfalls' = dfalls + 1
  BY DEF D!Falls, D!Ledgers, D!Heard
<1>2. DeferralsTyped'
  BY <1>1 DEF DeferralsInv, DeferralsTyped
<1>3. ASSUME NEW t \in D!Things PROVE repeats[t] < dfalls + 1
  BY <1>1 DEF DeferralsInv, DeferralsTyped, Paid
<1>4. said[Store] # "ruling" /\ dfalls \in Nat /\ \A t \in D!Things : repeats[t] \in Nat
  BY DEF DeferralsInv, DeferralsTyped, Paid
<1>5. Paid'
  BY <1>1, <1>3, <1>4 DEF Paid
<1>6. Judged'
  BY <1>1 DEF Judged
<1> QED BY <1>2, <1>5, <1>6 DEF DeferralsInv

\* At first nothing was found or told.
LEMMA DeferralsBegin == D!DInit => DeferralsInv
<1> SUFFICES ASSUME D!DInit PROVE DeferralsInv
  OBVIOUS
<1> USE LedgersAssumption, DeferralsNames DEF D!DInit
<1>1. DeferralsTyped
  BY DEF DeferralsTyped
<1>2. Judged
  BY DEF Judged
<1>3. Paid
  BY DEF Paid, Unnoted
<1> QED BY <1>1, <1>2, <1>3 DEF DeferralsInv

\* Every step keeps the invariant.
LEMMA DeferralsStep == DeferralsInv /\ [D!DNext]_D!dvars => DeferralsInv'
<1> SUFFICES ASSUME DeferralsInv, [D!DNext]_D!dvars PROVE DeferralsInv'
  OBVIOUS
<1>1. CASE UNCHANGED D!dvars
  <2>1. UNCHANGED <<row, noted, retries, sweep, said, repeats, dfalls>>
    BY <1>1 DEF D!dvars
  <2> QED BY <2>1 DEF DeferralsInv, DeferralsTyped, Judged, Paid, Unnoted, D!Reported
<1>2. CASE D!Push
  <2>1. /\ sweep # None /\ sweep.pc = "say" /\ UNCHANGED <<row, retries, dfalls>>
    BY <1>2 DEF D!Push, D!At
  <2>2. CASE D!Records(D!News) /\ D!Ends(D!News)
    BY <2>1, <2>2, SweepEnds
  <2>3. CASE D!Step("summary") /\ noted' = noted /\ ~(D!Records(D!News) /\ D!Ends(D!News))
    BY <1>2, <2>1, <2>3, SaysKeeps DEF D!Push, D!Step
  <2> QED BY <1>2, <2>2, <2>3 DEF D!Push
<1>3. CASE D!Suppress \/ D!Silent \/ D!Summarise
  <2>1. /\ sweep # None /\ sweep.pc \in {"say", "summary"}
        /\ sweep' = [sweep EXCEPT !.pc = "record"]
        /\ UNCHANGED <<row, noted, retries, said, repeats, dfalls>>
    BY <1>3 DEF D!Suppress, D!Silent, D!Summarise, D!At, D!Step, D!Ledgers, D!Heard
  <2> QED BY <2>1, SaysKeeps
<1>4. CASE D!Record
  <2>1. /\ sweep # None /\ D!Records({}) /\ D!Ends({}) /\ UNCHANGED <<row, retries, dfalls>>
    BY <1>4 DEF D!Record, D!At
  <2> QED BY <2>1, SweepEnds
<1> QED BY <1>1, <1>2, <1>3, <1>4, MoveKeepsDeferrals, BeginKeeps, JudgeKeeps, ReleaseKeeps,
           SaveKeeps, FallsKeeps DEF D!DNext

\* A behaviour of the ledgers about deferrals is one of Deferrals.
LEMMA DeferralsOnly ==
  /\ LInit => D!DInit
  /\ [LNext]_all => /\ subject' = subject
                    /\ subject = "deferrals" => [D!DNext]_D!dvars
                    /\ subject # "deferrals" => UNCHANGED D!dvars
BY DEF LInit, LNext, all, deferrals, D!dvars

\* The invariant holds throughout, whether people come between or not.
LEMMA DeferralsInvariance == LSpec => [](subject = "deferrals" => DeferralsInv)
<1>1. LInit => (subject = "deferrals" => DeferralsInv)
  BY DeferralsOnly, DeferralsBegin
<1>2. (subject = "deferrals" => DeferralsInv) /\ [LNext]_all =>
        (subject = "deferrals" => DeferralsInv)'
  BY DeferralsOnly, DeferralsStep
<1> QED BY <1>1, <1>2, PTL DEF LSpec

\* The administrator hears of a state again only where a pass died after it was told and
\* before it was recorded: failed reads, failed deliveries and retries repeat nothing.
THEOREM StatesAreToldOnce == LSpec => []SaidOnce
<1>1. (subject = "deferrals" => DeferralsInv) => SaidOnce
  BY DEF DeferralsInv, Paid, SaidOnce, D!SaidOnce
<1> QED BY <1>1, DeferralsInvariance, PTL

\* An item is written to only while its condition is met: the last look at it decides, not
\* the list the pass began with, and a write that failed is not tried again by itself.
THEOREM WritesAreMet == Serial => (LSpec => ReleasedWhenMet)
<1> SUFFICES ASSUME Serial PROVE LSpec => ReleasedWhenMet
  OBVIOUS
<1>1. (subject = "deferrals" => DeferralsInv) /\ [LNext]_all =>
        [\A b \in Beads : D!At("write") /\ sweep.at = b /\ row'[b] # row[b]
           => row[b] = "met"]_D!dvars
  <2> SUFFICES ASSUME subject = "deferrals" => DeferralsInv, [LNext]_all,
                      D!dvars' # D!dvars, NEW b \in Beads, D!At("write"), sweep.at = b
               PROVE  row[b] = "met"
    OBVIOUS
  <2> QED BY DeferralsOnly DEF DeferralsInv, Judged, D!At
<1> QED BY <1>1, DeferralsInvariance, PTL DEF LSpec, ReleasedWhenMet, D!ReleasedWhenMet

-----------------------------------------------------------------------------
(* Reminders: a message that arrived is known by an entry, or as one in      *)
(* doubt, and whoever has one in doubt is sent nothing.                      *)

\* How often each item was changed; the messages; what a pass may have in hand.
Counts  == [R!Listable -> Nat]
Letters == [n : Nat, to : Recipients, at : Nat, moves : Counts, keys : SUBSET R!Episodes]
Steps   == [pc : {"idle", "read", "settle", "deliver", "ack"}, at : Nat, moves : Counts,
            to : Recipients \union {None}, live : SUBSET R!Episodes,
            todo : SUBSET (Recipients \union Unlocks),
            groups : SUBSET (Recipients \X R!Episodes), sent : SUBSET Recipients]

RemindersTyped ==
  /\ board \in [R!Listable -> Recipients \union {None}] /\ day \in Nat /\ packets \in Nat
  /\ entries \in [R!Episodes -> R!Entry \union {None}]
  /\ pending \in [Recipients -> R!Packet \union {None}]
  /\ acked \in [Unlocks -> Nat \union {None}]
  /\ moves \in Counts /\ mail \subseteq Letters /\ step \in Steps

\* A message is the one packet of its number; a pass began after those of every message,
\* and read the board after them.
NumberedOnce ==
  /\ \A m \in mail : m.n < packets
  /\ \A r \in Recipients : pending[r] # None =>
       /\ pending[r].n < packets
       /\ \A m \in mail : m.n = pending[r].n => m.to = r /\ m.keys = pending[r].keys
       /\ \A s \in Recipients : pending[s] # None /\ pending[s].n = pending[r].n => s = r

\* A pass that has read the board.
Past == step.pc \in {"settle", "deliver", "ack"}

InOrder ==
  /\ \A m \in mail : m.at <= day /\ \A i \in R!Listable : m.moves[i] <= moves[i]
  /\ step.pc # "idle" => step.at <= day /\ \A m \in mail : m.at <= step.at
  /\ Past =>
       /\ \A i \in R!Listable : step.moves[i] <= moves[i]
       /\ \A m \in mail : \A i \in R!Listable : m.moves[i] <= step.moves[i]

\* An item nobody changed since it was read is told to the recipient it has on the board,
\* and is live to any pass.
Theirs(r, k, then) ==
  k[1] \in Due /\ then[k[1]] = moves[k[1]] => board[k[1]] = r /\ k[2] = r

Placed ==
  /\ \A m \in mail : \A k \in m.keys : Theirs(m.to, k, m.moves)
  /\ step.pc = "deliver" => \A k \in pending[step.to].keys : Theirs(step.to, k, step.moves)
  /\ \A g \in step.groups : Theirs(g[1], g[2], step.moves)
  /\ Past => \A d \in Due : step.moves[d] = moves[d] /\ board[d] # None =>
                                   <<d, board[d]>> \in step.live

\* What a message told is in the entries since, unless it is in doubt or was changed.
Entered(m, k) ==
  \/ pending[m.to] # None /\ pending[m.to].n = m.n
  \/ entries[k] # None /\ m.at <= entries[k].at
  \/ k[1] \in Due /\ m.moves[k[1]] # moves[k[1]]

KnownAll == \A m \in mail : \A k \in m.keys : Entered(m, k)

\* What a pass tells would be told for the first time that day.
Spares(r, k) ==
  \A m \in mail : m.to = r /\ k \in m.keys =>
    k[1] \in Due /\ (m.at < step.at \/ m.moves[k[1]] # step.moves[k[1]])

Grouped ==
  /\ step.groups # {} => Past
  /\ \A g \in step.groups :
       pending[g[1]] = None /\ g[1] \notin step.sent => Spares(g[1], g[2])
  /\ step.pc = "settle" => \A r \in step.todo : r \in Recipients /\ pending[r] # None
  /\ step.pc = "deliver" =>
       /\ step.todo = {}
       /\ step.to \in Recipients /\ pending[step.to] # None
       /\ \A m \in mail : m.n # pending[step.to].n
       /\ \A k \in pending[step.to].keys : Spares(step.to, k)

\* The receipt of an entry is that of a message that told it.
Receipted(k, n) == \E m \in mail : m.n = n /\ k \in m.keys

Vouched ==
  /\ \A k \in R!Episodes : entries[k] # None => Receipted(k, entries[k].receipt)
  /\ \A u \in Unlocks : acked[u] # None => Receipted(<<u, None>>, acked[u])
  /\ step.pc = "ack" => \A u \in step.todo : u \in Unlocks /\ entries[<<u, None>>] # None

RemindersInv ==
  /\ RemindersTyped /\ NumberedOnce /\ InOrder /\ Placed /\ KnownAll /\ Grouped /\ Vouched
  /\ R!ToldOnce

\* An episode is a due item of a recipient, or an unlock event.
LEMMA EpisodeFacts ==
  /\ \A k \in R!Episodes : \/ k[1] \in Due /\ k[2] \in Recipients /\ k = <<k[1], k[2]>>
                           \/ k[1] \in Unlocks /\ k[2] = None /\ k = <<k[1], None>>
  /\ \A i \in Due : \A r \in Recipients : <<i, r>> \in R!Episodes
  /\ \A u \in Unlocks : <<u, None>> \in R!Episodes
  /\ Due \subseteq R!Listable /\ Unlocks \subseteq R!Listable
  /\ \A i \in R!Listable : i \in Due \/ i \in Unlocks
  /\ \A i \in Due : i \notin Unlocks
BY LedgersAssumption DEF R!Episodes, R!Listable

\* No recipient, packet or entry is none.
LEMMA RemindersNames ==
  None \notin Recipients /\ None \notin R!Packet /\ None \notin R!Entry
BY LedgersAssumption, RecordsAssumption

\* What is not live to a pass was changed since any message told it.
LEMMA LiveUnlessMoved ==
  ASSUME RemindersInv, Past, NEW m \in mail, NEW k \in m.keys, k[1] \in Due, k \notin step.live
  PROVE  m.moves[k[1]] # moves[k[1]]
<1> USE EpisodeFacts, RemindersNames
<1>0. RemindersTyped /\ InOrder /\ Placed
  BY DEF RemindersInv
<1> SUFFICES ASSUME m.moves[k[1]] = moves[k[1]] PROVE FALSE
  OBVIOUS
<1>1. /\ k \in R!Episodes /\ k[1] \in R!Listable /\ m.to \in Recipients
      /\ step.moves[k[1]] \in Nat /\ moves[k[1]] \in Nat
  BY <1>0 DEF RemindersTyped, Letters, Steps, Counts
<1>2. step.moves[k[1]] = moves[k[1]]
  BY <1>0, <1>1 DEF InOrder
<1>3. board[k[1]] = m.to /\ k[2] = m.to
  BY <1>0 DEF Placed, Theirs
<1>4. <<k[1], board[k[1]]>> \in step.live
  BY <1>0, <1>1, <1>2, <1>3 DEF Placed
<1> QED BY <1>1, <1>3, <1>4

\* A pass that is over, or has just begun, has nothing in hand.
LEMMA RestingFacts ==
  /\ R!Resting.pc = "idle" /\ R!Resting.groups = {} /\ R!Resting.todo = {}
  /\ R!Resting \in Steps
BY DEF R!Resting, R!Unmoved, Steps, Counts

\* People move items, a day passes, or the pass dies.
LEMMA BoardKeeps ==
  ASSUME RemindersInv, R!Board \/ R!Tomorrow \/ R!Dies
  PROVE  RemindersInv'
<1> USE EpisodeFacts
<1>0. RemindersTyped /\ NumberedOnce /\ InOrder /\ Placed /\ KnownAll /\ Grouped /\ Vouched /\ R!ToldOnce
  BY DEF RemindersInv
<1>1. /\ UNCHANGED <<entries, pending, mail, packets, acked>>
      /\ board' \in [R!Listable -> Recipients \union {None}] /\ moves' \in Counts
      /\ \A i \in R!Listable : \/ moves'[i] = moves[i] /\ board'[i] = board[i]
                               \/ moves'[i] = moves[i] + 1
      /\ day' \in Nat /\ day <= day'
      /\ step' \in {step, R!Resting}
  <2>1. CASE R!Board
    <3>1. PICK i \in R!Listable : \E r \in (Recipients \union {None}) \ {board[i]} :
            board' = [board EXCEPT ![i] = r] /\ moves' = [moves EXCEPT ![i] = @ + 1]
      BY <2>1 DEF R!Board
    <3>2. UNCHANGED <<day, entries, pending, step, mail, packets, acked>>
      BY <2>1 DEF R!Board
    <3> QED BY <1>0, <3>1, <3>2 DEF RemindersTyped, Counts
  <2>2. CASE R!Tomorrow
    BY <1>0, <2>2 DEF R!Tomorrow, RemindersTyped
  <2>3. CASE R!Dies
    BY <1>0, <2>3 DEF R!Dies, RemindersTyped
  <2> QED BY <2>1, <2>2, <2>3
<1>2. /\ step' = step \/ (step'.pc = "idle" /\ step'.groups = {})
      /\ step'.pc # "idle" => step' = step
      /\ step'.groups # {} => step' = step
      /\ Past' => Past /\ step' = step
  BY <1>1, RestingFacts DEF Past
<1>3. RemindersTyped'
  BY <1>0, <1>1, RestingFacts DEF RemindersTyped
<1>4. \A i \in R!Listable : moves[i] \in Nat /\ moves'[i] \in Nat /\ moves[i] <= moves'[i]
  BY <1>0, <1>1 DEF RemindersTyped, Counts
<1>5. /\ \A m \in mail : /\ m.at \in Nat /\ m.moves \in Counts
                         /\ \A i \in R!Listable : m.moves[i] \in Nat /\ m.moves[i] <= moves[i]
      /\ step.at \in Nat /\ \A i \in R!Listable : step.moves[i] \in Nat
      /\ day \in Nat
  BY <1>0 DEF RemindersTyped, Letters, Steps, Counts, InOrder
<1>6. NumberedOnce'
  BY <1>0, <1>1 DEF NumberedOnce
<1>7. InOrder'
  BY <1>0, <1>1, <1>2, <1>4, <1>5 DEF InOrder
<1>8. Placed'
  <2>1. ASSUME NEW r, NEW k, NEW then, Theirs(r, k, then),
               \A i \in R!Listable : then[i] \in Nat /\ then[i] <= moves[i]
        PROVE  Theirs(r, k, then)'
    BY <1>1, <1>4, <2>1 DEF Theirs
  <2>2. \A m \in mail' : \A k \in m.keys : Theirs(m.to, k, m.moves)'
    BY <1>0, <1>1, <1>5, <2>1 DEF Placed
  <2>3. Past => \A i \in R!Listable : step.moves[i] \in Nat /\ step.moves[i] <= moves[i]
    BY <1>0, <1>5 DEF InOrder
  <2>4. step.groups # {} => Past
    BY <1>0 DEF Grouped
  <2>5. \A g \in step'.groups : Theirs(g[1], g[2], step.moves)'
    BY <1>0, <1>2, <2>1, <2>3, <2>4 DEF Placed
  <2>6. step'.pc = "deliver" => \A k \in pending'[step'.to].keys : Theirs(step.to, k, step.moves)'
    BY <1>0, <1>1, <1>2, <2>1, <2>3 DEF Placed, Past
  <2>7. Past' => \A d \in Due : step'.moves[d] = moves'[d] /\ board'[d] # None =>
                                  <<d, board'[d]>> \in step'.live
    BY <1>0, <1>1, <1>2, <1>4, <2>3 DEF Placed
  <2> QED BY <2>2, <2>5, <2>6, <2>7 DEF Placed
<1>9. KnownAll'
  <2>1. ASSUME NEW m \in mail, NEW k \in m.keys PROVE Entered(m, k)'
    <3>1. Entered(m, k)
      BY <1>0 DEF KnownAll
    <3>2. CASE k[1] \in Due /\ m.moves[k[1]] # moves[k[1]]
      BY <1>4, <1>5, <1>1, <3>2 DEF Entered
    <3> QED BY <1>1, <3>1, <3>2 DEF Entered
  <2> QED BY <1>1, <2>1 DEF KnownAll
<1>10. Grouped'
  <2>1. CASE step'.pc = "idle" /\ step'.groups = {}
    BY <2>1 DEF Grouped
  <2>2. CASE step' = step
    BY <1>0, <1>1, <2>2 DEF Grouped, Spares, Past
  <2> QED BY <1>2, <2>1, <2>2
<1>11. Vouched' /\ R!ToldOnce'
  BY <1>0, <1>1, <1>2 DEF Vouched, Receipted, R!ToldOnce
<1> QED BY <1>3, <1>6, <1>7, <1>8, <1>9, <1>10, <1>11 DEF RemindersInv

\* A pass begins on a day, or fails to read: it has nothing in hand.
LEMMA EmptyKeeps ==
  ASSUME RemindersInv, UNCHANGED <<board, day, moves, entries, pending, mail, packets, acked>>,
         step' \in Steps, step'.pc \in {"idle", "read"}, step'.groups = {},
         step'.pc = "read" => step'.at = day
  PROVE  RemindersInv'
<1>0. RemindersTyped /\ NumberedOnce /\ InOrder /\ Placed /\ KnownAll /\ Grouped /\ Vouched /\ R!ToldOnce
  BY DEF RemindersInv
<1>1. RemindersTyped' /\ NumberedOnce' /\ KnownAll' /\ R!ToldOnce'
  BY <1>0 DEF RemindersTyped, NumberedOnce, KnownAll, Entered, R!ToldOnce
<1>2. ~Past' /\ day \in Nat
  BY <1>0 DEF Past, RemindersTyped
<1>3. InOrder'
  BY <1>0, <1>2 DEF InOrder
<1>4. Placed' /\ Grouped' /\ Vouched'
  BY <1>0, <1>2 DEF Placed, Theirs, Grouped, Vouched, Receipted
<1> QED BY <1>1, <1>3, <1>4 DEF RemindersInv

\* A pass begins.
LEMMA StartKeeps ==
  ASSUME RemindersInv, R!Start
  PROVE  RemindersInv'
<1>1. /\ UNCHANGED <<board, day, moves, entries, pending, mail, packets, acked>>
      /\ step' = [R!Resting EXCEPT !.pc = "read", !.at = day] /\ day \in Nat
  BY DEF R!Start, R!Outside, RemindersInv, RemindersTyped
<1>2. step' \in Steps /\ step'.pc = "read" /\ step'.groups = {} /\ step'.at = day
  BY <1>1 DEF R!Resting, R!Unmoved, Steps, Counts
<1> QED BY <1>1, <1>2, EmptyKeeps

\* A pass reads who is to be told what: only what no message told today, or ever.
LEMMA ReadKeeps ==
  ASSUME RemindersInv, R!Read
  PROVE  RemindersInv'
<1> USE EpisodeFacts, RemindersNames
<1>0. RemindersTyped /\ NumberedOnce /\ InOrder /\ Placed /\ KnownAll /\ Grouped /\ Vouched /\ R!ToldOnce
  BY DEF RemindersInv
<1>1. /\ UNCHANGED <<board, day, moves, entries, pending, mail, packets, acked>>
      /\ step.pc = "read"
  BY DEF R!Read, R!Outside
<1>2. CASE step' = R!Resting
  BY <1>1, <1>2, EmptyKeeps, RestingFacts
<1>3. ASSUME NEW I \in {R!Listable, Due},
        LET rows == {i \in I : R!Listed(i)} IN
        step' = [step EXCEPT
                  !.pc = "settle",
                  !.moves = moves,
                  !.live = {R!Key(i, board[i]) : i \in rows},
                  !.todo = {r \in Recipients : pending[r] # None},
                  !.groups = {<<x[2], R!Key(x[1], x[2])>> : x \in
                               {y \in rows \X Recipients :
                                  board[y[1]] = y[2] /\ R!Fresh(R!Key(y[1], y[2]))}}]
      PROVE  RemindersInv'
  <2> DEFINE rows == {i \in I : R!Listed(i)}
             shown == {R!Key(i, board[i]) : i \in rows}
             groups == {<<x[2], R!Key(x[1], x[2])>> : x \in
                          {y \in rows \X Recipients :
                             board[y[1]] = y[2] /\ R!Fresh(R!Key(y[1], y[2]))}}
             doubts == {r \in Recipients : pending[r] # None}
  <2>1. Due \subseteq I /\ I \subseteq R!Listable
    OBVIOUS
  <2>2. ASSUME NEW i \in rows
        PROVE  /\ i \in R!Listable /\ board[i] \in Recipients
               /\ R!Key(i, board[i]) \in R!Episodes
    BY <1>0, <2>1 DEF R!Listed, R!Key, RemindersTyped
  <2>3. shown \subseteq R!Episodes
    BY <2>2
  <2>4. \A d \in Due : board[d] # None => <<d, board[d]>> \in shown
    BY <2>1 DEF R!Listed, R!Key
  <2>5. \A g \in groups : /\ g[1] \in Recipients /\ g[2] \in R!Episodes /\ g = <<g[1], g[2]>>
                          /\ R!Fresh(g[2]) /\ Theirs(g[1], g[2], moves)
    <3> SUFFICES ASSUME NEW i \in rows, NEW r \in Recipients, board[i] = r, R!Fresh(R!Key(i, r))
                 PROVE  R!Key(i, r) \in R!Episodes /\ Theirs(r, R!Key(i, r), moves)
      OBVIOUS
    <3> QED BY <2>2 DEF Theirs, R!Key
  <2>6. step' = [step EXCEPT !.pc = "settle", !.moves = moves, !.live = shown, !.todo = doubts,
                             !.groups = groups]
    BY <1>3
  <2> HIDE DEF rows, shown, groups
  <2>7. groups \in SUBSET (Recipients \X R!Episodes) /\ doubts \subseteq Recipients
    BY <2>5
  <2>8. step \in Steps /\ moves \in Counts
    BY <1>0 DEF RemindersTyped
  <2>9. /\ step'.pc = "settle" /\ step'.live = shown /\ step'.groups = groups
        /\ step'.sent = step.sent /\ step'.todo = doubts /\ step'.at = step.at
        /\ step'.moves = moves /\ step' \in Steps
    BY <2>3, <2>6, <2>7, <2>8 DEF Steps
  <2>10. RemindersTyped' /\ Past'
    BY <1>0, <1>1, <2>9 DEF RemindersTyped, Past
  <2>11. NumberedOnce' /\ KnownAll' /\ R!ToldOnce'
    BY <1>0, <1>1 DEF NumberedOnce, KnownAll, Entered, R!ToldOnce
  <2>12. InOrder'
    <3>1. \A i \in R!Listable : moves[i] \in Nat
      BY <2>8 DEF Counts
    <3> QED BY <1>0, <1>1, <2>9, <3>1 DEF InOrder
  <2>13. Placed'
    BY <1>0, <1>1, <2>4, <2>5, <2>9 DEF Placed, Theirs
  <2>14. ASSUME NEW g \in groups, pending[g[1]] = None PROVE Spares(g[1], g[2])'
    <3> SUFFICES ASSUME NEW m \in mail, m.to = g[1], g[2] \in m.keys
                 PROVE  g[2][1] \in Due /\ (m.at < step.at \/ m.moves[g[2][1]] # moves[g[2][1]])
      BY <1>1, <2>9 DEF Spares
    <3>1. \/ entries[g[2]] # None /\ m.at <= entries[g[2]].at
          \/ g[2][1] \in Due /\ m.moves[g[2][1]] # moves[g[2][1]]
      BY <1>0, <2>14 DEF KnownAll, Entered
    <3>2. CASE entries[g[2]] # None /\ m.at <= entries[g[2]].at
      <4>1. g[2][1] \in Due /\ step.at > entries[g[2]].at
        BY <2>5, <3>2 DEF R!Fresh
      <4>2. m.at \in Nat /\ step.at \in Nat /\ entries[g[2]].at \in Nat
        BY <1>0, <2>5, <3>2 DEF RemindersTyped, Letters, Steps, R!Entry
      <4> QED BY <3>2, <4>1, <4>2
    <3> QED BY <3>1, <3>2
  <2>15. Grouped'
    BY <1>1, <2>9, <2>10, <2>14 DEF Grouped
  <2>16. Vouched'
    BY <1>0, <1>1, <2>9 DEF Vouched, Receipted
  <2> QED BY <2>10, <2>11, <2>12, <2>13, <2>15, <2>16 DEF RemindersInv
<1> QED BY <1>2, <1>3 DEF R!Read

\* A packet in doubt is settled: what it told is entered, unless somebody changed it.
LEMMA DoubtKeeps ==
  ASSUME RemindersInv, NEW r \in Recipients, R!Settle(r)
  PROVE  RemindersInv'
<1> USE EpisodeFacts, RemindersNames
<1>0. /\ RemindersTyped /\ NumberedOnce /\ InOrder /\ Placed /\ KnownAll /\ Grouped /\ Vouched
      /\ R!ToldOnce
  BY DEF RemindersInv
<1> DEFINE p == pending[r]
<1>1. /\ UNCHANGED <<board, day, moves, mail, packets, acked>>
      /\ step.pc = "settle" /\ r \in step.todo /\ Past
  BY DEF R!Settle, R!Outside, Past
<1>2. R!ToldOnce'
  BY <1>0, <1>1 DEF R!ToldOnce
<1>3. ASSUME NEW s \in SUBSET Recipients, step' = [step EXCEPT !.todo = @ \ {r}, !.sent = s]
      PROVE  /\ step'.pc = "settle" /\ step'.live = step.live /\ step'.groups = step.groups
             /\ step'.sent = s /\ step'.todo = step.todo \ {r}
             /\ step'.at = step.at /\ step'.moves = step.moves
             /\ step' \in Steps
  BY <1>0, <1>1, <1>3 DEF RemindersTyped, Steps
<1>4. CASE UNCHANGED <<entries, pending>> /\ step' = [step EXCEPT !.todo = @ \ {r}]
  <2>1. step.sent \in SUBSET Recipients /\ step' = [step EXCEPT !.todo = @ \ {r}, !.sent = step.sent]
    BY <1>0, <1>4 DEF RemindersTyped, Steps
  <2>2. /\ step'.pc = "settle" /\ step'.live = step.live /\ step'.groups = step.groups
        /\ step'.sent = step.sent /\ step'.todo = step.todo \ {r}
        /\ step'.at = step.at /\ step'.moves = step.moves
    BY <1>3, <2>1
  <2>3. RemindersTyped'
    BY <1>0, <1>1, <1>3, <1>4, <2>1 DEF RemindersTyped
  <2>4. NumberedOnce' /\ KnownAll' /\ InOrder'
    BY <1>0, <1>1, <1>4, <2>2 DEF NumberedOnce, KnownAll, Entered, InOrder, Past
  <2>5. Placed'
    BY <1>0, <1>1, <1>4, <2>2 DEF Placed, Theirs, Past
  <2>6. Grouped'
    BY <1>0, <1>1, <1>4, <2>2 DEF Grouped, Spares, Past
  <2>7. Vouched'
    BY <1>0, <1>1, <1>4, <2>2 DEF Vouched, Receipted
  <2> QED BY <1>2, <2>3, <2>4, <2>5, <2>6, <2>7 DEF RemindersInv
<1>5. CASE /\ R!Found(p)
           /\ entries' = [k \in R!Episodes |->
                            IF k \in p.keys /\ (k \in step.live \/ k[1] \in Unlocks)
                            THEN R!Told(p.n) ELSE entries[k]]
           /\ pending' = [pending EXCEPT ![r] = None]
           /\ step' = [step EXCEPT !.todo = @ \ {r}, !.sent = @ \union {r}]
  <2>0. PICK m0 \in mail : m0.n = p.n
    BY <1>5 DEF R!Found
  <2>1. /\ step.sent \union {r} \in SUBSET Recipients
        /\ step' = [step EXCEPT !.todo = @ \ {r}, !.sent = step.sent \union {r}]
    BY <1>0, <1>5 DEF RemindersTyped, Steps
  <2>2. /\ step'.pc = "settle" /\ step'.live = step.live /\ step'.groups = step.groups
        /\ step'.sent = step.sent \union {r} /\ step'.todo = step.todo \ {r}
        /\ step'.at = step.at /\ step'.moves = step.moves
    BY <1>3, <2>1
  <2>3. p # None
    BY <1>0, <1>1 DEF Grouped
  <2> QED
    <3>1. p \in R!Packet /\ p.n \in Nat /\ p.n < packets
      BY <1>0, <2>3 DEF RemindersTyped, R!Packet, NumberedOnce
    <3>2. \A m \in mail : m.n = p.n => m.to = r /\ m.keys = p.keys
      BY <1>0, <2>3 DEF NumberedOnce
    <3>3. /\ \A s \in Recipients : s # r => pending'[s] = pending[s]
          /\ pending'[r] = None /\ pending' \in [Recipients -> R!Packet \union {None}]
      BY <1>0, <1>5 DEF RemindersTyped
    <3>4. R!Told(p.n) \in R!Entry /\ R!Told(p.n).at = step.at /\ R!Told(p.n).receipt = p.n
      BY <1>0, <3>1 DEF R!Told, R!Entry, RemindersTyped, Steps
    <3>5. entries' \in [R!Episodes -> R!Entry \union {None}]
      BY <1>0, <1>5, <3>4 DEF RemindersTyped
    <3>6. \A k \in R!Episodes : \/ entries'[k] = entries[k]
                                \/ k \in p.keys /\ entries'[k] = R!Told(p.n)
      BY <1>5
    <3>7. RemindersTyped'
      BY <1>0, <1>1, <1>3, <2>1, <3>3, <3>5 DEF RemindersTyped
    <3>8. NumberedOnce' /\ InOrder'
      BY <1>0, <1>1, <2>2, <3>3 DEF NumberedOnce, InOrder, Past
    <3>9. Placed'
      BY <1>0, <1>1, <2>2, <3>3 DEF Placed, Theirs, Past
    <3>10. ASSUME NEW m \in mail, NEW k \in m.keys PROVE Entered(m, k)'
      <4>1. k \in R!Episodes /\ m.to \in Recipients /\ m.at \in Nat /\ m.at <= step.at
        BY <1>0, <1>1 DEF RemindersTyped, Letters, InOrder
      <4>2. CASE m.n = p.n
        <5>1. k \in p.keys /\ Theirs(r, k, m.moves)
          BY <1>0, <2>3, <3>2, <4>2 DEF Placed
        <5>2. CASE k \in step.live \/ k[1] \in Unlocks
          <6>1. entries'[k] = R!Told(p.n)
            BY <1>5, <4>1, <5>1, <5>2
          <6> QED BY <3>4, <4>1, <6>1 DEF Entered
        <5>3. CASE k[1] \in Due /\ k \notin step.live
          <6>1. m.moves[k[1]] # moves[k[1]]
            BY <1>0, <1>1, <4>1, <5>1, <5>3, LiveUnlessMoved
          <6> QED BY <1>1, <5>3, <6>1 DEF Entered
        <5> QED BY <4>1, <5>2, <5>3
      <4>3. CASE m.n # p.n
        <5>1. Entered(m, k)
          BY <1>0 DEF KnownAll
        <5>2. CASE pending[m.to] # None /\ pending[m.to].n = m.n
          BY <3>3, <4>1, <4>3, <5>2 DEF Entered
        <5>3. CASE entries[k] # None /\ m.at <= entries[k].at
          BY <3>4, <3>6, <4>1, <5>3 DEF Entered
        <5> QED BY <1>1, <5>1, <5>2, <5>3 DEF Entered
      <4> QED BY <4>2, <4>3
    <3>11. KnownAll'
      BY <1>1, <3>10 DEF KnownAll
    <3>12. Grouped'
      <4>1. ASSUME NEW g \in step.groups, pending'[g[1]] = None, g[1] \notin step'.sent
            PROVE  Spares(g[1], g[2])'
        <5>1. g[1] # r /\ g[1] \in Recipients /\ g[1] \notin step.sent
          BY <1>0, <2>2, <4>1 DEF RemindersTyped, Steps
        <5>2. Spares(g[1], g[2])
          BY <1>0, <3>3, <4>1, <5>1 DEF Grouped
        <5> QED BY <1>1, <2>2, <5>2 DEF Spares
      <4>2. \A s \in step'.todo : s \in Recipients /\ pending'[s] # None
        BY <1>0, <1>1, <2>2, <3>3 DEF Grouped
      <4> QED BY <2>2, <4>1, <4>2 DEF Grouped, Past
    <3>13. Vouched'
      <4>1. ASSUME NEW k \in R!Episodes, entries'[k] # None
            PROVE  \E m \in mail : m.n = entries'[k].receipt /\ k \in m.keys
        <5>1. CASE entries'[k] = entries[k]
          BY <1>0, <1>1, <4>1, <5>1 DEF Vouched, Receipted
        <5>2. CASE k \in p.keys /\ entries'[k] = R!Told(p.n)
          BY <1>1, <2>0, <3>2, <3>4, <5>2 DEF Receipted
        <5> QED BY <3>6, <5>1, <5>2
      <4> QED BY <1>0, <1>1, <2>2, <4>1 DEF Vouched, Receipted
    <3> QED BY <1>2, <3>7, <3>8, <3>9, <3>11, <3>12, <3>13 DEF RemindersInv
<1> QED BY <1>4, <1>5 DEF R!Settle

\* A packet is saved under a number of its own, for somebody who has none in doubt.
LEMMA PackKeeps ==
  ASSUME RemindersInv, NEW r \in Recipients, R!Pack(r)
  PROVE  RemindersInv'
<1> USE EpisodeFacts, RemindersNames
<1>0. /\ RemindersTyped /\ NumberedOnce /\ InOrder /\ Placed /\ KnownAll /\ Grouped /\ Vouched
      /\ R!ToldOnce
  BY DEF RemindersInv
<1> DEFINE keys == {g[2] : g \in {x \in step.groups : x[1] = r}}
           others == {g \in step.groups : g[1] # r}
           p == [n |-> packets, keys |-> keys]
<1>1. /\ UNCHANGED <<board, day, moves, entries, mail, acked>> /\ packets' = packets + 1
      /\ step.pc = "settle" /\ step.todo = {} /\ pending[r] = None /\ r \notin step.sent
      /\ pending' = [pending EXCEPT ![r] = p]
      /\ step' = [step EXCEPT !.pc = "deliver", !.to = r, !.groups = others]
  BY DEF R!Pack, R!MayPack, R!Outside
<1>2. \A k \in keys : k \in R!Episodes /\ Spares(r, k) /\ Theirs(r, k, step.moves)
  BY <1>0, <1>1 DEF RemindersTyped, Steps, Grouped, Placed
<1>3. keys \subseteq R!Episodes /\ others \subseteq step.groups
  BY <1>2
<1> HIDE DEF keys, others
<1>4. p \in R!Packet /\ p.n = packets /\ p.keys = keys
  BY <1>0, <1>3 DEF RemindersTyped, R!Packet
<1>5. /\ pending'[r] = p /\ \A s \in Recipients : s # r => pending'[s] = pending[s]
      /\ pending' \in [Recipients -> R!Packet \union {None}]
  BY <1>0, <1>1, <1>4 DEF RemindersTyped
<1>6. /\ step'.pc = "deliver" /\ step'.to = r /\ step'.todo = {} /\ step'.groups = others
      /\ step'.live = step.live /\ step'.sent = step.sent
      /\ step'.at = step.at /\ step'.moves = step.moves
      /\ step' \in Steps
  BY <1>0, <1>1, <1>3 DEF RemindersTyped, Steps
<1> HIDE DEF p
<1>7. RemindersTyped'
  BY <1>0, <1>1, <1>5, <1>6 DEF RemindersTyped
<1>8. \A m \in mail : m.n \in Nat /\ m.n < packets /\ packets \in Nat /\ m.n # packets
  BY <1>0 DEF RemindersTyped, Letters, NumberedOnce
<1>9. \A s \in Recipients : pending[s] # None =>
        pending[s].n \in Nat /\ pending[s].n < packets /\ pending[s].n # packets
  BY <1>0 DEF RemindersTyped, R!Packet, NumberedOnce
<1>10. NumberedOnce'
  <2>1. \A m \in mail' : m.n < packets'
    BY <1>0, <1>1, <1>8 DEF NumberedOnce
  <2>2. ASSUME NEW s \in Recipients, pending'[s] # None
        PROVE  /\ pending'[s].n < packets'
               /\ \A m \in mail' : m.n = pending'[s].n => m.to = s /\ m.keys = pending'[s].keys
               /\ \A q \in Recipients :
                    pending'[q] # None /\ pending'[q].n = pending'[s].n => q = s
    <3>1. packets \in Nat
      BY <1>0 DEF RemindersTyped
    <3>2. CASE s = r
      BY <1>1, <1>4, <1>5, <1>8, <1>9, <3>1, <3>2
    <3>3. CASE s # r
      BY <1>0, <1>1, <1>4, <1>5, <1>9, <2>2, <3>1, <3>3 DEF NumberedOnce
    <3> QED BY <3>2, <3>3
  <2> QED BY <2>1, <2>2 DEF NumberedOnce
<1>11. Placed' /\ InOrder'
  BY <1>0, <1>1, <1>2, <1>3, <1>4, <1>5, <1>6 DEF Placed, Theirs, InOrder, Past
<1>12. KnownAll'
  <2>1. ASSUME NEW m \in mail, NEW k \in m.keys, Entered(m, k) PROVE Entered(m, k)'
    <3>1. m.to \in Recipients
      BY <1>0 DEF RemindersTyped, Letters
    <3> QED BY <1>1, <1>5, <2>1, <3>1 DEF Entered
  <2> QED BY <1>0, <1>1, <2>1 DEF KnownAll
<1>13. Grouped'
  <2>1. ASSUME NEW g \in others, pending'[g[1]] = None, g[1] \notin step'.sent
        PROVE  Spares(g[1], g[2])'
    <3>1. g \in step.groups /\ g[1] # r /\ g[1] \in Recipients
      BY <1>0, <1>3 DEF RemindersTyped, Steps, others
    <3> QED BY <1>0, <1>1, <1>5, <1>6, <2>1, <3>1 DEF Grouped, Spares
  <2>2. \A k \in keys : Spares(r, k)'
    BY <1>1, <1>2, <1>6 DEF Spares
  <2>3. p # None
    BY <1>4
  <2> QED BY <1>1, <1>4, <1>5, <1>6, <1>8, <2>1, <2>2, <2>3 DEF Grouped, Spares, Past
<1>14. Vouched' /\ R!ToldOnce'
  BY <1>0, <1>1, <1>6 DEF Vouched, Receipted, R!ToldOnce
<1> QED BY <1>7, <1>10, <1>11, <1>12, <1>13, <1>14 DEF RemindersInv

\* A message arrives: what no message told today, or ever, and what is in doubt from then
\* on or entered.
LEMMA ArrivesKeeps ==
  ASSUME RemindersInv, step.pc = "deliver", R!Arrives
  PROVE  /\ mail' \subseteq Letters
         /\ \A m \in mail' \ mail : /\ m.to = step.to /\ m.n = pending[step.to].n
                                    /\ m.at = step.at /\ m.moves = step.moves
                                    /\ m.keys = pending[step.to].keys
         /\ mail \subseteq mail' /\ \E m \in mail' : /\ m.n = pending[step.to].n
                                                     /\ m.keys = pending[step.to].keys
         /\ \A m, n \in mail' : \A k \in m.keys \intersect n.keys :
              m.to = n.to /\ m # n =>
                k[1] \in Due /\ (m.at # n.at \/ m.moves[k[1]] # n.moves[k[1]])
<1> USE RemindersNames
<1>0. RemindersTyped /\ Grouped /\ R!ToldOnce
  BY DEF RemindersInv
<1> DEFINE x == [n |-> pending[step.to].n, to |-> step.to, at |-> step.at,
                 moves |-> step.moves, keys |-> pending[step.to].keys]
<1>1. mail' = mail \union {x}
  BY DEF R!Arrives
<1>2. /\ step.to \in Recipients /\ pending[step.to] \in R!Packet /\ step.at \in Nat
      /\ step.moves \in Counts
  BY <1>0 DEF RemindersTyped, Steps, Grouped
<1>3. /\ x \in Letters
      /\ x.to = step.to /\ x.n = pending[step.to].n /\ x.at = step.at /\ x.moves = step.moves
      /\ x.keys = pending[step.to].keys
  BY <1>2 DEF R!Packet, Letters
<1> HIDE DEF x
<1>4. ASSUME NEW m \in mail, NEW k \in m.keys \intersect x.keys, m.to = x.to
      PROVE  k[1] \in Due /\ (m.at # x.at \/ m.moves[k[1]] # x.moves[k[1]])
  <2>1. k[1] \in Due /\ (m.at < step.at \/ m.moves[k[1]] # step.moves[k[1]])
    BY <1>0, <1>3, <1>4 DEF Grouped, Spares
  <2>2. m.at \in Nat
    BY <1>0 DEF RemindersTyped, Letters
  <2> QED BY <1>2, <1>3, <2>1, <2>2
<1>5. ASSUME NEW m \in mail', NEW n \in mail', NEW k \in m.keys \intersect n.keys,
             m.to = n.to, m # n
      PROVE  k[1] \in Due /\ (m.at # n.at \/ m.moves[k[1]] # n.moves[k[1]])
  <2>1. CASE m \in mail /\ n \in mail
    BY <1>0, <1>5, <2>1 DEF R!ToldOnce
  <2>2. CASE m = x /\ n \in mail
    BY <1>4, <1>5, <2>2
  <2>3. CASE n = x /\ m \in mail
    BY <1>4, <1>5, <2>3
  <2> QED BY <1>1, <1>5, <2>1, <2>2, <2>3
<1> QED BY <1>0, <1>1, <1>3, <1>5 DEF RemindersTyped

\* A delivery is confirmed, or left in doubt, whether the message arrived or not.
LEMMA DeliverKeeps ==
  ASSUME RemindersInv, R!Deliver
  PROVE  RemindersInv'
<1> USE EpisodeFacts, RemindersNames
<1>0. /\ RemindersTyped /\ NumberedOnce /\ InOrder /\ Placed /\ KnownAll /\ Grouped /\ Vouched
      /\ R!ToldOnce
  BY DEF RemindersInv
<1> DEFINE r == step.to
           p == pending[r]
<1>1. /\ UNCHANGED <<board, day, moves, packets, acked>> /\ step.pc = "deliver" /\ Past
  BY DEF R!Deliver, R!Outside, Past
<1>2. /\ r \in Recipients /\ p # None /\ p \in R!Packet /\ step.todo = {} /\ p.n \in Nat
      /\ p.keys \subseteq R!Episodes
  BY <1>0, <1>1 DEF RemindersTyped, Grouped, R!Packet
<1>3. R!Arrives \/ mail' = mail
  BY DEF R!Deliver
<1>4. /\ mail' \subseteq Letters
      /\ mail \subseteq mail'
      /\ \A m \in mail' : \/ m \in mail
                           \/ /\ m.to = r /\ m.n = p.n /\ m.at = step.at /\ m.moves = step.moves
                              /\ m.keys = p.keys
  BY <1>0, <1>1, <1>3, ArrivesKeeps DEF RemindersTyped
<1>5. R!ToldOnce'
  <2>1. CASE R!Arrives
    <3>1. \A m, n \in mail' : \A k \in m.keys \intersect n.keys :
            m.to = n.to /\ m # n =>
                k[1] \in Due /\ (m.at # n.at \/ m.moves[k[1]] # n.moves[k[1]])
      BY <1>1, <2>1, ArrivesKeeps
    <3> QED BY <1>1, <3>1 DEF R!ToldOnce
  <2>2. CASE mail' = mail
    BY <1>0, <1>1, <2>2 DEF R!ToldOnce
  <2> QED BY <1>3, <2>1, <2>2
<1>6. \A k \in p.keys : Theirs(r, k, step.moves)
  BY <1>0, <1>1 DEF Placed
<1>7. /\ \A m \in mail' : /\ m.n < packets /\ m.at <= day /\ m.at <= step.at
                          /\ \A i \in R!Listable : m.moves[i] <= moves[i]
                          /\ \A i \in R!Listable : m.moves[i] <= step.moves[i]
      /\ step.at <= day /\ \A i \in R!Listable : step.moves[i] <= moves[i]
  <2>1. p.n < packets
    BY <1>0, <1>2 DEF NumberedOnce
  <2>2. step.at \in Nat /\ \A i \in R!Listable : step.moves[i] \in Nat
    BY <1>0 DEF RemindersTyped, Steps, Counts
  <2> QED BY <1>0, <1>1, <1>4, <2>1, <2>2 DEF NumberedOnce, InOrder
<1>8. \A s \in Recipients : \A m \in mail' :
        pending[s] # None /\ m.n = pending[s].n => m.to = s /\ m.keys = pending[s].keys
  BY <1>0, <1>2, <1>4 DEF NumberedOnce
<1>9. \A m \in mail' : \A k \in m.keys : Theirs(m.to, k, m.moves)
  BY <1>0, <1>4, <1>6 DEF Placed
<1>10. CASE /\ R!Arrives
            /\ entries' = [k \in R!Episodes |-> IF k \in p.keys THEN R!Told(p.n) ELSE entries[k]]
            /\ pending' = [pending EXCEPT ![r] = None]
            /\ step' = [step EXCEPT !.pc = "settle", !.to = None, !.sent = @ \union {r}]
  <2>1. /\ step'.pc = "settle" /\ step'.live = step.live /\ step'.groups = step.groups
        /\ step'.sent = step.sent \union {r} /\ step'.todo = {}
        /\ step'.at = step.at /\ step'.moves = step.moves
        /\ step' \in Steps
    BY <1>0, <1>2, <1>10 DEF RemindersTyped, Steps
  <2>2. /\ pending'[r] = None /\ \A s \in Recipients : s # r => pending'[s] = pending[s]
        /\ pending' \in [Recipients -> R!Packet \union {None}]
    BY <1>0, <1>2, <1>10 DEF RemindersTyped
  <2>3. R!Told(p.n) \in R!Entry /\ R!Told(p.n).at = step.at /\ R!Told(p.n).receipt = p.n
    BY <1>0, <1>2 DEF R!Told, R!Entry, RemindersTyped, Steps
  <2>4. entries' \in [R!Episodes -> R!Entry \union {None}]
    BY <1>0, <1>10, <2>3 DEF RemindersTyped
  <2>5. \A k \in R!Episodes : \/ k \notin p.keys /\ entries'[k] = entries[k]
                              \/ k \in p.keys /\ entries'[k] = R!Told(p.n)
    BY <1>10
  <2>6. RemindersTyped'
    BY <1>0, <1>1, <1>4, <2>1, <2>2, <2>4 DEF RemindersTyped
  <2>7. NumberedOnce' /\ InOrder'
    BY <1>0, <1>1, <1>7, <1>8, <2>1, <2>2 DEF NumberedOnce, InOrder
  <2>8. Placed'
    BY <1>0, <1>1, <1>9, <2>1, <2>2 DEF Placed, Theirs
  <2>9. ASSUME NEW m \in mail', NEW k \in m.keys PROVE Entered(m, k)'
    <3>1. k \in R!Episodes /\ m.to \in Recipients /\ m.n \in Nat /\ m.at <= step.at
      BY <1>0, <1>4, <1>7 DEF RemindersTyped, Letters
    <3>2. CASE k \in p.keys
      <4>1. entries'[k] = R!Told(p.n)
        BY <2>5, <3>1, <3>2
      <4> QED BY <2>3, <3>1, <4>1 DEF Entered
    <3>3. CASE k \notin p.keys
      <4>1. m \in mail /\ Entered(m, k) /\ entries'[k] = entries[k]
        BY <1>0, <1>4, <2>5, <3>1, <3>3 DEF KnownAll
      <4>2. CASE pending[m.to] # None /\ pending[m.to].n = m.n
        <5>1. m.keys = pending[m.to].keys
          BY <1>8, <3>1, <4>2
        <5>2. m.to # r
          BY <3>3, <5>1
        <5> QED BY <2>2, <3>1, <4>2, <5>2 DEF Entered
      <4> QED BY <1>1, <4>1, <4>2 DEF Entered
    <3> QED BY <3>2, <3>3
  <2>10. KnownAll'
    BY <2>9 DEF KnownAll
  <2>11. Grouped'
    <3>1. ASSUME NEW g \in step.groups, pending'[g[1]] = None, g[1] \notin step'.sent
          PROVE  Spares(g[1], g[2])'
      <4>1. g[1] # r /\ g[1] \in Recipients /\ g[1] \notin step.sent
        BY <1>0, <2>1, <3>1 DEF RemindersTyped, Steps
      <4>2. Spares(g[1], g[2])
        BY <1>0, <2>2, <3>1, <4>1 DEF Grouped
      <4> QED BY <1>1, <1>4, <2>1, <4>1, <4>2 DEF Spares
    <3> QED BY <2>1, <3>1 DEF Grouped, Past
  <2>12. Vouched'
    <3>1. PICK m0 \in mail' : m0.n = p.n /\ m0.keys = p.keys
      BY <1>1, <1>10, ArrivesKeeps
    <3>2. ASSUME NEW k \in R!Episodes, entries'[k] # None
          PROVE  \E m \in mail' : m.n = entries'[k].receipt /\ k \in m.keys
      <4>1. CASE k \notin p.keys /\ entries'[k] = entries[k]
        BY <1>0, <1>4, <3>2, <4>1 DEF Vouched, Receipted
      <4>2. CASE k \in p.keys /\ entries'[k] = R!Told(p.n)
        BY <2>3, <3>1, <4>2
      <4> QED BY <2>5, <4>1, <4>2
    <3> QED BY <1>0, <1>1, <1>4, <2>1, <3>2 DEF Vouched, Receipted
  <2> QED BY <1>5, <2>6, <2>7, <2>8, <2>10, <2>11, <2>12 DEF RemindersInv
<1>11. CASE /\ step' \in {R!Resting, [step EXCEPT !.pc = "settle", !.to = None]}
            /\ UNCHANGED <<entries, pending>>
  <2>1. /\ step'.pc \in {"idle", "settle"} /\ step'.groups \subseteq step.groups /\ step'.todo = {}
        /\ step'.pc = "settle" => /\ step'.live = step.live /\ step'.sent = step.sent
                                  /\ step'.at = step.at /\ step'.moves = step.moves
        /\ step'.pc = "idle" => step'.groups = {}
        /\ step' \in Steps
    <3>1. CASE step' = R!Resting
      BY <3>1, RestingFacts
    <3>2. CASE step' = [step EXCEPT !.pc = "settle", !.to = None]
      BY <1>0, <1>2, <3>2 DEF RemindersTyped, Steps
    <3> QED BY <1>11, <3>1, <3>2
  <2>2. RemindersTyped'
    BY <1>0, <1>1, <1>4, <1>11, <2>1 DEF RemindersTyped
  <2>3. NumberedOnce' /\ InOrder'
    BY <1>0, <1>1, <1>7, <1>8, <1>11, <2>1 DEF NumberedOnce, InOrder, Past
  <2>4. Placed'
    BY <1>0, <1>1, <1>9, <1>11, <2>1 DEF Placed, Theirs, Past
  <2>5. ASSUME NEW m \in mail', NEW k \in m.keys PROVE Entered(m, k)'
    <3>1. CASE m \in mail
      BY <1>0, <1>1, <1>11, <3>1 DEF KnownAll, Entered
    <3>2. CASE m.to = r /\ m.n = p.n
      BY <1>2, <1>11, <3>2 DEF Entered
    <3> QED BY <1>4, <3>1, <3>2
  <2>6. KnownAll'
    BY <2>5 DEF KnownAll
  <2>7. Grouped'
    <3>1. ASSUME NEW g \in step'.groups, pending[g[1]] = None, g[1] \notin step'.sent
          PROVE  Spares(g[1], g[2])'
      <4>1. g \in step.groups /\ g[1] # r /\ g[1] \notin step.sent /\ step'.pc = "settle"
        BY <1>2, <2>1, <3>1
      <4>2. Spares(g[1], g[2])
        BY <1>0, <3>1, <4>1 DEF Grouped
      <4> QED BY <1>1, <1>4, <2>1, <4>1, <4>2 DEF Spares
    <3> QED BY <1>11, <2>1, <3>1 DEF Grouped, Past
  <2>8. Vouched'
    BY <1>0, <1>1, <1>4, <1>11, <2>1 DEF Vouched, Receipted
  <2> QED BY <1>5, <2>2, <2>3, <2>4, <2>6, <2>7, <2>8 DEF RemindersInv
<1> QED BY <1>10, <1>11 DEF R!Deliver

\* A pass that has told everything owes an acknowledgement of what was told and has none.
LEMMA AcksKeeps ==
  ASSUME RemindersInv, R!Acks
  PROVE  RemindersInv'
<1> USE EpisodeFacts, RemindersNames
<1>0. /\ RemindersTyped /\ NumberedOnce /\ InOrder /\ Placed /\ KnownAll /\ Grouped /\ Vouched
      /\ R!ToldOnce
  BY DEF RemindersInv
<1>1. /\ UNCHANGED <<board, day, moves, pending, mail, packets, acked>> /\ step.pc = "settle"
      /\ step' = [step EXCEPT !.pc = "ack", !.todo = {u \in Unlocks : R!Owes(u)}]
      /\ entries' = [k \in R!Episodes |-> IF k[1] \in Unlocks /\ R!Owes(k[1])
                       THEN [entries[k] EXCEPT !.ack = "attempted"] ELSE entries[k]]
  BY DEF R!Acks, R!Packed, R!Outside
<1>2. /\ step'.pc = "ack" /\ step'.live = step.live /\ step'.groups = step.groups
      /\ step'.sent = step.sent /\ step'.todo = {u \in Unlocks : R!Owes(u)}
      /\ step'.at = step.at /\ step'.moves = step.moves
      /\ step' \in Steps
  BY <1>0, <1>1 DEF RemindersTyped, Steps
<1>3. ASSUME NEW k \in R!Episodes
      PROVE  /\ entries'[k] \in R!Entry \union {None}
             /\ entries'[k] = None <=> entries[k] = None
             /\ entries[k] # None => /\ entries'[k].at = entries[k].at
                                     /\ entries'[k].receipt = entries[k].receipt
  <2>1. CASE k[1] \in Unlocks /\ R!Owes(k[1])
    <3>1. entries[k] # None /\ entries[k] \in R!Entry
      BY <1>0, <2>1 DEF R!Owes, RemindersTyped
    <3>2. entries'[k] = [entries[k] EXCEPT !.ack = "attempted"]
      BY <1>1, <2>1
    <3>3. entries'[k] \in R!Entry
      BY <3>1, <3>2 DEF R!Entry
    <3> QED BY <3>1, <3>2, <3>3 DEF R!Entry
  <2>2. CASE ~(k[1] \in Unlocks /\ R!Owes(k[1]))
    BY <1>0, <1>1, <2>2 DEF RemindersTyped
  <2> QED BY <2>1, <2>2
<1>4. RemindersTyped'
  <2>1. entries' \in [R!Episodes -> R!Entry \union {None}]
    BY <1>1, <1>3
  <2> QED BY <1>0, <1>1, <1>2, <2>1 DEF RemindersTyped
<1>5. NumberedOnce' /\ R!ToldOnce' /\ InOrder'
  BY <1>0, <1>1, <1>2 DEF NumberedOnce, R!ToldOnce, InOrder, Past
<1>6. Placed'
  BY <1>0, <1>1, <1>2 DEF Placed, Theirs, Past
<1>7. KnownAll'
  <2>1. \A m \in mail : m.keys \subseteq R!Episodes
    BY <1>0 DEF RemindersTyped, Letters
  <2> QED BY <1>0, <1>1, <1>3, <2>1 DEF KnownAll, Entered
<1>8. Grouped'
  BY <1>0, <1>1, <1>2 DEF Grouped, Spares, Past
<1>9. Vouched'
  <2>1. ASSUME NEW k \in R!Episodes, entries'[k] # None
        PROVE  \E m \in mail : m.n = entries'[k].receipt /\ k \in m.keys
    BY <1>0, <1>3, <2>1 DEF Vouched, Receipted
  <2>2. ASSUME NEW u \in step'.todo PROVE u \in Unlocks /\ entries'[<<u, None>>] # None
    BY <1>2, <1>3, <2>2 DEF R!Owes
  <2> QED BY <1>0, <1>1, <1>2, <2>1, <2>2 DEF Vouched, Receipted
<1> QED BY <1>4, <1>5, <1>6, <1>7, <1>8, <1>9 DEF RemindersInv

\* The producer is given the receipt of the entry, if it has none.
LEMMA AckKeeps ==
  ASSUME RemindersInv, NEW u \in Unlocks, R!Ack(u)
  PROVE  RemindersInv'
<1> USE EpisodeFacts, RemindersNames
<1>0. /\ RemindersTyped /\ NumberedOnce /\ InOrder /\ Placed /\ KnownAll /\ Grouped /\ Vouched
      /\ R!ToldOnce
  BY DEF RemindersInv
<1> DEFINE key == <<u, None>>
<1>1. /\ UNCHANGED <<board, day, moves, pending, mail, packets>> /\ step.pc = "ack"
      /\ u \in step.todo /\ step' = [step EXCEPT !.todo = @ \ {u}]
      /\ acked' = acked \/ acked' = [acked EXCEPT ![u] = entries[key].receipt]
      /\ entries' = entries \/ entries' = [entries EXCEPT ![key].ack = "confirmed"]
  BY DEF R!Ack, R!Outside
<1>2. /\ step'.pc = "ack" /\ step'.live = step.live /\ step'.groups = step.groups
      /\ step'.sent = step.sent /\ step'.todo = step.todo \ {u}
      /\ step'.at = step.at /\ step'.moves = step.moves
      /\ step' \in Steps
  BY <1>0, <1>1 DEF RemindersTyped, Steps
<1>3. key \in R!Episodes /\ entries[key] # None /\ entries[key] \in R!Entry
  BY <1>0, <1>1 DEF Vouched, RemindersTyped
<1>4. Receipted(key, entries[key].receipt)
  BY <1>0, <1>3 DEF Vouched
<1> HIDE DEF key
<1>5. [entries[key] EXCEPT !.ack = "confirmed"] \in R!Entry
  BY <1>3 DEF R!Entry
<1>6. ASSUME NEW k \in R!Episodes
      PROVE  /\ entries'[k] \in R!Entry \union {None}
             /\ entries'[k] = None <=> entries[k] = None
             /\ entries[k] # None => /\ entries'[k].at = entries[k].at
                                     /\ entries'[k].receipt = entries[k].receipt
  <2>1. CASE entries'[k] = entries[k]
    BY <1>0, <2>1 DEF RemindersTyped
  <2>2. CASE k = key /\ entries'[k] = [entries[key] EXCEPT !.ack = "confirmed"]
    BY <1>3, <1>5, <2>2 DEF R!Entry
  <2> QED BY <1>0, <1>1, <1>3, <2>1, <2>2 DEF RemindersTyped
<1>7. RemindersTyped'
  <2>1. DOMAIN entries' = R!Episodes /\ entries' = [k \in R!Episodes |-> entries'[k]]
    BY <1>0, <1>1 DEF RemindersTyped
  <2>2. entries' \in [R!Episodes -> R!Entry \union {None}]
    BY <1>6, <2>1
  <2>3. entries[key].receipt \in Nat
    BY <1>3 DEF R!Entry
  <2>4. acked' \in [Unlocks -> Nat \union {None}]
    BY <1>0, <1>1, <2>3 DEF RemindersTyped
  <2> QED BY <1>0, <1>1, <1>2, <2>2, <2>4 DEF RemindersTyped
<1>8. NumberedOnce' /\ R!ToldOnce' /\ InOrder'
  BY <1>0, <1>1, <1>2 DEF NumberedOnce, R!ToldOnce, InOrder, Past
<1>9. Placed'
  BY <1>0, <1>1, <1>2 DEF Placed, Theirs, Past
<1>10. KnownAll'
  <2>1. \A m \in mail : m.keys \subseteq R!Episodes
    BY <1>0 DEF RemindersTyped, Letters
  <2> QED BY <1>0, <1>1, <1>6, <2>1 DEF KnownAll, Entered
<1>11. Grouped'
  BY <1>0, <1>1, <1>2 DEF Grouped, Spares, Past
<1>12. Vouched'
  <2>1. ASSUME NEW k \in R!Episodes, entries'[k] # None
        PROVE  \E m \in mail : m.n = entries'[k].receipt /\ k \in m.keys
    BY <1>0, <1>6, <2>1 DEF Vouched, Receipted
  <2>2. ASSUME NEW v \in Unlocks, acked'[v] # None
        PROVE  \E m \in mail : m.n = acked'[v] /\ <<v, None>> \in m.keys
    <3>1. CASE acked'[v] = acked[v]
      BY <1>0, <2>2, <3>1 DEF Vouched, Receipted
    <3>2. CASE v = u /\ acked'[v] = entries[key].receipt
      BY <1>4, <3>2 DEF Receipted, key
    <3> QED BY <1>0, <1>1, <3>1, <3>2 DEF RemindersTyped
  <2>3. ASSUME NEW v \in step'.todo PROVE v \in Unlocks /\ entries'[<<v, None>>] # None
    <3>1. v \in step.todo
      BY <1>2, <2>3
    <3>2. v \in Unlocks /\ entries[<<v, None>>] # None /\ <<v, None>> \in R!Episodes
      BY <1>0, <1>1, <3>1 DEF Vouched
    <3> QED BY <1>6, <3>2
  <2> QED BY <1>1, <1>2, <2>1, <2>2, <2>3 DEF Vouched, Receipted
<1> QED BY <1>7, <1>8, <1>9, <1>10, <1>11, <1>12 DEF RemindersInv

\* What is forgotten was changed.
LEMMA PruneKeeps ==
  ASSUME RemindersInv, R!Prune
  PROVE  RemindersInv'
<1> USE EpisodeFacts, RemindersNames
<1>0. /\ RemindersTyped /\ NumberedOnce /\ InOrder /\ Placed /\ KnownAll /\ Grouped /\ Vouched
      /\ R!ToldOnce
  BY DEF RemindersInv
<1>1. /\ UNCHANGED <<board, day, moves, pending, mail, packets, acked>> /\ step.pc = "ack"
      /\ entries' = [k \in R!Episodes |->
                       IF k \in step.live \/ k[1] \in Unlocks THEN entries[k] ELSE None]
      /\ step' = R!Resting /\ Past
  BY DEF R!Prune, R!Outside, Past
<1>2. step'.pc = "idle" /\ step'.groups = {} /\ step' \in Steps /\ ~Past'
  BY <1>1, RestingFacts DEF Past
<1>3. \A k \in R!Episodes : \/ entries'[k] = entries[k]
                            \/ entries'[k] = None /\ k[1] \in Due /\ k \notin step.live
  BY <1>1
<1>4. RemindersTyped'
  <2>1. entries' \in [R!Episodes -> R!Entry \union {None}]
    BY <1>0, <1>1 DEF RemindersTyped
  <2> QED BY <1>0, <1>1, <1>2, <2>1 DEF RemindersTyped
<1>5. NumberedOnce' /\ R!ToldOnce' /\ InOrder'
  BY <1>0, <1>1, <1>2 DEF NumberedOnce, R!ToldOnce, InOrder
<1>6. Placed'
  BY <1>0, <1>1, <1>2 DEF Placed, Theirs
<1>7. KnownAll'
  <2>1. ASSUME NEW m \in mail, NEW k \in m.keys PROVE Entered(m, k)'
    <3>1. Entered(m, k) /\ k \in R!Episodes
      BY <1>0 DEF KnownAll, RemindersTyped, Letters
    <3>2. CASE entries'[k] = entries[k]
      BY <1>1, <3>1, <3>2 DEF Entered
    <3>3. CASE k[1] \in Due /\ k \notin step.live
      <4>1. m.moves[k[1]] # moves[k[1]]
        BY <1>1, <3>3, LiveUnlessMoved
      <4> QED BY <1>1, <3>3, <4>1 DEF Entered
    <3> QED BY <1>3, <3>1, <3>2, <3>3
  <2> QED BY <1>1, <2>1 DEF KnownAll
<1>8. Grouped'
  BY <1>2 DEF Grouped
<1>9. Vouched'
  <2>1. ASSUME NEW k \in R!Episodes, entries'[k] # None
        PROVE  \E m \in mail : m.n = entries'[k].receipt /\ k \in m.keys
    BY <1>0, <1>3, <2>1 DEF Vouched, Receipted
  <2> QED BY <1>0, <1>1, <1>2, <2>1 DEF Vouched, Receipted
<1> QED BY <1>4, <1>5, <1>6, <1>7, <1>8, <1>9 DEF RemindersInv

\* At first nothing was told.
LEMMA RemindersBegin == R!RInit => RemindersInv
<1> SUFFICES ASSUME R!RInit PROVE RemindersInv
  OBVIOUS
<1> USE EpisodeFacts, RemindersNames DEF R!RInit
<1>1. step.pc = "idle" /\ step.groups = {} /\ step \in Steps /\ moves \in Counts
  BY RestingFacts DEF R!Unmoved, Counts
<1>2. RemindersTyped
  BY <1>1 DEF RemindersTyped
<1>3. NumberedOnce /\ KnownAll /\ R!ToldOnce /\ InOrder
  BY <1>1 DEF NumberedOnce, KnownAll, R!ToldOnce, InOrder, Past
<1>4. Placed /\ Grouped
  BY <1>1 DEF Placed, Grouped, Past
<1>5. Vouched
  BY <1>1 DEF Vouched
<1> QED BY <1>2, <1>3, <1>4, <1>5 DEF RemindersInv

\* Every step keeps the invariant.
LEMMA RemindersStep == RemindersInv /\ [R!RNext]_R!rvars => RemindersInv'
<1> SUFFICES ASSUME RemindersInv, [R!RNext]_R!rvars PROVE RemindersInv'
  OBVIOUS
<1>1. CASE UNCHANGED R!rvars
  <2>1. UNCHANGED <<board, day, upsets, entries, pending, step, mail, packets, acked, moves>>
    BY <1>1 DEF R!rvars
  <2> QED BY <2>1 DEF RemindersInv, RemindersTyped, NumberedOnce, InOrder, Past, Placed, Theirs, KnownAll, Entered,
                      Grouped, Spares, Vouched, Receipted, R!ToldOnce
<1> QED BY <1>1, BoardKeeps, StartKeeps, ReadKeeps, DoubtKeeps, PackKeeps, DeliverKeeps, AcksKeeps,
           AckKeeps, PruneKeeps DEF R!RNext

\* A behaviour of the ledgers about reminders is one of Reminders.
LEMMA RemindersOnly ==
  /\ LInit => R!RInit
  /\ [LNext]_all => subject' = subject /\ (subject = "reminders" => [R!RNext]_R!rvars)
BY DEF LInit, LNext, all, reminders, R!rvars

\* The invariant holds throughout.
LEMMA RemindersInvariance == LSpec => [](subject = "reminders" => RemindersInv)
<1>1. LInit => (subject = "reminders" => RemindersInv)
  BY RemindersOnly, RemindersBegin
<1>2. (subject = "reminders" => RemindersInv) /\ [LNext]_all =>
        (subject = "reminders" => RemindersInv)'
  BY RemindersOnly, RemindersStep
<1> QED BY <1>1, <1>2, PTL DEF LSpec

\* Nobody is told twice of one unlock event, nor by passes that began on one day of one
\* overdue item the board did not change between their readings: a packet is saved before
\* it is sent and is never sent again, whatever became of its answer or of the pass.
THEOREM NobodyIsToldTwice == LSpec => []ToldOnce
<1>1. (subject = "reminders" => RemindersInv) => ToldOnce
  BY DEF RemindersInv, ToldOnce
<1> QED BY <1>1, RemindersInvariance, PTL

\* The receipt a producer holds is that of a message which arrived and told its event.
THEOREM ReceiptsAreOfMessages == LSpec => []AckIsTold
<1>1. (subject = "reminders" => RemindersInv) => AckIsTold
  BY DEF RemindersInv, Vouched, Receipted, AckIsTold, R!AckIsTold
<1> QED BY <1>1, RemindersInvariance, PTL
=============================================================================
