--------------------------- MODULE HoldingsProofs ---------------------------
(***************************************************************************)
(* Window and Plates, as MCLedgers runs them, for every number of          *)
(* operators, launchers, windows and agents, and of items, owners and      *)
(* writers, where no two commands name one window at a time and no two     *)
(* writers have one item in hand (Serial); and Pulls, for every number of  *)
(* pull requests, pushes and deaths.  The arguments are about what a       *)
(* process may rely on between its look and its write.                     *)
(*                                                                         *)
(* Nothing locks a window's file, so that every command must be shown to   *)
(* write what it read: a plan holds the blank file that it created, any    *)
(* other command the lease of the window it names, from its first look to  *)
(* its end (Holds), and so is alone at it (Alone).  The rest is what a     *)
(* command found out and is about to write (Knows), and that the lease     *)
(* stands for the timer: it ran before if the lease says so, and else      *)
(* nobody has touched it.                                                  *)
(*                                                                         *)
(* PlateBounded is not inductive: what a writer admitted it writes later.  *)
(* PlatesInv adds that a writer between its lock and its write holds its   *)
(* plate (Locked) and its item (Apart) alone, so that whatever it counted  *)
(* in still fits (Admitted).  What gets onto the plate with no count, by a *)
(* lapse or by urgency, makes the plate larger but not the Tally of what   *)
(* was counted in.  GivenToOne needs whom an item may have been sent to    *)
(* (Known), which the plan of a dispatch asked about (Planned).            *)
(*                                                                         *)
(* That a write to a pull request is not sent again is known from the      *)
(* registry only, so PullsInv says that each write sent, or about to be,   *)
(* is recorded there (Journaled), and what the holder of the registry's    *)
(* lock has read is still so when it acts on it (Working).                 *)
(***************************************************************************)
EXTENDS MCLedgers, FiniteSetTheorems, TLAPS

-----------------------------------------------------------------------------
(* Maintenance windows: what a command has in hand.                         *)

\* The labels of a command that acts on the window that holds the lease.
Acting == {"pause", "observe", "update", "write", "start", "readback", "failed", "finish",
           "unlink"}
Restoring == {"start", "readback", "failed", "finish", "unlink"}

\* A command holds the file: a plan the blank one that it created, the others the lease
\* of the window they name.
Holds(o) ==
  /\ at[o] = "idle" <=> on[o] = None
  /\ at[o] # "idle" => cur[o].id = on[o]
  /\ at[o] \in {"create", "fill"} => cur[o].state = "planned"
  /\ at[o] = "fill" => ledger = W!Blank /\ mine = o
  /\ at[o] \in Acting => ledger.id = on[o] /\ cur[o].timer = ledger.timer

\* No two commands name one window.
Distinct(o) == \A q \in Operators : on[q] = on[o] /\ on[o] # None => q = o

\* What a command is about to write, and what it has found out.
Knows(o) ==
  /\ at[o] = "pause" => cmd[o] = "drain"
  /\ at[o] = "write" => /\ cur[o].state = "clear" => cmd[o] = "clear"
                        /\ cur[o].state = "restoring" => cmd[o] \notin {"drain", "clear"}
  /\ at[o] \in Restoring => ledger.state = "restoring" /\ cmd[o] \notin {"drain", "clear"}
  /\ at[o] \in {"update", "write"} /\ cmd[o] = "clear" => alive \subseteq strays
  /\ at[o] \in {"finish", "unlink"} => timer = cur[o].timer
  /\ cur[o].timer => before

WindowInv ==
  /\ W!TypeOK /\ W!ClearIsQuiet
  /\ timer => before
  /\ IF ledger.timer THEN before ELSE timer = before
  /\ \A o \in Operators : Holds(o) /\ Distinct(o) /\ Knows(o)

-----------------------------------------------------------------------------
(* Commands apart: a command that holds the file is alone at it.            *)

\* The constants that the proofs need to know of.
LEMMA WindowNames == None \notin Ids /\ None \notin Operators /\ MaxCrashes \in Nat
BY LedgersAssumption

\* Whoever holds the file is the only one.
LEMMA Alone ==
  ASSUME WindowInv, NEW o \in Operators, at[o] \in Acting \union {"fill"}
  PROVE  \A q \in Operators : q # o => at[q] \in {"idle", "create"}
<1> SUFFICES ASSUME NEW q \in Operators, q # o PROVE at[q] \in {"idle", "create"}
  OBVIOUS
<1>1. /\ Holds(o) /\ Holds(q) /\ Distinct(o) /\ at[q] \in W!Labels
      /\ on[o] \in Ids \union {None}
  BY DEF WindowInv, W!TypeOK
<1>2. at[q] \in {"idle", "create", "fill"} \union Acting
  BY <1>1 DEF W!Labels, Acting
<1>3. at[o] \in Acting => on[o] \in Ids
  BY <1>1 DEF Holds, Acting
<1>4. W!Blank.id = None
  BY DEF W!Blank
<1> QED BY <1>1, <1>2, <1>3, <1>4, WindowNames DEF Holds, Distinct, Acting

\* The others have what they had.
OthersStay(o) == \A q \in Operators : q # o => /\ at'[q] = at[q] /\ on'[q] = on[q]
                                               /\ cmd'[q] = cmd[q] /\ cur'[q] = cur[q]

\* What one command does while it holds the file is no matter to the others, nor what it
\* does while it leaves the file, the agents and the timer alone.
LEMMA OperatorsKeep ==
  ASSUME WindowInv, NEW o \in Operators, OthersStay(o), UNCHANGED before,
         \/ at[o] \in Acting \union {"fill"}
         \/ UNCHANGED <<ledger, mine, timer, alive, strays>>,
         on'[o] \in {on[o], None} \/ \A q \in Operators : on[q] # on'[o],
         Holds(o)', Knows(o)'
  PROVE  \A q \in Operators : Holds(q)' /\ Distinct(q)' /\ Knows(q)'
<1>1. ASSUME NEW q \in Operators PROVE Distinct(q)'
  BY DEF WindowInv, Distinct, OthersStay
<1>2. ASSUME NEW q \in Operators, q # o PROVE Holds(q)' /\ Knows(q)'
  <2>1. Holds(q) /\ Knows(q)
    BY DEF WindowInv
  <2>2. CASE UNCHANGED <<ledger, mine, timer, alive, strays>>
    BY <1>2, <2>1, <2>2 DEF Holds, Knows, OthersStay
  <2>3. CASE at[o] \in Acting \union {"fill"}
    <3>1. at[q] \in {"idle", "create"}
      BY <1>2, <2>3, Alone
    <3> QED BY <1>2, <2>1, <3>1 DEF Holds, Knows, OthersStay, Acting, Restoring
  <2> QED BY <2>2, <2>3
<1> QED BY <1>1, <1>2

\* A command that ends has nothing in hand.
LEMMA EndsFacts ==
  ASSUME WindowInv, NEW o \in Operators, W!Ends(o), UNCHANGED before
  PROVE  /\ at' \in [Operators -> W!Labels] /\ on' \in [Operators -> Ids \union {None}]
         /\ cmd' \in [Operators -> W!Commands \union {None}]
         /\ cur' \in [Operators -> W!Manifest \union {W!Absent}]
         /\ todo' \in [Operators -> SUBSET Agents]
         /\ OthersStay(o) /\ on'[o] = None /\ at'[o] = "idle"
         /\ Holds(o)' /\ Knows(o)'
<1>1. /\ at' \in [Operators -> W!Labels] /\ on' \in [Operators -> Ids \union {None}]
      /\ cmd' \in [Operators -> W!Commands \union {None}]
      /\ cur' \in [Operators -> W!Manifest \union {W!Absent}]
      /\ todo' \in [Operators -> SUBSET Agents]
  BY DEF W!Ends, WindowInv, W!TypeOK, W!Labels
<1>2. OthersStay(o) /\ on'[o] = None /\ at'[o] = "idle" /\ cur'[o] = W!Absent
  BY DEF W!Ends, WindowInv, W!TypeOK, OthersStay
<1>3. Holds(o)' /\ Knows(o)'
  BY <1>2 DEF Holds, Knows, W!Absent, Acting, Restoring
<1> QED BY <1>1, <1>2, <1>3

\* A command that ends and leaves the ledger, the agents and the strays alone, and the
\* timer unless it is one that the lease stands for.
LEMMA EndsKeeps ==
  ASSUME WindowInv, NEW o \in Operators, W!Ends(o),
         UNCHANGED <<ledger, mine, alive, gate, deaths, before, strays>>,
         \/ UNCHANGED timer
         \/ ledger.timer /\ timer' = FALSE /\ at[o] \in Acting
  PROVE  WindowInv'
<1>1. \A q \in Operators : Holds(q)' /\ Distinct(q)' /\ Knows(q)'
  BY EndsFacts, OperatorsKeep
<1>2. W!TypeOK' /\ W!ClearIsQuiet'
  BY EndsFacts DEF WindowInv, W!TypeOK, W!ClearIsQuiet
<1>3. (timer => before)' /\ (IF ledger.timer THEN before ELSE timer = before)'
  BY DEF WindowInv
<1> QED BY <1>1, <1>2, <1>3 DEF WindowInv

\* A command goes on.
LEMMA GotoFacts ==
  ASSUME WindowInv, NEW o \in Operators, NEW l \in W!Labels, W!Goto(o, l),
         UNCHANGED <<cmd, on, cur>>
  PROVE  /\ at' \in [Operators -> W!Labels] /\ at'[o] = l
         /\ OthersStay(o) /\ on'[o] = on[o] /\ cmd'[o] = cmd[o] /\ cur'[o] = cur[o]
BY DEF WindowInv, W!TypeOK, W!Goto, OthersStay

-----------------------------------------------------------------------------
(* One lemma per action.                                                    *)

\* A command begins, on a window that no other command names.
LEMMA BeginsKeeps ==
  ASSUME Serial, WindowInv, NEW o \in Operators, NEW c \in W!Commands, NEW w \in Ids,
         NEW m \in W!Manifest, NEW l \in {"create", "pause", "observe", "update"},
         W!Begins(o, c, w, m, l), m.id = w, m.timer => before,
         IF l = "create" THEN m.state = "planned" ELSE m = ledger,
         l = "update" => c # "clear", l = "pause" => c = "drain"
  PROVE  WindowInv'
<1>1. /\ at[o] = "idle" /\ \A q \in Operators : on[q] # w
      /\ UNCHANGED <<ledger, mine, alive, timer, todo, gate, deaths, strays, before>>
  BY DEF W!Begins
<1>2. /\ at' = [at EXCEPT ![o] = l] /\ cmd' = [cmd EXCEPT ![o] = c]
      /\ on' = [on EXCEPT ![o] = w] /\ cur' = [cur EXCEPT ![o] = m]
  BY DEF W!Begins, W!Goto
<1>3. /\ at'[o] = l /\ on'[o] = w /\ cur'[o] = m /\ cmd'[o] = c /\ OthersStay(o)
  BY <1>2 DEF WindowInv, W!TypeOK, OthersStay
<1>4. W!TypeOK' /\ W!ClearIsQuiet'
  BY <1>1, <1>2 DEF WindowInv, W!TypeOK, W!ClearIsQuiet, W!Labels
<1>5. Holds(o)' /\ Knows(o)'
  BY <1>1, <1>3, WindowNames DEF Holds, Knows, Acting, Restoring
<1>6. \A q \in Operators : Holds(q)' /\ Distinct(q)' /\ Knows(q)'
  BY <1>1, <1>3, <1>5, OperatorsKeep
<1> QED BY <1>1, <1>4, <1>6 DEF WindowInv

\* Plan: the timer that is recorded runs only if it ran before any window.
LEMMA WindowPlanKeeps ==
  ASSUME Serial, WindowInv, NEW o \in Operators, NEW w \in Ids, W!Plan(o, w)
  PROVE  WindowInv'
<1> DEFINE m == [id |-> w, state |-> "planned", roster |-> alive, timer |-> timer]
<1>1. m \in W!Manifest /\ m.id = w /\ m.state = "planned" /\ m.timer = timer
  BY DEF WindowInv, W!TypeOK, W!Manifest, W!States
<1>2. W!Begins(o, "plan", w, m, "create") /\ "plan" \in W!Commands
  BY DEF W!Plan, W!Commands
<1> HIDE DEF m
<1> QED BY <1>1, <1>2, BeginsKeeps DEF WindowInv

\* Drain, clear, release and abort begin with the manifest as it stands.
LEMMA CommandBegins ==
  ASSUME Serial, WindowInv, NEW o \in Operators, NEW w \in Ids, W!Command(o, w)
  PROVE  WindowInv'
<1>1. ledger \in W!Manifest /\ ledger.id = w /\ (ledger.timer => before)
  BY WindowNames DEF W!Command, WindowInv, W!TypeOK, W!Absent, W!Blank
<1>2. {"drain", "clear", "release", "abort"} \subseteq W!Commands
  BY DEF W!Commands
<1> QED BY <1>1, <1>2, BeginsKeeps DEF W!Command

\* Create: whoever created the file holds it.
LEMMA CreateKeeps ==
  ASSUME WindowInv, NEW o \in Operators, W!Create(o)
  PROVE  WindowInv'
<1>1. CASE W!Ends(o) /\ UNCHANGED <<ledger, mine>>
  BY <1>1, EndsKeeps DEF W!Create
<1>2. CASE /\ ledger = W!Absent /\ ledger' = W!Blank /\ mine' = o /\ W!Goto(o, "fill")
           /\ UNCHANGED <<cmd, on, cur, todo>>
  <2>1. /\ UNCHANGED <<alive, timer, gate, deaths, strays, before>> /\ at[o] = "create"
        /\ W!Absent.id = None /\ W!Absent.timer = FALSE
        /\ W!Blank.timer = FALSE /\ W!Blank.state = "blank"
    BY DEF W!Create, W!Absent, W!Blank
  <2>2. "fill" \in W!Labels
    BY DEF W!Labels
  <2>3. at'[o] = "fill" /\ OthersStay(o) /\ on'[o] = on[o] /\ cur'[o] = cur[o]
    BY <1>2, <2>2, GotoFacts
  <2>4. W!TypeOK' /\ W!ClearIsQuiet'
    BY <1>2, <2>1, <2>2, GotoFacts DEF WindowInv, W!TypeOK, W!ClearIsQuiet
  <2>5. Holds(o) /\ Knows(o) /\ \A q \in Operators : at[q] \notin Acting \union {"fill"}
    <3>1. ASSUME NEW q \in Operators, at[q] \in Acting \union {"fill"} PROVE FALSE
      <4>1. Holds(q) /\ on[q] \in Ids \union {None}
        BY DEF WindowInv, W!TypeOK
      <4> QED BY <1>2, <2>1, <3>1, <4>1, WindowNames DEF Holds, Acting, W!Absent, W!Blank
    <3> QED BY <3>1 DEF WindowInv
  <2>6. ASSUME NEW q \in Operators PROVE Holds(q)' /\ Distinct(q)' /\ Knows(q)'
    <3>1. Holds(q) /\ Distinct(q) /\ Knows(q) /\ at[q] \notin Acting \union {"fill"}
      BY <2>5 DEF WindowInv
    <3>2. Holds(q)'
      BY <1>2, <2>1, <2>3, <2>5, <3>1 DEF Holds, OthersStay, Acting
    <3>3. Distinct(q)'
      BY <1>2, <3>1 DEF Distinct
    <3>4. Knows(q)'
      BY <1>2, <2>1, <2>3, <2>5, <3>1 DEF Knows, OthersStay, Acting, Restoring
    <3> QED BY <3>2, <3>3, <3>4
  <2> QED BY <1>2, <2>1, <2>4, <2>6 DEF WindowInv
<1> QED BY <1>1, <1>2 DEF W!Create

\* Fill: the window that is written recorded a timer that stands as it did before.
LEMMA FillKeeps ==
  ASSUME WindowInv, NEW o \in Operators, W!Fill(o)
  PROVE  WindowInv'
<1>1. /\ at[o] = "fill" /\ UNCHANGED <<alive, timer, gate, deaths, strays, before>>
      /\ W!Ends(o) /\ ledger' \in {cur[o], W!Absent} /\ mine' \in {None, mine}
  BY DEF W!Fill, WindowInv, Holds
<1>2. /\ ledger = W!Blank /\ cur[o].state = "planned" /\ (cur[o].timer => before)
      /\ cur[o] \in W!Manifest \union {W!Absent}
  BY <1>1 DEF WindowInv, Holds, Knows, W!TypeOK
<1>3. W!TypeOK' /\ W!ClearIsQuiet'
  BY <1>1, <1>2, EndsFacts DEF WindowInv, W!TypeOK, W!ClearIsQuiet, W!Absent
<1>4. \A q \in Operators : Holds(q)' /\ Distinct(q)' /\ Knows(q)'
  BY <1>1, EndsFacts, OperatorsKeep
<1>5. (IF ledger.timer THEN before ELSE timer = before)'
  BY <1>1, <1>2 DEF WindowInv, W!Blank, W!Absent
<1> QED BY <1>1, <1>3, <1>4, <1>5 DEF WindowInv

\* A command goes on to another label and leaves the ledger alone.
LEMMA CommandGoesOn ==
  ASSUME WindowInv, NEW o \in Operators, NEW l \in Acting, W!Goto(o, l), at[o] \in Acting,
         UNCHANGED <<ledger, mine, gate, deaths, before, cmd, on>>,
         OthersStay(o), cur' \in [Operators -> W!Manifest \union {W!Absent}],
         cur'[o].id = on[o], cur'[o].timer = ledger.timer,
         todo' \in [Operators -> SUBSET Agents], alive' \subseteq Agents,
         strays' \subseteq Agents, timer' \in BOOLEAN, timer' # timer => ledger.timer,
         ledger.state = "clear" => alive' \subseteq strays',
         Knows(o)'
  PROVE  WindowInv'
<1>1. at' \in [Operators -> W!Labels] /\ at'[o] = l
  BY DEF WindowInv, W!TypeOK, W!Goto, W!Labels, Acting
<1>2. W!TypeOK' /\ W!ClearIsQuiet'
  BY <1>1 DEF WindowInv, W!TypeOK, W!ClearIsQuiet
<1>3. Holds(o)'
  BY <1>1 DEF WindowInv, Holds, Acting
<1>4. \A q \in Operators : Holds(q)' /\ Distinct(q)' /\ Knows(q)'
  BY <1>3, OperatorsKeep
<1>5. (timer => before)' /\ (IF ledger.timer THEN before ELSE timer = before)'
  BY DEF WindowInv, W!TypeOK
<1> QED BY <1>2, <1>4, <1>5 DEF WindowInv

\* Whoever acts on a window has its manifest in hand, but for the state.
LEMMA Acts ==
  ASSUME WindowInv, NEW o \in Operators, at[o] \in Acting
  PROVE  /\ Holds(o) /\ Knows(o) /\ on[o] \in Ids /\ ledger \in W!Manifest
         /\ cur[o] \in W!Manifest /\ cur[o].id = on[o] /\ ledger.id = on[o]
         /\ cur[o].timer = ledger.timer /\ at[o] # "idle" /\ cur[o].roster \subseteq Agents
<1>1. Holds(o) /\ Knows(o) /\ at[o] # "idle" /\ on[o] \in Ids
  BY DEF WindowInv, Holds, W!TypeOK, Acting
<1>2. ledger.id = on[o] /\ cur[o].id = on[o] /\ cur[o].timer = ledger.timer
  BY <1>1 DEF Holds
<1>3. ledger \in W!Manifest /\ cur[o] \in W!Manifest
  BY <1>1, <1>2, WindowNames DEF WindowInv, W!TypeOK, W!Absent, W!Blank
<1> QED BY <1>1, <1>2, <1>3 DEF W!Manifest

\* Pause: only a timer that ran is stopped.
LEMMA PauseKeeps ==
  ASSUME WindowInv, NEW o \in Operators, W!Pause(o)
  PROVE  WindowInv'
<1>1. /\ at[o] = "pause" /\ at[o] \in Acting
      /\ UNCHANGED <<ledger, mine, alive, gate, deaths, before, strays>>
  BY DEF W!Pause, W!Here, W!Away, Acting
<1>2. CASE W!Ends(o)
  BY <1>1, <1>2, Acts, EndsKeeps DEF W!Pause, WindowInv, W!TypeOK
<1>3. CASE W!Goto(o, "update") /\ UNCHANGED <<cmd, on, cur, todo>>
  <2>1. /\ OthersStay(o) /\ at'[o] = "update" /\ cur'[o] = cur[o] /\ cmd'[o] = cmd[o]
        /\ cur[o].timer = ledger.timer /\ cur[o].id = on[o] /\ cmd[o] = "drain"
    BY <1>1, <1>3, Acts, GotoFacts DEF W!Labels, Knows
  <2>2. timer' \in BOOLEAN /\ (timer' # timer => ledger.timer)
    BY <1>1, <2>1 DEF W!Pause, WindowInv, W!TypeOK
  <2>3. Knows(o)'
    BY <1>1, <1>3, <2>1, Acts DEF Knows, Restoring
  <2> QED BY <1>1, <1>3, <2>1, <2>2, <2>3, CommandGoesOn
             DEF WindowInv, W!TypeOK, W!ClearIsQuiet, Acting
<1> QED BY <1>2, <1>3 DEF W!Pause

\* Observe: nothing runs when CLEAR is concluded.
LEMMA ObserveKeeps ==
  ASSUME WindowInv, NEW o \in Operators, W!Observe(o)
  PROVE  WindowInv'
<1>1. /\ at[o] = "observe" /\ at[o] \in Acting
      /\ UNCHANGED <<ledger, mine, alive, timer, gate, deaths, before>>
  BY DEF W!Observe, W!Away, Acting
<1>2. CASE W!Ends(o) /\ UNCHANGED strays
  BY <1>1, <1>2, EndsKeeps
<1>3. CASE /\ alive = {} /\ strays' = {} /\ W!Goto(o, "update")
           /\ UNCHANGED <<cmd, on, cur, todo>>
  <2>1. /\ OthersStay(o) /\ at'[o] = "update" /\ cur'[o] = cur[o] /\ cmd'[o] = cmd[o]
        /\ cur[o].timer = ledger.timer /\ cur[o].id = on[o]
    BY <1>1, <1>3, Acts, GotoFacts DEF W!Labels
  <2>2. Knows(o)'
    BY <1>1, <1>3, <2>1, Acts DEF Knows, Restoring
  <2> QED BY <1>1, <1>3, <2>1, <2>2, CommandGoesOn DEF WindowInv, W!TypeOK, Acting
<1> QED BY <1>2, <1>3 DEF W!Observe

\* UpdateReads: what is about to be written is the window's own manifest.
LEMMA UpdateReadsKeeps ==
  ASSUME WindowInv, NEW o \in Operators, W!UpdateReads(o)
  PROVE  WindowInv'
<1> DEFINE s == W!Becomes(o)
           m == [ledger EXCEPT !.state = s]
<1>1. /\ at[o] \in {"update", "failed"} /\ at[o] \in Acting
      /\ UNCHANGED <<ledger, mine, alive, timer, gate, deaths, before, strays>>
  BY DEF W!UpdateReads, W!Here, W!Away, Acting
<1>2. /\ cur' = [cur EXCEPT ![o] = m] /\ W!Goto(o, "write") /\ UNCHANGED <<cmd, on, todo>>
      /\ ledger \in W!Manifest /\ ledger.id = on[o] /\ Knows(o)
  BY <1>1, Acts DEF W!UpdateReads
<1>3. /\ s \in W!States /\ (s = "clear" <=> cmd[o] = "clear")
      /\ s = "restoring" => cmd[o] \notin {"drain", "clear"}
  <2>1. at[o] = "failed" => cmd[o] \notin {"drain", "clear"}
    BY <1>2 DEF Knows, Restoring
  <2>2. CASE cmd[o] = "drain"
    BY <2>1, <2>2 DEF W!Becomes, W!States
  <2>3. CASE cmd[o] = "clear"
    BY <2>1, <2>3 DEF W!Becomes, W!States
  <2>4. CASE cmd[o] \notin {"drain", "clear"}
    BY <2>4 DEF W!Becomes, W!States
  <2> QED BY <2>2, <2>3, <2>4
<1> HIDE DEF s
<1>4. m \in W!Manifest /\ m.id = ledger.id /\ m.timer = ledger.timer /\ m.state = s
  BY <1>2, <1>3 DEF W!Manifest
<1> HIDE DEF m
<1>5. /\ OthersStay(o) /\ at'[o] = "write" /\ cur'[o] = m /\ cmd'[o] = cmd[o]
      /\ cur' \in [Operators -> W!Manifest \union {W!Absent}]
  BY <1>2, <1>4 DEF WindowInv, W!TypeOK, W!Goto, OthersStay
<1>6. cmd[o] = "clear" => alive \subseteq strays
  BY <1>1, <1>2 DEF Knows, Restoring
<1>7. Knows(o)'
  <2>1. ledger.timer => before
    BY DEF WindowInv
  <2> QED BY <1>1, <1>3, <1>4, <1>5, <1>6, <2>1 DEF Knows, Restoring
<1> QED BY <1>1, <1>2, <1>4, <1>5, <1>7, CommandGoesOn
           DEF WindowInv, W!TypeOK, W!ClearIsQuiet, Acting

\* UpdateWrites: the lease stays the window's.
LEMMA UpdateWritesKeeps ==
  ASSUME WindowInv, NEW o \in Operators, W!UpdateWrites(o)
  PROVE  WindowInv'
<1>1. /\ at[o] = "write" /\ at[o] \in Acting /\ ledger' = cur[o] /\ mine' = None
      /\ UNCHANGED <<alive, timer, gate, deaths, before, strays>>
  BY DEF W!UpdateWrites, Acting
<1>2. /\ Knows(o) /\ cur[o] \in W!Manifest /\ cur[o].timer = ledger.timer
      /\ cur[o].id = on[o] /\ cur[o].roster \subseteq Agents
  BY <1>1, Acts
<1>3. ledger' \in W!Manifest /\ mine' \in Operators \union {None} /\ W!ClearIsQuiet'
  BY <1>1, <1>2 DEF W!ClearIsQuiet, Knows
<1>4. (IF ledger.timer THEN before ELSE timer = before)'
  BY <1>1, <1>2 DEF WindowInv
<1>5. CASE W!Ends(o)
  <2>1. W!TypeOK'
    BY <1>1, <1>3, <1>5, EndsFacts DEF WindowInv, W!TypeOK
  <2>2. \A q \in Operators : Holds(q)' /\ Distinct(q)' /\ Knows(q)'
    BY <1>1, <1>5, EndsFacts, OperatorsKeep
  <2> QED BY <1>1, <1>3, <1>4, <2>1, <2>2 DEF WindowInv
<1>6. CASE /\ cur[o].state = "restoring" /\ W!Goto(o, "start")
           /\ todo' = [todo EXCEPT ![o] = cur[o].roster] /\ UNCHANGED <<cmd, on, cur>>
  <2>1. /\ at' \in [Operators -> W!Labels] /\ at'[o] = "start" /\ OthersStay(o)
        /\ on'[o] = on[o] /\ cmd'[o] = cmd[o] /\ cur'[o] = cur[o]
    BY <1>6, GotoFacts DEF W!Labels
  <2>2. W!TypeOK'
    BY <1>1, <1>2, <1>3, <1>6, <2>1 DEF WindowInv, W!TypeOK
  <2>3. Holds(o)' /\ Knows(o)'
    BY <1>1, <1>2, <1>6, <2>1, Acts DEF Holds, Knows, Acting, Restoring
  <2>4. \A q \in Operators : Holds(q)' /\ Distinct(q)' /\ Knows(q)'
    BY <1>1, <2>1, <2>3, OperatorsKeep
  <2> QED BY <1>1, <1>3, <1>4, <2>2, <2>4 DEF WindowInv
<1> QED BY <1>5, <1>6 DEF W!UpdateWrites

\* A restore goes on, and the lease it holds is in the state of a restore.
LEMMA RestoreKeeps ==
  ASSUME WindowInv, NEW o \in Operators, at[o] \in Restoring, NEW l \in Restoring,
         (UNCHANGED at /\ at[o] = l) \/ W!Goto(o, l), W!Here, UNCHANGED <<cmd, on, cur>>,
         todo' \in [Operators -> SUBSET Agents], alive' \subseteq Agents,
         timer' \in BOOLEAN, timer' # timer => ledger.timer,
         l \in {"finish", "unlink"} => timer' = cur[o].timer
  PROVE  WindowInv'
<1>1. /\ at[o] \in Acting /\ l \in Acting /\ l \in W!Labels
      /\ UNCHANGED <<ledger, mine, gate, deaths, before, strays>>
  BY DEF Restoring, Acting, W!Labels, W!Here, W!Away
<1>2. W!Goto(o, l)
  BY DEF W!Goto, WindowInv, W!TypeOK
<1>3. /\ OthersStay(o) /\ at'[o] = l /\ cur'[o] = cur[o] /\ cmd'[o] = cmd[o]
      /\ cur[o].timer = ledger.timer /\ cur[o].id = on[o] /\ Knows(o)
  BY <1>1, <1>2, Acts, GotoFacts
<1>4. Knows(o)'
  BY <1>1, <1>3 DEF Knows, Restoring
<1>5. ledger.state # "clear"
  BY <1>3 DEF Knows
<1> QED BY <1>1, <1>2, <1>3, <1>4, <1>5, CommandGoesOn DEF WindowInv, W!TypeOK

\* StartAgent: while the lease is not CLEAR.
LEMMA StartAgentKeeps ==
  ASSUME WindowInv, NEW o \in Operators, W!StartAgent(o)
  PROVE  WindowInv'
<1>1. /\ at[o] = "start" /\ UNCHANGED <<timer, cmd, on, cur>> /\ W!Here
      /\ todo \in [Operators -> SUBSET Agents] /\ alive \subseteq Agents /\ timer \in BOOLEAN
  BY DEF W!StartAgent, WindowInv, W!TypeOK
<1>2. PICK a \in todo[o] :
        \/ /\ alive' = alive \union {a} /\ todo' = [todo EXCEPT ![o] = @ \ {a}]
           /\ UNCHANGED at
        \/ W!Goto(o, "failed") /\ alive' \in {alive, alive \union {a}} /\ UNCHANGED todo
  BY DEF W!StartAgent
<1>3. alive' \subseteq Agents /\ todo' \in [Operators -> SUBSET Agents]
  BY <1>1, <1>2
<1> QED BY <1>1, <1>2, <1>3, RestoreKeeps DEF Restoring

\* Resume: only a timer that ran is started.
LEMMA ResumeKeeps ==
  ASSUME WindowInv, NEW o \in Operators, W!Resume(o)
  PROVE  WindowInv'
<1>1. /\ at[o] = "start" /\ UNCHANGED <<alive, cmd, on, cur, todo>> /\ W!Here
      /\ todo \in [Operators -> SUBSET Agents] /\ alive \subseteq Agents /\ timer \in BOOLEAN
      /\ \E l \in {"readback", "failed"} : W!Goto(o, l)
  BY DEF W!Resume, WindowInv, W!TypeOK
<1>2. cur[o].timer = ledger.timer
  BY <1>1, Acts DEF Acting
<1>3. timer' \in BOOLEAN /\ (timer' # timer => ledger.timer)
  BY <1>1, <1>2 DEF W!Resume
<1> QED BY <1>1, <1>3, RestoreKeeps DEF Restoring

\* ReadBack: a restore is finished only with the timer as it was recorded.
LEMMA ReadBackKeeps ==
  ASSUME WindowInv, NEW o \in Operators, W!ReadBack(o)
  PROVE  WindowInv'
<1>1. /\ at[o] = "readback" /\ UNCHANGED <<alive, timer, cmd, on, cur, todo>> /\ W!Here
      /\ todo \in [Operators -> SUBSET Agents] /\ alive \subseteq Agents /\ timer \in BOOLEAN
      /\ W!Goto(o, "failed") \/ (W!Goto(o, "finish") /\ timer = cur[o].timer)
  BY DEF W!ReadBack, WindowInv, W!TypeOK
<1> QED BY <1>1, RestoreKeeps DEF Restoring

\* FinishReads: the lease is still the window's.
LEMMA FinishReadsKeeps ==
  ASSUME WindowInv, NEW o \in Operators, W!FinishReads(o)
  PROVE  WindowInv'
<1>1. /\ at[o] = "finish" /\ UNCHANGED <<alive, timer, strays>> /\ W!Here
      /\ todo \in [Operators -> SUBSET Agents] /\ alive \subseteq Agents /\ timer \in BOOLEAN
  BY DEF W!FinishReads, WindowInv, W!TypeOK, W!Here
<1>2. timer = cur[o].timer /\ ledger.id = on[o]
  BY <1>1, Acts DEF Knows, Acting
<1>3. W!Goto(o, "unlink") /\ UNCHANGED <<cmd, on, cur, todo>>
  BY <1>2 DEF W!FinishReads
<1> QED BY <1>1, <1>2, <1>3, RestoreKeeps DEF Restoring

\* FinishUnlinks: with the lease gone the timer is as before.
LEMMA FinishUnlinksKeeps ==
  ASSUME WindowInv, NEW o \in Operators, W!FinishUnlinks(o)
  PROVE  WindowInv'
<1>1. /\ at[o] = "unlink" /\ ledger' = W!Absent /\ mine' = None /\ W!Ends(o)
      /\ UNCHANGED <<alive, timer, gate, deaths, strays, before>> /\ at[o] \in Acting
  BY DEF W!FinishUnlinks, Acting
<1>2. timer = before
  BY <1>1, Acts DEF Knows, WindowInv, W!TypeOK
<1>3. W!TypeOK' /\ W!ClearIsQuiet'
  BY <1>1, EndsFacts DEF WindowInv, W!TypeOK, W!ClearIsQuiet, W!Absent
<1>4. \A q \in Operators : Holds(q)' /\ Distinct(q)' /\ Knows(q)'
  BY <1>1, EndsFacts, OperatorsKeep
<1> QED BY <1>1, <1>2, <1>3, <1>4 DEF WindowInv, W!Absent

\* A command that dies leaves the file as it is.
LEMMA CrashKeeps ==
  ASSUME WindowInv, NEW o \in Operators, W!Crash(o)
  PROVE  WindowInv'
<1>1. /\ W!Ends(o) /\ UNCHANGED <<ledger, mine, alive, timer, gate, strays, before>>
      /\ deaths' \in 0 .. MaxCrashes
  BY WindowNames DEF W!Crash, WindowInv, W!TypeOK
<1>2. W!TypeOK' /\ W!ClearIsQuiet'
  BY <1>1, EndsFacts DEF WindowInv, W!TypeOK, W!ClearIsQuiet
<1>3. \A q \in Operators : Holds(q)' /\ Distinct(q)' /\ Knows(q)'
  BY <1>1, EndsFacts, OperatorsKeep
<1> QED BY <1>1, <1>2, <1>3 DEF WindowInv

\* Launchers and agents: what runs that was not there is a stray.
LEMMA LaunchersKeep ==
  ASSUME WindowInv,
         \/ \E l \in Launchers : W!Gate(l) \/ W!Launch(l)
         \/ \E a \in Agents : W!AgentStops(a)
         \/ UNCHANGED <<ledger, mine, alive, timer, at, cmd, on, cur, todo, gate, deaths,
                        strays, before>>
  PROVE  WindowInv'
<1>1. /\ UNCHANGED <<ledger, mine, timer, at, cmd, on, cur, todo, deaths, before>>
      /\ alive' \subseteq Agents /\ strays' \subseteq Agents /\ gate' \subseteq Launchers
      /\ alive \subseteq strays => alive' \subseteq strays'
  BY DEF W!Gate, W!Launch, W!AgentStops, W!proc, WindowInv, W!TypeOK
<1>2. W!TypeOK' /\ W!ClearIsQuiet'
  BY <1>1 DEF WindowInv, W!TypeOK, W!ClearIsQuiet
<1>3. \A q \in Operators : Holds(q)' /\ Distinct(q)' /\ Knows(q)'
  BY <1>1 DEF WindowInv, Holds, Distinct, Knows
<1> QED BY <1>1, <1>2, <1>3 DEF WindowInv

-----------------------------------------------------------------------------
(* The specification.                                                       *)

\* No window, nobody at work, and the timer as it is.
LEMMA WindowBegins == W!Init => WindowInv
<1> SUFFICES ASSUME W!Init PROVE WindowInv
  OBVIOUS
<1> USE WindowNames DEF W!Init
<1>1. W!TypeOK
  BY DEF W!TypeOK, W!Labels
<1>2. W!ClearIsQuiet /\ (timer => before) /\ ~ledger.timer /\ timer = before
  BY DEF W!ClearIsQuiet, W!Absent
<1>3. ASSUME NEW o \in Operators PROVE Holds(o) /\ Distinct(o) /\ Knows(o)
  BY DEF Holds, Distinct, Knows, Acting, Restoring, W!Absent
<1> QED BY <1>1, <1>2, <1>3 DEF WindowInv

\* Every step keeps the invariant: one lemma per action.
LEMMA WindowStep == Serial /\ WindowInv /\ [W!Next]_W!vars => WindowInv'
<1> SUFFICES ASSUME Serial, WindowInv, [W!Next]_W!vars PROVE WindowInv'
  OBVIOUS
<1>1. ASSUME NEW o \in Operators, NEW w \in Ids, W!Plan(o, w) \/ W!Command(o, w)
      PROVE  WindowInv'
  BY <1>1, WindowPlanKeeps, CommandBegins
<1>2. ASSUME NEW o \in Operators, W!Step(o) PROVE WindowInv'
  BY <1>2, CreateKeeps, FillKeeps, PauseKeeps, ObserveKeeps, UpdateReadsKeeps,
     UpdateWritesKeeps, StartAgentKeeps, ResumeKeeps, ReadBackKeeps, FinishReadsKeeps,
     FinishUnlinksKeeps DEF W!Step
<1>3. CASE UNCHANGED W!vars
  BY <1>3, LaunchersKeep DEF W!vars, W!proc
<1> QED BY <1>1, <1>2, <1>3, CrashKeeps, LaunchersKeep DEF W!Next

\* A behaviour of the ledgers about windows is one of Window; in the others no window
\* is ever taken.
LEMMA WindowOnly ==
  /\ LInit => W!Init
  /\ [LNext]_all => subject' = subject
  /\ [LNext]_all /\ subject = "window" => [W!Next]_W!vars
  /\ [LNext]_all /\ subject # "window" => UNCHANGED W!vars
BY DEF LInit, LNext, all, window, W!vars, W!proc

\* The invariant holds throughout.
LEMMA WindowInvariance == Serial => (LSpec => []WindowInv)
<1> SUFFICES ASSUME Serial PROVE LSpec => []WindowInv
  OBVIOUS
<1>1. LInit => WindowInv
  BY WindowOnly, WindowBegins
<1>2. WindowInv /\ [LNext]_all => WindowInv'
  BY WindowOnly, WindowStep
<1> QED BY <1>1, <1>2, PTL DEF LSpec

\* The lease of a window goes only by a release or an abort of that window: a step that
\* takes its id from the file is the unlinking by a command that names it.
LEMMA StepLeases ==
  ASSUME WindowInv, W!Next, NEW w \in Ids, ledger.id = w, ledger'.id # w
  PROVE  \E o \in Operators : on[o] = w /\ at[o] = "unlink" /\ at'[o] = "idle"
<1>1. W!Absent.id = None /\ W!Blank.id = None
  BY DEF W!Absent, W!Blank
<1>2. ASSUME NEW o \in Operators, W!Create(o) PROVE FALSE
  BY <1>1, <1>2, WindowNames DEF W!Create
<1>3. ASSUME NEW o \in Operators, W!Fill(o) PROVE FALSE
  BY <1>1, <1>3, WindowNames DEF W!Fill, WindowInv, Holds
<1>4. ASSUME NEW o \in Operators, W!UpdateWrites(o) PROVE FALSE
  BY <1>4, Acts DEF W!UpdateWrites, Acting
<1>5. ASSUME NEW o \in Operators, W!FinishUnlinks(o)
      PROVE  on[o] = w /\ at[o] = "unlink" /\ at'[o] = "idle"
  BY <1>5, Acts, EndsFacts DEF W!FinishUnlinks, Acting
<1>6. ASSUME NEW o \in Operators,
             \/ \E v \in Ids : W!Plan(o, v) \/ W!Command(o, v)
             \/ W!Pause(o) \/ W!Observe(o) \/ W!UpdateReads(o) \/ W!StartAgent(o)
             \/ W!Resume(o) \/ W!ReadBack(o) \/ W!FinishReads(o) \/ W!Crash(o)
      PROVE  ledger' = ledger
  BY <1>6 DEF W!Plan, W!Command, W!Begins, W!Pause, W!Observe, W!UpdateReads,
              W!StartAgent, W!Resume, W!ReadBack, W!FinishReads, W!Crash, W!Here, W!Away
<1>7. ASSUME \/ \E l \in Launchers : W!Gate(l) \/ W!Launch(l)
             \/ \E a \in Agents : W!AgentStops(a)
      PROVE  ledger' = ledger
  BY <1>7 DEF W!Gate, W!Launch, W!AgentStops
<1> QED BY <1>2, <1>3, <1>4, <1>5, <1>6, <1>7 DEF W!Next, W!Step

\* "Two simultaneous window ids cannot coexist": where no two commands name one window at
\* a time, the lease goes only by a release or an abort of the window that holds it,
\* whatever others plan, clear or abort, and whatever crashes.
THEOREM LeaseIsKept == Serial => (LSpec => LeaseKept)
<1> SUFFICES ASSUME Serial PROVE LSpec => LeaseKept
  OBVIOUS
<1>1. WindowInv /\ [LNext]_all =>
        [\A w \in Ids : ledger.id = w /\ ledger'.id # w =>
           \E o \in Operators : on[o] = w /\ at[o] = "unlink" /\ at'[o] = "idle"]_W!vars
  BY WindowOnly, StepLeases
<1> QED BY <1>1, WindowInvariance, PTL DEF LSpec, LeaseKept, W!LeaseKept

\* CLEAR means that no agent runs but one a launcher past its gate started: a restore,
\* which starts agents, and a clear are never at work on the lease together.
THEOREM ClearMeansQuiet == Serial => (LSpec => []ClearIsQuiet)
<1>1. WindowInv => ClearIsQuiet
  BY DEF WindowInv, ClearIsQuiet
<1> QED BY <1>1, WindowInvariance, PTL

\* With no window and no command under way the tend timer is as it was before, whatever
\* failed or crashed on the way: a lease that recorded a running timer goes only when
\* that timer was read back.
THEOREM TheTimerComesBack == Serial => (LSpec => []TimerComesBack)
<1>1. WindowInv => TimerComesBack
  BY DEF WindowInv, TimerComesBack, W!TimerComesBack, W!Absent
<1> QED BY <1>1, WindowInvariance, PTL

-----------------------------------------------------------------------------
(* Plates: what a writer has in hand.                                       *)

\* What a writer has in hand between its lock and its write.
AtWork == {"admit", "write", "plan", "send", "track"}

Pen == [pc : AtWork \union {"idle", "wait"}, op : {"none", "create", "update", "go"},
        i : Items \union {None}, says : P!Sayings, by : {"none", "count", "rank"},
        plate : Owners \union {None}, was : Owners \union {None}]

\* Every variable has its type.
PlatesTyped ==
  /\ item \in [Items -> P!Records]
  /\ lock \in [Owners -> Writers \union {None}] /\ pen \in [Writers -> Pen]
  /\ ops \in Nat
  /\ given \in [Items -> SUBSET Owners] /\ doubt \subseteq Items /\ over \subseteq Items

\* A writer with a plate holds its lock, and one that waits does for none.
Locked(w) ==
  /\ pen[w].pc # "idle" => pen[w].i \in Items
  /\ pen[w].pc \in AtWork => pen[w].plate = None \/ lock[pen[w].plate] = w
  /\ pen[w].pc \notin {"idle", "write"} => pen[w].plate \in Owners
  /\ \A o \in Owners : lock[o] = w => pen[w].pc \in AtWork /\ pen[w].plate = o

\* Two writers never have one item in hand.
Apart(w) == \A v \in Writers : pen[w].pc \in AtWork /\ pen[v].pc \in AtWork
                               /\ pen[v].i = pen[w].i => v = w

\* Whom an operation is about.
Names(w) ==
  /\ pen[w].pc = "wait" /\ pen[w].op # "update" => pen[w].says.owner = pen[w].plate
  /\ pen[w].pc = "wait" /\ pen[w].op = "go" => pen[w].says.st = "open"
  /\ pen[w].pc = "wait" /\ pen[w].op = "update" =>
        pen[w].says.owner = pen[w].plate
        \/ (pen[w].says.owner = "same" /\ pen[w].was = pen[w].plate)
  /\ pen[w].pc = "admit" =>
        pen[w].says.owner = pen[w].plate
        \/ (pen[w].says.owner = "same" /\ item[pen[w].i].owner = pen[w].plate)
  /\ pen[w].pc \in {"plan", "send", "track"} =>
        pen[w].says.owner = pen[w].plate /\ pen[w].says.st = "open"
  /\ pen[w].pc # "write" => pen[w].by = "none"

\* What the count let in.
Tally(o) == P!Plate(o) \ over

\* That item i becomes y is in order on this ground: nobody's active work but whose it is
\* already, or the plate's, which has a place for it.
Fits(i, y, o, ground) ==
  /\ ground \in {"none", "count", "rank"}
  /\ ground = "none" => \A q \in Owners : P!Active(y, q) => P!Active(item[i], q) \/ i \in over
  /\ ground = "count" => o \in Owners /\ y.owner = o /\ Cardinality(Tally(o)) < MaxActive

\* What is about to be written was admitted.
Admitted(w) ==
  pen[w].pc = "write" => Fits(pen[w].i, P!Proposed(w), pen[w].plate, pen[w].by)

\* Nobody has been sent the item but its owner, or whom `st go` is about to record.
Known(i) ==
  i \notin doubt =>
    \/ given[i] \subseteq {item[i].owner}
    \/ \E w \in Writers : pen[w].pc = "track" /\ pen[w].i = i /\ given[i] = {pen[w].plate}

\* What is being sent is held by nobody else.
Planned(w) == pen[w].pc \in {"send", "track"} => ~P!Taken(pen[w].i, pen[w].plate)

PlatesInv ==
  /\ PlatesTyped /\ P!PlateBounded
  /\ \A w \in Writers : Locked(w) /\ Apart(w) /\ Names(w) /\ Admitted(w) /\ Planned(w)
  /\ \A i \in Items : Known(i)

-----------------------------------------------------------------------------
(* Plates as finite sets.                                                   *)

\* The instance of Plates counts as this module does.
LEMMA CountsAgree == \A S : P!Cardinality(S) = Cardinality(S)
BY DEF P!Cardinality, Cardinality

\* What a plate holds, and what of it was counted in, are finite sets of items.
LEMMA PlateFinite ==
  ASSUME NEW o
  PROVE  /\ IsFiniteSet(P!Plate(o)) /\ IsFiniteSet(Tally(o))
         /\ Cardinality(P!Plate(o)) \in Nat /\ Cardinality(Tally(o)) \in Nat
         /\ Cardinality(Tally(o)) <= Cardinality(P!Plate(o))
<1>1. IsFiniteSet(P!Plate(o))
  BY LedgersAssumption, FS_Subset DEF P!Plate
<1>2. Tally(o) \subseteq P!Plate(o)
  BY DEF Tally
<1> QED BY <1>1, <1>2, FS_Subset, FS_CardinalityType

\* Less in the tally leaves as much room, and no more than its bound.
LEMMA LessOnPlate ==
  ASSUME NEW o, Tally(o)' \subseteq Tally(o)
  PROVE  Cardinality(Tally(o)') <= Cardinality(Tally(o)) /\ Cardinality(Tally(o)') \in Nat
<1>1. IsFiniteSet(Tally(o))
  BY PlateFinite
<1> QED BY <1>1, FS_Subset, FS_CardinalityType

\* One piece of work for which there was a place is within the bound.
LEMMA OneOnPlate ==
  ASSUME NEW o, NEW i, Cardinality(Tally(o)) < MaxActive,
         Tally(o)' \subseteq Tally(o) \union {i}
  PROVE  Cardinality(Tally(o)') <= MaxActive
<1>0. MaxActive \in Nat /\ IsFiniteSet(Tally(o)) /\ Cardinality(Tally(o)) \in Nat
  BY LedgersAssumption, PlateFinite
<1> DEFINE T == Tally(o) \union {i}
<1>1. IsFiniteSet(T) /\ Cardinality(T) \in Nat /\ Cardinality(T) <= Cardinality(Tally(o)) + 1
  <2>1. IsFiniteSet(T)
        /\ (Cardinality(T) = Cardinality(Tally(o)) \/ Cardinality(T) = Cardinality(Tally(o)) + 1)
    BY <1>0, FS_AddElement
  <2> QED BY <1>0, <2>1
<1>2. Cardinality(Tally(o)') <= Cardinality(T) /\ Cardinality(Tally(o)') \in Nat
  BY <1>1, FS_Subset, FS_CardinalityType
<1> QED BY <1>0, <1>1, <1>2

\* A record as an operation leaves it.
LEMMA WithFields ==
  ASSUME NEW x \in P!Records, NEW s \in P!Sayings
  PROVE  /\ P!With(x, s) \in P!Records
         /\ P!With(x, s).owner = IF s.owner = "same" THEN x.owner ELSE s.owner
         /\ P!With(x, s).st = IF s.st = "same" THEN x.st ELSE s.st
         /\ P!With(x, s).defer = IF s.defer = "same" THEN x.defer ELSE s.defer
BY LedgersAssumption DEF P!With, P!Said, P!Records, P!Sayings, P!Same

\* What the guard let through is in order, where the operation names the plate's owner.
LEMMA GroundLets ==
  ASSUME NEW i \in Items, NEW y, NEW o \in Owners, y.owner = o,
         P!Ground(item[i], y, o) # "full"
  PROVE  Fits(i, y, o, P!Ground(item[i], y, o))
<1>1. P!Free(o) => Cardinality(Tally(o)) < MaxActive
  BY PlateFinite, CountsAgree, LedgersAssumption DEF P!Free
<1>2. CASE ~P!Active(y, o) \/ P!Active(item[i], o)
  BY <1>2 DEF P!Ground, Fits, P!Active
<1>3. CASE P!Active(y, o) /\ ~P!Active(item[i], o)
  BY <1>1, <1>3 DEF P!Ground, Fits
<1> QED BY <1>2, <1>3

-----------------------------------------------------------------------------
(* What a writer's step leaves the others.                                  *)

\* A writer's step moves only the items it has in hand alone, and adds only to the
\* plate that it holds.
Modest(w) ==
  /\ \A v \in Writers \ {w} : pen'[v] = pen[v]
  /\ \A o \in Owners : lock'[o] = lock[o] \/ {lock[o], lock'[o]} \subseteq {w, None}
  /\ \A v \in Writers \ {w} : pen[v].pc \in AtWork =>
        item'[pen[v].i] = item[pen[v].i] /\ (pen[v].i \in over => pen[v].i \in over')
  /\ \A o \in Owners : lock[o] # w => Tally(o)' \subseteq Tally(o)

\* What is said of one writer.
Kept(w) == Locked(w) /\ Apart(w) /\ Names(w) /\ Admitted(w) /\ Planned(w)

\* The others keep what is said of them.
LEMMA OthersKeep ==
  ASSUME PlatesInv, PlatesTyped', NEW w \in Writers, Modest(w),
         Locked(w)', Names(w)', Admitted(w)', Planned(w)',
         pen'[w].pc \in AtWork =>
           \A v \in Writers \ {w} : pen[v].pc \in AtWork => pen[v].i # pen'[w].i
  PROVE  \A v \in Writers : Kept(v)'
<1>1. Apart(w)'
  BY DEF Apart, Modest
<1>2. ASSUME NEW v \in Writers, v # w PROVE Kept(v)'
  <2>0. Kept(v) /\ Kept(w) /\ pen'[v] = pen[v] /\ None \notin Writers /\ None \notin Owners
        /\ pen[v] \in Pen
    BY <1>2, LedgersAssumption DEF PlatesInv, Modest, PlatesTyped, Kept
  <2>1. Locked(v)'
    BY <1>2, <2>0 DEF Kept, Locked, Modest, PlatesTyped, Pen
  <2>2. Apart(v)'
    BY <1>2, <2>0 DEF Kept, Apart, Modest
  <2>3. Names(v)' /\ Planned(v)'
    BY <1>2, <2>0 DEF Kept, Names, Planned, Modest, P!Taken, AtWork
  <2>4. Admitted(v)'
    <3> SUFFICES ASSUME pen[v].pc = "write"
                 PROVE  Fits(pen[v].i, P!Proposed(v), pen[v].plate, pen[v].by)'
      BY <2>0 DEF Admitted
    <3>1. item'[pen[v].i] = item[pen[v].i] /\ (pen[v].i \in over => pen[v].i \in over')
      BY <1>2 DEF Modest, AtWork
    <3>2. P!Proposed(v)' = P!Proposed(v)
      BY <2>0, <3>1 DEF P!Proposed
    <3>3. Fits(pen[v].i, P!Proposed(v), pen[v].plate, pen[v].by)
      BY <2>0 DEF Kept, Admitted
    <3>4. ASSUME pen[v].by = "count" PROVE Cardinality(Tally(pen[v].plate)') < MaxActive
      <4>1. /\ pen[v].plate \in Owners /\ Cardinality(Tally(pen[v].plate)) < MaxActive
            /\ Cardinality(Tally(pen[v].plate)) \in Nat /\ MaxActive \in Nat
        BY <3>3, <3>4, PlateFinite, LedgersAssumption DEF Fits
      <4>2. lock[pen[v].plate] = v
        BY <2>0, <4>1 DEF Kept, Locked, AtWork
      <4>3. pen'[v].plate = pen[v].plate /\ Tally(pen[v].plate)' \subseteq Tally(pen[v].plate)
        BY <1>2, <2>0, <4>1, <4>2 DEF Modest
      <4> QED BY <4>1, <4>3, LessOnPlate
    <3> QED BY <2>0, <3>1, <3>2, <3>3, <3>4 DEF Fits, P!Active
  <2> QED BY <2>1, <2>2, <2>3, <2>4 DEF Kept
<1> QED BY <1>1, <1>2 DEF Kept

\* A step of a writer that changes neither an item nor what is known of any.
LEMMA QuietPen ==
  ASSUME PlatesInv, PlatesTyped', NEW w \in Writers, Modest(w), UNCHANGED <<item, over>>,
         Locked(w)', Names(w)', Admitted(w)', Planned(w)',
         pen'[w].pc \in AtWork =>
           \A v \in Writers \ {w} : pen[v].pc \in AtWork => pen[v].i # pen'[w].i,
         \A i \in Items : Known(i)'
  PROVE  PlatesInv'
<1>1. \A o \in Owners : (P!Plate(o) \ over)' = P!Plate(o) \ over
  BY DEF P!Plate, P!Active
<1>2. P!PlateBounded'
  BY <1>1, CountsAgree DEF P!PlateBounded, PlatesInv
<1>3. \A v \in Writers : Kept(v)'
  BY OthersKeep
<1> QED BY <1>2, <1>3 DEF PlatesInv, Kept

\* What is known of an item, when a writer's step has to do with others.
LEMMA KnownStays ==
  ASSUME PlatesInv, NEW w \in Writers, Modest(w), NEW i \in Items, item'[i] = item[i],
         given'[i] = given[i], doubt \subseteq doubt', pen[w].pc # "track" \/ pen[w].i # i
  PROVE  Known(i)'
<1> SUFFICES ASSUME i \notin doubt,
                    NEW v \in Writers, pen[v].pc = "track", pen[v].i = i,
                    given[i] = {pen[v].plate}
             PROVE  \E u \in Writers : pen'[u].pc = "track" /\ pen'[u].i = i
                                       /\ given[i] = {pen'[u].plate}
  BY DEF PlatesInv, Known
<1>1. pen'[v] = pen[v]
  BY DEF Modest
<1> QED BY <1>1

\* The same of all items, when the step tells nothing of any.
LEMMA KnownKeeps ==
  ASSUME PlatesInv, NEW w \in Writers, Modest(w), UNCHANGED <<item, given, doubt>>,
         pen[w].pc # "track"
  PROVE  \A i \in Items : Known(i)'
BY KnownStays

\* An operation begins: whom it is about, and with which plate.
LEMMA StartsKeeps ==
  ASSUME Serial, PlatesInv, NEW w \in Writers, NEW act \in {"create", "update", "go"},
         NEW i \in Items, NEW says \in P!Sayings, NEW plate \in Owners \union {None},
         P!Starts(w, act, i, says, plate),
         plate = None => \/ says.owner = None \/ says.defer = "later"
                         \/ (says.owner = "same" /\ item[i].owner = None),
         plate # None => says.owner = plate \/ (act = "update" /\ says.owner = "same"
                                                /\ item[i].owner = plate),
         act = "go" => says.st = "open"
  PROVE  PlatesInv'
<1> DEFINE r == [pc |-> IF plate = None THEN "write" ELSE "wait", op |-> act, i |-> i,
                 says |-> says, by |-> "none", plate |-> plate, was |-> item[i].owner]
<1>1. /\ pen[w].pc = "idle" /\ UNCHANGED <<item, lock, given, doubt, over>>
      /\ pen' = [pen EXCEPT ![w] = r] /\ ops' = ops + 1 /\ pen \in [Writers -> Pen]
      /\ item[i] \in P!Records
  BY DEF P!Starts, P!At, PlatesInv, PlatesTyped
<1>2. r \in Pen
  <2>1. item[i].owner \in Owners \union {None}
    BY <1>1 DEF P!Records
  <2> QED BY <2>1 DEF Pen, AtWork
<1>3. /\ r.pc = (IF plate = None THEN "write" ELSE "wait") /\ r.op = act /\ r.i = i
      /\ r.says = says /\ r.plate = plate /\ r.was = item[i].owner /\ r.by = "none"
  OBVIOUS
<1> HIDE DEF r
<1>4. PlatesTyped' /\ pen'[w] = r /\ \A v \in Writers \ {w} : pen'[v] = pen[v]
  BY <1>1, <1>2 DEF PlatesInv, PlatesTyped
<1>5. Modest(w)
  BY <1>1, <1>4 DEF Modest, Tally, P!Plate, P!Active
<1>6. None \notin Owners /\ None \notin Writers
  BY LedgersAssumption
<1>7. Locked(w)'
  BY <1>1, <1>3, <1>4, <1>6 DEF PlatesInv, Locked, AtWork
<1>8. Names(w)' /\ Planned(w)'
  BY <1>3, <1>4 DEF Names, Planned
<1>9. Admitted(w)'
  <2>1. P!Proposed(w)' = P!With(item[i], says)
    BY <1>1, <1>3, <1>4 DEF P!Proposed
  <2>2. ASSUME plate = None, NEW o \in Owners PROVE ~P!Active(P!With(item[i], says), o)
    BY <1>1, <1>6, <2>2, WithFields, LedgersAssumption DEF P!Active
  <2> QED BY <1>3, <1>4, <2>1, <2>2 DEF Admitted, Fits, P!Active
<1>10. r.pc \in AtWork => \A v \in Writers \ {w} : pen[v].pc \in AtWork => pen[v].i # i
  BY <1>3 DEF P!Starts, P!Alone, AtWork
<1>11. \A j \in Items : Known(j)'
  BY <1>1, <1>5, KnownKeeps
<1> QED BY <1>1, <1>3, <1>4, <1>5, <1>7, <1>8, <1>9, <1>10, <1>11, QuietPen

\* A writer that is done lets its plate go.
LEMMA DoneKeeps ==
  ASSUME PlatesInv, NEW w \in Writers, P!Done(w)
  PROVE  /\ pen' \in [Writers -> Pen] /\ lock' \in [Owners -> Writers \union {None}]
         /\ pen'[w].pc = "idle" /\ \A v \in Writers \ {w} : pen'[v] = pen[v]
         /\ \A o \in Owners : lock'[o] = lock[o] \/ {lock[o], lock'[o]} \subseteq {w, None}
         /\ Locked(w)' /\ Names(w)' /\ Planned(w)' /\ Admitted(w)'
<1>1. /\ pen' = [pen EXCEPT ![w] = P!Rest] /\ pen \in [Writers -> Pen]
      /\ lock' = [o \in Owners |-> IF lock[o] = w THEN None ELSE lock[o]]
      /\ lock \in [Owners -> Writers \union {None}] /\ None \notin Writers
  BY LedgersAssumption DEF P!Done, PlatesInv, PlatesTyped
<1>2. P!Rest \in Pen /\ P!Rest.pc = "idle" /\ P!Rest.by = "none"
  BY DEF P!Rest, P!Silent, P!Sayings, P!Same, Pen
<1>3. pen' \in [Writers -> Pen] /\ pen'[w] = P!Rest
  BY <1>1, <1>2
<1>4. Locked(w)' /\ Names(w)' /\ Planned(w)' /\ Admitted(w)'
  BY <1>1, <1>2, <1>3 DEF Locked, Names, Planned, Admitted, AtWork
<1> QED BY <1>1, <1>2, <1>3, <1>4

\* A writer gives up, and has changed nothing.
LEMMA GivesUpKeeps ==
  ASSUME PlatesInv, NEW w \in Writers, P!Done(w), UNCHANGED <<item, ops, given, doubt, over>>,
         pen[w].pc # "track"
  PROVE  PlatesInv'
<1>1. Modest(w) /\ PlatesTyped'
  BY DoneKeeps DEF Modest, PlatesInv, PlatesTyped, Tally, P!Plate, P!Active
<1>2. \A i \in Items : Known(i)'
  BY <1>1, KnownKeeps
<1> QED BY <1>1, <1>2, DoneKeeps, QuietPen DEF AtWork

-----------------------------------------------------------------------------
(* One lemma per action.                                                    *)

\* Create, Update and Go: where an operation names nobody, it is about nobody's plate.
LEMMA PenBegins ==
  ASSUME Serial, PlatesInv, NEW w \in Writers, NEW i \in Items,
         \/ \E x \in P!Records : P!Create(w, i, x)
         \/ \E to \in Owners \union {None, "same"}, st \in {"open", "closed", "same"},
               defer \in {"none", "later", "same"} : P!Update(w, i, to, st, defer)
         \/ \E a \in Owners : P!Go(w, i, a)
  PROVE  PlatesInv'
<1>0. item[i].owner \in Owners \union {None} /\ "same" \notin Owners /\ None # "same"
      /\ None \notin Owners
  BY LedgersAssumption DEF PlatesInv, PlatesTyped, P!Records
<1>1. ASSUME NEW x \in P!Records, P!Create(w, i, x) PROVE PlatesInv'
  <2> DEFINE plate == IF x.defer = "later" THEN None ELSE x.owner
  <2>1. x \in P!Sayings /\ plate \in Owners \union {None}
    BY <1>1 DEF P!Create, P!Records, P!Sayings
  <2>2. P!Starts(w, "create", i, x, plate)
    BY <1>1 DEF P!Create
  <2> QED BY <2>1, <2>2, StartsKeeps
<1>2. ASSUME NEW to \in Owners \union {None, "same"}, NEW st \in {"open", "closed", "same"},
             NEW defer \in {"none", "later", "same"}, P!Update(w, i, to, st, defer)
      PROVE  PlatesInv'
  <2> DEFINE plate == IF to = "same" THEN item[i].owner ELSE to
             says == [owner |-> to, st |-> st, defer |-> defer, rank |-> "same"]
  <2>1. P!Starts(w, "update", i, says, plate)
    BY <1>2 DEF P!Update, P!Same
  <2>2. says \in P!Sayings /\ says.owner = to /\ plate \in Owners \union {None}
    BY <1>0 DEF P!Sayings, P!Same
  <2> HIDE DEF says
  <2> QED BY <1>0, <2>1, <2>2, StartsKeeps
<1>3. ASSUME NEW a \in Owners, P!Go(w, i, a) PROVE PlatesInv'
  <2> DEFINE says == [P!Silent EXCEPT !.owner = a, !.st = "open"]
  <2>1. says \in P!Sayings /\ says.owner = a /\ says.st = "open"
    BY DEF P!Silent, P!Sayings, P!Same
  <2>2. P!Starts(w, "go", i, says, a)
    BY <1>3 DEF P!Go
  <2> HIDE DEF says
  <2> QED BY <1>0, <2>1, <2>2, StartsKeeps
<1> QED BY <1>1, <1>2, <1>3

\* Acquire: the item is in nobody's hand, and an owner that moved is noticed.
LEMMA AcquireKeeps ==
  ASSUME Serial, PlatesInv, NEW w \in Writers, P!Acquire(w)
  PROVE  PlatesInv'
<1> DEFINE o == pen[w].plate
           l == IF pen[w].op = "go" THEN "plan" ELSE "admit"
<1>0. /\ pen[w].pc = "wait" /\ UNCHANGED <<item, ops, given, doubt, over>>
      /\ pen \in [Writers -> Pen] /\ o \in Owners /\ pen[w].i \in Items
      /\ None \notin Writers /\ pen[w].by = "none"
  BY LedgersAssumption DEF P!Acquire, P!At, PlatesInv, PlatesTyped, Locked, Names, AtWork
<1>1. CASE P!Moved(w)
  BY <1>0, <1>1, GivesUpKeeps DEF P!Acquire
<1>2. CASE ~P!Moved(w)
  <2>1. /\ lock' = [lock EXCEPT ![o] = w] /\ lock[o] = None
        /\ pen' = [pen EXCEPT ![w].pc = l]
        /\ lock \in [Owners -> Writers \union {None}]
    BY <1>2 DEF P!Acquire, PlatesInv, PlatesTyped
  <2>2. [pen[w] EXCEPT !.pc = l] \in Pen
    BY <1>0 DEF Pen, AtWork
  <2>3. /\ pen'[w] = [pen[w] EXCEPT !.pc = l] /\ \A v \in Writers \ {w} : pen'[v] = pen[v]
        /\ PlatesTyped'
    BY <1>0, <2>1, <2>2 DEF PlatesInv, PlatesTyped
  <2>4. /\ pen'[w].pc = l /\ pen'[w].i = pen[w].i /\ pen'[w].says = pen[w].says
        /\ pen'[w].plate = o /\ pen'[w].op = pen[w].op /\ pen'[w].by = "none"
    BY <1>0, <2>3 DEF Pen
  <2>5. Modest(w)
    BY <1>0, <2>1, <2>3 DEF Modest, Tally, P!Plate, P!Active
  <2>6. Locked(w)'
    BY <1>0, <2>1, <2>4 DEF PlatesInv, Locked, AtWork
  <2>7. Names(w)' /\ Admitted(w)' /\ Planned(w)'
    <3>1. pen[w].op \in {"create", "go"} => pen[w].says.owner = o
      BY <1>0 DEF PlatesInv, Names
    <3>2. pen[w].op = "go" => pen[w].says.st = "open"
      BY <1>0 DEF PlatesInv, Names
    <3>3. pen[w].op = "update" => pen[w].says.owner = o
                                  \/ (pen[w].says.owner = "same" /\ item[pen[w].i].owner = o)
      <4>1. Names(w)
        BY DEF PlatesInv
      <4> QED BY <1>0, <1>2, <4>1 DEF Names, P!Moved, P!Same
    <3>4. pen[w].op # "update" => pen[w].says.owner = o
      BY <1>0 DEF PlatesInv, Names
    <3> QED BY <1>0, <2>4, <3>2, <3>3, <3>4 DEF Names, Admitted, Planned
  <2>8. \A v \in Writers \ {w} : pen[v].pc \in AtWork => pen[v].i # pen'[w].i
    BY <2>4 DEF P!Acquire, P!Alone, AtWork
  <2>9. \A i \in Items : Known(i)'
    BY <1>0, <2>5, KnownKeeps
  <2> QED BY <1>0, <2>3, <2>5, <2>6, <2>7, <2>8, <2>9, QuietPen
<1> QED BY <1>1, <1>2

\* A writer goes on with what it has in hand.
LEMMA PenGoesOn ==
  ASSUME PlatesInv, NEW w \in Writers, NEW r \in Pen, pen' = [pen EXCEPT ![w] = r],
         UNCHANGED <<item, lock, ops, given, doubt, over>>,
         pen[w].pc \in AtWork \ {"track"}, pen[w].plate \in Owners, r.pc \in AtWork,
         r.i = pen[w].i, r.plate = pen[w].plate,
         Names(w)', Admitted(w)', Planned(w)'
  PROVE  PlatesInv'
<1>1. pen'[w] = r /\ (\A v \in Writers \ {w} : pen'[v] = pen[v]) /\ PlatesTyped'
  BY DEF PlatesInv, PlatesTyped
<1>2. Modest(w)
  BY <1>1 DEF Modest, Tally, P!Plate, P!Active
<1>3. Locked(w)'
  BY <1>1, LedgersAssumption DEF PlatesInv, Locked, AtWork
<1>4. \A v \in Writers \ {w} : pen[v].pc \in AtWork => pen[v].i # pen'[w].i
  BY <1>1 DEF PlatesInv, Apart
<1>5. \A i \in Items : Known(i)'
  BY <1>2, KnownKeeps
<1> QED BY <1>1, <1>2, <1>3, <1>4, <1>5, QuietPen

\* Admit: under the plate's lock what is written is on the plate already, fits or goes.
LEMMA AdmitKeeps ==
  ASSUME PlatesInv, NEW w \in Writers, P!Admit(w)
  PROVE  PlatesInv'
<1> DEFINE i == pen[w].i
           o == pen[w].plate
           ground == P!Ground(item[i], P!Proposed(w), o)
<1>0. /\ pen[w].pc = "admit" /\ UNCHANGED <<item, ops, given, doubt, over>>
      /\ pen \in [Writers -> Pen] /\ pen[w] \in Pen /\ o \in Owners /\ i \in Items
      /\ None \notin Owners /\ "same" \notin Owners /\ None # "same"
      /\ item[i] \in P!Records /\ pen[w].says \in P!Sayings
  BY LedgersAssumption DEF P!Admit, P!At, PlatesInv, PlatesTyped, Locked, AtWork, Pen
<1>1. CASE P!Done(w)
  BY <1>0, <1>1, GivesUpKeeps
<1>2. CASE /\ pen' = [pen EXCEPT ![w].pc = "write", ![w].by = ground] /\ UNCHANGED lock
           /\ ground # "full"
  <2> DEFINE r == [[pen[w] EXCEPT !.pc = "write"] EXCEPT !.by = ground]
  <2>0. ground \in {"none", "count", "rank"}
    BY <1>2 DEF P!Ground
  <2>1. r \in Pen /\ r.pc = "write" /\ r.i = i /\ r.plate = o /\ r.says = pen[w].says
        /\ r.by = ground
    BY <1>0, <2>0 DEF Pen, AtWork
  <2>2. pen' = [pen EXCEPT ![w] = r]
    BY <1>0, <1>2
  <2> HIDE DEF r
  <2>3. pen'[w] = r
    BY <1>0, <2>2
  <2>4. Names(w)' /\ Planned(w)'
    BY <2>1, <2>3 DEF Names, Planned
  <2>5. Admitted(w)'
    <3>1. P!Proposed(w)' = P!Proposed(w)
      BY <1>0, <2>1, <2>3 DEF P!Proposed
    <3>2. P!Proposed(w).owner = o
      BY <1>0, WithFields DEF PlatesInv, Names, P!Proposed
    <3>3. Fits(i, P!Proposed(w), o, ground)
      BY <1>0, <1>2, <3>2, GroundLets
    <3>4. \A q : Tally(q)' = Tally(q)
      BY <1>0 DEF Tally, P!Plate, P!Active
    <3> HIDE DEF ground
    <3> QED BY <1>0, <2>1, <2>3, <3>1, <3>3, <3>4 DEF Admitted, Fits, P!Active
  <2> QED BY <1>0, <1>2, <2>1, <2>2, <2>4, <2>5, PenGoesOn DEF AtWork
<1>3. CASE /\ pen' = [pen EXCEPT ![w].pc = "write", ![w].says = P!Pooled(pen[w].says)]
           /\ UNCHANGED lock
  <2> DEFINE s == P!Pooled(pen[w].says)
             r == [[pen[w] EXCEPT !.pc = "write"] EXCEPT !.says = s]
  <2>0. s \in P!Sayings /\ s.owner = None
    BY <1>0 DEF P!Pooled, P!Sayings
  <2> HIDE DEF s
  <2>1. r \in Pen /\ r.pc = "write" /\ r.i = i /\ r.plate = o /\ r.says = s /\ r.by = pen[w].by
    BY <1>0, <2>0 DEF Pen, AtWork
  <2>2. pen' = [pen EXCEPT ![w] = r]
    BY <1>0, <1>3 DEF s
  <2> HIDE DEF r
  <2>3. pen'[w] = r
    BY <1>0, <2>2
  <2>4. Names(w)' /\ Planned(w)'
    BY <2>1, <2>3 DEF Names, Planned
  <2>5. Admitted(w)'
    <3>1. P!Proposed(w)' = P!With(item[i], s)
      BY <1>0, <2>1, <2>3 DEF P!Proposed
    <3>2. P!With(item[i], s).owner = None
      BY <1>0, <2>0, WithFields
    <3>3. pen[w].by = "none"
      BY <1>0 DEF PlatesInv, Names
    <3> QED BY <1>0, <2>1, <2>3, <3>1, <3>2, <3>3 DEF Admitted, Fits, P!Active
  <2> QED BY <1>0, <1>3, <2>1, <2>2, <2>4, <2>5, PenGoesOn DEF AtWork
<1> QED BY <1>1, <1>2, <1>3 DEF P!Admit

\* Plan: whoever holds the item is the agent, or nobody.
LEMMA PlanKeeps ==
  ASSUME PlatesInv, NEW w \in Writers, P!Plan(w)
  PROVE  PlatesInv'
<1> DEFINE d == IF item[pen[w].i].defer = "later" THEN "none" ELSE "same"
           s == [pen[w].says EXCEPT !.defer = d]
           r == [[pen[w] EXCEPT !.pc = "send"] EXCEPT !.says = s]
<1>0. /\ pen[w].pc = "plan" /\ UNCHANGED <<item, ops, given, doubt, over>>
      /\ pen \in [Writers -> Pen] /\ pen[w] \in Pen /\ pen[w].plate \in Owners
      /\ pen[w].says \in P!Sayings
      /\ pen[w].says.owner = pen[w].plate /\ pen[w].says.st = "open" /\ pen[w].by = "none"
  BY DEF P!Plan, P!At, PlatesInv, PlatesTyped, Locked, Names, AtWork, Pen
<1>1. CASE P!Done(w)
  BY <1>0, <1>1, GivesUpKeeps
<1>2. CASE /\ pen' = [pen EXCEPT ![w].pc = "send", ![w].says.defer = d] /\ UNCHANGED lock
           /\ ~P!Taken(pen[w].i, pen[w].plate)
  <2>1. s \in P!Sayings /\ s.owner = pen[w].plate /\ s.st = "open"
    BY <1>0 DEF P!Sayings, P!Same
  <2>2. pen' = [pen EXCEPT ![w] = r]
    BY <1>0, <1>2 DEF Pen
  <2> HIDE DEF s
  <2>3. r \in Pen /\ r.pc = "send" /\ r.i = pen[w].i /\ r.plate = pen[w].plate /\ r.says = s
        /\ r.by = "none"
    BY <1>0, <2>1 DEF Pen, AtWork
  <2> HIDE DEF r
  <2>4. pen'[w] = r
    BY <1>0, <2>2
  <2>5. Names(w)' /\ Planned(w)' /\ Admitted(w)'
    BY <1>0, <1>2, <2>1, <2>3, <2>4 DEF Names, Planned, Admitted, P!Taken
  <2> QED BY <1>0, <1>2, <2>2, <2>3, <2>5, PenGoesOn DEF AtWork
<1> QED BY <1>1, <1>2 DEF P!Plan, P!Same

\* An item that is placed in order is added to its plate's tally at most.
LEMMA ItemWritten ==
  ASSUME PlatesInv, NEW i \in Items, NEW x, item' = [item EXCEPT ![i] = x]
  PROVE  item'[i] = x /\ \A j \in Items : j # i => item'[j] = item[j]
BY DEF PlatesInv, PlatesTyped

\* What the tallies are when an item that fits is let in.
LEMMA LetInKeeps ==
  ASSUME PlatesInv, NEW i \in Items, NEW x, item' = [item EXCEPT ![i] = x],
         NEW o, NEW ground, Fits(i, x, o, ground), P!LetIn(i, ground)
  PROVE  /\ \A j \in Items : j # i => (j \in over' <=> j \in over)
         /\ over' \subseteq Items
         /\ \A q \in Owners : \/ Tally(q)' \subseteq Tally(q)
                              \/ /\ q = o /\ Cardinality(Tally(q)) < MaxActive
                                 /\ Tally(q)' \subseteq Tally(q) \union {i}
<1>0. over \subseteq Items
  BY DEF PlatesInv, PlatesTyped
<1>1. CASE ground = "none"
  <2>1. over' = over
    BY <1>1 DEF P!LetIn
  <2>2. ASSUME NEW q \in Owners, NEW j \in Items, P!Active(item'[j], q), j \notin over
        PROVE  P!Active(item[j], q)
    <3>1. CASE j = i
      BY <1>1, <2>2, <3>1, ItemWritten DEF Fits
    <3>2. CASE j # i
      BY <2>2, <3>2, ItemWritten
    <3> QED BY <3>1, <3>2
  <2>3. \A q \in Owners : Tally(q)' \subseteq Tally(q)
    BY <2>1, <2>2 DEF Tally, P!Plate, P!Active
  <2> QED BY <1>0, <2>1, <2>3
<1>2. CASE ground = "count"
  <2>1. over' = over \ {i}
    BY <1>2 DEF P!LetIn
  <2>2. \A q \in Owners : Tally(q)' \subseteq Tally(q) \union {i}
    BY <2>1, ItemWritten DEF Tally, P!Plate, P!Active
  <2>3. ASSUME NEW q \in Owners, q # o PROVE Tally(q)' \subseteq Tally(q)
    <3>1. ~P!Active(item'[i], q)
      BY <1>2, <2>3, ItemWritten DEF Fits, P!Active
    <3> QED BY <2>1, <3>1, ItemWritten DEF Tally, P!Plate, P!Active
  <2> QED BY <1>0, <1>2, <2>1, <2>2, <2>3 DEF Fits
<1>3. CASE ground = "rank"
  <2>1. over' = over \union {i}
    BY <1>3 DEF P!LetIn
  <2>2. \A q \in Owners : Tally(q)' \subseteq Tally(q)
    BY <2>1, ItemWritten DEF Tally, P!Plate, P!Active
  <2> QED BY <1>0, <2>1, <2>2
<1> QED BY <1>1, <1>2, <1>3 DEF Fits

\* A writer places the item it has in hand, where it is in order, and is done.
LEMMA PlaceKeeps ==
  ASSUME PlatesInv, PlatesTyped', NEW w \in Writers, NEW x, P!Done(w),
         item' = [item EXCEPT ![pen[w].i] = x], pen[w].pc \in AtWork,
         NEW ground, Fits(pen[w].i, x, pen[w].plate, ground), P!LetIn(pen[w].i, ground),
         \A j \in Items : j # pen[w].i => given'[j] = given[j],
         doubt \subseteq doubt', pen[w].i \in doubt' \/ given'[pen[w].i] \subseteq {x.owner}
  PROVE  PlatesInv'
<1> DEFINE i == pen[w].i
<1>0. i \in Items /\ None \notin Owners
  BY LedgersAssumption DEF PlatesInv, Locked, AtWork
<1>1. \A q \in Owners : \/ Tally(q)' \subseteq Tally(q)
                        \/ /\ q = pen[w].plate /\ Cardinality(Tally(q)) < MaxActive
                           /\ Tally(q)' \subseteq Tally(q) \union {i}
  BY <1>0, LetInKeeps
<1>2. Modest(w)
  <2>1. \A o \in Owners : lock[o] # w => Tally(o)' \subseteq Tally(o)
    <3> SUFFICES ASSUME NEW o \in Owners, lock[o] # w PROVE o # pen[w].plate
      BY <1>1
    <3> QED BY <1>0 DEF PlatesInv, Locked
  <2>2. ASSUME NEW v \in Writers, v # w, pen[v].pc \in AtWork
        PROVE  item'[pen[v].i] = item[pen[v].i] /\ (pen[v].i \in over => pen[v].i \in over')
    <3>1. pen[v].i \in Items /\ pen[v].i # i
      BY <2>2 DEF PlatesInv, Locked, Apart, AtWork
    <3>2. item'[pen[v].i] = item[pen[v].i]
      BY <1>0, <3>1, ItemWritten
    <3>3. pen[v].i \in over' <=> pen[v].i \in over
      BY <1>0, <3>1, LetInKeeps
    <3> QED BY <3>2, <3>3
  <2> QED BY <2>1, <2>2, DoneKeeps DEF Modest
<1>3. ASSUME NEW o \in Owners PROVE Cardinality(Tally(o)') <= MaxActive
  <2>1. /\ Cardinality(Tally(o)) <= MaxActive /\ Cardinality(Tally(o)) \in Nat
        /\ MaxActive \in Nat
    BY CountsAgree, PlateFinite, LedgersAssumption DEF PlatesInv, P!PlateBounded, Tally
  <2>2. CASE Tally(o)' \subseteq Tally(o)
    BY <2>1, <2>2, LessOnPlate
  <2>3. CASE Cardinality(Tally(o)) < MaxActive /\ Tally(o)' \subseteq Tally(o) \union {i}
    BY <2>3, OneOnPlate
  <2> QED BY <1>1, <2>2, <2>3
<1>4. P!PlateBounded'
  BY <1>3, CountsAgree DEF P!PlateBounded, Tally
<1>5. \A v \in Writers : Kept(v)'
  BY <1>2, DoneKeeps, OthersKeep DEF AtWork
<1>6. ASSUME NEW j \in Items PROVE Known(j)'
  <2>1. CASE j = i
    <3>1. item'[i] = x
      BY <1>0, ItemWritten
    <3> QED BY <2>1, <3>1 DEF Known
  <2>2. CASE j # i
    <3>1. item'[j] = item[j]
      BY <1>0, <2>2, ItemWritten
    <3> QED BY <1>2, <2>2, <3>1, KnownStays
  <2> QED BY <2>1, <2>2
<1> QED BY <1>4, <1>5, <1>6 DEF PlatesInv, Kept

\* Write: what was admitted is still admitted, for nobody else adds to the tally.
LEMMA WriteKeeps ==
  ASSUME PlatesInv, NEW w \in Writers, P!Write(w)
  PROVE  PlatesInv'
<1> DEFINE i == pen[w].i
           x == P!Proposed(w)
<1>0. /\ pen[w].pc = "write" /\ P!Done(w) /\ UNCHANGED <<ops, doubt>> /\ i \in Items
      /\ pen[w].says \in P!Sayings /\ item[i] \in P!Records
      /\ given \in [Items -> SUBSET Owners]
  BY DEF P!Write, P!At, PlatesInv, PlatesTyped, Locked, Pen
<1>1. CASE UNCHANGED <<item, given, over>>
  BY <1>0, <1>1, GivesUpKeeps
<1>2. CASE /\ item' = [item EXCEPT ![i] = x] /\ P!LetIn(i, pen[w].by)
           /\ given' = IF pen[w].says.owner = "same" /\ pen[w].says.st = "same" THEN given
                       ELSE [given EXCEPT ![i] = {}]
  <2>1. /\ x \in P!Records
        /\ x.owner = IF pen[w].says.owner = "same" THEN item[i].owner ELSE pen[w].says.owner
    BY <1>0, WithFields DEF P!Proposed
  <2>2. Fits(i, x, pen[w].plate, pen[w].by)
    BY <1>0 DEF PlatesInv, Admitted
  <2> HIDE DEF x
  <2>3. over' \subseteq Items
    BY <1>0, <1>2, <2>2, LetInKeeps
  <2>4. PlatesTyped'
    BY <1>0, <1>2, <2>1, <2>3, DoneKeeps DEF PlatesInv, PlatesTyped
  <2>5. \A j \in Items : j # i => given'[j] = given[j]
    BY <1>0, <1>2
  <2>6. i \in doubt \/ given'[i] \subseteq {x.owner}
    <3>1. CASE ~(pen[w].says.owner = "same" /\ pen[w].says.st = "same")
      <4>1. given'[i] = {}
        BY <1>0, <1>2, <3>1
      <4> QED BY <4>1
    <3>2. CASE pen[w].says.owner = "same" /\ pen[w].says.st = "same"
      <4>1. given' = given /\ x.owner = item[i].owner
        BY <1>2, <2>1, <3>2
      <4>2. \A v \in Writers : ~(pen[v].pc = "track" /\ pen[v].i = i)
        BY <1>0 DEF PlatesInv, Apart, AtWork
      <4> QED BY <1>0, <4>1, <4>2 DEF PlatesInv, Known
    <3> QED BY <3>1, <3>2
  <2> QED BY <1>0, <1>2, <2>2, <2>4, <2>5, <2>6, PlaceKeeps DEF AtWork
<1> QED BY <1>1, <1>2 DEF P!Write, P!Same

\* Send: the item is nobody's but the agent's, and nobody else is sending it.
LEMMA DispatchKeeps ==
  ASSUME PlatesInv, NEW w \in Writers, P!Send(w)
  PROVE  PlatesInv'
<1> DEFINE i == pen[w].i
           a == pen[w].plate
           r == [pen[w] EXCEPT !.pc = "track"]
<1>0. /\ pen[w].pc = "send" /\ UNCHANGED <<item, ops, over>> /\ i \in Items /\ a \in Owners
      /\ pen \in [Writers -> Pen] /\ pen[w] \in Pen /\ given \in [Items -> SUBSET Owners]
      /\ doubt \subseteq Items
      /\ pen[w].says.owner = a /\ pen[w].says.st = "open" /\ ~P!Taken(i, a)
      /\ pen[w].by = "none"
  BY DEF P!Send, P!At, PlatesInv, PlatesTyped, Locked, Names, Planned, AtWork
<1>1. CASE /\ given' = [given EXCEPT ![i] = @ \union {a}] /\ UNCHANGED <<lock, doubt>>
           /\ pen' = [pen EXCEPT ![w] = r]
  <2>1. r \in Pen /\ r.pc = "track" /\ r.i = i /\ r.plate = a /\ r.says = pen[w].says
        /\ r.by = "none"
    BY <1>0 DEF Pen, AtWork
  <2> HIDE DEF r
  <2>2. pen'[w] = r /\ \A v \in Writers \ {w} : pen'[v] = pen[v]
    BY <1>0, <1>1
  <2>3. PlatesTyped'
    BY <1>0, <1>1, <2>1 DEF PlatesInv, PlatesTyped
  <2>4. Modest(w)
    BY <1>0, <1>1, <2>2 DEF Modest, Tally, P!Plate, P!Active
  <2>5. Locked(w)'
    BY <1>0, <1>1, <2>1, <2>2 DEF PlatesInv, Locked, AtWork
  <2>6. Names(w)' /\ Admitted(w)' /\ Planned(w)'
    BY <1>0, <2>1, <2>2 DEF Names, Admitted, Planned, P!Taken
  <2>7. \A v \in Writers \ {w} : pen[v].pc \in AtWork => pen[v].i # pen'[w].i
    BY <1>0, <2>1, <2>2 DEF PlatesInv, Apart, AtWork
  <2>8. ASSUME NEW j \in Items PROVE Known(j)'
    <3>1. CASE j # i
      BY <1>0, <1>1, <2>4, <3>1, KnownStays
    <3>2. CASE j = i
      <4>1. ASSUME i \notin doubt PROVE given[i] \subseteq {a}
        <5>1. \A v \in Writers : pen[v].pc = "track" => pen[v].i # i
          BY <1>0 DEF PlatesInv, Apart, AtWork
        <5>2. given[i] \subseteq {item[i].owner} /\ given[i] \subseteq Owners
          BY <1>0, <4>1, <5>1 DEF PlatesInv, Known
        <5> QED BY <1>0, <5>2, LedgersAssumption DEF P!Taken
      <4>2. i \notin doubt => given'[i] = {a}
        BY <1>0, <1>1, <4>1
      <4> QED BY <1>1, <2>1, <2>2, <3>2, <4>2 DEF Known
    <3> QED BY <3>1, <3>2
  <2> QED BY <1>0, <2>1, <2>3, <2>4, <2>5, <2>6, <2>7, <2>8, QuietPen
<1>2. CASE /\ given' \in {given, [given EXCEPT ![i] = @ \union {a}]}
           /\ doubt' = doubt \union {i} /\ P!Done(w)
  <2>1. PlatesTyped' /\ \A j \in Items : j # i => given'[j] = given[j]
    BY <1>0, <1>2, DoneKeeps DEF PlatesInv, PlatesTyped
  <2>2. Modest(w)
    BY <1>0, <1>2, DoneKeeps DEF Modest, Tally, P!Plate, P!Active
  <2>3. ASSUME NEW j \in Items PROVE Known(j)'
    <3>1. CASE j = i
      BY <1>2, <3>1 DEF Known
    <3>2. CASE j # i
      BY <1>0, <1>2, <2>1, <2>2, <3>2, KnownStays
    <3> QED BY <3>1, <3>2
  <2> QED BY <1>0, <1>2, <2>1, <2>2, <2>3, DoneKeeps, QuietPen DEF AtWork
<1> QED BY <1>1, <1>2 DEF P!Send

\* Track: the record names the agent it was sent to, or the dispatch is reported.
LEMMA TrackKeeps ==
  ASSUME PlatesInv, NEW w \in Writers, P!Track(w)
  PROVE  PlatesInv'
<1> DEFINE i == pen[w].i
           a == pen[w].plate
           y == P!Proposed(w)
           ground == P!Ground(item[i], y, a)
           pool == P!With(item[i], P!Pooled(pen[w].says))
<1>0. /\ pen[w].pc = "track" /\ UNCHANGED <<ops, given>> /\ i \in Items /\ a \in Owners
      /\ pen[w].says \in P!Sayings /\ given \in [Items -> SUBSET Owners] /\ P!Done(w)
      /\ item \in [Items -> P!Records] /\ item[i] \in P!Records /\ over \subseteq Items
      /\ doubt \subseteq Items /\ None \notin Owners /\ "same" \notin Owners /\ None # "same"
      /\ pen[w].says.owner = a /\ pen[w].says.st = "open" /\ ~P!Taken(i, a)
  BY LedgersAssumption
     DEF P!Track, P!At, PlatesInv, PlatesTyped, Locked, Names, Planned, AtWork, Pen
<1>1. CASE /\ ground # "full" /\ P!LetIn(i, ground) /\ UNCHANGED doubt
           /\ item' = [item EXCEPT ![i] = y]
  <2>1. y \in P!Records /\ y.owner = a
    BY <1>0, WithFields DEF P!Proposed
  <2> HIDE DEF y
  <2>2. Fits(i, y, a, ground)
    BY <1>0, <1>1, <2>1, GroundLets
  <2> HIDE DEF ground
  <2>3. over' \subseteq Items
    BY <1>0, <1>1, <2>2, LetInKeeps
  <2>4. PlatesTyped'
    BY <1>0, <1>1, <2>1, <2>3, DoneKeeps DEF PlatesInv, PlatesTyped
  <2>5. i \in doubt \/ given[i] \subseteq {a}
    <3>1. \A v \in Writers : pen[v].pc = "track" /\ pen[v].i = i => v = w
      BY <1>0 DEF PlatesInv, Apart, AtWork
    <3>2. Known(i)
      BY <1>0 DEF PlatesInv
    <3> QED BY <1>0, <3>1, <3>2 DEF Known, P!Taken
  <2> QED BY <1>0, <1>1, <2>1, <2>2, <2>4, <2>5, PlaceKeeps DEF AtWork
<1>2. CASE item' = [item EXCEPT ![i] = pool] /\ doubt' = doubt \union {i} /\ UNCHANGED over
  <2>1. pool \in P!Records /\ pool.owner = None
    <3>1. P!Pooled(pen[w].says) \in P!Sayings /\ P!Pooled(pen[w].says).owner = None
      BY <1>0 DEF P!Pooled, P!Sayings
    <3> QED BY <1>0, <3>1, WithFields
  <2> HIDE DEF pool
  <2>2. PlatesTyped'
    BY <1>0, <1>2, <2>1, DoneKeeps DEF PlatesInv, PlatesTyped
  <2>3. Fits(i, pool, a, "none") /\ P!LetIn(i, "none")
    BY <1>0, <1>2, <2>1 DEF Fits, P!Active, P!LetIn
  <2> QED BY <1>0, <1>2, <2>2, <2>3, PlaceKeeps DEF AtWork
<1>3. CASE UNCHANGED <<item, over>> /\ doubt' = doubt \union {i}
  <2>1. PlatesTyped'
    BY <1>0, <1>3, DoneKeeps DEF PlatesInv, PlatesTyped
  <2>2. Modest(w)
    BY <1>0, <1>3, DoneKeeps DEF Modest, Tally, P!Plate, P!Active
  <2>3. ASSUME NEW j \in Items PROVE Known(j)'
    <3>1. CASE j = i
      BY <1>3, <3>1 DEF Known
    <3>2. CASE j # i
      BY <1>0, <1>3, <2>2, <3>2, KnownStays
    <3> QED BY <3>1, <3>2
  <2> QED BY <1>0, <1>3, <2>1, <2>2, <2>3, DoneKeeps, QuietPen DEF AtWork
<1> QED BY <1>1, <1>2, <1>3 DEF P!Track

\* Lapse and Rerank: an item keeps its owner and its status, and if it is put off no
\* longer then it is not of the tally.
LEMMA UnwatchedKeeps ==
  ASSUME PlatesInv, NEW i \in Items, P!Lapse(i) \/ P!Rerank(i)
  PROVE  PlatesInv'
<1>0. /\ UNCHANGED <<lock, pen, ops, given, doubt>> /\ over' \in {over, over \union {i}}
      /\ item \in [Items -> P!Records] /\ over \subseteq Items /\ None \notin Owners
      /\ pen \in [Writers -> Pen]
  BY LedgersAssumption DEF P!Lapse, P!Rerank, PlatesInv, PlatesTyped
<1>1. /\ item' \in [Items -> P!Records]
      /\ \A j \in Items : /\ item'[j].owner = item[j].owner /\ item'[j].st = item[j].st
                          /\ j \in over' \/ item'[j].defer = item[j].defer
  <2>1. CASE P!Lapse(i)
    BY <1>0, <2>1 DEF P!Lapse, P!Records
  <2>2. CASE P!Rerank(i)
    BY <1>0, <2>2 DEF P!Rerank, P!Records
  <2> QED BY <2>1, <2>2
<1>2. \A o \in Owners : Tally(o)' \subseteq Tally(o)
  BY <1>0, <1>1 DEF Tally, P!Plate, P!Active
<1>3. ASSUME NEW o \in Owners
      PROVE  /\ Cardinality(Tally(o)') <= Cardinality(Tally(o)) /\ Cardinality(Tally(o)') \in Nat
             /\ Cardinality(Tally(o)) \in Nat
  BY <1>2, LessOnPlate, PlateFinite
<1>4. P!PlateBounded'
  <2>1. MaxActive \in Nat /\ \A o \in Owners : Cardinality(Tally(o)) <= MaxActive
    BY CountsAgree, LedgersAssumption DEF PlatesInv, P!PlateBounded, Tally
  <2>2. \A o \in Owners : Cardinality(Tally(o)') <= MaxActive
    BY <1>3, <2>1
  <2> QED BY <2>2, CountsAgree DEF P!PlateBounded, Tally
<1>5. ASSUME NEW w \in Writers PROVE Kept(w)'
  <2>0. Kept(w) /\ pen[w] \in Pen
    BY <1>0 DEF PlatesInv, Kept
  <2>1. Locked(w)' /\ Apart(w)'
    BY <1>0, <2>0 DEF Kept, Locked, Apart
  <2>2. Names(w)' /\ Planned(w)'
    BY <1>0, <1>1, <2>0 DEF Kept, Names, Planned, P!Taken, Locked
  <2>3. Admitted(w)'
    <3> SUFFICES ASSUME pen[w].pc = "write"
                 PROVE  Fits(pen[w].i, P!Proposed(w), pen[w].plate, pen[w].by)'
      BY <1>0 DEF Admitted
    <3>1. pen[w].i \in Items /\ pen[w].says \in P!Sayings
      BY <2>0 DEF Kept, Locked, Pen
    <3>2. /\ P!Proposed(w)'.owner = P!Proposed(w).owner
          /\ P!Proposed(w)'.st = P!Proposed(w).st
          /\ pen[w].i \in over' \/ P!Proposed(w)'.defer = P!Proposed(w).defer
      <4>1. item[pen[w].i] \in P!Records /\ item'[pen[w].i] \in P!Records
        BY <1>0, <1>1, <3>1
      <4>2. P!Proposed(w)' = P!With(item'[pen[w].i], pen[w].says)
        BY <1>0 DEF P!Proposed
      <4> QED BY <1>1, <3>1, <4>1, <4>2, WithFields DEF P!Proposed
    <3>3. Fits(pen[w].i, P!Proposed(w), pen[w].plate, pen[w].by)
      BY <2>0 DEF Kept, Admitted
    <3>4. ASSUME pen[w].by = "count" PROVE Cardinality(Tally(pen[w].plate)') < MaxActive
      <4>1. ASSUME NEW q \in Owners, Cardinality(Tally(q)) < MaxActive
            PROVE  Cardinality(Tally(q)') < MaxActive
        BY <1>3, <4>1, LedgersAssumption
      <4>2. pen[w].plate \in Owners /\ Cardinality(Tally(pen[w].plate)) < MaxActive
        BY <3>3, <3>4 DEF Fits
      <4>3. pen'[w].plate = pen[w].plate
        BY <1>0
      <4> QED BY <4>1, <4>2, <4>3
    <3> QED BY <1>0, <1>1, <3>1, <3>2, <3>3, <3>4 DEF Fits, P!Active
  <2> QED BY <2>1, <2>2, <2>3 DEF Kept
<1>6. \A j \in Items : Known(j)'
  BY <1>0, <1>1 DEF PlatesInv, Known
<1> QED BY <1>0, <1>1, <1>4, <1>5, <1>6 DEF PlatesInv, PlatesTyped, Kept

-----------------------------------------------------------------------------
(* The specification.                                                       *)

\* Nothing is on a plate at first.
LEMMA PlatesBegin == P!PInit => PlatesInv
<1> SUFFICES ASSUME P!PInit PROVE PlatesInv
  OBVIOUS
<1> USE DEF P!PInit
<1>1. PlatesTyped
  BY LedgersAssumption
     DEF PlatesTyped, Pen, P!Rest, P!Silent, P!Sayings, P!Records, P!Same
<1>2. ASSUME NEW o \in Owners PROVE Cardinality(P!Plate(o) \ over) <= MaxActive
  <2>1. P!Plate(o) \ over = {}
    BY DEF P!Plate, P!Active
  <2>2. MaxActive \in Nat
    BY LedgersAssumption
  <2> QED BY <2>1, <2>2, FS_EmptySet
<1>3. P!PlateBounded
  BY <1>2, CountsAgree DEF P!PlateBounded
<1>4. ASSUME NEW w \in Writers PROVE Kept(w)
  BY LedgersAssumption DEF Kept, Locked, Apart, Names, Admitted, Planned, P!Rest, AtWork
<1>5. \A i \in Items : Known(i)
  BY LedgersAssumption DEF Known
<1> QED BY <1>1, <1>3, <1>4, <1>5 DEF PlatesInv, Kept

\* Every step keeps the invariant: one lemma per action.
LEMMA PlatesStep == Serial /\ PlatesInv /\ [P!PNext]_P!pvars => PlatesInv'
<1> SUFFICES ASSUME Serial, PlatesInv, [P!PNext]_P!pvars PROVE PlatesInv'
  OBVIOUS
<1>1. CASE P!PNext
  <2>1. ASSUME NEW w \in Writers, NEW i \in Items,
               \/ \E x \in P!Records : P!Create(w, i, x)
               \/ \E to \in Owners \union {None, P!Same}, st \in {"open", "closed", P!Same},
                     defer \in {"none", "later", P!Same} : P!Update(w, i, to, st, defer)
               \/ \E a \in Owners : P!Go(w, i, a)
        PROVE  PlatesInv'
    BY <2>1, PenBegins DEF P!Same
  <2>2. ASSUME NEW w \in Writers, \/ P!Acquire(w) \/ P!Admit(w) \/ P!Write(w) \/ P!Plan(w)
                                  \/ P!Send(w) \/ P!Track(w)
        PROVE  PlatesInv'
    BY <2>2, AcquireKeeps, AdmitKeeps, WriteKeeps, PlanKeeps, DispatchKeeps, TrackKeeps
  <2> QED BY <1>1, <2>1, <2>2, UnwatchedKeeps DEF P!PNext
<1>2. CASE UNCHANGED P!pvars
  <2>1. UNCHANGED <<item, lock, pen, ops, given, doubt, over>>
    BY <1>2 DEF P!pvars
  <2>2. PlatesTyped' /\ (\A o : Tally(o)' = Tally(o))
    BY <2>1 DEF PlatesInv, PlatesTyped, Tally, P!Plate, P!Active
  <2>3. P!PlateBounded'
    BY <2>2, CountsAgree DEF P!PlateBounded, PlatesInv, Tally
  <2>4. ASSUME NEW w \in Writers PROVE Kept(w)'
    BY <2>1, <2>2 DEF PlatesInv, Kept, Locked, Apart, Names, Admitted, Planned, Fits,
                      P!Proposed, P!Active, P!Taken
  <2>5. \A i \in Items : Known(i)'
    BY <2>1 DEF PlatesInv, Known
  <2> QED BY <2>2, <2>3, <2>4, <2>5 DEF PlatesInv, Kept
<1> QED BY <1>1, <1>2

\* A behaviour of the ledgers about plates is one of Plates.
LEMMA PlatesOnly ==
  /\ LInit => P!PInit
  /\ [LNext]_all => subject' = subject /\ (subject = "plates" => [P!PNext]_P!pvars)
BY DEF LInit, LNext, all, plates, P!pvars

\* The invariant holds throughout.
LEMMA PlatesInvariance == Serial => (LSpec => [](subject = "plates" => PlatesInv))
<1> SUFFICES ASSUME Serial PROVE LSpec => [](subject = "plates" => PlatesInv)
  OBVIOUS
<1>1. LInit => (subject = "plates" => PlatesInv)
  BY PlatesOnly, PlatesBegin
<1>2. (subject = "plates" => PlatesInv) /\ [LNext]_all => (subject = "plates" => PlatesInv)'
  BY PlatesOnly, PlatesStep
<1> QED BY <1>1, <1>2, PTL DEF LSpec

\* However creations, moves, reopenings, deferrals and dispatches interleave under the
\* plates' locks, and whatever lapses or changes its priority meanwhile, a plate does not
\* hold more work than its bound that was let in by the count: the place that a writer
\* found free is still free when it writes.
THEOREM PlatesAreBounded == Serial => (LSpec => []PlateBounded)
<1>1. (subject = "plates" => PlatesInv) => PlateBounded
  BY DEF PlatesInv, PlateBounded
<1> QED BY <1>1, PlatesInvariance, PTL

\* `st go` sends an item to one agent at most until it is placed anew, unless it has
\* reported the dispatch as in doubt.
THEOREM ItemsAreGivenOnce == Serial => (LSpec => []GivenToOne)
<1>1. ASSUME PlatesInv PROVE P!GivenToOne
  <2> SUFFICES ASSUME NEW i \in Items, i \notin doubt PROVE Cardinality(given[i]) <= 1
    BY CountsAgree DEF P!GivenToOne
  <2>1. PICK x : given[i] \subseteq {x}
    BY <1>1 DEF PlatesInv, Known
  <2>2. IsFiniteSet({x}) /\ Cardinality({x}) = 1
    BY FS_Singleton
  <2>3. Cardinality(given[i]) <= Cardinality({x}) /\ IsFiniteSet(given[i])
    BY <2>1, <2>2, FS_Subset
  <2> QED BY <2>2, <2>3
<1>2. (subject = "plates" => PlatesInv) => GivenToOne
  BY <1>1 DEF GivenToOne
<1> QED BY <1>2, PlatesInvariance, PTL

-----------------------------------------------------------------------------
(* Pull requests: what the registry says of the writes sent.                *)

\* What the registry says of a write that was sent, or is about to be.
Recorded(w) ==
  /\ Is(w.n)
  /\ w.kind = "merge"  => forge[w.n].merged \/ slot = w.n
  /\ w.kind = "review" => outbox[w.n] \in {"tried", "delivered"}
  /\ w.kind \in Kinds  => /\ bind[w.n] # None
                          /\ \/ w.status \in bind[w.n].done
                             \/ bind[w.n].pending = w.status /\ w.kind \in bind[w.n].tried

Journaled ==
  /\ \A w \in Writes : sent[w] > 0 => sent[w] = 1 /\ Recorded(w)
  /\ At("send") => op.w \in Writes /\ sent[op.w] = 0 /\ Recorded(op.w)
  /\ \A w \in flying : Is(w.n)

\* Only pull requests that exist are bound, and reviews asked for are of bound ones.
Bindings ==
  \A n \in Numbers : /\ bind[n] # None => Is(n)
                     /\ outbox[n] # "none" => bind[n] # None

\* What was read under the lock stays true until it is used.
Working ==
  /\ At("prove") => op.w \in Writes /\ sent[op.w] > 0
  /\ At("preflight") => /\ op.n \in Numbers /\ Is(op.n) /\ slot = None
                        /\ sent[Write("merge", op.n, None)] = 0
  /\ At("send") \/ At("prove") => op.w.n = op.n
  /\ (At("send") \/ At("prove")) /\ op.w.kind = "merge" => slot = op.n
  /\ At("comment") \/ At("status") \/ At("settle")
       \/ ((At("send") \/ At("prove")) /\ op.w.kind \in Kinds) =>
       /\ op.n \in Numbers /\ op.item \in Statuses
       /\ bind[op.n] # None /\ bind[op.n].pending = op.item
       /\ op.item \notin bind[op.n].done

PullsInv == FTypeOK /\ Journaled /\ Bindings /\ Working

-----------------------------------------------------------------------------
(* Writes.                                                                  *)

\* What a write is made of.
LEMMA WriteParts ==
  ASSUME NEW w \in Writes
  PROVE  /\ w.n \in Numbers /\ w = Write(w.kind, w.n, w.status)
         /\ \/ w.kind \in Kinds /\ w.status \in Statuses
            \/ w.kind \in {"merge", "review"} /\ w.status = None
BY DEF Writes, Write

\* A write made of its parts.
LEMMA MakeWrite ==
  ASSUME NEW n \in Numbers
  PROVE  /\ \A kind \in Kinds, s \in Statuses :
              /\ Write(kind, n, s) \in Writes /\ Write(kind, n, s).kind = kind
              /\ Write(kind, n, s).n = n /\ Write(kind, n, s).status = s
         /\ \A kind \in {"merge", "review"} :
              /\ Write(kind, n, None) \in Writes /\ Write(kind, n, None).kind = kind
              /\ Write(kind, n, None).n = n
BY DEF Writes, Write

-----------------------------------------------------------------------------
(* Steps of the outside: no pull request disappears, no merge is undone.    *)

\* The invariant is kept while pull requests and merges stay.
LEMMA PeopleKeep ==
  ASSUME PullsInv, FTypeOK', UNCHANGED <<registry, op, sent>>, flying' \subseteq flying,
         \A n \in Numbers : Is(n) => Is(n)' /\ (forge[n].merged => forge[n].merged')
  PROVE  PullsInv'
<1>1. \A w \in Writes : w.n \in Numbers
  BY WriteParts
<1>2. \A w \in Writes : Recorded(w) => Recorded(w)'
  BY <1>1 DEF Recorded, registry
<1>3. Journaled'
  BY <1>1, <1>2 DEF PullsInv, FTypeOK, Journaled, At
<1>4. Bindings'
  BY DEF PullsInv, Bindings, registry
<1>5. Working'
  BY DEF PullsInv, Working, registry, At
<1> QED BY <1>3, <1>4, <1>5 DEF PullsInv

\* Pushing, closing, drafting, opening, and changing the work item.
LEMMA PeopleKeeps == PullsInv /\ People => PullsInv'
<1> SUFFICES ASSUME PullsInv, People PROVE PullsInv'
  OBVIOUS
<1>1. UNCHANGED <<registry, op, flying, sent>> /\ people' \in Nat
  BY DEF PullsInv, FTypeOK, People
<1>2. /\ forge' \in [Numbers -> PullRequest \union {None}] /\ bead' \in Statuses \union {"open"}
      /\ \A n \in Numbers : Is(n) => Is(n)' /\ (forge[n].merged => forge[n].merged')
  <2>1. CASE bead' \in {"open", "deferred", "closed"} \ {bead} /\ UNCHANGED forge
    BY <2>1 DEF PullsInv, FTypeOK, Statuses, Is
  <2>2. ASSUME UNCHANGED bead, NEW n \in Numbers,
               \/ Live(n) /\ Edit(n, [forge[n] EXCEPT !.head = @ + 1])
               \/ Live(n) /\ Edit(n, [forge[n] EXCEPT !.state = "closed"])
               \/ Live(n) /\ Edit(n, [forge[n] EXCEPT !.draft = ~@])
               \/ Is(n) /\ Edit(n, [forge[n] EXCEPT !.state = "open"])
               \/ ~Is(n) /\ Edit(n, [head |-> 0, state |-> "open", draft |-> FALSE,
                                     merged |-> FALSE, marks |-> {}])
        PROVE  /\ forge' \in [Numbers -> PullRequest \union {None}]
               /\ bead' \in Statuses \union {"open"}
               /\ \A i \in Numbers : Is(i) => Is(i)' /\ (forge[i].merged => forge[i].merged')
    <3>1. PICK r : forge' = [forge EXCEPT ![n] = r] /\ r \in PullRequest
                   /\ (Is(n) => (forge[n].merged => r.merged))
      <4>1. Is(n) => forge[n] \in PullRequest
        BY DEF PullsInv, FTypeOK, Is
      <4>2. CASE Live(n) /\ Edit(n, [forge[n] EXCEPT !.head = @ + 1])
        <5> WITNESS [forge[n] EXCEPT !.head = @ + 1]
        <5> QED BY <4>1, <4>2 DEF Live, Edit, PullRequest
      <4>3. CASE Live(n) /\ Edit(n, [forge[n] EXCEPT !.state = "closed"])
        <5> WITNESS [forge[n] EXCEPT !.state = "closed"]
        <5> QED BY <4>1, <4>3 DEF Live, Edit, PullRequest
      <4>4. CASE Live(n) /\ Edit(n, [forge[n] EXCEPT !.draft = ~@])
        <5> WITNESS [forge[n] EXCEPT !.draft = ~@]
        <5> QED BY <4>1, <4>4 DEF Live, Edit, PullRequest
      <4>5. CASE Is(n) /\ Edit(n, [forge[n] EXCEPT !.state = "open"])
        <5> WITNESS [forge[n] EXCEPT !.state = "open"]
        <5> QED BY <4>1, <4>5 DEF Edit, PullRequest
      <4>6. CASE ~Is(n) /\ Edit(n, [head |-> 0, state |-> "open", draft |-> FALSE,
                                    merged |-> FALSE, marks |-> {}])
        <5> WITNESS [head |-> 0, state |-> "open", draft |-> FALSE, merged |-> FALSE,
                     marks |-> {}]
        <5> QED BY <4>6 DEF Edit, PullRequest
      <4> QED BY <2>2, <4>2, <4>3, <4>4, <4>5, <4>6
    <3> QED BY <2>2, <3>1, PullsAssumption DEF PullsInv, FTypeOK, Is
  <2> QED BY <2>1, <2>2 DEF People
<1>3. FTypeOK'
  BY <1>1, <1>2 DEF PullsInv, FTypeOK, registry
<1> QED BY <1>1, <1>2, <1>3, PeopleKeep

\* A write that lands.
LEMMA LandKeeps == ASSUME PullsInv, NEW w \in flying, Land(w) PROVE PullsInv'
<1>1. UNCHANGED <<bead, registry, op, sent, people>> /\ flying' \subseteq flying
  BY DEF Land
<1>2. w \in Writes /\ w.n \in Numbers /\ Is(w.n) /\ forge[w.n] \in PullRequest
  BY WriteParts DEF PullsInv, FTypeOK, Journaled, Is
<1>3. PICK r : forge' = [forge EXCEPT ![w.n] = r] /\ r \in PullRequest
               /\ (forge[w.n].merged => r.merged)
  <2>1. \/ w.kind \in Kinds /\ w.status \in Statuses
        \/ w.kind \in {"merge", "review"}
    BY <1>2, WriteParts
  <2> QED BY <1>2, <2>1 DEF Land, Effect, Edit, PullRequest, Kinds
<1>4. FTypeOK'
  BY <1>1, <1>2, <1>3 DEF PullsInv, FTypeOK, registry
<1>5. \A n \in Numbers : Is(n) => Is(n)' /\ (forge[n].merged => forge[n].merged')
  BY <1>2, <1>3, PullsAssumption DEF PullsInv, FTypeOK, Is
<1> QED BY <1>1, <1>4, <1>5, PeopleKeep

-----------------------------------------------------------------------------
(* Steps of whoever holds the registry's lock.                              *)

\* A step that writes the registry and sends nothing.
LEMMA RegistryKeeps ==
  ASSUME PullsInv, Keep, FTypeOK', Bindings', Working',
         \A w \in Writes : sent[w] > 0 /\ Recorded(w) => Recorded(w)',
         (At("send") => op.w \in Writes /\ sent[op.w] = 0 /\ Recorded(op.w))'
  PROVE  PullsInv'
BY DEF PullsInv, Keep, Journaled, Is

\* A call that raises, or dies.
LEMMA RaiseKeeps == PullsInv /\ Raise => PullsInv'
<1> SUFFICES ASSUME PullsInv, Raise PROVE PullsInv'
  OBVIOUS
<1>1. FTypeOK'
  BY DEF PullsInv, FTypeOK, Raise, registry, Op, Labels, Free
<1>2. ~At("send")' /\ Working'
  BY DEF Raise, Working, At, Free
<1>3. Bindings' /\ \A w \in Writes : Recorded(w) => Recorded(w)'
  BY DEF PullsInv, Raise, Bindings, Recorded, Is, registry
<1> QED BY <1>1, <1>2, <1>3, RegistryKeeps DEF Raise, Keep

\* The one step that sends: what is sent was not sent before.
LEMMA SendKeeps == PullsInv /\ Send => PullsInv'
<1> SUFFICES ASSUME PullsInv, Send PROVE PullsInv'
  OBVIOUS
<1>1. /\ At("send") /\ op.w \in Writes /\ op.w.n \in Numbers /\ sent[op.w] = 0
      /\ Recorded(op.w) /\ op \in Op
  BY WriteParts DEF PullsInv, FTypeOK, Send, Journaled
<1>2. /\ op' = [op EXCEPT !.pc = "prove"] /\ flying' = flying \union {op.w}
      /\ sent' = [sent EXCEPT ![op.w] = 1]
      /\ UNCHANGED <<forge, bead, bind, slot, outbox, people>>
  BY <1>1 DEF PullsInv, FTypeOK, Send, Goto, registry
<1>3. op' \in Op /\ op'.pc = "prove" /\ op'.w = op.w /\ op'.n = op.n /\ op'.item = op.item
  BY <1>1, <1>2 DEF Op, Labels
<1>4. FTypeOK'
  BY <1>1, <1>2, <1>3 DEF PullsInv, FTypeOK
<1>5. \A w \in Writes : Recorded(w) => Recorded(w)'
  BY <1>2 DEF Recorded, Is
<1>6. Journaled'
  BY <1>1, <1>2, <1>3, <1>5 DEF PullsInv, FTypeOK, Journaled, Recorded, At, Is
<1>7. Bindings'
  BY <1>2 DEF PullsInv, Bindings, Is
<1>8. Working'
  BY <1>1, <1>2, <1>3 DEF PullsInv, FTypeOK, Working, At
<1> QED BY <1>4, <1>6, <1>7, <1>8 DEF PullsInv

\* register: nothing was written yet about a pull request it binds.
LEMMA RegisterKeeps == ASSUME PullsInv, NEW n \in Numbers, Register(n) PROVE PullsInv'
<1> DEFINE b == [head |-> forge[n].head, reviewed |-> FALSE, pending |-> None, tried |-> {},
                 done |-> {}]
<1>1. /\ At("free") /\ Is(n) /\ bind[n] = None /\ bind' = [bind EXCEPT ![n] = b]
      /\ UNCHANGED <<slot, outbox, op>> /\ Keep
  BY DEF Register, Live
<1>2. b \in Binding /\ b # None
  <2>1. forge[n].head \in Nat
    BY <1>1 DEF PullsInv, FTypeOK, Is, PullRequest
  <2>2. b \in Binding
    BY <2>1 DEF Binding
  <2> QED BY <2>2, PullsAssumption
<1> HIDE DEF b
<1>3. FTypeOK'
  BY <1>1, <1>2 DEF PullsInv, FTypeOK, Keep
<1>4. Bindings'
  BY <1>1, <1>2 DEF PullsInv, FTypeOK, Keep, Bindings, Is
<1>5. ~At("send")' /\ Working'
  BY <1>1 DEF Working, At
<1>6. \A w \in Writes : Recorded(w) => Recorded(w)'
  BY <1>1, WriteParts DEF PullsInv, FTypeOK, Recorded, Keep, Is
<1> QED BY <1>1, <1>3, <1>4, <1>5, <1>6, RegistryKeeps

\* enqueue_review.
LEMMA ReviewKeeps == ASSUME PullsInv, NEW n \in Numbers, Review(n) PROVE PullsInv'
<1>1. /\ At("free") /\ bind[n] # None /\ bind' = [bind EXCEPT ![n].reviewed = TRUE]
      /\ outbox' = [outbox EXCEPT ![n] = IF @ = "none" THEN "queued" ELSE @]
      /\ UNCHANGED <<slot, op>> /\ Keep
  BY DEF Review
<1>2. PICK b : /\ bind' = [bind EXCEPT ![n] = b] /\ b \in Binding
               /\ b.done = bind[n].done /\ b.pending = bind[n].pending
               /\ b.tried = bind[n].tried
  <2> WITNESS [bind[n] EXCEPT !.reviewed = TRUE]
  <2> QED BY <1>1 DEF PullsInv, FTypeOK, Binding
<1>3. FTypeOK'
  BY <1>1, <1>2 DEF PullsInv, FTypeOK, Keep
<1>4. Bindings'
  BY <1>1, <1>2, PullsAssumption DEF PullsInv, FTypeOK, Keep, Bindings, Is
<1>5. ~At("send")' /\ Working'
  BY <1>1 DEF Working, At
<1>6. \A w \in Writes : Recorded(w) => Recorded(w)'
  BY <1>1, <1>2, WriteParts, PullsAssumption DEF PullsInv, FTypeOK, Recorded, Keep, Is
<1> QED BY <1>1, <1>3, <1>4, <1>5, <1>6, RegistryKeeps

\* execute_one, up to the helper's preflight: the slot is free, so nothing that
\* was launched has yet to be merged.
LEMMA MergeLookKeeps == ASSUME PullsInv, NEW n \in Numbers, MergeLook(n) PROVE PullsInv'
<1>1. At("free") /\ Bound(n) /\ slot \in {None, n} /\ UNCHANGED <<bind, outbox>> /\ Keep
  BY DEF MergeLook
<1>2. Is(n) /\ op \in Op
  BY <1>1 DEF PullsInv, FTypeOK, Bindings, Bound
<1>3. Bindings'
  BY <1>1 DEF PullsInv, Bindings, Keep, Is
<1>4. CASE forge[n].merged /\ slot' = None /\ UNCHANGED op
  <2>1. FTypeOK'
    BY <1>1, <1>4 DEF PullsInv, FTypeOK, Keep
  <2>2. ~At("send")' /\ Working'
    BY <1>1, <1>4 DEF Working, At
  <2>3. \A w \in Writes : Recorded(w) => Recorded(w)'
    BY <1>1, <1>4, WriteParts, PullsAssumption DEF Recorded, Keep, Is
  <2> QED BY <1>1, <1>3, <2>1, <2>2, <2>3, RegistryKeeps
<1>5. CASE /\ ~forge[n].merged /\ Unclaimed(n) /\ UNCHANGED slot
           /\ op' = [Free EXCEPT !.pc = "preflight", !.n = n]
  <2>1. op' \in Op /\ op'.pc = "preflight" /\ op'.n = n
    BY <1>5 DEF Op, Free, Labels
  <2>2. FTypeOK'
    BY <1>1, <1>5, <2>1 DEF PullsInv, FTypeOK, Keep
  <2>3. /\ Write("merge", n, None) \in Writes /\ Write("merge", n, None).n = n
        /\ Write("merge", n, None).kind = "merge"
    BY MakeWrite
  <2>4. sent[Write("merge", n, None)] = 0
    <3>1. ~Recorded(Write("merge", n, None))
      BY <1>5, <2>3, PullsAssumption DEF Recorded, Unclaimed
    <3> QED BY <2>3, <3>1 DEF PullsInv, FTypeOK, Journaled
  <2>5. ~At("send")' /\ Working'
    BY <1>1, <1>2, <1>5, <2>1, <2>4 DEF Working, At, Keep, Is, Unclaimed
  <2>6. \A w \in Writes : Recorded(w) => Recorded(w)'
    BY <1>1, <1>5 DEF Recorded, Keep, Is
  <2> QED BY <1>1, <1>3, <2>2, <2>5, <2>6, RegistryKeeps
<1> QED BY <1>4, <1>5 DEF MergeLook

\* execute_one: the slot is taken, for a merge never launched.
LEMMA MergeIntentKeeps == PullsInv /\ MergeIntent => PullsInv'
<1> SUFFICES ASSUME PullsInv, MergeIntent PROVE PullsInv'
  OBVIOUS
<1> DEFINE w == Write("merge", op.n, None)
<1>1. /\ At("preflight") /\ slot' = op.n /\ op' = [op EXCEPT !.pc = "send", !.w = w]
      /\ UNCHANGED <<bind, outbox>> /\ Keep
  BY DEF MergeIntent
<1>2. op.n \in Numbers /\ Is(op.n) /\ slot = None /\ sent[w] = 0 /\ op \in Op
  BY <1>1 DEF PullsInv, FTypeOK, Working
<1>3. w \in Writes /\ w.n = op.n /\ w.kind = "merge"
  BY <1>2, MakeWrite
<1> HIDE DEF w
<1>4. op' \in Op /\ op'.pc = "send" /\ op'.w = w /\ op'.n = op.n
  BY <1>1, <1>2, <1>3 DEF Op, Labels
<1>5. FTypeOK'
  BY <1>1, <1>2, <1>4 DEF PullsInv, FTypeOK, Keep
<1>6. Bindings'
  BY <1>1 DEF PullsInv, Bindings, Keep, Is
<1>7. Working'
  BY <1>1, <1>3, <1>4 DEF Working, At, Kinds
<1>8. \A x \in Writes : Recorded(x) => Recorded(x)'
  BY <1>1, <1>2, WriteParts, PullsAssumption DEF Recorded, Keep, Is
<1>9. (At("send") => op.w \in Writes /\ sent[op.w] = 0 /\ Recorded(op.w))'
  BY <1>1, <1>2, <1>3, <1>4 DEF Recorded, Keep, Is, Kinds
<1> QED BY <1>1, <1>5, <1>6, <1>7, <1>8, <1>9, RegistryKeeps

\* execute_one: the merge is seen, and the slot given back.
LEMMA MergeProofKeeps == PullsInv /\ MergeProof => PullsInv'
<1> SUFFICES ASSUME PullsInv, MergeProof PROVE PullsInv'
  OBVIOUS
<1>1. /\ At("prove") /\ op.w.kind = "merge" /\ forge[op.n].merged /\ slot' = None
      /\ op' = Free /\ UNCHANGED <<bind, outbox>> /\ Keep
  BY DEF MergeProof
<1>2. slot = op.n
  BY <1>1 DEF PullsInv, Working
<1>3. FTypeOK'
  BY <1>1 DEF PullsInv, FTypeOK, Keep, Op, Labels, Free
<1>4. Bindings'
  BY <1>1 DEF PullsInv, Bindings, Keep, Is
<1>5. ~At("send")' /\ Working'
  BY <1>1 DEF Working, At, Free
<1>6. \A w \in Writes : Recorded(w) => Recorded(w)'
  BY <1>1, <1>2 DEF Recorded, Keep, Is
<1> QED BY <1>1, <1>3, <1>4, <1>5, <1>6, RegistryKeeps

\* drain_outbox: a message not tried was not sent.
LEMMA DrainKeeps == ASSUME PullsInv, NEW n \in Numbers, Drain(n) PROVE PullsInv'
<1>1. At("free") /\ UNCHANGED <<bind, slot>> /\ Keep
  BY DEF Drain
<1>2. ASSUME outbox[n] \in {"queued", "tried"}, outbox' = [outbox EXCEPT ![n] = "delivered"],
             UNCHANGED op
      PROVE  PullsInv'
  <2>1. FTypeOK'
    BY <1>1, <1>2 DEF PullsInv, FTypeOK, Keep
  <2>2. Bindings'
    BY <1>1, <1>2 DEF PullsInv, FTypeOK, Bindings, Keep, Is
  <2>3. ~At("send")' /\ Working'
    BY <1>1, <1>2 DEF Working, At
  <2>4. \A w \in Writes : Recorded(w) => Recorded(w)'
    BY <1>1, <1>2, WriteParts DEF PullsInv, FTypeOK, Recorded, Keep, Is
  <2> QED BY <1>1, <2>1, <2>2, <2>3, <2>4, RegistryKeeps
<1>3. ASSUME outbox[n] = "queued", outbox' = [outbox EXCEPT ![n] = "tried"],
             op' = [Free EXCEPT !.pc = "send", !.n = n, !.w = Write("review", n, None)]
      PROVE  PullsInv'
  <2> DEFINE w == Write("review", n, None)
  <2>1. w \in Writes /\ w.n = n /\ w.kind = "review"
    BY MakeWrite
  <2>2. op' = [Free EXCEPT !.pc = "send", !.n = n, !.w = w]
    BY <1>3
  <2> HIDE DEF w
  <2>3. op' \in Op /\ op'.pc = "send" /\ op'.w = w /\ op'.n = n
    BY <2>1, <2>2 DEF Op, Free, Labels
  <2>4. FTypeOK'
    BY <1>1, <1>3, <2>3 DEF PullsInv, FTypeOK, Keep
  <2>5. Bindings' /\ Is(n)
    BY <1>1, <1>3 DEF PullsInv, FTypeOK, Bindings, Keep, Is
  <2>6. Working'
    BY <2>1, <2>3 DEF Working, At, Kinds
  <2>7. \A x \in Writes : Recorded(x) => Recorded(x)'
    BY <1>1, <1>3, WriteParts DEF PullsInv, FTypeOK, Recorded, Keep, Is
  <2>8. sent[w] = 0
    <3>1. ~Recorded(w)
      BY <1>3, <2>1 DEF Recorded
    <3> QED BY <2>1, <3>1 DEF PullsInv, FTypeOK, Journaled
  <2>9. (At("send") => op.w \in Writes /\ sent[op.w] = 0 /\ Recorded(op.w))'
    BY <1>1, <1>3, <2>1, <2>3, <2>5, <2>8 DEF PullsInv, FTypeOK, Recorded, Keep, Is, Kinds
  <2> QED BY <1>1, <2>4, <2>5, <2>6, <2>7, <2>9, RegistryKeeps
<1> QED BY <1>2, <1>3 DEF Drain

\* drain_outbox: the message is there.
LEMMA DrainProofKeeps == PullsInv /\ DrainProof => PullsInv'
<1> SUFFICES ASSUME PullsInv, DrainProof PROVE PullsInv'
  OBVIOUS
<1>1. /\ At("prove") /\ op.w.kind = "review" /\ op' = Free
      /\ outbox' = [outbox EXCEPT ![op.n] = "delivered"] /\ UNCHANGED <<bind, slot>> /\ Keep
  BY DEF DrainProof
<1>2. op.w \in Writes /\ op.w.n = op.n /\ op.n \in Numbers
  BY <1>1, WriteParts DEF PullsInv, Working
<1>3. bind[op.n] # None
  <2>1. outbox[op.n] # "none"
    BY <1>1, <1>2 DEF PullsInv, Working, Journaled, Recorded
  <2> QED BY <1>2, <2>1 DEF PullsInv, Bindings
<1>4. FTypeOK'
  BY <1>1, <1>2 DEF PullsInv, FTypeOK, Keep, Op, Labels, Free
<1>5. Bindings'
  BY <1>1, <1>2, <1>3 DEF PullsInv, FTypeOK, Bindings, Keep, Is
<1>6. ~At("send")' /\ Working'
  BY <1>1 DEF Working, At, Free
<1>7. \A w \in Writes : Recorded(w) => Recorded(w)'
  BY <1>1, WriteParts DEF PullsInv, FTypeOK, Recorded, Keep, Is
<1> QED BY <1>1, <1>4, <1>5, <1>6, <1>7, RegistryKeeps

-----------------------------------------------------------------------------
(* Steps of reconcile.                                                      *)

LEMMA ReconcileKeeps == PullsInv /\ Reconcile => PullsInv'
<1> SUFFICES ASSUME PullsInv, Reconcile PROVE PullsInv'
  OBVIOUS
<1>1. /\ op' = [Free EXCEPT !.pc = "each", !.todo = {n \in Numbers : bind[n] # None}]
      /\ UNCHANGED <<bind, slot, outbox>> /\ Keep
  BY DEF Reconcile, registry
<1>2. op' \in Op /\ op'.pc = "each"
  BY <1>1 DEF Op, Free, Labels
<1>3. FTypeOK'
  BY <1>1, <1>2 DEF PullsInv, FTypeOK, Keep
<1>4. ~At("send")' /\ Working'
  BY <1>2 DEF Working, At
<1>5. Bindings' /\ \A w \in Writes : Recorded(w) => Recorded(w)'
  BY <1>1 DEF PullsInv, Bindings, Recorded, Keep, Is
<1> QED BY <1>1, <1>3, <1>4, <1>5, RegistryKeeps

\* Nothing to do for a pull request; or its digest is made pending.
LEMMA EachKeeps == ASSUME PullsInv, NEW n \in Numbers, Each(n) PROVE PullsInv'
<1>1. /\ At("each") /\ n \in op.todo /\ bind[n].pending \in {None, bead} /\ op \in Op
      /\ UNCHANGED <<slot, outbox>> /\ Keep
  BY DEF PullsInv, FTypeOK, Each
<1>2. ASSUME op' = [op EXCEPT !.todo = @ \ {n}], UNCHANGED bind PROVE PullsInv'
  <2>1. op' \in Op /\ op'.pc = "each"
    BY <1>1, <1>2 DEF Op, At
  <2>2. FTypeOK'
    BY <1>1, <1>2, <2>1 DEF PullsInv, FTypeOK, Keep
  <2>3. ~At("send")' /\ Working'
    BY <2>1 DEF Working, At
  <2>4. Bindings' /\ \A w \in Writes : Recorded(w) => Recorded(w)'
    BY <1>1, <1>2 DEF PullsInv, Bindings, Recorded, Keep, Is
  <2> QED BY <1>1, <2>2, <2>3, <2>4, RegistryKeeps
<1>3. ASSUME bead \notin bind[n].done \union {"open"}, Bound(n),
             bind' = [bind EXCEPT ![n].pending = bead],
             op' = [op EXCEPT !.pc = "comment", !.n = n, !.item = bead]
      PROVE  PullsInv'
  <2>1. bead \in Statuses /\ bind[n] # None /\ bind[n] \in Binding
    BY <1>3 DEF PullsInv, FTypeOK, Bound
  <2>2. PICK b : /\ bind' = [bind EXCEPT ![n] = b] /\ b \in Binding /\ b.pending = bead
                 /\ b.done = bind[n].done /\ b.tried = bind[n].tried
    <3> WITNESS [bind[n] EXCEPT !.pending = bead]
    <3> QED BY <1>3, <2>1 DEF Binding
  <2>3. op' \in Op /\ op'.pc = "comment" /\ op'.n = n /\ op'.item = bead
    BY <1>1, <1>3, <2>1 DEF Op, Labels
  <2>4. FTypeOK'
    BY <1>1, <2>2, <2>3 DEF PullsInv, FTypeOK, Keep
  <2>5. bind'[n] = b /\ b # None
    BY <2>2, PullsAssumption DEF PullsInv, FTypeOK
  <2>6. Bindings'
    BY <1>1, <2>1, <2>2, <2>5 DEF PullsInv, FTypeOK, Bindings, Keep, Is
  <2>7. ~At("send")' /\ Working'
    BY <1>3, <2>1, <2>2, <2>3, <2>5 DEF Working, At
  <2>8. \A w \in Writes : Recorded(w) => Recorded(w)'
    <3> SUFFICES ASSUME NEW w \in Writes, Recorded(w) PROVE Recorded(w)'
      OBVIOUS
    <3>1. w.n \in Numbers /\ (w.kind \in Kinds => w.status # None)
      BY WriteParts, PullsAssumption DEF Kinds
    <3>2. CASE w.n # n
      BY <1>1, <2>2, <3>1, <3>2 DEF PullsInv, FTypeOK, Recorded, Keep, Is
    <3>3. CASE w.n = n
      BY <1>1, <2>2, <2>5, <3>1, <3>3 DEF Recorded, Keep, Is
    <3> QED BY <3>2, <3>3
  <2> QED BY <1>1, <2>4, <2>6, <2>7, <2>8, RegistryKeeps
<1> QED BY <1>2, <1>3 DEF Each

\* An attempt is recorded before it is sent, and not made where one is recorded.
LEMMA AttemptKeeps ==
  ASSUME PullsInv, At("comment") \/ At("status"), NEW kind \in Kinds, Attempt(kind),
         UNCHANGED <<slot, outbox>>, Keep
  PROVE  PullsInv'
<1> DEFINE w == Write(kind, op.n, op.item)
<1>1. /\ op.n \in Numbers /\ op.item \in Statuses /\ bind[op.n] # None /\ op \in Op
      /\ bind[op.n].pending = op.item /\ op.item \notin bind[op.n].done
      /\ bind[op.n] \in Binding
  BY DEF PullsInv, FTypeOK, Working
<1>2. w \in Writes /\ w.n = op.n /\ w.kind = kind /\ w.status = op.item
  BY <1>1, MakeWrite
<1>3. op' = [op EXCEPT !.pc = "send", !.w = w]
  BY DEF Attempt
<1> HIDE DEF w
<1>4. op' \in Op /\ op'.pc = "send" /\ op'.w = w /\ op'.n = op.n /\ op'.item = op.item
  BY <1>1, <1>2, <1>3 DEF Op, Labels
<1>5. PICK b : /\ bind' = [bind EXCEPT ![op.n] = b] /\ b \in Binding
               /\ b.tried = bind[op.n].tried \union {kind}
               /\ b.pending = bind[op.n].pending /\ b.done = bind[op.n].done
  <2> WITNESS [bind[op.n] EXCEPT !.tried = @ \union {kind}]
  <2> QED BY <1>1 DEF Attempt, Binding
<1>6. bind'[op.n] = b /\ b # None
  BY <1>1, <1>5, PullsAssumption DEF PullsInv, FTypeOK
<1>7. sent[w] = 0
  <2>1. ~Recorded(w)
    BY <1>1, <1>2 DEF Recorded, Attempt, Tried
  <2> QED BY <1>2, <2>1 DEF PullsInv, FTypeOK, Journaled
<1>8. FTypeOK'
  BY <1>4, <1>5 DEF PullsInv, FTypeOK, Keep
<1>9. Bindings'
  BY <1>1, <1>5, <1>6 DEF PullsInv, FTypeOK, Bindings, Keep, Is
<1>10. Working'
  BY <1>1, <1>2, <1>4, <1>5, <1>6 DEF Working, At, Kinds
<1>11. \A x \in Writes : Recorded(x) => Recorded(x)'
  <2> SUFFICES ASSUME NEW x \in Writes, Recorded(x) PROVE Recorded(x)'
    OBVIOUS
  <2>1. x.n \in Numbers
    BY WriteParts
  <2>2. CASE x.n # op.n
    BY <1>5, <2>1, <2>2 DEF PullsInv, FTypeOK, Recorded, Keep, Is
  <2>3. CASE x.n = op.n
    BY <1>5, <1>6, <2>1, <2>3 DEF Recorded, Keep, Is
  <2> QED BY <2>2, <2>3
<1>12. (At("send") => op.w \in Writes /\ sent[op.w] = 0 /\ Recorded(op.w))'
  <2>1. Is(op.n)
    BY <1>1 DEF PullsInv, Bindings
  <2> QED BY <1>1, <1>2, <1>4, <1>5, <1>6, <1>7, <2>1 DEF Recorded, Keep, Is, Kinds
<1> QED BY <1>8, <1>9, <1>10, <1>11, <1>12, RegistryKeeps

\* A step of one pull request that records nothing.
LEMMA GotoKeeps ==
  ASSUME PullsInv, NEW l \in {"status", "settle"}, Goto(l), UNCHANGED registry, Keep,
         At("comment") \/ At("status") \/ (At("prove") /\ op.w.kind \in Kinds)
  PROVE  PullsInv'
<1>1. op' = [op EXCEPT !.pc = l] /\ op \in Op /\ UNCHANGED <<bind, slot, outbox>>
  BY DEF PullsInv, FTypeOK, Goto, registry
<1>2. op' \in Op /\ op'.pc = l /\ op'.n = op.n /\ op'.item = op.item
  BY <1>1 DEF Op, Labels
<1>3. FTypeOK'
  BY <1>1, <1>2 DEF PullsInv, FTypeOK, Keep
<1>4. ~At("send")' /\ Working'
  BY <1>1, <1>2 DEF PullsInv, Working, At
<1>5. Bindings' /\ \A w \in Writes : Recorded(w) => Recorded(w)'
  BY <1>1 DEF PullsInv, Bindings, Recorded, Keep, Is
<1> QED BY <1>3, <1>4, <1>5, RegistryKeeps

LEMMA CommentKeeps == PullsInv /\ (Comment \/ CommentProof) => PullsInv'
<1>1. Comment /\ Marked /\ PullsInv => PullsInv'
  BY GotoKeeps, AttemptKeeps DEF Comment, Kinds, registry
<1>2. Comment /\ ~Marked /\ PullsInv => PullsInv'
  BY AttemptKeeps DEF Comment, Kinds
<1>3. CommentProof /\ PullsInv => PullsInv'
  BY GotoKeeps DEF CommentProof, Kinds, registry
<1> QED BY <1>1, <1>2, <1>3

LEMMA StatusKeeps == PullsInv /\ Status => PullsInv'
<1>1. ASSUME PullsInv, Status, Announced PROVE PullsInv'
  BY <1>1, GotoKeeps DEF Status, registry
<1>2. ASSUME PullsInv, Status, ~Announced PROVE PullsInv'
  BY <1>2, AttemptKeeps DEF Status, Kinds
<1> QED BY <1>1, <1>2

\* The digest is done: what was sent for it stays recorded.
LEMMA StatusSettles == PullsInv /\ Settle => PullsInv'
<1> SUFFICES ASSUME PullsInv, Settle PROVE PullsInv'
  OBVIOUS
<1>1. /\ bind' = [bind EXCEPT ![op.n] = [bind[op.n] EXCEPT !.done = @ \union {op.item},
                                                            !.pending = None, !.tried = {}]]
      /\ op' = [Free EXCEPT !.pc = "each", !.todo = op.todo \ {op.n}]
      /\ UNCHANGED <<slot, outbox>> /\ Keep
  BY DEF Settle
<1>2. /\ op.n \in Numbers /\ op.item \in Statuses /\ bind[op.n] # None /\ op \in Op
      /\ bind[op.n].pending = op.item /\ bind[op.n] \in Binding
  BY DEF PullsInv, FTypeOK, Working, Settle, Kinds
<1>3. PICK b : /\ bind' = [bind EXCEPT ![op.n] = b] /\ b \in Binding
               /\ b.done = bind[op.n].done \union {op.item}
  <2> DEFINE c == [bind[op.n] EXCEPT !.done = @ \union {op.item}, !.pending = None, !.tried = {}]
  <2>1. c.done = bind[op.n].done \union {op.item}
    BY <1>2 DEF Binding
  <2>2. c \in Binding
    BY <1>2 DEF Binding
  <2>3. bind' = [bind EXCEPT ![op.n] = c]
    BY <1>1
  <2> HIDE DEF c
  <2> QED BY <2>1, <2>2, <2>3
<1>4. bind'[op.n] = b /\ b # None
  BY <1>2, <1>3, PullsAssumption DEF PullsInv, FTypeOK
<1>5. op' \in Op /\ op'.pc = "each"
  BY <1>1, <1>2 DEF Op, Free, Labels
<1>6. FTypeOK'
  BY <1>1, <1>3, <1>5 DEF PullsInv, FTypeOK, Keep
<1>7. Bindings'
  BY <1>1, <1>2, <1>3, <1>4 DEF PullsInv, FTypeOK, Bindings, Keep, Is
<1>8. ~At("send")' /\ Working'
  BY <1>5 DEF Working, At
<1>9. \A w \in Writes : Recorded(w) => Recorded(w)'
  <2> SUFFICES ASSUME NEW w \in Writes, Recorded(w) PROVE Recorded(w)'
    OBVIOUS
  <2>1. w.n \in Numbers
    BY WriteParts
  <2>2. CASE w.n # op.n
    BY <1>1, <1>3, <2>1, <2>2 DEF PullsInv, FTypeOK, Recorded, Keep, Is
  <2>3. CASE w.n = op.n
    BY <1>1, <1>2, <1>3, <1>4, <2>1, <2>3 DEF Recorded, Keep, Is
  <2> QED BY <2>2, <2>3
<1> QED BY <1>1, <1>6, <1>7, <1>8, <1>9, RegistryKeeps

-----------------------------------------------------------------------------
(* The theorems.                                                            *)

\* Nothing was sent, and nobody holds the lock, when the registry is empty.
LEMMA PullsBegin == FInit => PullsInv
<1> SUFFICES ASSUME FInit PROVE PullsInv
  OBVIOUS
<1>1. FTypeOK
  BY DEF FInit, FTypeOK, Free, Op, Labels, Statuses
<1>2. Journaled /\ Bindings /\ Working
  BY DEF FInit, Journaled, Bindings, Working, At, Free
<1> QED BY <1>1, <1>2 DEF PullsInv

\* Every step keeps the invariant.
LEMMA PullsStep == PullsInv /\ [FNext]_fvars => PullsInv'
<1> SUFFICES ASSUME PullsInv, [FNext]_fvars PROVE PullsInv'
  OBVIOUS
<1>1. CASE UNCHANGED fvars
  <2>1. FTypeOK'
    BY <1>1 DEF PullsInv, FTypeOK, fvars, registry
  <2> QED BY <1>1, <2>1, PeopleKeep DEF fvars, registry, Is
<1>2. ASSUME NEW n \in Numbers, Register(n) \/ Review(n) \/ MergeLook(n) \/ Each(n) \/ Drain(n)
      PROVE  PullsInv'
  BY <1>2, RegisterKeeps, ReviewKeeps, MergeLookKeeps, EachKeeps, DrainKeeps
<1>3. ASSUME NEW w \in flying, Land(w) PROVE PullsInv'
  BY <1>3, LandKeeps
<1> QED BY <1>1, <1>2, <1>3, PeopleKeeps, SendKeeps, RaiseKeeps, MergeIntentKeeps,
           MergeProofKeeps, DrainProofKeeps, ReconcileKeeps, CommentKeeps, StatusKeeps,
           StatusSettles DEF FNext

\* Types, what was sent is recorded, and what was read under the lock holds
\* while it is used: true in every reachable state.
THEOREM PullsInvariance == FSpec => []PullsInv
BY PullsBegin, PullsStep, PTL DEF FSpec

\* The registry, what the lock's holder has in hand, and every other variable
\* keep their type.
THEOREM PullsTypesKept == FSpec => []FTypeOK
<1>1. PullsInv => FTypeOK
  BY DEF PullsInv
<1> QED BY <1>1, PullsInvariance, PTL

\* reconcile's attempts and drain_outbox's messages: no comment, closing, drafting
\* or review request is sent twice, through lost answers and deaths.
THEOREM NothingIsReplayed == FSpec => []NoReplay
<1>1. PullsInv => NoReplay
  BY DEF PullsInv, FTypeOK, Journaled, NoReplay
<1> QED BY <1>1, PullsInvariance, PTL

\* execute_one: no merge is launched twice, and none beside one that may still land.
THEOREM MergesAreSerial == FSpec => []OneMergeAtATime
<1>1. PullsInv => OneMergeAtATime
  <2> SUFFICES ASSUME PullsInv PROVE OneMergeAtATime
    OBVIOUS
  <2> DEFINE launched == {n \in Numbers : sent[Write("merge", n, None)] > 0}
             unseen == {n \in launched : ~forge[n].merged}
  <2>1. ASSUME NEW n \in launched
        PROVE  /\ sent[Write("merge", n, None)] = 1
               /\ ~forge[n].merged => slot = n
    <3>1. /\ Write("merge", n, None) \in Writes /\ Write("merge", n, None).n = n
          /\ Write("merge", n, None).kind = "merge"
      BY MakeWrite
    <3> QED BY <3>1 DEF PullsInv, Journaled, Recorded
  <2>2. unseen \subseteq {slot}
    BY <2>1
  <2>3. IsFiniteSet({slot}) /\ Cardinality({slot}) = 1
    BY FS_Singleton
  <2>4. Cardinality(unseen) <= 1
    BY <2>2, <2>3, FS_Subset
  <2> QED BY <2>1, <2>4 DEF OneMergeAtATime
<1> QED BY <1>1, PullsInvariance, PTL
=============================================================================
