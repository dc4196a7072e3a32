------------------------------ MODULE Deferrals ------------------------------
(***************************************************************************)
(* The deferral sweep: notify.DeferralAlerter with the ledgers of          *)
(* deferrals.py.  A pass releases the deferred items whose condition a     *)
(* machine can tell to be met, and tells the administrator of those that   *)
(* need a ruling, once for each state they are in; what could not be read  *)
(* or written is tried again, and told after three passes.  People move    *)
(* the items meanwhile, answers are lost, and a pass may die.              *)
(***************************************************************************)
EXTENDS Naturals

CONSTANTS
  Beads,       \* items
  Pressing,    \* those whose priority makes a finding about them interrupt
  Store,       \* the tracker as a whole, which a finding can be about too
  Limit,       \* RetryBudget.limit: 3 in the code
  MaxMoves,    \* bound on what people do to the items, and on failures
  MaxFalls,    \* bound on the passes that die
  Serial,      \* TRUE: nobody moves an item between a pass's last look and its write
  None

Things == Beads \union {Store}

VARIABLES
  row,       \* the items: free, or deferred with a condition that is unmet, met and
             \* mechanical, or for a person to rule on
  noted,     \* deferral-sweep.json: the state of each finding that was recorded
  retries,   \* deferral-retries.json: in how many passes on end each of them failed
  summary,   \* deferral-summary.json: the findings of the last message delivered
  sweep,     \* the pass that holds the lock
  said,      \* history: what the administrator was last told of each, since it last changed
  repeats,   \* history: how often they were told the same again
  moves, falls

dvars == <<row, noted, retries, summary, sweep, said, repeats, moves, falls>>

States == {"free", "unmet", "met", "ruling"}
Findings == {"ruling", "failing"}

Pass == [pc : {"judge", "write", "say", "summary", "record"},
         seen : [Beads -> States], todo : SUBSET Beads, at : Beads \union {None},
         tally : [Things -> 0 .. Limit], reports : [Things -> Findings \union {None}],
         retry : SUBSET Things]

DInit ==
  /\ row \in [Beads -> States]
  /\ noted = [t \in Things |-> None] /\ retries = [t \in Things |-> 0]
  /\ summary = {} /\ sweep = None
  /\ said = [t \in Things |-> None] /\ repeats = [t \in Things |-> 0]
  /\ moves = 0 /\ falls = 0

At(label) == sweep # None /\ sweep.pc = label
Ledgers == <<noted, retries, summary>>
Heard == <<said, repeats>>

-----------------------------------------------------------------------------
(* What a pass finds.                                                       *)

Moves == moves < MaxMoves /\ moves' = moves + 1
Smooth == UNCHANGED moves

\* RetryBudget.failed: the third failure on end is reported, the others are retried.
Failed(pass, t) ==
  LET count == IF retries[t] < Limit THEN retries[t] + 1 ELSE Limit
      counted == [pass EXCEPT !.tally[t] = count]
  IN IF count = Limit THEN [counted EXCEPT !.reports[t] = "failing"]
                      ELSE [counted EXCEPT !.retry = @ \union {t}]

\* People defer, release, annotate and close; conditions come true.
Move(b) ==
  /\ Moves
  /\ Serial /\ sweep # None => sweep.at # b
  /\ \E state \in States \ {row[b]} : row' = [row EXCEPT ![b] = state]
  /\ UNCHANGED <<sweep, Ledgers, Heard, falls>>

\* A pass that cannot read the store knows of no recovery either.
Begin ==
  /\ sweep = None
  /\ LET fresh == [pc |-> "judge", seen |-> row, todo |-> {b \in Beads : row[b] # "free"},
                   at |-> None, tally |-> [t \in Things |-> 0],
                   reports |-> [t \in Things |-> None], retry |-> {}]
         blind == [fresh EXCEPT !.todo = {}, !.tally = retries,
                                !.retry = {t \in Things : noted[t] # None}]
     IN \/ sweep' = fresh /\ Smooth
        \/ sweep' = Failed(blind, Store) /\ Moves
  /\ UNCHANGED <<row, Ledgers, Heard, falls>>

\* Mutant: the list that chose the candidate decides.
LastLookAtList(b) == sweep.seen[b]

\* The complete item and its condition are read again before it is written.
LastLook(b) == row[b]

Judge(b) ==
  /\ At("judge") /\ b \in sweep.todo
  /\ LET rest == [sweep EXCEPT !.todo = @ \ {b}]
         ruled == [rest EXCEPT !.reports[b] = "ruling"]
         look == IF sweep.seen[b] = "met" THEN LastLook(b) ELSE sweep.seen[b]
     IN \/ sweep' = Failed(rest, b) /\ Moves
        \/ look = "ruling" /\ sweep' = ruled /\ Smooth
        \/ look \in {"free", "unmet"} /\ sweep' = rest /\ Smooth
        \/ look = "met" /\ sweep' = [rest EXCEPT !.pc = "write", !.at = b] /\ Smooth
  /\ UNCHANGED <<row, Ledgers, Heard, falls>>

\* undefer, read back: it may not have landed, and it may have without being seen to.
Release ==
  /\ At("write")
  /\ LET back == [sweep EXCEPT !.pc = "judge", !.at = None]
         released == [row EXCEPT ![sweep.at] = "free"]
     IN \/ row' = released /\ sweep' = back /\ Smooth
        \/ row' \in {row, released} /\ sweep' = Failed(back, sweep.at) /\ Moves
  /\ UNCHANGED <<Ledgers, Heard, falls>>

Save ==
  /\ At("judge") /\ sweep.todo = {}
  /\ retries' = sweep.tally /\ sweep' = [sweep EXCEPT !.pc = "say"]
  /\ UNCHANGED <<row, noted, summary, Heard, moves, falls>>

-----------------------------------------------------------------------------
(* What it tells of that, and what it writes down.                          *)

Loud(t) == t \in Pressing \/ sweep.reports[t] = "failing"
Reported == {t \in Things : sweep.reports[t] # None}
News == {t \in Reported : Loud(t) /\ noted[t] # sweep.reports[t]}
Message == {<<t, sweep.reports[t]>> : t \in News}

\* Mutant: what could not be read or written in this pass is forgotten.
RecordsFound(unsaid) ==
  noted' = [t \in Things |-> IF t \in Reported \ unsaid THEN sweep.reports[t]
                             ELSE IF t \in unsaid THEN noted[t] ELSE None]

\* Reported.record: the current state, and the former one of what is retried or was not
\* delivered; anything else may be reported again.
Records(unsaid) ==
  noted' = [t \in Things |-> IF t \in Reported \ unsaid THEN sweep.reports[t]
                             ELSE IF t \in sweep.retry \union unsaid THEN noted[t] ELSE None]

\* The pass is over; what it found otherwise than it was told has changed.
Ends(unsaid) ==
  /\ sweep' = None /\ UNCHANGED repeats
  /\ said' = [t \in Things |-> IF \/ t \in unsaid \union sweep.retry
                                  \/ said[t] = sweep.reports[t] THEN said[t] ELSE None]

Step(label) == sweep' = [sweep EXCEPT !.pc = label]

\* The administrator's pane may not be there.
Push ==
  /\ At("say") /\ News # {} /\ Message # summary
  /\ \/ Records(News) /\ Ends(News) /\ Moves
     \/ /\ Step("summary") /\ UNCHANGED noted /\ Smooth
        /\ said' = [t \in Things |-> IF t \in News THEN sweep.reports[t] ELSE said[t]]
        /\ repeats' = [t \in Things |-> IF t \in News /\ said[t] = sweep.reports[t]
                                          THEN repeats[t] + 1 ELSE repeats[t]]
  /\ UNCHANGED <<row, retries, summary, falls>>

\* The text that was delivered last is not sent again.
Suppress ==
  /\ At("say") /\ News # {} /\ Message = summary /\ Step("record")
  /\ UNCHANGED <<row, Ledgers, Heard, moves, falls>>

Silent ==
  /\ At("say") /\ News = {} /\ Step("record")
  /\ summary' = IF sweep.retry = {} /\ (\A t \in Reported : ~Loud(t)) THEN {} ELSE summary
  /\ UNCHANGED <<row, noted, retries, Heard, moves, falls>>

Summarise ==
  /\ At("summary") /\ Step("record") /\ summary' = Message
  /\ UNCHANGED <<row, noted, retries, Heard, moves, falls>>

Record ==
  /\ At("record") /\ Records({}) /\ Ends({})
  /\ UNCHANGED <<row, retries, summary, moves, falls>>

\* A pass dies, or the pane raises; the lock goes with it.
Falls ==
  /\ sweep # None /\ falls < MaxFalls /\ falls' = falls + 1 /\ sweep' = None
  /\ UNCHANGED <<row, Ledgers, Heard, moves>>

DNext ==
  \/ \E b \in Beads : Move(b) \/ Judge(b)
  \/ Begin \/ Release \/ Save \/ Push \/ Suppress \/ Silent \/ Summarise \/ Record \/ Falls

DSpec == DInit /\ [][DNext]_dvars

-----------------------------------------------------------------------------
(* Properties *)

\* The variables have their types.
DTypeOK ==
  /\ row \in [Beads -> States] /\ noted \in [Things -> Findings \union {None}]
  /\ retries \in [Things -> 0 .. Limit] /\ summary \subseteq Things \X Findings
  /\ sweep \in Pass \union {None}
  /\ said \in [Things -> Findings \union {None}] /\ repeats \in [Things -> Nat]
  /\ moves \in 0 .. MaxMoves /\ falls \in 0 .. MaxFalls

\* A pass writes to an item only while its condition is met and nothing else holds it,
\* although its list is old, answers are lost and failed writes are tried again
\* ("An already released item is not written again").
ReleasedWhenMet ==
  [][\A b \in Beads : At("write") /\ sweep.at = b /\ row'[b] # row[b] => row[b] = "met"]_dvars

\* "Report a deferral once when its state first changes, stay silent while it is
\* unchanged", through failed reads, failed deliveries and retries; each pass that dies
\* may repeat a message.
SaidOnce == \A t \in Things : repeats[t] <= falls

\* "A bead that stopped being lapsed must drop out of the ledger so it can report again":
\* what is recorded as told, and interrupts, was told since it last changed.
RecordedIsTold ==
  sweep = None =>
    \A t \in Things :
      noted[t] = "failing" \/ (noted[t] = "ruling" /\ t \in Pressing) => said[t] = noted[t]
=============================================================================
