------------------------------ MODULE Unblocked ------------------------------
(***************************************************************************)
(* The consumer of unblock events, unblocked_events.py: a graph records a  *)
(* firing when the last blocker of an item resolves; each pass of tend     *)
(* reads the firings from its cursor on, asks the tracker what the item    *)
(* really is, corrects a stale status or tells the administrator, and      *)
(* saves its ledger at the end.  It takes no lock.  Firings are recorded   *)
(* in the order of their seconds, several in one second.                   *)
(***************************************************************************)
EXTENDS Naturals, Sequences, FiniteSetsExt

CONSTANTS
  Beads,        \* items
  Passes,       \* passes of tend
  MaxFirings,   \* bound on the firings recorded
  MaxMoves,     \* bound on what people do to the items, and on failures
  MaxFalls,     \* bound on the passes that die
  Serial,       \* TRUE: one pass at a time
  None

VARIABLES
  status,   \* the items as the tracker shows them
  log,      \* the firings, in the order recorded
  ledger,   \* unblocked-events.json: the cursor and the firings done
  pass,     \* what each pass is doing, with its copy of the ledger
  dealt,    \* history: the firings that a pass was through with
  heard,    \* history: how often the administrator was told of each
  moves, falls

uvars == <<status, log, ledger, pass, dealt, heard, moves, falls>>

\* What classify makes of an item: blocked by nothing that is open, by an open item, held
\* by a deferral or a label, or not blocked.
Verdicts == {"corrected", "mismatch", "held", "noop"}
Firings == 1 .. Len(log)
Ledger == [since : 0 .. MaxFirings, done : SUBSET (1 .. MaxFirings)]
Rest == [pc |-> "idle", left |-> {}, verdict |-> None, since |-> 0, done |-> {}]

UInit ==
  /\ status \in [Beads -> Verdicts] /\ log = <<>> /\ ledger = [since |-> 0, done |-> {}]
  /\ pass = [p \in Passes |-> Rest]
  /\ dealt = {} /\ heard = [f \in 1 .. MaxFirings |-> 0]
  /\ moves = 0 /\ falls = 0

At(p, label) == pass[p].pc = label
First(p) == Min(pass[p].left)
Becomes(p, state) == pass' = [pass EXCEPT ![p] = state]
Moves == moves < MaxMoves /\ moves' = moves + 1
Smooth == UNCHANGED moves
Outside == UNCHANGED <<status, log>>
Heard == UNCHANGED <<dealt, heard>>

-----------------------------------------------------------------------------
(* People, and the reaction that records firings.                           *)

Move(b) ==
  /\ Moves /\ \E v \in Verdicts \ {status[b]} : status' = [status EXCEPT ![b] = v]
  /\ UNCHANGED <<log, ledger, pass, falls>> /\ Heard

Fire(b) ==
  /\ Len(log) < MaxFirings
  /\ LET last == IF log = <<>> THEN 1 ELSE log[Len(log)].at
     IN \E second \in {last, last + 1} :
          second <= MaxFirings /\ log' = Append(log, [bead |-> b, at |-> second])
  /\ UNCHANGED <<status, ledger, pass, moves, falls>> /\ Heard

-----------------------------------------------------------------------------
(* A pass.                                                                  *)

\* "Two firings can share a second.  The ledger dedupes."
Unread(since) == {f \in Firings : log[f].at >= since}

Load(p) ==
  /\ At(p, "idle") /\ Unread(ledger.since) # {}
  /\ Serial => \A q \in Passes : At(q, "idle")
  /\ Becomes(p, [pc |-> "next", left |-> Unread(ledger.since) \ ledger.done, verdict |-> None,
                 since |-> ledger.since, done |-> ledger.done])
  /\ UNCHANGED <<ledger, moves, falls>> /\ Outside /\ Heard

\* Mutant: an item that cannot be read is left for later, and the next one looked at.
BreaksSkip(p) == Becomes(p, [pass[p] EXCEPT !.pc = "next", !.left = @ \ {First(p)}])

\* A pass does not advance past a firing it could not process.
Breaks(p) == Becomes(p, [pass[p] EXCEPT !.pc = "next", !.left = {}])

Dealt(p) ==
  LET f == First(p)
  IN /\ Becomes(p, [pc |-> "next", left |-> pass[p].left \ {f}, verdict |-> None,
                    done |-> pass[p].done \union {f},
                    since |-> IF log[f].at > pass[p].since THEN log[f].at ELSE pass[p].since])
     /\ dealt' = dealt \union {f}

Show(p) ==
  /\ At(p, "next") /\ pass[p].left # {}
  /\ \/ Breaks(p) /\ Moves
     \/ /\ Smooth
        /\ LET verdict == status[log[First(p)].bead]
           IN Becomes(p, [pass[p] EXCEPT !.pc = IF verdict = "corrected" THEN "reopen" ELSE "tell",
                                         !.verdict = verdict])
  /\ UNCHANGED <<ledger, falls>> /\ Outside /\ Heard

\* The write may land although it raises.
Reopen(p) ==
  /\ At(p, "reopen")
  /\ LET reopened == [status EXCEPT ![log[First(p)].bead] = "noop"]
     IN \/ status' = reopened /\ Becomes(p, [pass[p] EXCEPT !.pc = "tell"]) /\ Smooth
        \/ status' \in {status, reopened} /\ Breaks(p) /\ Moves
  /\ UNCHANGED <<log, ledger, falls>> /\ Heard

\* Of a correction the message may be lost; only a report that was delivered is ledgered.
Tell(p) ==
  /\ At(p, "tell")
  /\ \/ pass[p].verdict = "noop" /\ Dealt(p) /\ UNCHANGED heard /\ Smooth
     \/ pass[p].verdict = "corrected" /\ Dealt(p) /\ UNCHANGED heard /\ Moves
     \/ pass[p].verdict \in {"held", "mismatch"} /\ Breaks(p) /\ UNCHANGED <<dealt, heard>> /\ Moves
     \/ /\ pass[p].verdict # "noop" /\ Dealt(p) /\ Smooth
        /\ heard' = [heard EXCEPT ![First(p)] = @ + 1]
  /\ UNCHANGED <<ledger, falls>> /\ Outside

\* Mutant: a ledger is written by a pass that got through all its firings.
KeptWhole(p) ==
  IF Unread(ledger.since) \subseteq pass[p].done
    THEN [since |-> pass[p].since, done |-> pass[p].done] ELSE ledger

\* Whatever a pass was through with is kept, also when it broke off.
Kept(p) == [since |-> pass[p].since, done |-> pass[p].done]

Save(p) ==
  /\ At(p, "next") /\ pass[p].left = {}
  /\ ledger' = Kept(p) /\ Becomes(p, Rest)
  /\ UNCHANGED <<moves, falls>> /\ Outside /\ Heard

\* A pass dies, or a push raises.
Falls(p) ==
  /\ ~At(p, "idle") /\ falls < MaxFalls /\ falls' = falls + 1 /\ Becomes(p, Rest)
  /\ UNCHANGED <<ledger, moves>> /\ Outside /\ Heard

UNext ==
  \/ \E b \in Beads : Move(b) \/ Fire(b)
  \/ \E p \in Passes : Load(p) \/ Show(p) \/ Reopen(p) \/ Tell(p) \/ Save(p) \/ Falls(p)

USpec == UInit /\ [][UNext]_uvars

-----------------------------------------------------------------------------
(* Properties *)

\* The variables have their types.
UTypeOK ==
  /\ status \in [Beads -> Verdicts] /\ ledger \in Ledger
  /\ \A f \in Firings : log[f] \in [bead : Beads, at : 1 .. MaxFirings]
  /\ \A p \in Passes : pass[p].left \subseteq Firings /\ pass[p].done \subseteq Firings
                       /\ pass[p].pc \in {"idle", "next", "reopen", "tell"}
  /\ dealt \subseteq Firings /\ heard \in [1 .. MaxFirings -> Nat]
  /\ moves \in 0 .. MaxMoves /\ falls \in 0 .. MaxFalls

\* A firing that no pass was through with will be read: the cursor is not past it, nor is
\* it recorded as done, whatever failed before it and however many share its second.
NothingPassedOver == \A f \in Firings \ dealt : f \in Unread(ledger.since) \ ledger.done

\* "This sweep reads each firing ONCE": the administrator is told of it once, through
\* failed reads, failed writes and reports that did not arrive; a pass that dies forgets
\* what it told.
ReportedOnce == \A f \in Firings : heard[f] <= 1 + falls
=============================================================================
