------------------------------ MODULE MCLedgers ------------------------------
(***************************************************************************)
(* Small instances, for TLC, of nine components that share no state: the   *)
(* stop-event store, maintenance windows, reminders, plates, pull requests, *)
(* file memory, context cycling, deferrals and unblock events.  A behaviour *)
(* is a behaviour of one of them, its subject; the others stay as they      *)
(* began.                                                                  *)
(***************************************************************************)
EXTENDS Pulls, TLC

CONSTANTS
  Subjects,                                               \* the components checked
  Hooks, Readers, Keys, MaxId, MaxEvents, MaxPeeks, MaxCrashes,    \* Events
  Operators, Launchers, Ids, Agents,                      \* Window
  Due, Unlocks, Recipients, MaxDay, MaxPackets, MaxUpsets,    \* Reminders
  Items, Owners, Writers, MaxActive, MaxOps,              \* Plates
  Paths, Runners, MaxEdits, MaxGens,                      \* FileMemory
  Servers, Humans, MaxRequests,                           \* Cycles
  Beads, Pressing, Store, Limit, MaxMoves, MaxFalls,      \* Deferrals
  Blocked, Passes, MaxFirings,                            \* Unblocked
  Serial

ASSUME LedgersAssumption ==
  /\ {MaxId, MaxEvents, MaxPeeks, MaxCrashes} \subseteq Nat
  /\ (Keys \union {None}) \intersect Nat = {} /\ None \notin Keys /\ Hooks \intersect Readers = {}
  /\ None \notin Operators \union Ids
  /\ IsFiniteSet(Items) /\ MaxActive \in Nat /\ MaxOps \in Nat
  /\ None \notin Items \union Owners \union Writers /\ None # "same" /\ "same" \notin Owners
  /\ None \notin Servers \union Humans \union Nat /\ Servers \intersect Humans = {}
  /\ MaxRequests \in Nat /\ MaxFirings \in Nat
  /\ Due \intersect Unlocks = {} /\ None \notin Recipients
  /\ IsFiniteSet(Paths) /\ MaxGens \in Nat /\ MaxEdits \in Nat /\ None \notin Runners
  /\ Limit \in Nat /\ Store \notin Beads /\ None \notin Beads \union {"ruling", "failing"}

VARIABLES
  subject,
  dir, tmp, text, pc, file, fd, body, seen, busy, batch, left, calls, peeks, crashes,
  keyOf, stored, told, dropped, spoilt,
  ledger, mine, alive, timer, at, cmd, on, cur, todo, gate, deaths, strays, before,
  board, day, upsets, entries, pending, step, mail, packets, acked, moves,
  item, lock, pen, ops, given, doubt, over,
  roots, live, handed, remote, accepted, upload, receipts, native, syncLock, runner,
  commits, edits, captured,
  agent, request, stop, stamp, lifecycle, proc, ids, jolts, done, halted,
  row, noted, retries, summary, sweep, said, repeats, dmoves, dfalls,
  status, log, cursor, pass, dealt, heard, umoves, ufalls

events == <<dir, tmp, text, pc, file, fd, body, seen, busy, batch, left, calls, peeks,
            crashes, keyOf, stored, told, dropped, spoilt>>
window == <<ledger, mine, alive, timer, at, cmd, on, cur, todo, gate, deaths, strays, before>>
reminders == <<board, day, upsets, entries, pending, step, mail, packets, acked, moves>>
plates == <<item, lock, pen, ops, given, doubt, over>>
memory == <<roots, live, handed, remote, accepted, upload, receipts, native, syncLock, runner,
            commits, edits, captured>>
cycles == <<agent, request, stop, stamp, lifecycle, proc, ids, jolts, done, halted>>
deferrals == <<row, noted, retries, summary, sweep, said, repeats, dmoves, dfalls>>
unblocked == <<status, log, cursor, pass, dealt, heard, umoves, ufalls>>

all == <<subject, events, window, reminders, plates, fvars, memory, cycles, deferrals,
         unblocked>>

E == INSTANCE Events WITH slot <- file
W == INSTANCE Window WITH live <- alive, pc <- at, crashes <- deaths
R == INSTANCE Reminders
P == INSTANCE Plates
M == INSTANCE FileMemory WITH Procs <- Runners, batch <- upload, lock <- syncLock,
                              proc <- runner, flying <- commits
C == INSTANCE Cycles WITH lock <- lifecycle, upsets <- jolts
D == INSTANCE Deferrals WITH moves <- dmoves, falls <- dfalls
U == INSTANCE Unblocked WITH Beads <- Blocked, MaxMoves <- MaxUpsets, ledger <- cursor,
                             moves <- umoves, falls <- ufalls

\* `None` is no record.
ASSUME RecordsAssumption ==
  /\ None \notin C!Request /\ None \notin D!Pass /\ None \notin R!Packet \union R!Entry
  /\ None \notin M!Content /\ None \notin M!Chain /\ None \notin M!Staging

\* The components there are; those of them that run, and the bounds.
Components == {"events", "window", "reminders", "plates", "pulls", "memory", "cycles",
               "deferrals", "unblocked"}
ASSUME BoundsAssumption ==
  /\ Subjects \subseteq Components
  /\ {MaxUpsets, MaxMoves, MaxFalls, MaxDay, MaxPackets} \subseteq Nat

LInit ==
  /\ subject \in Subjects
  /\ E!Init /\ W!Init /\ R!RInit /\ P!PInit /\ FInit /\ M!MInit /\ C!CInit
  /\ D!DInit /\ U!UInit
  /\ subject # "reminders" => board = [i \in R!Listable |-> None]
  /\ subject # "window" => alive = {} /\ timer
  /\ subject # "deferrals" => row = [b \in Beads |-> "free"]
  /\ subject # "unblocked" => status = [b \in Blocked |-> "noop"]

LNext ==
  \/ /\ subject = "events" /\ E!Next
     /\ UNCHANGED <<subject, window, reminders, plates, fvars,
                   memory, cycles, deferrals, unblocked>>
  \/ /\ subject = "window" /\ W!Next
     /\ UNCHANGED <<subject, events, reminders, plates, fvars,
                   memory, cycles, deferrals, unblocked>>
  \/ /\ subject = "reminders" /\ R!RNext
     /\ UNCHANGED <<subject, events, window, plates, fvars,
                   memory, cycles, deferrals, unblocked>>
  \/ /\ subject = "plates" /\ P!PNext
     /\ UNCHANGED <<subject, events, window, reminders, fvars,
                   memory, cycles, deferrals, unblocked>>
  \/ /\ subject = "pulls" /\ FNext
     /\ UNCHANGED <<subject, events, window, reminders, plates,
                   memory, cycles, deferrals, unblocked>>
  \/ /\ subject = "memory" /\ M!MNext
     /\ UNCHANGED <<subject, events, window, reminders, plates,
                   fvars, cycles, deferrals, unblocked>>
  \/ /\ subject = "cycles" /\ C!CNext
     /\ UNCHANGED <<subject, events, window, reminders, plates,
                   fvars, memory, deferrals, unblocked>>
  \/ /\ subject = "deferrals" /\ D!DNext
     /\ UNCHANGED <<subject, events, window, reminders, plates,
                   fvars, memory, cycles, unblocked>>
  \/ /\ subject = "unblocked" /\ U!UNext
     /\ UNCHANGED <<subject, events, window, reminders, plates,
                   fvars, memory, cycles, deferrals>>
  \/ subject \in {"events", "reminders", "plates"} /\ UNCHANGED all     \* the others never stop

LSpec == LInit /\ [][LNext]_all

\* The cfg gives the sets that are symmetric the same two model values.
Symmetric == Permutations(Hooks)

-----------------------------------------------------------------------------
(* The properties, each stated in the module of its component (those of      *)
(* Pulls, NoReplay and OneMergeAtATime, come with it).                      *)

\* The variables of every component have their types.
AllTypesOK ==
  CASE subject = "events"    -> E!TypeOK
    [] subject = "window"    -> W!TypeOK
    [] subject = "reminders" -> R!RTypeOK
    [] subject = "plates"    -> P!PTypeOK
    [] subject = "pulls"     -> FTypeOK
    [] subject = "memory"    -> M!MTypeOK
    [] subject = "cycles"    -> C!CTypeOK
    [] subject = "deferrals" -> D!DTypeOK
    [] subject = "unblocked" -> U!UTypeOK

\* A stored event is not lost, nor replaced by another, nor read by half.
Survives == subject = "events" => E!Survives
\* A destination is told of an event once at most.
BlockOnce == subject = "events" => E!BlockOnce
\* What is marked delivered was told, but for a drain that died.
MarkedIsTold == subject = "events" => E!MarkedIsTold

\* CLEAR means that no agent runs but one a launcher past its gate started.
ClearIsQuiet == subject = "window" => W!ClearIsQuiet
\* With no window and no command, the tend timer is as it was.
TimerComesBack == subject = "window" => W!TimerComesBack
\* Only a release or an abort of the window that holds the lease takes it away.
LeaseKept == W!LeaseKept

\* Nobody is reminded twice of the same event, or of one item by passes that began on
\* one day, unless the item changed between their readings.
ToldOnce == subject = "reminders" => R!ToldOnce
\* An event is closed by the receipt of a message that told it.
AckIsTold == subject = "reminders" => R!AckIsTold

\* No plate holds more than its bound of what was counted in; a lapsed deferral and
\* urgent work on a full plate come on top.
PlateBounded == subject = "plates" => P!PlateBounded
\* An item is dispatched to one agent at most, unless in doubt or placed anew.
GivenToOne == subject = "plates" => P!GivenToOne

\* No upload puts older bytes back.
NoRevert == subject = "memory" => M!NoRevert
\* Every accepted head is one whole capture.
AcceptedWhole == subject = "memory" => M!AcceptedWhole

\* An agent that a person stopped stays down until a person starts it, or a tend that
\* was past its gate when it was stopped.
StopHolds == subject = "cycles" => C!StopHolds
\* No cycle is served twice.
ServedOnce == subject = "cycles" => C!ServedOnce
\* A request that was not served goes by a stop or, if tend minted it, by tend.
RequestKept == C!RequestKept

\* A pass releases an item only while its condition is met.
ReleasedWhenMet == D!ReleasedWhenMet
\* A state of a deferral is told once, but for passes that die.
SaidOnce == subject = "deferrals" => D!SaidOnce

\* A firing that no pass was through with will be read.
NothingPassedOver == subject = "unblocked" => U!NothingPassedOver
\* A firing is reported once, but for passes that die.
ReportedOnce == subject = "unblocked" => U!ReportedOnce
=============================================================================
