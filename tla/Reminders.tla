----------------------------- MODULE Reminders -----------------------------
(***************************************************************************)
(* The reminders of shantytown/overdue.py: a pass under a lock reads the   *)
(* clock, then the overdue rows and the unlock events, settles the packets *)
(* whose delivery was left in doubt, sends each recipient one digest of    *)
(* what is new, and acknowledges the events it told.  What it tells bears  *)
(* the time at which it began.  A packet is saved as attempted before it   *)
(* is sent, and never sent again.  Outside: rows come, go and change       *)
(* hands, days pass, an answer is lost, the pass dies.                     *)
(***************************************************************************)
EXTENDS Naturals, FiniteSets

CONSTANTS
  Due,          \* overdue work items
  Unlocks,      \* unlock events, each known by its generation
  Recipients,
  MaxDay, MaxPackets,
  MaxUpsets,    \* changes of the board and deaths of the pass
  None

Listable == Due \union Unlocks
\* An overdue episode is one recipient's, an unlock event is nobody's.
Episodes == (Due \X Recipients) \union (Unlocks \X {None})

VARIABLES
  board,    \* item -> its recipient, or None when it is not listed
  day, upsets,
  entries,  \* key -> the day and receipt of what was told, and its ack
  pending,  \* recipient -> the packet whose delivery is in doubt
  step,     \* where the pass is: the day it began, its recipient and what it read
  mail,     \* messages in the inboxes
  packets,  \* how many packets were made: the next marker
  acked,    \* event -> the receipt its producer was given
  moves     \* history: item -> how often the board changed it

rvars == <<board, day, upsets, entries, pending, step, mail, packets, acked, moves>>

Packet == [n : Nat, keys : SUBSET Episodes]
Entry == [at : Nat, receipt : Nat, ack : {"none", "attempted", "confirmed"}]

Unmoved == [i \in Listable |-> 0]
Resting == [pc |-> "idle", at |-> 0, moves |-> Unmoved, to |-> None, live |-> {}, todo |-> {},
            groups |-> {}, sent |-> {}]

RInit ==
  /\ board \in [Listable -> Recipients \union {None}] /\ day = 0 /\ upsets = 0
  /\ entries = [k \in Episodes |-> None] /\ pending = [r \in Recipients |-> None]
  /\ step = Resting /\ mail = {} /\ packets = 0 /\ acked = [u \in Unlocks |-> None]
  /\ moves = Unmoved

Key(i, r) == <<i, IF i \in Due THEN r ELSE None>>
Listed(i) == board[i] # None /\ (i \in Unlocks => acked[i] = None)

-----------------------------------------------------------------------------
(* Outside. *)

Board ==
  /\ upsets < MaxUpsets /\ upsets' = upsets + 1
  /\ \E i \in Listable : \E r \in (Recipients \union {None}) \ {board[i]} :
       /\ board' = [board EXCEPT ![i] = r]
       /\ moves' = [moves EXCEPT ![i] = @ + 1]
  /\ UNCHANGED <<day, entries, pending, step, mail, packets, acked>>

Tomorrow == /\ day < MaxDay /\ day' = day + 1
            /\ UNCHANGED <<board, upsets, entries, pending, step, mail, packets, acked, moves>>

Dies == /\ step.pc # "idle" /\ upsets < MaxUpsets /\ upsets' = upsets + 1 /\ step' = Resting
        /\ UNCHANGED <<board, day, entries, pending, mail, packets, acked, moves>>

Outside == UNCHANGED <<board, day, upsets, moves>>

-----------------------------------------------------------------------------
(* One pass.  Reading fails as a whole, or for the events alone.            *)

\* Mutant: an unlock event is told again every day.
FreshDaily(k) == entries[k] = None \/ step.at > entries[k].at
Fresh(k) == \/ entries[k] = None
            \/ k[1] \in Due /\ step.at > entries[k].at

Start ==
  /\ step.pc = "idle" /\ step' = [Resting EXCEPT !.pc = "read", !.at = day]
  /\ UNCHANGED <<entries, pending, mail, packets, acked>> /\ Outside

\* Who would be told what, before the packets in doubt are settled.
Read ==
  /\ step.pc = "read"
  /\ \/ step' = Resting
     \/ \E I \in {Listable, Due} :
       LET rows == {i \in I : Listed(i)} IN
       step' = [step EXCEPT
                 !.pc = "settle",
                 !.moves = moves,
                 !.live = {Key(i, board[i]) : i \in rows},
                 !.todo = {r \in Recipients : pending[r] # None},
                 !.groups = {<<x[2], Key(x[1], x[2])>> : x \in
                              {y \in rows \X Recipients : board[y[1]] = y[2] /\ Fresh(Key(y[1], y[2]))}}]
  /\ UNCHANGED <<entries, pending, mail, packets, acked>> /\ Outside

Told(m) == [at |-> step.at, receipt |-> m, ack |-> "none"]

\* Mutant: what was sent is taken for what arrived.
FoundAlways(p) == TRUE
Found(p) == \E m \in mail : m.n = p.n

\* A packet that is found is told; one that is not stays, and is not sent again.
Settle(r) ==
  LET p == pending[r] IN
  /\ step.pc = "settle" /\ r \in step.todo
  /\ \/ /\ Found(p)
        /\ entries' = [k \in Episodes |-> IF k \in p.keys /\ (k \in step.live \/ k[1] \in Unlocks)
                                      THEN Told(p.n) ELSE entries[k]]
        /\ pending' = [pending EXCEPT ![r] = None]
        /\ step' = [step EXCEPT !.todo = @ \ {r}, !.sent = @ \union {r}]
     \/ step' = [step EXCEPT !.todo = @ \ {r}] /\ UNCHANGED <<entries, pending>>
  /\ UNCHANGED <<mail, packets, acked>> /\ Outside

\* Mutant: a packet whose delivery is in doubt is sent again.
MayPackAgain(r) == r \notin step.sent
MayPack(r) == pending[r] = None /\ r \notin step.sent

Pack(r) ==
  LET keys == {g[2] : g \in {x \in step.groups : x[1] = r}} IN
  /\ step.pc = "settle" /\ step.todo = {} /\ keys # {} /\ MayPack(r)
  /\ packets < MaxPackets /\ packets' = packets + 1
  /\ pending' = [pending EXCEPT ![r] = [n |-> packets, keys |-> keys]]
  /\ step' = [step EXCEPT !.pc = "deliver", !.to = r,
                          !.groups = {g \in @ : g[1] # r}]
  /\ UNCHANGED <<entries, mail, acked>> /\ Outside

\* A message is known by what its pass went by: the day it began and the board it read.
Arrives == mail' = mail \union {[n |-> pending[step.to].n, to |-> step.to, at |-> step.at,
                                 moves |-> step.moves, keys |-> pending[step.to].keys]}

\* The message arrives and is confirmed, or is left in doubt, arrived or not;
\* a known identifier that cannot be read back is in doubt too.
Deliver ==
  LET r == step.to
      p == pending[r] IN
  /\ step.pc = "deliver"
  /\ \/ /\ Arrives
        /\ entries' = [k \in Episodes |-> IF k \in p.keys THEN Told(p.n) ELSE entries[k]]
        /\ pending' = [pending EXCEPT ![r] = None]
        /\ step' = [step EXCEPT !.pc = "settle", !.to = None, !.sent = @ \union {r}]
     \/ /\ Arrives \/ UNCHANGED mail
        /\ step' \in {Resting, [step EXCEPT !.pc = "settle", !.to = None]}
        /\ UNCHANGED <<entries, pending>>
  /\ UNCHANGED <<packets, acked>> /\ Outside

Packed == /\ step.pc = "settle" /\ step.todo = {}
          /\ \A r \in Recipients : MayPack(r) => \A g \in step.groups : g[1] # r

\* The attempt is saved before the producer is asked.
Owes(u) == LET e == entries[<<u, None>>] IN e # None /\ e.ack # "confirmed"

Acks ==
  /\ Packed
  /\ step' = [step EXCEPT !.pc = "ack", !.todo = {u \in Unlocks : Owes(u)}]
  /\ entries' = [k \in Episodes |-> IF k[1] \in Unlocks /\ Owes(k[1])
                                THEN [entries[k] EXCEPT !.ack = "attempted"] ELSE entries[k]]
  /\ UNCHANGED <<pending, mail, packets, acked>> /\ Outside

\* The producer's own receipt decides: ours, nobody's, or another message's.
MayAck(u) == acked[u] = None
Ack(u) ==
  LET k == <<u, None>> IN
  /\ step.pc = "ack" /\ u \in step.todo
  /\ step' = [step EXCEPT !.todo = @ \ {u}]
  /\ \/ MayAck(u) /\ acked' = [acked EXCEPT ![u] = entries[k].receipt]
     \/ UNCHANGED acked
  /\ \/ /\ acked'[u] = entries[k].receipt
        /\ entries' = [entries EXCEPT ![k].ack = "confirmed"]
     \/ UNCHANGED entries
  /\ UNCHANGED <<pending, mail, packets>> /\ Outside

\* What is no longer listed is forgotten, so that it may be told anew.
Prune ==
  /\ step.pc = "ack" /\ step.todo = {}
  /\ entries' = [k \in Episodes |-> IF k \in step.live \/ k[1] \in Unlocks THEN entries[k] ELSE None]
  /\ step' = Resting
  /\ UNCHANGED <<pending, mail, packets, acked>> /\ Outside

RNext == \/ Board \/ Tomorrow \/ Dies \/ Start \/ Read \/ Deliver \/ Acks \/ Prune
         \/ \E r \in Recipients : Settle(r) \/ Pack(r)
         \/ \E u \in Unlocks : Ack(u)

RSpec == RInit /\ [][RNext]_rvars

-----------------------------------------------------------------------------
\* Every variable keeps its type.
RTypeOK ==
  /\ board \in [Listable -> Recipients \union {None}] /\ day \in 0..MaxDay
  /\ entries \in [Episodes -> Entry \union {None}]
  /\ pending \in [Recipients -> Packet \union {None}]
  /\ acked \in [Unlocks -> 0..MaxPackets \union {None}]

\* Through lost answers, deaths of the pass and changes of hands, nobody is told twice
\* of one unlock event, nor of one overdue item by passes that began on one day (the
\* message of a pass that midnight overtook belongs to the day before), unless the board
\* changed the item between their readings of it.
ToldOnce ==
  \A m, n \in mail : \A k \in m.keys \intersect n.keys :
    m.to = n.to /\ m # n =>
      k[1] \in Due /\ (m.at # n.at \/ m.moves[k[1]] # n.moves[k[1]])

\* What the producer takes for the receipt of an event is a message that told
\* it: an event is never closed unheard.
AckIsTold == \A u \in Unlocks : acked[u] # None =>
               \E m \in mail : m.n = acked[u] /\ <<u, None>> \in m.keys
=============================================================================
