------------------------------ MODULE Delivery ------------------------------
(***************************************************************************)
(* Text st puts into a Codex composer: the custody records of              *)
(* shantytown/delivery.py, tmux.send and tmux.submit_owned, which type and *)
(* press keys, and supervise, the part of a tend pass that points the      *)
(* agent's inbox at a body that was not confirmed and tries it once more.  *)
(* One pane in one session.  The human at it and the agent are free.       *)
(***************************************************************************)
EXTENDS Naturals, FiniteSets

CONSTANTS
  Bodies, Senders, Passes,
  MaxRecords,
  MaxSends,
  MaxFaults,   \* crashes and human keys
  Serial,      \* TRUE: nobody takes the lock while a pass presses keys without it
  None

Ids == 1..MaxRecords
Procs == Senders \union Passes

VARIABLES
  pane,    \* the composer's text, Codex's queue, whether a turn runs, the session
  inbox,   \* the pointer of each record: "none", "unread" or "read"
  rec,     \* delivery/send-*.json
  holder,  \* who has the pane's flock
  hand,    \* what each process has in hand
  sends,   \* sends so far
  faults,  \* crashes and human keys so far
  taken,   \* history: how often the agent was given each body
  asked,   \* history: sends of it asked for, and Enters a human pressed on it
  wiped,   \* history: bodies a human took out of the composer, or wrote into
  made     \* history: pointers created

dvars == <<pane, inbox, rec, holder, hand, sends, faults, taken, asked, wiped, made>>

\* A custody record, what a pass saw of the pane, and what a process has in hand.
Record == [body : Bodies, ptr : {"none", "attempting", "recorded"}, tried : BOOLEAN,
           state : {"prepared", "unknown", "queued", "cleared", "delivered", "acknowledged"}]
Boxes == Bodies \union {"empty", "foreign"}
View == [box : Boxes, readable : BOOLEAN, unread : SUBSET Ids]
Labels == {"idle", "look", "type", "enter", "watch", "giveup", "wipe", "erase", "erased", "lock",
           "scan", "point", "mark", "submit", "send", "failed", "sent"}
Hand == [pc : Labels, body : Bodies \union {None}, own : Ids \union {None}, again : BOOLEAN,
         calm : BOOLEAN, doubt : BOOLEAN, todo : SUBSET Ids, view : View,
         mine : Ids \union {None}, copy : Record \union {None}]

ASSUME DeliveryAssumption ==
  /\ MaxRecords \in Nat /\ MaxSends \in Nat /\ MaxFaults \in Nat
  /\ None \notin Ids /\ None \notin Bodies /\ None \notin Procs /\ None \notin Record
  /\ Senders \intersect Passes = {} /\ {"empty", "foreign"} \intersect Bodies = {}

Fresh(b) == [body |-> b, state |-> "prepared",
             ptr |-> "none", tried |-> FALSE]
NoView == [box |-> "foreign", readable |-> FALSE, unread |-> {}]
Idle == [pc |-> "idle", body |-> None, own |-> None, again |-> FALSE, calm |-> TRUE,
         doubt |-> FALSE, todo |-> {}, view |-> NoView, mine |-> None, copy |-> None]

DInit ==
  /\ pane = [box |-> "empty", queued |-> {}, busy |-> FALSE]
  /\ inbox = [k \in Ids |-> "none"] /\ rec = [k \in Ids |-> None]
  /\ holder = None /\ hand = [p \in Procs |-> Idle] /\ sends = 0 /\ faults = 0
  /\ taken = [b \in Bodies |-> 0] /\ asked = [b \in Bodies |-> 0]
  /\ wiped = {} /\ made = [k \in Ids |-> 0]

Goto(p, label) == hand' = [hand EXCEPT ![p].pc = label]
At(p, label) == hand[p].pc = label
Faults == faults < MaxFaults /\ faults' = faults + 1
Pressing(p) == hand[p].pc \in {"submit", "watch"} /\ holder # p
\* A lock that is held makes the process raise, never wait.
Free == holder = None /\ (Serial => \A q \in Passes : ~Pressing(q))
Locks(p) == Free /\ holder' = p
Open(k) == rec[k] # None /\ rec[k].state \notin {"delivered", "acknowledged"}

-----------------------------------------------------------------------------
(* The pane: its human, its agent, a restart. *)

Gives(b) == taken' = IF b \in Bodies THEN [taken EXCEPT ![b] = @ + 1] ELSE taken

Turn ==
  /\ \/ /\ pane.busy /\ pane.queued = {} /\ pane' = [pane EXCEPT !.busy = FALSE]
        /\ UNCHANGED taken
     \/ \E b \in pane.queued : pane' = [pane EXCEPT !.queued = @ \ {b}] /\ Gives(b)
     \/ ~pane.busy /\ pane' = [pane EXCEPT !.busy = TRUE] /\ UNCHANGED taken
  /\ UNCHANGED <<inbox, rec, holder, hand, sends, faults, asked, wiped, made>>

Human ==
  /\ Faults
  /\ \/ /\ \E t \in {"empty", "foreign"} : pane' = [pane EXCEPT !.box = t]
        /\ wiped' = wiped \union ({pane.box} \intersect Bodies)
        /\ UNCHANGED <<taken, asked>>
     \/ /\ pane.box \in Bodies
        /\ pane' = [pane EXCEPT !.box = "empty", !.busy = TRUE]
        /\ Gives(pane.box) /\ asked' = [asked EXCEPT ![pane.box] = @ + 1]
        /\ UNCHANGED wiped
  /\ UNCHANGED <<inbox, rec, holder, hand, sends, made>>

Read ==
  /\ \E k \in Ids : inbox[k] = "unread" /\ inbox' = [inbox EXCEPT ![k] = "read"]
  /\ UNCHANGED <<pane, rec, holder, hand, sends, faults, taken, asked, wiped, made>>

-----------------------------------------------------------------------------
(* send: under the lock, look, begin, type, Enter, watch it go.             *)

Still == UNCHANGED <<sends, faults, wiped, made>>

\* Leaving send, submit_owned or failed(): a sender is done; a pass saves what
\* it sent, runs failed() once on what it could not, and is done.
Leave(p, sent) ==
  /\ holder' = IF holder = p THEN None ELSE holder
  /\ hand' = [hand EXCEPT ![p] =
       CASE p \in Senders \/ (~sent /\ @.doubt) -> Idle
         [] OTHER -> [@ EXCEPT !.pc = IF sent THEN "sent" ELSE "failed"]]

\* The records of this text that are still open.
Matches(b) == {k \in Ids : Open(k) /\ rec[k].body = b}

\* A retry finds the open record, two of them are a refusal.
BeginRecord(p, b) ==
  \/ /\ Cardinality(Matches(b)) > 1 /\ Leave(p, FALSE) /\ UNCHANGED rec
  \/ \E k \in Ids :
       /\ IF Matches(b) = {} THEN \A i \in Ids : rec[i] = None <=> i >= k ELSE Matches(b) = {k}
       /\ rec' = [rec EXCEPT ![k] = IF Matches(b) = {} THEN Fresh(b)
                                                       ELSE [@ EXCEPT !.state = "prepared"]]
       /\ hand' = [hand EXCEPT ![p].pc = "type", ![p].own = k, ![p].calm = ~pane.busy]
       /\ UNCHANGED holder

Call(p, b) ==
  /\ At(p, "idle") /\ Locks(p)
  /\ sends < MaxSends /\ sends' = sends + 1
  /\ asked' = [asked EXCEPT ![b] = @ + 1]
  /\ hand' = [hand EXCEPT ![p].pc = "look", ![p].body = b]
  /\ UNCHANGED <<pane, inbox, rec, faults, taken, wiped, made>>

Look(p) ==
  LET b == hand[p].body
      prev == {k \in Matches(pane.box) : rec[k].state = "unknown"} IN
  /\ At(p, "look")
  /\ \/ /\ pane.box = b /\ hand[p].own = None     \* stranded by an earlier attempt: only submit it
        /\ hand' = [hand EXCEPT ![p].pc = "watch", ![p].calm = ~pane.busy]
        /\ UNCHANGED <<rec, holder>>
     \/ pane.box = "empty" /\ BeginRecord(p, b)
     \/ /\ pane.box # "empty" /\ (pane.box = b => hand[p].own # None)
        /\ IF hand[p].own = None /\ Cardinality(prev) = 1
           THEN /\ \E k \in prev : hand' = [hand EXCEPT ![p].pc = "giveup", ![p].own = k]
                /\ UNCHANGED holder
           ELSE Leave(p, FALSE)
        /\ UNCHANGED rec
  /\ UNCHANGED <<pane, inbox, taken, asked>> /\ Still

\* Text typed into a composer that is no longer empty is nobody's; a pane in
\* copy mode stops the typing before or in the middle of it.
Type(p) ==
  /\ At(p, "type")
  /\ \/ /\ pane' = [pane EXCEPT !.box = IF @ = "empty" THEN hand[p].body ELSE "foreign"]
        /\ wiped' = IF pane.box = "foreign" THEN wiped \union {hand[p].body} ELSE wiped
        /\ Goto(p, "enter")
     \/ /\ \E t \in {pane.box, "foreign"} : pane' = [pane EXCEPT !.box = t]
        /\ UNCHANGED wiped /\ Goto(p, "giveup")
  /\ UNCHANGED <<inbox, rec, holder, taken, asked, sends, faults, made>>

\* Enter, or Tab at a busy pane: absorbed by the composer, submitted or queued.
Press ==
  \/ UNCHANGED <<pane, taken>>
  \/ /\ pane.box # "empty"
     /\ pane' = [pane EXCEPT !.box = "empty", !.busy = TRUE] /\ Gives(pane.box)
  \/ /\ pane.busy /\ pane.box \in Bodies
     /\ pane' = [pane EXCEPT !.box = "empty", !.queued = @ \union {pane.box}]
     /\ UNCHANGED taken

Enter(p) ==
  /\ At(p, "enter") /\ Goto(p, "watch") /\ Press
  /\ UNCHANGED <<inbox, rec, holder, asked>> /\ Still

\* Mutant: an empty composer over a running turn is proof, queued or not, new or not.
ObservedGone(p, b) == pane.box = "empty" /\ pane.busy
Observed(p, b) == pane.box = "empty" /\ b \notin pane.queued /\ hand[p].calm /\ pane.busy

\* _verify_codex_submission: an empty composer and a new turn prove it; a look
\* that finds the exact body presses the key once more; or it gives up.
Watch(p) ==
  LET b == hand[p].body
      k == hand[p].own
      custody == holder = p /\ k # None IN
  /\ At(p, "watch")
  /\ \/ /\ Observed(p, b)
        /\ rec' = IF custody THEN [rec EXCEPT ![k].state = "delivered"] ELSE rec
        /\ Leave(p, TRUE) /\ UNCHANGED <<pane, taken>>
     \/ /\ pane.box = b /\ ~hand[p].again /\ Press
        /\ hand' = [hand EXCEPT ![p].again = TRUE, ![p].calm = ~pane.busy]
        /\ UNCHANGED <<rec, holder>>
     \/ /\ IF custody THEN Goto(p, "giveup") /\ UNCHANGED holder ELSE Leave(p, FALSE)
        /\ UNCHANGED <<rec, pane, taken>>
  /\ UNCHANGED <<inbox, asked>> /\ Still

-----------------------------------------------------------------------------
(* failed: record the doubt, and clear the body out of the composer if it   *)
(* is certain that what stands there is the body and that no turn runs.     *)

\* clear_previous runs failed() for another's record, and looks again if that
\* cleared it.
Settled(p, cleared) ==
  IF cleared /\ rec[hand[p].own].body # hand[p].body
  THEN Goto(p, "look") /\ UNCHANGED holder
  ELSE Leave(p, FALSE)

GiveUp(p) ==
  LET k == hand[p].own
      queued == rec[k].body \in pane.queued IN
  /\ At(p, "giveup")
  /\ rec' = [rec EXCEPT ![k].state = IF queued THEN "queued" ELSE "unknown"]
  /\ IF queued \/ pane.busy THEN Settled(p, FALSE) ELSE Goto(p, "wipe") /\ UNCHANGED holder
  /\ UNCHANGED <<pane, inbox, taken, asked>> /\ Still

\* Before every key the composer, the turn and the session are read again.
Wipe(p) ==
  LET k == hand[p].own IN
  /\ At(p, "wipe")
  /\ IF pane.box = rec[k].body /\ ~pane.busy
     THEN Goto(p, "erase") /\ UNCHANGED holder ELSE Settled(p, FALSE)
  /\ UNCHANGED <<pane, inbox, rec, taken, asked>> /\ Still

\* C-e, C-u: whatever the line holds by now is gone.
Erase(p) ==
  /\ At(p, "erase") /\ Goto(p, "erased")
  /\ pane' = [pane EXCEPT !.box = "empty"]
  /\ UNCHANGED <<inbox, rec, holder, taken, asked>> /\ Still

Erased(p) ==
  /\ At(p, "erased") /\ Settled(p, pane.box = "empty")
  /\ rec' = IF pane.box = "empty" THEN [rec EXCEPT ![hand[p].own].state = "cleared"] ELSE rec
  /\ UNCHANGED <<pane, inbox, taken, asked>> /\ Still

-----------------------------------------------------------------------------
(* supervise: what is unread and on the screen is read before the lock.     *)

Begin(p) ==
  /\ At(p, "idle")
  /\ \E r \in BOOLEAN :
       hand' = [hand EXCEPT ![p].pc = "lock",
                 ![p].view = [box |-> IF pane.busy THEN "foreign" ELSE pane.box, readable |-> r,
                              unread |-> IF r THEN {k \in Ids : inbox[k] = "unread"} ELSE {}]]
  /\ UNCHANGED <<pane, inbox, rec, holder, taken, asked>> /\ Still

\* Mutant: a pointer that was attempted and not seen is asked for again.
PointDueAgain(r) == r.ptr # "recorded"
PointDue(r) == r.ptr = "none"

\* Mutant: a lock that outlives the process that took it.
AbortsHolding(p) == hand' = [hand EXCEPT ![p] = Idle] /\ UNCHANGED holder
\* A process that raises, or finds the lock held, ends its pass.
Aborts(p) == /\ hand' = [hand EXCEPT ![p] = Idle]
             /\ holder' = IF holder = p THEN None ELSE holder

Lock(p) ==
  /\ At(p, "lock")
  /\ \/ /\ Locks(p)
        /\ hand' = [hand EXCEPT ![p].pc = "scan", ![p].todo = {k \in Ids : Open(k)}]
     \/ holder # None /\ Aborts(p)
  /\ UNCHANGED <<pane, inbox, rec, taken, asked>> /\ Still

Keeps(p, k, r) ==
  /\ rec' = [rec EXCEPT ![k] = r]
  /\ hand' = [hand EXCEPT ![p].todo = @ \ {k}]

Scan(p, k) ==
  LET v == hand[p].view
      r == rec[k] IN
  /\ At(p, "scan") /\ k \in hand[p].todo
  /\ \/ k \in v.unread /\ Keeps(p, k, [r EXCEPT !.ptr = "recorded"])
     \/ /\ k \notin v.unread /\ v.readable /\ r.ptr = "recorded" /\ inbox[k] = "read"
        /\ rec' = [rec EXCEPT ![k].state = "acknowledged"]
        /\ hand' = [hand EXCEPT ![p].todo = @ \ {k}]
     \/ /\ k \notin v.unread /\ v.readable /\ PointDue(r)
        /\ rec' = [rec EXCEPT ![k].ptr = "attempting"]
        /\ hand' = [hand EXCEPT ![p].pc = "point", ![p].own = k]
     \/ /\ k \notin v.unread
        /\ \/ v.readable /\ \/ r.ptr = "attempting"
                            \/ r.ptr = "recorded" /\ inbox[k] # "read"
           \/ ~v.readable
        /\ Keeps(p, k, r)
     \/ /\ k \notin v.unread /\ v.readable /\ r.ptr = "recorded"   \* receipt unreadable
        /\ hand' = [hand EXCEPT ![p].todo = @ \ {k}, ![p].view.readable = FALSE]
        /\ UNCHANGED rec
  /\ UNCHANGED <<pane, inbox, holder, taken, asked>> /\ Still

\* box.deliver: it may raise, before the row is written or after.
Point(p) ==
  LET k == hand[p].own IN
  /\ At(p, "point")
  /\ \/ /\ inbox' = [inbox EXCEPT ![k] = "unread"] /\ made' = [made EXCEPT ![k] = @ + 1]
        /\ \/ /\ rec' = [rec EXCEPT ![k].ptr = "recorded"]
              /\ hand' = [hand EXCEPT ![p].pc = "scan", ![p].todo = @ \ {k}]
              /\ UNCHANGED holder
           \/ Aborts(p) /\ UNCHANGED rec
     \/ Aborts(p) /\ UNCHANGED <<inbox, made, rec>>
  /\ UNCHANGED <<pane, sends, faults, taken, asked, wiped>>

\* Mutant: an empty composer is as good as the body in it.
MayType(p, r) ==
  LET v == hand[p].view IN
  v.readable /\ r.ptr = "recorded" /\ ~r.tried /\ v.box \in {r.body, "empty"}

\* What of a record and of the screen read before the lock allows a recovery: a
\* composer under a running turn is as good as a foreign one.
May(p, r) ==
  LET v == hand[p].view IN
  /\ v.readable /\ r.ptr = "recorded" /\ ~r.tried
  /\ v.box = r.body \/ (r.state = "cleared" /\ v.box = "empty")

\* The lock is released, one open record is taken up, as it was read.
Unlock(p) ==
  /\ At(p, "scan") /\ hand[p].todo = {}
  /\ holder' = None
  /\ \/ hand' = [hand EXCEPT ![p] = Idle]      \* nothing to recover, or no time left
     \/ \E k \in Ids :
          /\ Open(k) /\ May(p, rec[k])
          /\ hand' = [hand EXCEPT ![p] =
               [Idle EXCEPT !.pc = "mark", !.mine = k, !.body = rec[k].body, !.copy = rec[k],
                            !.view.box = hand[p].view.box]]
  /\ UNCHANGED <<pane, inbox, rec, taken, asked>> /\ Still

\* The lock is taken again, and the copy written over the record.
Mark(p) ==
  LET r == [hand[p].copy EXCEPT !.tried = TRUE] IN
  /\ At(p, "mark")
  /\ IF holder = None
     THEN /\ rec' = [rec EXCEPT ![hand[p].mine] = r]
          /\ hand' = [hand EXCEPT ![p].copy = r, ![p].view = NoView,
                        ![p].pc = IF hand[p].view.box = r.body THEN "submit" ELSE "send"]
     ELSE hand' = [hand EXCEPT ![p] = Idle] /\ UNCHANGED rec
  /\ UNCHANGED <<pane, inbox, holder, taken, asked>> /\ Still

\* submit_owned needs no lock; it looks once more whether the body is there.
Submit(p) ==
  /\ At(p, "submit")
  /\ Serial => holder = None
  /\ IF pane.box = hand[p].body
     THEN hand' = [hand EXCEPT ![p].pc = "watch", ![p].calm = ~pane.busy]
     ELSE Goto(p, "failed")
  /\ UNCHANGED <<pane, inbox, rec, holder, taken, asked>> /\ Still

Send(p) ==
  /\ At(p, "send")
  /\ \/ Locks(p) /\ Goto(p, "look")
     \/ holder # None /\ Goto(p, "failed") /\ UNCHANGED holder
  /\ UNCHANGED <<pane, inbox, rec, taken, asked>> /\ Still

Failed(p) ==
  /\ At(p, "failed")
  /\ \/ Locks(p) /\ hand' = [hand EXCEPT ![p].pc = "giveup", ![p].own = hand[p].mine, ![p].doubt = TRUE]
     \/ holder # None /\ Aborts(p)
  /\ UNCHANGED <<pane, inbox, rec, taken, asked>> /\ Still

\* The copy again: delivered, and its pointer read.
Sent(p) ==
  LET k == hand[p].mine IN
  /\ At(p, "sent")
  /\ IF holder = None
     THEN /\ rec' = [rec EXCEPT ![k] = [hand[p].copy EXCEPT !.state = "delivered"]]
          /\ inbox' = [inbox EXCEPT ![k] = IF @ = "unread" THEN "read" ELSE @]
     ELSE UNCHANGED <<rec, inbox>>
  /\ hand' = [hand EXCEPT ![p] = Idle]
  /\ UNCHANGED <<pane, holder, taken, asked>> /\ Still

Crash(p) ==
  /\ Faults /\ ~At(p, "idle") /\ Aborts(p)
  /\ UNCHANGED <<pane, inbox, rec, sends, taken, asked, wiped, made>>

Sends(p) == \/ Look(p) \/ Type(p) \/ Enter(p) \/ Watch(p)
            \/ GiveUp(p) \/ Wipe(p) \/ Erase(p) \/ Erased(p) \/ Crash(p)

DNext ==
  \/ Turn \/ Human \/ Read
  \/ \E p \in Procs : Sends(p)
  \/ \E p \in Senders, b \in Bodies : Call(p, b)
  \/ \E p \in Passes : \/ Begin(p) \/ Lock(p) \/ Point(p) \/ Unlock(p) \/ Mark(p)
                       \/ Submit(p) \/ Send(p) \/ Failed(p) \/ Sent(p)
                       \/ \E k \in Ids : Scan(p, k)

DSpec == DInit /\ [][DNext]_dvars

-----------------------------------------------------------------------------
\* Every variable keeps its type, and no one who is idle holds the lock.
DTypeOK ==
  /\ pane \in [box : Boxes, queued : SUBSET Bodies, busy : BOOLEAN]
  /\ inbox \in [Ids -> {"none", "unread", "read"}] /\ rec \in [Ids -> Record \union {None}]
  /\ hand \in [Procs -> Hand] /\ holder \in Procs \union {None}
  /\ holder # None => ~At(holder, "idle")
  /\ sends \in Nat /\ faults \in Nat /\ wiped \subseteq Bodies
  /\ taken \in [Bodies -> Nat] /\ asked \in [Bodies -> Nat] /\ made \in [Ids -> Nat]

\* However its keys, crashes and recoveries interleave, the agent is given a
\* body once at most for each time somebody asked: a recovery types nothing
\* that may already have gone in.
OneTake == \A b \in Bodies : taken[b] <= asked[b]

\* A body recorded as delivered went to the agent, unless a human took it out of
\* the composer: nothing st erased or overwrote is ever closed as delivered.
DeliveredIsTaken ==
  \A k \in Ids : rec[k] # None /\ rec[k].state = "delivered"
                => taken[rec[k].body] > 0 \/ rec[k].body \in wiped

\* An unconfirmed body gets one inbox pointer at most, whatever becomes of the
\* answer or of the pass that asked for it.
PointerOnce == \A k \in Ids : made[k] <= 1
=============================================================================
