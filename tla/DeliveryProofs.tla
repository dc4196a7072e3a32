--------------------------- MODULE DeliveryProofs ---------------------------
(***************************************************************************)
(* Delivery, for every number of senders, passes, bodies and records, with *)
(* or without the lock around submit_owned: every variable keeps its type, *)
(* no process that is done holds the pane's lock, and a body not confirmed *)
(* gets one inbox pointer at most.                                         *)
(*                                                                         *)
(* PointerOnce is not inductive: supervise writes copies of records over   *)
(* records, and asks the inbox outside of any answer.  The invariant says  *)
(* who may be about to ask (the lock's holder, for a record it has marked  *)
(* as attempted and that has no pointer), and that copies have theirs.     *)
(*                                                                         *)
(* Where nobody takes the lock beside a pass that presses keys (Serial), a *)
(* body recorded as delivered went to the agent or to a human: CarefulInv  *)
(* says who has the lock at each label, and that a body whose keys are     *)
(* pressed is in the composer, queued or gone.  Where one pass runs at a   *)
(* time as well, a body is given once for each time it was asked for:      *)
(* CountInv counts, beside what was given, the ways in which the agent may *)
(* still be given it, and no step but a call makes their sum larger.       *)
(***************************************************************************)
EXTENDS Delivery, FiniteSetTheorems, TLAPS

\* What a process may have in hand at each label.
Held(p) ==
  LET h == hand[p] IN
  /\ h.pc \in {"scan", "point"} => holder = p /\ \A k \in h.todo : rec[k] # None
  /\ holder = p => h.pc \notin {"idle", "lock", "mark", "submit", "send", "failed", "sent"}
  /\ h.pc \notin {"idle", "lock", "scan", "point"} =>
       h.body \in Bodies /\ (p \notin Senders => h.mine # None)
  /\ h.pc \in {"mark", "submit", "send", "failed", "sent"} => h.mine # None
  /\ h.pc \in {"type", "giveup", "wipe", "erase", "erased", "point"} => h.own # None
  /\ h.own # None => rec[h.own] # None
  /\ h.mine # None => rec[h.mine] # None /\ h.copy # None /\ h.copy.ptr = "recorded"
  /\ h.pc = "point" => rec[h.own].ptr = "attempting" /\ made[h.own] = 0

\* A pointer was made for a record that says so, or that says it was attempted.
Pointed(k) == made[k] <= 1 /\ (made[k] > 0 => rec[k] # None /\ rec[k].ptr # "none")

IInv == /\ DTypeOK
        /\ \A p \in Procs : Held(p)
        /\ \A k \in Ids : Pointed(k)

-----------------------------------------------------------------------------
(* Steps of one process.                                                    *)

\* What a step of p must show: nobody else's hand is touched, records stay, and
\* those the others are about to point at do not change.
LEMMA StepKeeps ==
  ASSUME IInv, NEW p \in Procs, DTypeOK', Held(p)',
         \A q \in Procs : q # p => hand'[q] = hand[q],
         \A k \in Ids : Pointed(k)' /\ (rec[k] # None => rec'[k] # None),
         holder' # holder => holder \in {None, p} /\ holder' \in {None, p},
         \A q \in Procs : q # p /\ hand[q].pc = "point" =>
           LET k == hand[q].own IN rec'[k].ptr = rec[k].ptr /\ made'[k] = made[k]
  PROVE  IInv'
<1> SUFFICES ASSUME NEW q \in Procs, q # p PROVE Held(q)'
  BY DEF IInv
<1>1. Held(q) /\ hand'[q] = hand[q] /\ hand[q] \in Hand
  BY DEF IInv, DTypeOK
<1>2. hand[q].own # None => hand[q].own \in Ids
  BY <1>1 DEF Hand
<1>3. (hand[q].mine # None => hand[q].mine \in Ids) /\ hand[q].todo \subseteq Ids
  BY <1>1 DEF Hand
<1>4. holder' = q => holder = q
  BY DeliveryAssumption DEF IInv, DTypeOK
<1>5. holder = q => holder' = q
  BY DeliveryAssumption DEF IInv, DTypeOK
<1> QED BY <1>1, <1>2, <1>3, <1>4, <1>5 DEF Held

\* A record's state is no pointer.
LEMMA StateOnly ==
  ASSUME IInv, NEW k \in Ids, rec[k] # None,
         NEW s \in {"prepared", "unknown", "queued", "cleared", "delivered", "acknowledged"},
         rec' = [rec EXCEPT ![k].state = s]
  PROVE  /\ rec' \in [Ids -> Record \union {None}]
         /\ \A i \in Ids : rec[i] # None => rec'[i] # None /\ rec'[i].ptr = rec[i].ptr
         /\ \A i \in Ids : rec[i] = None => rec'[i] = None
<1> DEFINE r == [rec[k] EXCEPT !.state = s]
<1>1. rec[k] \in Record /\ rec \in [Ids -> Record \union {None}]
  BY DEF IInv, DTypeOK
<1>2. r \in Record /\ r.ptr = rec[k].ptr
  BY <1>1 DEF Record
<1>3. rec' = [rec EXCEPT ![k] = r]
  OBVIOUS
<1> HIDE DEF r
<1> QED BY <1>1, <1>2, <1>3, DeliveryAssumption

\* A step that leaves records and pointers alone.
LEMMA QuietKeeps ==
  ASSUME IInv, NEW p \in Procs, DTypeOK', Held(p)', UNCHANGED <<rec, made>>,
         \A q \in Procs : q # p => hand'[q] = hand[q],
         holder' # holder => holder \in {None, p} /\ holder' \in {None, p}
  PROVE  IInv'
<1>1. \A k \in Ids : Pointed(k)'
  BY DEF IInv, Pointed
<1> QED BY <1>1, StepKeeps

\* A step that gives a record another state.
LEMMA StateKeeps ==
  ASSUME IInv, NEW p \in Procs, DTypeOK', Held(p)', UNCHANGED made,
         \A q \in Procs : q # p => hand'[q] = hand[q],
         holder' # holder => holder \in {None, p} /\ holder' \in {None, p},
         NEW k \in Ids, rec[k] # None,
         NEW s \in {"prepared", "unknown", "queued", "cleared", "delivered", "acknowledged"},
         rec' = [rec EXCEPT ![k].state = s]
  PROVE  IInv'
<1>1. /\ \A i \in Ids : rec[i] # None => rec'[i] # None /\ rec'[i].ptr = rec[i].ptr
      /\ \A i \in Ids : rec[i] = None => rec'[i] = None
  BY StateOnly
<1>2. \A i \in Ids : Pointed(i)'
  BY <1>1 DEF IInv, Pointed
<1>3. \A q \in Procs : hand[q].pc = "point" => hand[q].own \in Ids /\ rec[hand[q].own] # None
  BY DEF IInv, DTypeOK, Held, Hand
<1> QED BY <1>1, <1>2, <1>3, StepKeeps

\* The hand of a process that is done.
LEMMA IdleHand == Idle \in Hand /\ NoView \in View
BY DEF Idle, NoView, Hand, View, Boxes, Labels

\* Going to another label.
LEMMA GotoHand ==
  ASSUME IInv, NEW p \in Procs, NEW l \in Labels, Goto(p, l)
  PROVE  /\ hand' \in [Procs -> Hand] /\ hand'[p] = [hand[p] EXCEPT !.pc = l]
         /\ \A q \in Procs : q # p => hand'[q] = hand[q]
<1> DEFINE h == [hand[p] EXCEPT !.pc = l]
<1>1. hand[p] \in Hand /\ hand \in [Procs -> Hand]
  BY DEF IInv, DTypeOK
<1>2. h \in Hand
  BY <1>1 DEF Hand
<1>3. hand' = [hand EXCEPT ![p] = h]
  BY DEF Goto
<1> HIDE DEF h
<1>4. /\ hand' \in [Procs -> Hand] /\ hand'[p] = h
      /\ \A q \in Procs : q # p => hand'[q] = hand[q]
  BY <1>1, <1>2, <1>3
<1> QED BY <1>4 DEF h

\* Leaving send, submit_owned or failed().
LEMMA LeaveHand ==
  ASSUME IInv, NEW p \in Procs, NEW sent \in BOOLEAN, Leave(p, sent),
         hand[p].pc \notin {"idle", "lock", "scan", "point"}
  PROVE  /\ hand' \in [Procs -> Hand] /\ \A q \in Procs : q # p => hand'[q] = hand[q]
         /\ holder' \in Procs \union {None} /\ holder' # p
         /\ holder' # holder => holder = p /\ holder' = None
         /\ \/ hand'[p] = Idle
            \/ /\ hand'[p].pc \in {"sent", "failed"} /\ hand'[p].body = hand[p].body
               /\ hand'[p].mine = hand[p].mine /\ hand'[p].own = hand[p].own
               /\ hand'[p].copy = hand[p].copy /\ hand[p].mine # None
<1>1. hand[p] \in Hand /\ hand \in [Procs -> Hand] /\ Held(p) /\ holder \in Procs \union {None}
  BY DEF IInv, DTypeOK
<1>2. holder' \in Procs \union {None} /\ holder' # p /\ (holder' # holder => holder = p /\ holder' = None)
  BY <1>1, DeliveryAssumption DEF Leave
<1>3. CASE p \in Senders \/ (~sent /\ hand[p].doubt)
  <2>1. hand' = [hand EXCEPT ![p] = Idle]
    BY <1>3 DEF Leave
  <2> QED BY <1>1, <1>2, <2>1, IdleHand
<1>4. CASE ~(p \in Senders \/ (~sent /\ hand[p].doubt))
  <2> DEFINE h == [hand[p] EXCEPT !.pc = IF sent THEN "sent" ELSE "failed"]
  <2>1. hand' = [hand EXCEPT ![p] = h]
    BY <1>4 DEF Leave
  <2>2. /\ h \in Hand /\ h.pc \in {"sent", "failed"} /\ h.body = hand[p].body
        /\ h.mine = hand[p].mine /\ h.own = hand[p].own /\ h.copy = hand[p].copy
    BY <1>1 DEF Hand, Labels
  <2>3. hand[p].mine # None
    BY <1>1, <1>4 DEF Held
  <2> HIDE DEF h
  <2> QED BY <1>1, <1>2, <2>1, <2>2, <2>3
<1> QED BY <1>3, <1>4

\* Whoever left has in hand what it had.
LEMMA LeaveHeld ==
  ASSUME IInv, NEW p \in Procs, NEW sent \in BOOLEAN, Leave(p, sent),
         hand[p].pc \notin {"idle", "lock", "scan", "point"},
         \A k \in Ids : rec[k] # None => rec'[k] # None
  PROVE  Held(p)'
<1>1. Held(p) /\ hand[p] \in Hand
  BY DEF IInv, DTypeOK
<1>2. CASE hand'[p] = Idle
  BY <1>2, LeaveHand DEF Held, Idle
<1>3. CASE hand'[p] # Idle
  BY <1>1, <1>3, LeaveHand DEF Held, Hand
<1> QED BY <1>2, <1>3

-----------------------------------------------------------------------------
(* The pane, its human, its agent.                                          *)

\* Nobody's hand, no record and no pointer changes.
LEMMA WorldKeeps ==
  ASSUME IInv, DTypeOK', UNCHANGED <<hand, rec, holder, made>> PROVE IInv'
BY DEF IInv, Held, Pointed

LEMMA TurnKeeps == IInv /\ Turn => IInv'
<1> SUFFICES ASSUME IInv, Turn PROVE IInv'
  OBVIOUS
<1>1. UNCHANGED <<inbox, rec, holder, hand, sends, faults, asked, wiped, made>>
  BY DEF Turn
<1>2. pane' \in [box : Boxes, queued : SUBSET Bodies, busy : BOOLEAN]
  BY DEF IInv, DTypeOK, Turn
<1>3. taken' \in [Bodies -> Nat]
  BY DEF IInv, DTypeOK, Turn, Gives
<1> QED BY <1>1, <1>2, <1>3, WorldKeeps DEF IInv, DTypeOK, At

LEMMA HumanKeeps == IInv /\ Human => IInv'
<1> SUFFICES ASSUME IInv, Human PROVE IInv'
  OBVIOUS
<1>1. UNCHANGED <<inbox, rec, holder, hand, sends, made>> /\ faults' \in Nat
  BY DEF IInv, DTypeOK, Human, Faults
<1>2. pane' \in [box : Boxes, queued : SUBSET Bodies, busy : BOOLEAN]
  BY DEF IInv, DTypeOK, Human, Boxes
<1>3. taken' \in [Bodies -> Nat] /\ asked' \in [Bodies -> Nat] /\ wiped' \subseteq Bodies
  BY DEF IInv, DTypeOK, Human, Gives
<1> QED BY <1>1, <1>2, <1>3, WorldKeeps DEF IInv, DTypeOK, At

LEMMA ReadKeeps == IInv /\ Read => IInv'
<1> SUFFICES ASSUME IInv, Read PROVE IInv'
  OBVIOUS
<1>1. UNCHANGED <<pane, rec, holder, hand, sends, faults, taken, asked, wiped, made>>
  BY DEF Read
<1>2. inbox' \in [Ids -> {"none", "unread", "read"}]
  BY DEF IInv, DTypeOK, Read
<1> QED BY <1>1, <1>2, WorldKeeps DEF IInv, DTypeOK, At

-----------------------------------------------------------------------------
(* send.                                                                    *)

\* A send is asked for, and takes the lock.
LEMMA CallKeeps == ASSUME IInv, NEW p \in Senders, NEW b \in Bodies, Call(p, b) PROVE IInv'
<1>1. p \in Procs /\ hand[p] \in Hand /\ hand \in [Procs -> Hand] /\ Held(p)
  BY DEF IInv, DTypeOK, Procs
<1>2. /\ holder = None /\ holder' = p /\ hand[p].pc = "idle" /\ sends' \in Nat
      /\ hand' = [hand EXCEPT ![p].pc = "look", ![p].body = b]
      /\ UNCHANGED <<pane, inbox, rec, faults, taken, wiped, made>>
  BY DEF IInv, DTypeOK, Call, At, Locks, Free
<1>3. asked' \in [Bodies -> Nat]
  BY DEF IInv, DTypeOK, Call
<1> DEFINE h == [hand[p] EXCEPT !.pc = "look", !.body = b]
<1>4. /\ h \in Hand /\ h.pc = "look" /\ h.body = b /\ h.own = hand[p].own
      /\ h.mine = hand[p].mine /\ h.copy = hand[p].copy
  BY <1>1 DEF Hand, Labels
<1>5. hand' = [hand EXCEPT ![p] = h]
  BY <1>2
<1> HIDE DEF h
<1>6. hand' \in [Procs -> Hand] /\ hand'[p] = h /\ \A q \in Procs : q # p => hand'[q] = hand[q]
  BY <1>1, <1>4, <1>5
<1>7. DTypeOK'
  BY <1>1, <1>2, <1>3, <1>4, <1>6 DEF IInv, DTypeOK, At
<1>8. Held(p)'
  BY <1>1, <1>2, <1>4, <1>6 DEF Held
<1> QED BY <1>1, <1>2, <1>6, <1>7, <1>8, QuietKeeps

\* Leaving, with a record's state changed or not.
LEMMA LeaveKeeps ==
  ASSUME IInv, NEW p \in Procs, NEW sent \in BOOLEAN, Leave(p, sent),
         hand[p].pc \notin {"idle", "lock", "scan", "point"},
         UNCHANGED <<pane, inbox, sends, faults, taken, asked, wiped, made>>,
         \/ UNCHANGED rec
         \/ \E k \in Ids, s \in {"unknown", "queued", "cleared", "delivered"} :
              rec[k] # None /\ rec' = [rec EXCEPT ![k].state = s]
  PROVE  IInv'
<1>1. /\ hand' \in [Procs -> Hand] /\ \A q \in Procs : q # p => hand'[q] = hand[q]
      /\ holder' \in Procs \union {None} /\ holder' # p
      /\ holder' # holder => holder = p /\ holder' = None
  BY LeaveHand
<1>2. holder' # None => hand'[holder'].pc # "idle"
  BY <1>1, DeliveryAssumption DEF IInv, DTypeOK, At
<1>3. CASE UNCHANGED rec
  <2>1. DTypeOK'
    BY <1>1, <1>2, <1>3 DEF IInv, DTypeOK, At
  <2>2. Held(p)'
    BY <1>3, LeaveHeld
  <2> QED BY <1>1, <1>3, <2>1, <2>2, QuietKeeps
<1>4. ASSUME NEW k \in Ids, NEW s \in {"unknown", "queued", "cleared", "delivered"},
             rec[k] # None, rec' = [rec EXCEPT ![k].state = s]
      PROVE  IInv'
  <2>1. /\ rec' \in [Ids -> Record \union {None}]
        /\ \A i \in Ids : rec[i] # None => rec'[i] # None
    BY <1>4, StateOnly
  <2>2. DTypeOK'
    BY <1>1, <1>2, <2>1 DEF IInv, DTypeOK, At
  <2>3. Held(p)'
    BY <2>1, LeaveHeld
  <2> QED BY <1>1, <1>4, <2>2, <2>3, StateKeeps
<1> QED BY <1>3, <1>4

\* Going on at another label of send, with a record's state changed or not.
LEMMA GotoKeeps ==
  ASSUME IInv, NEW p \in Procs, Held(p)', NEW l \in Labels \ {"idle"},
         hand' \in [Procs -> Hand], hand'[p].pc = l,
         \A q \in Procs : q # p => hand'[q] = hand[q],
         pane' \in [box : Boxes, queued : SUBSET Bodies, busy : BOOLEAN],
         taken' \in [Bodies -> Nat], wiped' \subseteq Bodies,
         UNCHANGED <<inbox, holder, sends, faults, asked, made>>,
         \/ UNCHANGED rec
         \/ \E k \in Ids, s \in {"prepared", "unknown", "queued", "cleared", "delivered"} :
              rec[k] # None /\ rec' = [rec EXCEPT ![k].state = s]
  PROVE  IInv'
<1>1. rec' \in [Ids -> Record \union {None}]
  BY StateOnly DEF IInv, DTypeOK
<1>2. holder # None => hand'[holder].pc # "idle"
  BY DEF IInv, DTypeOK, At
<1>3. DTypeOK'
  BY <1>1, <1>2 DEF IInv, DTypeOK, At
<1> QED BY <1>3, QuietKeeps, StateKeeps

\* send's and submit_owned's labels: the process that is there, its hand, its pane.
LEMMA Typed ==
  ASSUME IInv, NEW p \in Procs
  PROVE  /\ hand[p] \in Hand /\ hand \in [Procs -> Hand] /\ Held(p)
         /\ pane \in [box : Boxes, queued : SUBSET Bodies, busy : BOOLEAN]
         /\ taken \in [Bodies -> Nat] /\ wiped \subseteq Bodies
         /\ rec \in [Ids -> Record \union {None}]
BY DEF IInv, DTypeOK

LEMMA LookKeeps == ASSUME IInv, NEW p \in Procs, Look(p) PROVE IInv'
<1> DEFINE b == hand[p].body
<1>1. /\ hand[p].pc = "look"
      /\ UNCHANGED <<pane, inbox, sends, faults, taken, asked, wiped, made>>
  BY DEF Look, At, Still
<1>2. b \in Bodies
  BY <1>1, Typed DEF Held
<1>3. ASSUME hand' = [hand EXCEPT ![p].pc = "watch", ![p].calm = ~pane.busy],
             UNCHANGED <<rec, holder>>
      PROVE  IInv'
  <2> DEFINE h == [hand[p] EXCEPT !.pc = "watch", !.calm = ~pane.busy]
  <2>1. /\ h \in Hand /\ h.pc = "watch" /\ h.body = b /\ h.own = hand[p].own
        /\ h.mine = hand[p].mine /\ h.copy = hand[p].copy
    BY Typed DEF Hand, Labels
  <2>2. hand' = [hand EXCEPT ![p] = h]
    BY <1>3
  <2> HIDE DEF h
  <2>3. hand' \in [Procs -> Hand] /\ hand'[p] = h /\ \A q \in Procs : q # p => hand'[q] = hand[q]
    BY <2>1, <2>2, Typed
  <2>4. Held(p)'
    BY <1>1, <1>3, <2>1, <2>3, Typed DEF Held
  <2>5. "watch" \in Labels \ {"idle"} /\ hand'[p].pc = "watch"
    BY <2>1, <2>3 DEF Labels
  <2> QED BY <1>1, <1>3, <2>3, <2>4, <2>5, Typed, GotoKeeps
<1>4. ASSUME NEW k \in Ids, rec[k] # None, UNCHANGED <<rec, holder>>,
             hand' = [hand EXCEPT ![p].pc = "giveup", ![p].own = k]
      PROVE  IInv'
  <2> DEFINE h == [hand[p] EXCEPT !.pc = "giveup", !.own = k]
  <2>1. /\ h \in Hand /\ h.pc = "giveup" /\ h.body = b /\ h.own = k
        /\ h.mine = hand[p].mine /\ h.copy = hand[p].copy
    BY Typed DEF Hand, Labels
  <2>2. hand' = [hand EXCEPT ![p] = h]
    BY <1>4
  <2> HIDE DEF h
  <2>3. hand' \in [Procs -> Hand] /\ hand'[p] = h /\ \A q \in Procs : q # p => hand'[q] = hand[q]
    BY <2>1, <2>2, Typed
  <2>4. Held(p)'
    BY <1>1, <1>4, <2>1, <2>3, Typed, DeliveryAssumption DEF Held
  <2>5. "giveup" \in Labels \ {"idle"} /\ hand'[p].pc = "giveup"
    BY <2>1, <2>3 DEF Labels
  <2> QED BY <1>1, <1>4, <2>3, <2>4, <2>5, Typed, GotoKeeps
<1>5. ASSUME Leave(p, FALSE), UNCHANGED rec PROVE IInv'
  BY <1>1, <1>5, LeaveKeeps
<1>6. ASSUME BeginRecord(p, b) PROVE IInv'
  <2>1. CASE Leave(p, FALSE) /\ UNCHANGED rec
    BY <1>5, <2>1
  <2>2. ASSUME NEW k \in Ids, UNCHANGED holder,
               \/ rec[k] = None /\ rec' = [rec EXCEPT ![k] = Fresh(b)]
               \/ rec[k] # None /\ rec' = [rec EXCEPT ![k].state = "prepared"],
               hand' = [hand EXCEPT ![p].pc = "type", ![p].own = k, ![p].calm = ~pane.busy]
        PROVE  IInv'
    <3> DEFINE h == [hand[p] EXCEPT !.pc = "type", !.own = k, !.calm = ~pane.busy]
    <3>1. /\ h \in Hand /\ h.pc = "type" /\ h.body = b /\ h.own = k
          /\ h.mine = hand[p].mine /\ h.copy = hand[p].copy
      BY Typed DEF Hand, Labels
    <3>2. hand' = [hand EXCEPT ![p] = h]
      BY <2>2
    <3> HIDE DEF h
    <3>3. hand' \in [Procs -> Hand] /\ hand'[p] = h /\ \A q \in Procs : q # p => hand'[q] = hand[q]
      BY <3>1, <3>2, Typed
    <3>4. Fresh(b) \in Record /\ Fresh(b) # None
      <4>1. Fresh(b) \in Record
        BY <1>2 DEF Fresh, Record
      <4> QED BY <4>1, DeliveryAssumption
    <3>5. /\ rec' \in [Ids -> Record \union {None}] /\ rec'[k] # None
          /\ \A i \in Ids : rec[i] # None => rec'[i] # None /\ rec'[i].ptr = rec[i].ptr
      BY <2>2, <3>4, Typed, StateOnly
    <3>6. Held(p)'
      BY <1>1, <2>2, <3>1, <3>3, <3>5, Typed, DeliveryAssumption DEF Held, Hand
    <3>7. holder # None => hand'[holder].pc # "idle"
      BY <3>1, <3>3 DEF IInv, DTypeOK, At
    <3>8. DTypeOK'
      BY <1>1, <2>2, <3>3, <3>5, <3>7 DEF IInv, DTypeOK, At
    <3>9. \A i \in Ids : Pointed(i)'
      BY <1>1, <3>5 DEF IInv, Pointed
    <3>10. \A q \in Procs : hand[q].pc = "point" => hand[q].own \in Ids /\ rec[hand[q].own] # None
      BY DEF IInv, DTypeOK, Held, Hand
    <3> QED BY <1>1, <2>2, <3>3, <3>5, <3>6, <3>8, <3>9, <3>10, StepKeeps
  <2>3. ASSUME ~Leave(p, FALSE) \/ ~UNCHANGED rec PROVE IInv'
    <3>1. PICK k \in Ids :
            /\ IF Matches(b) = {} THEN \A i \in Ids : rec[i] = None <=> i >= k
                                 ELSE Matches(b) = {k}
            /\ rec' = [rec EXCEPT ![k] = IF Matches(b) = {} THEN Fresh(b)
                                                           ELSE [@ EXCEPT !.state = "prepared"]]
            /\ hand' = [hand EXCEPT ![p].pc = "type", ![p].own = k, ![p].calm = ~pane.busy]
            /\ UNCHANGED holder
      BY <1>6, <2>3 DEF BeginRecord
    <3>2. CASE Matches(b) = {}
      <4>1. rec[k] = None
        BY <3>1, <3>2 DEF Ids
      <4> QED BY <2>2, <3>1, <3>2, <4>1
    <3>3. CASE Matches(b) # {}
      <4>1. rec[k] # None
        BY <3>1, <3>3 DEF Matches, Open
      <4> QED BY <2>2, <3>1, <3>3, <4>1
    <3> QED BY <3>2, <3>3
  <2> QED BY <2>1, <2>3
<1> QED BY <1>3, <1>4, <1>5, <1>6 DEF Look, Matches, Open

LEMMA TypeKeeps == ASSUME IInv, NEW p \in Procs, Type(p) PROVE IInv'
<1>1. /\ hand[p].pc = "type" /\ UNCHANGED <<inbox, rec, holder, taken, asked, sends, faults, made>>
  BY DEF Type, At
<1>2. hand[p].body \in Bodies
  BY <1>1, Typed DEF Held
<1>3. PICK l \in {"enter", "giveup"} : Goto(p, l)
  BY DEF Type
<1>4. pane' \in [box : Boxes, queued : SUBSET Bodies, busy : BOOLEAN] /\ wiped' \subseteq Bodies
  BY <1>2, Typed DEF Type, Boxes
<1>5. l \in Labels \ {"idle"}
  BY DEF Labels
<1>6. /\ hand' \in [Procs -> Hand] /\ hand'[p] = [hand[p] EXCEPT !.pc = l]
      /\ \A q \in Procs : q # p => hand'[q] = hand[q]
  BY <1>3, <1>5, GotoHand
<1>7. Held(p)' /\ hand'[p].pc = l
  BY <1>1, <1>6, Typed DEF Held, Hand
<1> QED BY <1>1, <1>4, <1>5, <1>6, <1>7, Typed, GotoKeeps

\* A key changes the pane and what the agent was given.
LEMMA PressTypes ==
  ASSUME IInv, Press
  PROVE  /\ pane' \in [box : Boxes, queued : SUBSET Bodies, busy : BOOLEAN]
         /\ taken' \in [Bodies -> Nat]
<1>1. /\ pane \in [box : Boxes, queued : SUBSET Bodies, busy : BOOLEAN]
      /\ taken \in [Bodies -> Nat]
  BY DEF IInv, DTypeOK
<1>2. ASSUME NEW t \in Boxes PROVE Gives(t) => taken' \in [Bodies -> Nat]
  BY <1>1 DEF Gives
<1>3. CASE UNCHANGED <<pane, taken>>
  BY <1>1, <1>3
<1>4. CASE pane' = [pane EXCEPT !.box = "empty", !.busy = TRUE] /\ Gives(pane.box)
  BY <1>1, <1>2, <1>4 DEF Boxes
<1>5. CASE /\ pane.box \in Bodies /\ UNCHANGED taken
           /\ pane' = [pane EXCEPT !.box = "empty", !.queued = @ \union {pane.box}]
  BY <1>1, <1>5 DEF Boxes
<1> QED BY <1>3, <1>4, <1>5 DEF Press

LEMMA EnterKeeps == ASSUME IInv, NEW p \in Procs, Enter(p) PROVE IInv'
<1>1. /\ hand[p].pc = "enter" /\ Goto(p, "watch") /\ Press
      /\ UNCHANGED <<inbox, rec, holder, asked, sends, faults, wiped, made>>
  BY DEF Enter, At, Still
<1>2. "watch" \in Labels \ {"idle"}
  BY DEF Labels
<1>3. /\ hand' \in [Procs -> Hand] /\ hand'[p] = [hand[p] EXCEPT !.pc = "watch"]
      /\ \A q \in Procs : q # p => hand'[q] = hand[q]
  BY <1>1, <1>2, GotoHand
<1>4. Held(p)' /\ hand'[p].pc = "watch"
  BY <1>1, <1>3, Typed DEF Held, Hand
<1> QED BY <1>1, <1>2, <1>3, <1>4, Typed, PressTypes, GotoKeeps

LEMMA WatchKeeps == ASSUME IInv, NEW p \in Procs, Watch(p) PROVE IInv'
<1> DEFINE b == hand[p].body
           k == hand[p].own
           custody == holder = p /\ k # None
<1>1. hand[p].pc = "watch" /\ UNCHANGED <<inbox, asked, sends, faults, wiped, made>>
  BY DEF Watch, At, Still
<1>2. k # None => k \in Ids /\ rec[k] # None
  BY Typed DEF Held, Hand
<1>3. CASE /\ rec' = IF custody THEN [rec EXCEPT ![k].state = "delivered"] ELSE rec
           /\ Leave(p, TRUE) /\ UNCHANGED <<pane, taken>>
  <2>1. CASE custody
    BY <1>1, <1>2, <1>3, <2>1, LeaveKeeps
  <2>2. CASE ~custody
    BY <1>1, <1>3, <2>2, LeaveKeeps
  <2> QED BY <2>1, <2>2
<1>4. CASE /\ Press /\ hand' = [hand EXCEPT ![p].again = TRUE, ![p].calm = ~pane.busy]
           /\ UNCHANGED <<rec, holder>>
  <2> DEFINE h == [hand[p] EXCEPT !.again = TRUE, !.calm = ~pane.busy]
  <2>1. /\ h \in Hand /\ h.pc = "watch" /\ h.body = b /\ h.own = k
        /\ h.mine = hand[p].mine /\ h.copy = hand[p].copy
    BY <1>1, Typed DEF Hand
  <2>2. hand' = [hand EXCEPT ![p] = h]
    BY <1>4
  <2> HIDE DEF h
  <2>3. hand' \in [Procs -> Hand] /\ hand'[p] = h /\ \A q \in Procs : q # p => hand'[q] = hand[q]
    BY <2>1, <2>2, Typed
  <2>4. Held(p)'
    BY <1>1, <1>4, <2>1, <2>3, Typed DEF Held
  <2>5. "watch" \in Labels \ {"idle"} /\ hand'[p].pc = "watch"
    BY <2>1, <2>3 DEF Labels
  <2> QED BY <1>1, <1>4, <2>3, <2>4, <2>5, Typed, PressTypes, GotoKeeps
<1>5. CASE custody /\ Goto(p, "giveup") /\ UNCHANGED <<holder, rec, pane, taken>>
  <2>1. "giveup" \in Labels \ {"idle"}
    BY DEF Labels
  <2>2. /\ hand' \in [Procs -> Hand] /\ hand'[p] = [hand[p] EXCEPT !.pc = "giveup"]
        /\ \A q \in Procs : q # p => hand'[q] = hand[q]
    BY <1>5, <2>1, GotoHand
  <2>3. Held(p)' /\ hand'[p].pc = "giveup"
    BY <1>1, <1>5, <2>2, Typed DEF Held, Hand
  <2> QED BY <1>1, <1>5, <2>1, <2>2, <2>3, Typed, GotoKeeps
<1>6. CASE Leave(p, FALSE) /\ UNCHANGED <<rec, pane, taken>>
  BY <1>1, <1>6, LeaveKeeps
<1> QED BY <1>3, <1>4, <1>5, <1>6 DEF Watch

-----------------------------------------------------------------------------
(* failed.                                                                  *)

\* Going on with the same record in hand.
LEMMA OnKeeps ==
  ASSUME IInv, NEW p \in Procs, NEW l \in {"look", "wipe", "erase", "erased"}, Goto(p, l),
         hand[p].pc \in {"giveup", "wipe", "erase", "erased"},
         pane' \in [box : Boxes, queued : SUBSET Bodies, busy : BOOLEAN],
         UNCHANGED <<inbox, holder, taken, asked, sends, faults, wiped, made>>,
         \/ UNCHANGED rec
         \/ \E k \in Ids, s \in {"unknown", "queued"} :
              rec[k] # None /\ rec' = [rec EXCEPT ![k].state = s]
         \/ rec[hand[p].own] # None /\ rec' = [rec EXCEPT ![hand[p].own].state = "cleared"]
  PROVE  IInv'
<1>1. l \in Labels \ {"idle"}
  BY DEF Labels
<1>2. /\ hand' \in [Procs -> Hand] /\ hand'[p] = [hand[p] EXCEPT !.pc = l]
      /\ \A q \in Procs : q # p => hand'[q] = hand[q]
  BY <1>1, GotoHand
<1>3. hand[p].own # None /\ hand[p].own \in Ids
  BY Typed DEF Held, Hand
<1>4. /\ rec' \in [Ids -> Record \union {None}]
      /\ \A i \in Ids : rec[i] # None => rec'[i] # None
  BY <1>3, Typed, StateOnly
<1>5. Held(p)' /\ hand'[p].pc = l
  BY <1>2, <1>4, Typed DEF Held, Hand
<1>6. holder # None => hand'[holder].pc # "idle"
  BY <1>1, <1>2, <1>5 DEF IInv, DTypeOK, At
<1>7. DTypeOK'
  BY <1>2, <1>4, <1>6 DEF IInv, DTypeOK, At
<1> QED BY <1>2, <1>3, <1>5, <1>7, QuietKeeps, StateKeeps

\* failed() is over: it looks again, or leaves.
LEMMA SettledKeeps ==
  ASSUME IInv, NEW p \in Procs, NEW c \in BOOLEAN, Settled(p, c),
         hand[p].pc \in {"giveup", "wipe", "erased"},
         UNCHANGED <<pane, inbox, taken, asked, sends, faults, wiped, made>>,
         \/ UNCHANGED rec
         \/ \E s \in {"unknown", "queued", "cleared"} : rec' = [rec EXCEPT ![hand[p].own].state = s]
  PROVE  IInv'
<1>1. hand[p].own \in Ids /\ rec[hand[p].own] # None
  BY Typed DEF Held, Hand
<1>2. CASE Goto(p, "look") /\ UNCHANGED holder
  BY <1>1, <1>2, Typed, OnKeeps
<1>3. CASE Leave(p, FALSE)
  BY <1>1, <1>3, LeaveKeeps
<1> QED BY <1>2, <1>3 DEF Settled

LEMMA GiveUpKeeps == ASSUME IInv, NEW p \in Procs, GiveUp(p) PROVE IInv'
<1>1. /\ hand[p].pc = "giveup"
      /\ UNCHANGED <<pane, inbox, taken, asked, sends, faults, wiped, made>>
  BY DEF GiveUp, At, Still
<1>2. hand[p].own \in Ids /\ rec[hand[p].own] # None
  BY <1>1, Typed DEF Held, Hand
<1>3. PICK s \in {"unknown", "queued"} : rec' = [rec EXCEPT ![hand[p].own].state = s]
  BY DEF GiveUp
<1>4. CASE Settled(p, FALSE)
  BY <1>1, <1>3, <1>4, SettledKeeps
<1>5. CASE Goto(p, "wipe") /\ UNCHANGED holder
  BY <1>1, <1>2, <1>3, <1>5, Typed, OnKeeps
<1> QED BY <1>4, <1>5 DEF GiveUp

LEMMA WipeKeeps == ASSUME IInv, NEW p \in Procs, Wipe(p) \/ Erase(p) \/ Erased(p) PROVE IInv'
<1>1. CASE Wipe(p)
  <2>1. /\ hand[p].pc = "wipe"
        /\ UNCHANGED <<pane, inbox, rec, taken, asked, sends, faults, wiped, made>>
    BY <1>1 DEF Wipe, At, Still
  <2>2. CASE Goto(p, "erase") /\ UNCHANGED holder
    BY <2>1, <2>2, Typed, OnKeeps
  <2>3. CASE Settled(p, FALSE)
    BY <2>1, <2>3, SettledKeeps
  <2> QED BY <1>1, <2>2, <2>3 DEF Wipe
<1>2. CASE Erase(p)
  <2>1. /\ hand[p].pc = "erase" /\ Goto(p, "erased")
        /\ UNCHANGED <<inbox, rec, holder, taken, asked, sends, faults, wiped, made>>
    BY <1>2 DEF Erase, At, Still
  <2>2. pane' \in [box : Boxes, queued : SUBSET Bodies, busy : BOOLEAN]
    BY <1>2, Typed DEF Erase, Boxes
  <2> QED BY <2>1, <2>2, OnKeeps
<1>3. CASE Erased(p)
  <2>1. /\ hand[p].pc = "erased" /\ Settled(p, pane.box = "empty")
        /\ UNCHANGED <<pane, inbox, taken, asked, sends, faults, wiped, made>>
        /\ \/ UNCHANGED rec
           \/ rec' = [rec EXCEPT ![hand[p].own].state = "cleared"]
    BY <1>3 DEF Erased, At, Still
  <2> QED BY <2>1, SettledKeeps
<1> QED BY <1>1, <1>2, <1>3

-----------------------------------------------------------------------------
(* supervise.                                                               *)

\* A process that raises, or dies, is done and holds nothing.
LEMMA AbortsKeeps ==
  ASSUME IInv, NEW p \in Procs, Aborts(p), UNCHANGED <<pane, sends, taken, asked, wiped>>,
         faults' \in Nat, inbox' \in [Ids -> {"none", "unread", "read"}], made' \in [Ids -> Nat],
         UNCHANGED rec,
         \/ UNCHANGED made
         \/ hand[p].pc = "point" /\ made' = [made EXCEPT ![hand[p].own] = @ + 1]
  PROVE  IInv'
<1>1. /\ hand' = [hand EXCEPT ![p] = Idle]
      /\ holder' = IF holder = p THEN None ELSE holder
  BY DEF Aborts
<1>2. /\ hand' \in [Procs -> Hand] /\ hand'[p] = Idle
      /\ \A q \in Procs : q # p => hand'[q] = hand[q]
  BY <1>1, IdleHand, Typed
<1>3. /\ holder' \in Procs \union {None} /\ holder' # p
      /\ holder' # holder => holder = p /\ holder' = None
  BY <1>1, DeliveryAssumption DEF IInv, DTypeOK
<1>4. holder' # None => hand'[holder'].pc # "idle"
  BY <1>2, <1>3 DEF IInv, DTypeOK, At
<1>5. DTypeOK'
  BY <1>2, <1>3, <1>4 DEF IInv, DTypeOK, At
<1>6. Held(p)'
  BY <1>2, <1>3 DEF Held, Idle
<1>7. CASE UNCHANGED made
  BY <1>2, <1>3, <1>5, <1>6, <1>7, QuietKeeps
<1>8. CASE hand[p].pc = "point" /\ made' = [made EXCEPT ![hand[p].own] = @ + 1]
  <2>1. /\ hand[p].own \in Ids /\ rec[hand[p].own] # None /\ rec[hand[p].own].ptr = "attempting"
        /\ made[hand[p].own] = 0 /\ holder = p
    BY <1>8, Typed DEF Held, Hand
  <2>2. \A k \in Ids : Pointed(k)'
    BY <1>8, <2>1 DEF IInv, DTypeOK, Pointed
  <2>3. \A q \in Procs : q # p => hand[q].pc # "point"
    BY <2>1 DEF IInv, Held
  <2> QED BY <1>2, <1>3, <1>5, <1>6, <2>2, <2>3, StepKeeps
<1> QED BY <1>7, <1>8

LEMMA CrashKeeps == ASSUME IInv, NEW p \in Procs, Crash(p) PROVE IInv'
<1>1. faults' \in Nat
  BY DEF Crash, Faults, IInv, DTypeOK
<1> QED BY <1>1, AbortsKeeps DEF Crash, IInv, DTypeOK

\* A step of a pass that changes its hand only, and the lock.
LEMMA PassKeeps ==
  ASSUME IInv, NEW p \in Procs, NEW h \in Hand, hand' = [hand EXCEPT ![p] = h],
         UNCHANGED <<pane, rec, taken, asked, sends, faults, wiped, made>>,
         inbox' \in [Ids -> {"none", "unread", "read"}],
         (holder' \in {None, p} /\ holder \in {None, p}) \/ UNCHANGED holder,
         holder' = p => h.pc # "idle",
         Held(p)'
  PROVE  IInv'
<1>1. /\ hand' \in [Procs -> Hand] /\ hand'[p] = h
      /\ \A q \in Procs : q # p => hand'[q] = hand[q]
  BY Typed
<1>2. holder' \in Procs \union {None} /\ (holder' # None => hand'[holder'].pc # "idle")
  BY <1>1, DeliveryAssumption DEF IInv, DTypeOK, At
<1>3. DTypeOK'
  BY <1>1, <1>2 DEF IInv, DTypeOK, At
<1> QED BY <1>1, <1>3, QuietKeeps

LEMMA BeginKeeps == ASSUME IInv, NEW p \in Procs, Begin(p) PROVE IInv'
<1>1. /\ hand[p].pc = "idle"
      /\ UNCHANGED <<pane, inbox, rec, holder, taken, asked, sends, faults, wiped, made>>
  BY DEF Begin, At, Still
<1>2. PICK v : v \in View /\ hand' = [hand EXCEPT ![p].pc = "lock", ![p].view = v]
  <2>1. PICK r \in BOOLEAN :
          hand' = [hand EXCEPT ![p].pc = "lock",
                     ![p].view = [box |-> IF pane.busy THEN "foreign" ELSE pane.box, readable |-> r,
                                  unread |-> IF r THEN {k \in Ids : inbox[k] = "unread"} ELSE {}]]
    BY DEF Begin
  <2>2. [box |-> IF pane.busy THEN "foreign" ELSE pane.box, readable |-> r,
         unread |-> IF r THEN {k \in Ids : inbox[k] = "unread"} ELSE {}] \in View
    BY Typed DEF View, Boxes
  <2> QED BY <2>1, <2>2
<1> DEFINE h == [hand[p] EXCEPT !.pc = "lock", !.view = v]
<1>3. /\ h \in Hand /\ h.pc = "lock" /\ h.own = hand[p].own
      /\ h.mine = hand[p].mine /\ h.copy = hand[p].copy
  BY <1>2, Typed DEF Hand, Labels
<1>4. hand' = [hand EXCEPT ![p] = h]
  BY <1>2
<1> HIDE DEF h
<1>5. Held(p)'
  BY <1>1, <1>3, <1>4, Typed DEF Held
<1> QED BY <1>1, <1>3, <1>4, <1>5, PassKeeps DEF IInv, DTypeOK

LEMMA LockKeeps == ASSUME IInv, NEW p \in Procs, Lock(p) PROVE IInv'
<1>1. /\ hand[p].pc = "lock"
      /\ UNCHANGED <<pane, inbox, rec, taken, asked, sends, faults, wiped, made>>
  BY DEF Lock, At, Still
<1>2. CASE Aborts(p)
  BY <1>1, <1>2, AbortsKeeps DEF IInv, DTypeOK
<1>3. CASE Locks(p) /\ hand' = [hand EXCEPT ![p].pc = "scan", ![p].todo = {k \in Ids : Open(k)}]
  <2> DEFINE h == [hand[p] EXCEPT !.pc = "scan", !.todo = {k \in Ids : Open(k)}]
  <2>1. /\ h \in Hand /\ h.pc = "scan" /\ h.own = hand[p].own
        /\ h.mine = hand[p].mine /\ h.copy = hand[p].copy /\ \A k \in h.todo : rec[k] # None
    BY Typed DEF Hand, Labels, Open
  <2>2. hand' = [hand EXCEPT ![p] = h]
    BY <1>3
  <2> HIDE DEF h
  <2>3. holder = None /\ holder' = p
    BY <1>3 DEF Locks, Free
  <2>4. Held(p)'
    BY <1>1, <2>1, <2>2, <2>3, Typed DEF Held
  <2> QED BY <1>1, <2>1, <2>2, <2>3, <2>4, PassKeeps DEF IInv, DTypeOK
<1> QED BY <1>2, <1>3 DEF Lock

\* A record that is in nobody else's hand: only the lock's holder is here.
LEMMA HolderKeeps ==
  ASSUME IInv, NEW p \in Procs, holder = p, NEW h \in Hand, hand' = [hand EXCEPT ![p] = h],
         UNCHANGED <<pane, holder, taken, asked, sends, faults, wiped>>,
         inbox' \in [Ids -> {"none", "unread", "read"}], made' \in [Ids -> Nat],
         NEW k \in Ids, rec[k] # None, NEW r \in Record, rec' = [rec EXCEPT ![k] = r],
         \A i \in Ids : i # k => made'[i] = made[i],
         made'[k] <= 1, made'[k] > 0 => r.ptr # "none",
         h.pc # "idle", Held(p)'
  PROVE  IInv'
<1>1. r # None
  BY DeliveryAssumption
<1>2. /\ hand' \in [Procs -> Hand] /\ hand'[p] = h
      /\ \A q \in Procs : q # p => hand'[q] = hand[q]
  BY Typed
<1>3. rec' \in [Ids -> Record \union {None}] /\ \A i \in Ids : rec[i] # None => rec'[i] # None
  BY <1>1, Typed
<1>4. DTypeOK'
  BY <1>2, <1>3 DEF IInv, DTypeOK, At
<1>5. \A i \in Ids : Pointed(i)'
  BY <1>1, <1>3, Typed DEF IInv, Pointed
<1>6. \A q \in Procs : q # p => hand[q].pc # "point"
  BY DEF IInv, Held
<1> QED BY <1>2, <1>3, <1>4, <1>5, <1>6, StepKeeps

LEMMA ScanKeeps == ASSUME IInv, NEW p \in Procs, NEW k \in Ids, Scan(p, k) PROVE IInv'
<1> DEFINE r == rec[k]
<1>1. /\ hand[p].pc = "scan" /\ holder = p
      /\ UNCHANGED <<pane, inbox, holder, taken, asked, sends, faults, wiped, made>>
  BY Typed DEF Scan, At, Still, Held
<1>2. rec[k] # None /\ r \in Record /\ k \in hand[p].todo /\ made[k] <= 1 /\ made \in [Ids -> Nat]
      /\ (r.ptr = "none" => made[k] = 0)
  BY <1>1, Typed DEF Scan, Held, IInv, DTypeOK, Pointed
<1>3. ASSUME NEW s \in Record, rec' = [rec EXCEPT ![k] = s], s.ptr = "none" => r.ptr = "none",
             hand' = [hand EXCEPT ![p].todo = @ \ {k}]
      PROVE  IInv'
  <2> DEFINE h == [hand[p] EXCEPT !.todo = @ \ {k}]
  <2>1. /\ h \in Hand /\ h.pc = "scan" /\ h.own = hand[p].own /\ h.mine = hand[p].mine
        /\ h.copy = hand[p].copy /\ h.todo \subseteq hand[p].todo
    BY <1>1, Typed DEF Hand
  <2>2. hand' = [hand EXCEPT ![p] = h]
    BY <1>3
  <2> HIDE DEF h
  <2>3. s # None /\ \A i \in Ids : rec[i] # None => rec'[i] # None
    BY <1>2, <1>3, Typed, DeliveryAssumption
  <2>4. Held(p)'
    BY <1>1, <2>1, <2>2, <2>3, Typed DEF Held, Hand
  <2> QED BY <1>1, <1>2, <1>3, <2>1, <2>2, <2>4, HolderKeeps DEF IInv, DTypeOK, Pointed
<1>4. ASSUME NEW s \in Record, rec' = [rec EXCEPT ![k] = s], s.ptr = "attempting", r.ptr = "none",
             hand' = [hand EXCEPT ![p].pc = "point", ![p].own = k]
      PROVE  IInv'
  <2> DEFINE h == [hand[p] EXCEPT !.pc = "point", !.own = k]
  <2>1. /\ h \in Hand /\ h.pc = "point" /\ h.own = k /\ h.mine = hand[p].mine
        /\ h.copy = hand[p].copy /\ h.todo = hand[p].todo
    BY <1>1, Typed DEF Hand, Labels
  <2>2. hand' = [hand EXCEPT ![p] = h]
    BY <1>4
  <2> HIDE DEF h
  <2>3. s # None /\ rec'[k] = s /\ \A i \in Ids : rec[i] # None => rec'[i] # None
    BY <1>2, <1>4, Typed, DeliveryAssumption
  <2>4. Held(p)'
    BY <1>1, <1>2, <1>4, <2>1, <2>2, <2>3, Typed, DeliveryAssumption DEF Held, Hand
  <2> QED BY <1>1, <1>2, <1>4, <2>1, <2>2, <2>4, HolderKeeps DEF IInv, DTypeOK
<1>5. ASSUME UNCHANGED rec, hand' = [hand EXCEPT ![p].todo = @ \ {k}, ![p].view.readable = FALSE]
      PROVE  IInv'
  <2> DEFINE h == [hand[p] EXCEPT !.todo = @ \ {k}, !.view.readable = FALSE]
  <2>1. /\ h \in Hand /\ h.pc = "scan" /\ h.own = hand[p].own /\ h.mine = hand[p].mine
        /\ h.copy = hand[p].copy /\ h.todo \subseteq hand[p].todo
    BY <1>1, Typed DEF Hand, View
  <2>2. hand' = [hand EXCEPT ![p] = h]
    BY <1>5
  <2> HIDE DEF h
  <2>3. Held(p)'
    BY <1>1, <1>5, <2>1, <2>2, Typed DEF Held
  <2> QED BY <1>1, <1>5, <2>1, <2>2, <2>3, PassKeeps DEF IInv, DTypeOK
<1>6. /\ [r EXCEPT !.ptr = "recorded"] \in Record /\ [r EXCEPT !.state = "acknowledged"] \in Record
      /\ [r EXCEPT !.ptr = "attempting"] \in Record
      /\ [r EXCEPT !.ptr = "recorded"].ptr = "recorded"
      /\ [r EXCEPT !.state = "acknowledged"].ptr = r.ptr
      /\ [r EXCEPT !.ptr = "attempting"].ptr = "attempting"
  BY <1>2 DEF Record
<1>7. CASE Keeps(p, k, [r EXCEPT !.ptr = "recorded"])
  BY <1>3, <1>6, <1>7 DEF Keeps
<1>8. CASE rec' = [rec EXCEPT ![k].state = "acknowledged"] /\ hand' = [hand EXCEPT ![p].todo = @ \ {k}]
  BY <1>3, <1>6, <1>8
<1>9. CASE PointDue(r) /\ rec' = [rec EXCEPT ![k].ptr = "attempting"]
           /\ hand' = [hand EXCEPT ![p].pc = "point", ![p].own = k]
  BY <1>4, <1>6, <1>9 DEF PointDue
<1>10. CASE Keeps(p, k, r)
  BY <1>2, <1>3, <1>10 DEF Keeps
<1> QED BY <1>5, <1>7, <1>8, <1>9, <1>10 DEF Scan

\* box.deliver: the one step that makes a pointer.
LEMMA PointKeeps == ASSUME IInv, NEW p \in Procs, Point(p) PROVE IInv'
<1> DEFINE k == hand[p].own
<1>1. /\ hand[p].pc = "point" /\ holder = p
      /\ UNCHANGED <<pane, sends, faults, taken, asked, wiped>>
  BY Typed DEF Point, At, Held
<1>2. /\ k \in Ids /\ rec[k] # None /\ rec[k] \in Record /\ made[k] = 0 /\ made \in [Ids -> Nat]
      /\ inbox \in [Ids -> {"none", "unread", "read"}] /\ faults \in Nat
  BY <1>1, Typed DEF Held, Hand, IInv, DTypeOK
<1>3. CASE Aborts(p) /\ UNCHANGED <<inbox, made, rec>>
  BY <1>1, <1>2, <1>3, AbortsKeeps
<1>4. CASE /\ inbox' = [inbox EXCEPT ![k] = "unread"] /\ made' = [made EXCEPT ![k] = @ + 1]
           /\ Aborts(p) /\ UNCHANGED rec
  <2>1. inbox' \in [Ids -> {"none", "unread", "read"}] /\ made' \in [Ids -> Nat]
    BY <1>2, <1>4
  <2> QED BY <1>1, <1>2, <1>4, <2>1, AbortsKeeps
<1>5. CASE /\ inbox' = [inbox EXCEPT ![k] = "unread"] /\ made' = [made EXCEPT ![k] = @ + 1]
           /\ rec' = [rec EXCEPT ![k].ptr = "recorded"]
           /\ hand' = [hand EXCEPT ![p].pc = "scan", ![p].todo = @ \ {k}] /\ UNCHANGED holder
  <2> DEFINE h == [hand[p] EXCEPT !.pc = "scan", !.todo = @ \ {k}]
             s == [rec[k] EXCEPT !.ptr = "recorded"]
  <2>1. /\ h \in Hand /\ h.pc = "scan" /\ h.own = k /\ h.mine = hand[p].mine
        /\ h.copy = hand[p].copy /\ h.todo \subseteq hand[p].todo
    BY <1>1, Typed DEF Hand, Labels
  <2>2. s \in Record /\ s.ptr = "recorded" /\ s # None
    <3>1. s \in Record /\ s.ptr = "recorded"
      BY <1>2 DEF Record
    <3> QED BY <3>1, DeliveryAssumption
  <2>3. hand' = [hand EXCEPT ![p] = h] /\ rec' = [rec EXCEPT ![k] = s]
    BY <1>5
  <2> HIDE DEF h, s
  <2>4. \A i \in Ids : rec[i] # None => rec'[i] # None
    BY <1>2, <2>2, <2>3, Typed
  <2>5. Held(p)'
    BY <1>1, <1>2, <1>5, <2>1, <2>3, <2>4, Typed DEF Held, Hand
  <2>6. /\ inbox' \in [Ids -> {"none", "unread", "read"}] /\ made' \in [Ids -> Nat]
        /\ made'[k] = 1 /\ \A i \in Ids : i # k => made'[i] = made[i]
    BY <1>2, <1>5
  <2>7. UNCHANGED <<pane, holder, taken, asked, sends, faults, wiped>>
    BY <1>1, <1>5
  <2>8. /\ made'[k] <= 1 /\ (made'[k] > 0 => s.ptr # "none") /\ h.pc # "idle"
    BY <2>1, <2>2, <2>6
  <2> HIDE DEF k
  <2> QED BY <1>1, <1>2, <2>1, <2>2, <2>3, <2>5, <2>6, <2>7, <2>8, HolderKeeps
<1> QED BY <1>3, <1>4, <1>5 DEF Point

LEMMA UnlockKeeps == ASSUME IInv, NEW p \in Procs, Unlock(p) PROVE IInv'
<1>1. /\ hand[p].pc = "scan" /\ holder = p /\ holder' = None /\ p # None
      /\ UNCHANGED <<pane, inbox, rec, taken, asked, sends, faults, wiped, made>>
  BY Typed, DeliveryAssumption DEF Unlock, At, Still, Held
<1>2. CASE hand' = [hand EXCEPT ![p] = Idle]
  <2>1. Held(p)'
    BY <1>1, <1>2, Typed DEF Held, Idle
  <2> QED BY <1>1, <1>2, <2>1, IdleHand, PassKeeps DEF IInv, DTypeOK
<1>3. ASSUME NEW k \in Ids, Open(k), May(p, rec[k]),
             hand' = [hand EXCEPT ![p] = [Idle EXCEPT !.pc = "mark", !.mine = k,
                        !.body = rec[k].body, !.copy = rec[k], !.view.box = hand[p].view.box]]
      PROVE  IInv'
  <2> DEFINE h == [Idle EXCEPT !.pc = "mark", !.mine = k, !.body = rec[k].body, !.copy = rec[k],
                               !.view.box = hand[p].view.box]
  <2>1. rec[k] # None /\ rec[k] \in Record /\ rec[k].ptr = "recorded" /\ rec[k].body \in Bodies
    BY <1>3, Typed DEF Open, May, Record
  <2>2. /\ h \in Hand /\ h.pc = "mark" /\ h.mine = k /\ h.body = rec[k].body /\ h.copy = rec[k]
        /\ h.own = None
    <3> DEFINE v == [Idle.view EXCEPT !.box = hand[p].view.box]
    <3>1. v \in View
      BY Typed, IdleHand DEF Hand, View
    <3>2. h = [Idle EXCEPT !.pc = "mark", !.mine = k, !.body = rec[k].body, !.copy = rec[k],
                           !.view = v]
      OBVIOUS
    <3> HIDE DEF h, v
    <3>3. Idle.own = None
      BY DEF Idle
    <3> QED BY <2>1, <3>1, <3>2, <3>3, IdleHand DEF Hand, Labels
  <2>3. hand' = [hand EXCEPT ![p] = h]
    BY <1>3
  <2> HIDE DEF h
  <2>4. Held(p)'
    BY <1>1, <2>1, <2>2, <2>3, Typed, DeliveryAssumption DEF Held
  <2> QED BY <1>1, <2>2, <2>3, <2>4, PassKeeps DEF IInv, DTypeOK
<1> QED BY <1>1, <1>2, <1>3 DEF Unlock

\* A pass's copy, written over the record while nobody has the lock: its pointer
\* was recorded when it was read.
LEMMA CopyKeeps ==
  ASSUME IInv, NEW p \in Procs, holder = None, NEW h \in Hand, hand' = [hand EXCEPT ![p] = h],
         UNCHANGED <<pane, holder, taken, asked, sends, faults, wiped, made>>,
         inbox' \in [Ids -> {"none", "unread", "read"}],
         NEW k \in Ids, rec[k] # None, NEW r \in Record, r.ptr = "recorded",
         rec' = [rec EXCEPT ![k] = r], Held(p)'
  PROVE  IInv'
<1>1. r # None
  BY DeliveryAssumption
<1>2. /\ hand' \in [Procs -> Hand] /\ \A q \in Procs : q # p => hand'[q] = hand[q]
  BY Typed
<1>3. rec' \in [Ids -> Record \union {None}] /\ \A i \in Ids : rec[i] # None => rec'[i] # None
  BY <1>1, Typed
<1>4. DTypeOK'
  BY <1>2, <1>3 DEF IInv, DTypeOK, At
<1>5. \A i \in Ids : Pointed(i)'
  BY <1>1, <1>3, Typed DEF IInv, Pointed
<1>6. \A q \in Procs : hand[q].pc # "point"
  BY DeliveryAssumption DEF IInv, Held
<1> QED BY <1>2, <1>3, <1>4, <1>5, <1>6, StepKeeps

LEMMA MarkKeeps == ASSUME IInv, NEW p \in Procs, Mark(p) PROVE IInv'
<1> DEFINE k == hand[p].mine
           r == [hand[p].copy EXCEPT !.tried = TRUE]
<1>1. /\ hand[p].pc = "mark" /\ holder # p /\ k # None /\ k \in Ids /\ rec[k] # None
      /\ hand[p].copy \in Record /\ hand[p].copy.ptr = "recorded"
      /\ UNCHANGED <<pane, inbox, holder, taken, asked, sends, faults, wiped, made>>
  BY Typed DEF Mark, At, Still, Held, Hand
<1>2. CASE hand' = [hand EXCEPT ![p] = Idle] /\ UNCHANGED rec
  <2>1. Held(p)'
    BY <1>1, <1>2, Typed DEF Held, Idle
  <2> QED BY <1>1, <1>2, <2>1, IdleHand, PassKeeps DEF IInv, DTypeOK
<1>3. ASSUME holder = None, rec' = [rec EXCEPT ![k] = r], NEW l \in {"submit", "send"},
             hand' = [hand EXCEPT ![p].copy = r, ![p].view = NoView, ![p].pc = l]
      PROVE  IInv'
  <2> DEFINE h == [hand[p] EXCEPT !.copy = r, !.view = NoView, !.pc = l]
  <2>1. r \in Record /\ r.ptr = "recorded" /\ r # None
    <3>1. r \in Record /\ r.ptr = "recorded"
      BY <1>1 DEF Record
    <3> QED BY <3>1, DeliveryAssumption
  <2> HIDE DEF r
  <2>2. /\ h \in Hand /\ h.pc = l /\ h.mine = k /\ h.body = hand[p].body /\ h.copy = r
        /\ h.own = hand[p].own
    BY <2>1, Typed, IdleHand DEF Hand, Labels
  <2>3. hand' = [hand EXCEPT ![p] = h]
    BY <1>3
  <2> HIDE DEF h
  <2>4. \A i \in Ids : rec[i] # None => rec'[i] # None
    BY <1>1, <1>3, <2>1, Typed
  <2>5. Held(p)'
    BY <1>1, <1>3, <2>1, <2>2, <2>3, <2>4, Typed DEF Held, Hand
  <2>6. inbox' \in [Ids -> {"none", "unread", "read"}]
    BY <1>1 DEF IInv, DTypeOK
  <2> HIDE DEF k
  <2> QED BY <1>1, <1>3, <2>1, <2>2, <2>3, <2>5, <2>6, CopyKeeps
<1> QED BY <1>2, <1>3 DEF Mark

\* A step of a recovery that looks, tries or fails to take the lock.
LEMMA RecoveryKeeps ==
  ASSUME IInv, NEW p \in Procs, Submit(p) \/ Send(p) \/ Failed(p) PROVE IInv'
<1>1. /\ hand[p].pc \in {"submit", "send", "failed"} /\ hand[p].mine # None
      /\ hand[p].mine \in Ids /\ holder # p
      /\ UNCHANGED <<pane, inbox, rec, taken, asked, sends, faults, wiped, made>>
  BY Typed DEF Submit, Send, Failed, At, Still, Held, Hand
<1>2. CASE Aborts(p)
  BY <1>1, <1>2, AbortsKeeps DEF IInv, DTypeOK
<1>3. ASSUME NEW h \in Hand, hand' = [hand EXCEPT ![p] = h], h.mine = hand[p].mine,
             h.body = hand[p].body, h.copy = hand[p].copy, h.own \in {hand[p].own, h.mine},
             \/ h.pc \in {"watch", "failed"} /\ UNCHANGED holder
             \/ h.pc = "look" /\ holder = None /\ holder' = p
             \/ h.pc = "giveup" /\ h.own = h.mine /\ holder = None /\ holder' = p
      PROVE  IInv'
  <2>1. Held(p)'
    BY <1>1, <1>3, Typed DEF Held
  <2> QED BY <1>1, <1>3, <2>1, PassKeeps DEF IInv, DTypeOK
<1>4. ASSUME NEW l \in {"look", "failed"}, Goto(p, l),
             IF l = "look" THEN holder = None /\ holder' = p ELSE UNCHANGED holder
      PROVE  IInv'
  <2> DEFINE h == [hand[p] EXCEPT !.pc = l]
  <2>1. /\ h \in Hand /\ h.pc = l /\ h.mine = hand[p].mine /\ h.body = hand[p].body
        /\ h.copy = hand[p].copy /\ h.own = hand[p].own
    BY Typed DEF Hand, Labels
  <2>2. hand' = [hand EXCEPT ![p] = h]
    BY <1>4 DEF Goto
  <2> HIDE DEF h
  <2> QED BY <1>3, <1>4, <2>1, <2>2
<1>5. CASE hand' = [hand EXCEPT ![p].pc = "watch", ![p].calm = ~pane.busy] /\ UNCHANGED holder
  <2> DEFINE h == [hand[p] EXCEPT !.pc = "watch", !.calm = ~pane.busy]
  <2>1. /\ h \in Hand /\ h.pc = "watch" /\ h.mine = hand[p].mine /\ h.body = hand[p].body
        /\ h.copy = hand[p].copy /\ h.own = hand[p].own
    BY Typed DEF Hand, Labels
  <2>2. hand' = [hand EXCEPT ![p] = h]
    BY <1>5
  <2> HIDE DEF h
  <2> QED BY <1>3, <1>5, <2>1, <2>2
<1>6. CASE /\ hand' = [hand EXCEPT ![p].pc = "giveup", ![p].own = hand[p].mine, ![p].doubt = TRUE]
           /\ holder = None /\ holder' = p
  <2> DEFINE h == [hand[p] EXCEPT !.pc = "giveup", !.own = hand[p].mine, !.doubt = TRUE]
  <2>1. /\ h \in Hand /\ h.pc = "giveup" /\ h.mine = hand[p].mine /\ h.body = hand[p].body
        /\ h.copy = hand[p].copy /\ h.own = hand[p].mine
    BY Typed DEF Hand, Labels
  <2>2. hand' = [hand EXCEPT ![p] = h]
    BY <1>6
  <2> HIDE DEF h
  <2> QED BY <1>3, <1>6, <2>1, <2>2
<1>7. Submit(p) => IInv'
  BY <1>4, <1>5 DEF Submit
<1>8. Send(p) => IInv'
  BY <1>4 DEF Send, Locks, Free
<1>9. Failed(p) => IInv'
  BY <1>2, <1>6 DEF Failed, Locks, Free
<1> QED BY <1>7, <1>8, <1>9

\* A recovery that was confirmed.
LEMMA SentKeeps == ASSUME IInv, NEW p \in Procs, Sent(p) PROVE IInv'
<1> DEFINE k == hand[p].mine
           r == [hand[p].copy EXCEPT !.state = "delivered"]
<1>1. /\ hand[p].pc = "sent" /\ holder # p /\ k # None /\ k \in Ids /\ rec[k] # None
      /\ hand[p].copy \in Record /\ hand[p].copy.ptr = "recorded"
      /\ hand' = [hand EXCEPT ![p] = Idle]
      /\ UNCHANGED <<pane, holder, taken, asked, sends, faults, wiped, made>>
  BY Typed DEF Sent, At, Still, Held, Hand
<1>2. Held(p)'
  BY <1>1, Typed DEF Held, Idle
<1>3. inbox' \in [Ids -> {"none", "unread", "read"}]
  BY <1>1 DEF IInv, DTypeOK, Sent
<1>4. CASE UNCHANGED rec
  BY <1>1, <1>2, <1>3, <1>4, IdleHand, PassKeeps
<1>5. CASE holder = None /\ rec' = [rec EXCEPT ![k] = r]
  <2>1. r \in Record /\ r.ptr = "recorded"
    BY <1>1 DEF Record
  <2> HIDE DEF k, r
  <2> QED BY <1>1, <1>2, <1>3, <1>5, <2>1, IdleHand, CopyKeeps
<1> QED BY <1>4, <1>5 DEF Sent

-----------------------------------------------------------------------------
(* The theorems.                                                            *)

\* Nobody has anything in hand, and nothing was recorded.
LEMMA InitEstablishes == DInit => IInv
<1> SUFFICES ASSUME DInit PROVE IInv
  OBVIOUS
<1>1. DTypeOK
  BY IdleHand DEF DInit, DTypeOK, Boxes
<1>2. ASSUME NEW p \in Procs PROVE Held(p)
  BY <1>2, DeliveryAssumption DEF DInit, Held, Idle
<1>3. \A k \in Ids : Pointed(k)
  BY DEF DInit, Pointed
<1> QED BY <1>1, <1>2, <1>3 DEF IInv

\* Every step keeps the invariant.
LEMMA NextKeeps == IInv /\ [DNext]_dvars => IInv'
<1> SUFFICES ASSUME IInv, [DNext]_dvars PROVE IInv'
  OBVIOUS
<1>1. CASE UNCHANGED dvars
  <2>1. DTypeOK'
    BY <1>1 DEF IInv, DTypeOK, dvars, At
  <2> QED BY <1>1, <2>1, WorldKeeps DEF dvars
<1>2. ASSUME NEW p \in Procs, Sends(p) PROVE IInv'
  BY <1>2, LookKeeps, TypeKeeps, EnterKeeps, WatchKeeps, GiveUpKeeps, WipeKeeps, CrashKeeps
     DEF Sends
<1>3. ASSUME NEW p \in Senders, NEW b \in Bodies, Call(p, b) PROVE IInv'
  BY <1>3, CallKeeps
<1>4. ASSUME NEW p \in Passes,
             \/ Begin(p) \/ Lock(p) \/ Point(p) \/ Unlock(p) \/ Mark(p)
             \/ Submit(p) \/ Send(p) \/ Failed(p) \/ Sent(p)
             \/ \E k \in Ids : Scan(p, k)
      PROVE  IInv'
  <2>1. p \in Procs
    BY DEF Procs
  <2> QED BY <1>4, <2>1, BeginKeeps, LockKeeps, PointKeeps, UnlockKeeps, MarkKeeps,
             RecoveryKeeps, SentKeeps, ScanKeeps
<1> QED BY <1>1, <1>2, <1>3, <1>4, TurnKeeps, HumanKeeps, ReadKeeps DEF DNext

\* Types, what each process has in hand, and which records have pointers: true in
\* every reachable state.
THEOREM Invariance == DSpec => []IInv
BY InitEstablishes, NextKeeps, PTL DEF DSpec

\* The pane, the records and what processes have in hand keep their type, and the
\* lock is never held by a process that is done.
THEOREM TypeCorrect == DSpec => []DTypeOK
<1>1. IInv => DTypeOK
  BY DEF IInv
<1> QED BY <1>1, Invariance, PTL

\* supervise: one pointer at most is made for a record, through lost answers, deaths,
\* overlapping passes and copies written back.
THEOREM OnePointer == DSpec => []PointerOnce
<1>1. IInv => PointerOnce
  BY DEF IInv, Pointed, PointerOnce
<1> QED BY <1>1, Invariance, PTL

-----------------------------------------------------------------------------
(* What becomes of a body, under Serial.                                    *)

\* The agent was given it, or a human took it; or it is on its way there.
Gone(b) == taken[b] > 0 \/ b \in wiped
Here(b) == pane.box = b \/ b \in pane.queued \/ Gone(b)

\* Who has the lock at which label, and what the body in hand has to do with the records
\* and with the composer.
Work(p) ==
  LET h == hand[p] IN
  /\ h.pc = "idle" => h = Idle
  /\ h.pc \in {"look", "type", "enter", "giveup", "wipe", "erase", "erased"} => holder = p
  /\ h.pc = "watch" => holder = p \/ (p \in Passes /\ holder = None)
  /\ h.pc = "submit" => holder = None
  /\ h.pc \in {"mark", "submit"} => h.own = None
  /\ h.pc \in {"mark", "submit", "send", "failed", "sent"} => p \in Passes
  /\ h.pc \in {"type", "enter", "watch"} /\ h.own # None => rec[h.own].body = h.body
  /\ h.pc \in {"lock", "scan", "point"} \/ p \in Senders => h.mine = None
  /\ h.mine # None => h.copy.body = h.body /\ rec[h.mine].body = h.body /\ h.copy.state # "delivered"
  /\ h.pc \in {"type", "erased"} => pane.box \notin Bodies
  /\ h.pc \in {"enter", "watch"} => Here(h.body)
  /\ h.pc = "sent" => Gone(h.body)

CarefulInv == IInv /\ DeliveredIsTaken /\ \A p \in Procs : Work(p)

\* What the invariant says of one process.
LEMMA Known ==
  ASSUME CarefulInv, NEW p \in Procs
  PROVE  /\ IInv /\ hand[p] \in Hand /\ Held(p) /\ Work(p)
         /\ pane \in [box : Boxes, queued : SUBSET Bodies, busy : BOOLEAN]
         /\ taken \in [Bodies -> Nat] /\ wiped \subseteq Bodies
         /\ rec \in [Ids -> Record \union {None}]
BY Typed DEF CarefulInv

\* What a step of p must show: the records keep their bodies, the lock and the composer
\* are left to whoever works under it, and a body that was taken stays so.
LEMMA OthersWork ==
  ASSUME CarefulInv, Serial, IInv', NEW p \in Procs,
         \A q \in Procs : q # p => hand'[q] = hand[q],
         \A k \in Ids : rec[k] # None => rec'[k] # None /\ rec'[k].body = rec[k].body,
         holder' # holder => (holder = p /\ holder' = None) \/ (holder' = p /\ Free),
         \A b \in Bodies : Gone(b) => Gone(b)',
         \/ holder = p
         \/ /\ pane.box \notin Bodies => pane'.box \notin Bodies
            /\ \A b \in Bodies : Here(b) => Here(b)',
         \A k \in Ids : rec'[k] # None /\ rec'[k].state = "delivered" =>
           (rec[k] # None /\ rec[k].state = "delivered") \/ Gone(rec[k].body)',
         Work(p)'
  PROVE  CarefulInv'
<1>1. DeliveredIsTaken'
  <2> SUFFICES ASSUME NEW k \in Ids, rec'[k] # None, rec'[k].state = "delivered"
               PROVE  Gone(rec[k].body)'
    BY DEF DeliveredIsTaken, Gone
  <2>1. CASE rec[k] # None /\ rec[k].state = "delivered"
    <3>1. Gone(rec[k].body) /\ rec'[k].body = rec[k].body
      BY <2>1 DEF CarefulInv, DeliveredIsTaken, Gone
    <3>2. rec[k].body \in Bodies
      BY <2>1 DEF CarefulInv, IInv, DTypeOK, Record
    <3> QED BY <3>1, <3>2 DEF Gone
  <2> QED BY <2>1
<1>2. ASSUME NEW q \in Procs, q # p PROVE Work(q)'
  <2>1. hand'[q] = hand[q] /\ hand[q] \in Hand /\ Held(q) /\ Work(q) /\ IInv
    BY <1>2, Known
  <2>2. /\ hand[q].own # None => hand[q].own \in Ids /\ rec'[hand[q].own].body = rec[hand[q].own].body
        /\ hand[q].mine # None => hand[q].mine \in Ids /\ rec'[hand[q].mine].body = rec[hand[q].mine].body
    BY <2>1 DEF Hand, Held
  <2>3. hand[q].pc \notin {"idle", "lock", "scan", "point"} => hand[q].body \in Bodies
    BY <2>1 DEF Held
  <2>4. holder = q => holder' = q
    BY <1>2, DeliveryAssumption DEF Free
  <2>5. hand[q].pc \in {"submit", "watch"} /\ q \in Passes /\ holder = None => holder' = None
    BY <1>2, DeliveryAssumption DEF Free, Pressing
  <2>6. hand[q].pc \in {"type", "erased"} => pane'.box \notin Bodies
    BY <1>2, <2>1 DEF Work
  <2>7. hand[q].pc \in {"enter", "watch"} => Here(hand[q].body)'
    BY <1>2, <2>1, <2>3, DeliveryAssumption DEF Work
  <2>8. hand[q].pc = "sent" => Gone(hand[q].body)'
    BY <2>1, <2>3 DEF Work
  <2> QED BY <2>1, <2>2, <2>4, <2>5, <2>6, <2>7, <2>8 DEF Work, Gone, Here
<1> QED BY <1>1, <1>2 DEF CarefulInv

\* A key takes no body out of the composer but to the agent or to Codex's queue.
LEMMA PressBrings ==
  ASSUME CarefulInv, Press, UNCHANGED wiped
  PROVE  /\ pane.box \notin Bodies => pane'.box \notin Bodies
         /\ \A b \in Bodies : (Here(b) => Here(b)') /\ (Gone(b) => Gone(b)')
<1>1. /\ pane \in [box : Boxes, queued : SUBSET Bodies, busy : BOOLEAN]
      /\ taken \in [Bodies -> Nat]
  BY DEF CarefulInv, IInv, DTypeOK
<1>2. CASE UNCHANGED <<pane, taken>>
  BY <1>2 DEF Here, Gone
<1>3. CASE pane' = [pane EXCEPT !.box = "empty", !.busy = TRUE] /\ Gives(pane.box)
  BY <1>1, <1>3, DeliveryAssumption DEF Here, Gone, Gives
<1>4. CASE /\ pane' = [pane EXCEPT !.box = "empty", !.queued = @ \union {pane.box}]
           /\ UNCHANGED taken
  BY <1>1, <1>4, DeliveryAssumption DEF Here, Gone
<1> QED BY <1>2, <1>3, <1>4 DEF Press

\* Nor do the agent and its human.
LEMMA WorldCareful == ASSUME CarefulInv, IInv', Turn \/ Human \/ Read PROVE CarefulInv'
<1>1. UNCHANGED <<rec, holder, hand>>
  BY DEF Turn, Human, Read
<1>2. /\ pane \in [box : Boxes, queued : SUBSET Bodies, busy : BOOLEAN]
      /\ taken \in [Bodies -> Nat] /\ rec \in [Ids -> Record \union {None}]
  BY DEF CarefulInv, IInv, DTypeOK
<1>3. /\ pane.box \notin Bodies => pane'.box \notin Bodies
      /\ \A b \in Bodies : (Here(b) => Here(b)') /\ (Gone(b) => Gone(b)')
  <2>1. CASE Turn
    BY <1>2, <2>1 DEF Turn, Here, Gone, Gives
  <2>2. CASE Human
    <3>1. CASE /\ \E t \in {"empty", "foreign"} : pane' = [pane EXCEPT !.box = t]
               /\ wiped' = wiped \union ({pane.box} \intersect Bodies) /\ UNCHANGED taken
      BY <1>2, <3>1, DeliveryAssumption DEF Here, Gone
    <3>2. CASE /\ pane.box \in Bodies /\ pane' = [pane EXCEPT !.box = "empty", !.busy = TRUE]
               /\ Gives(pane.box) /\ UNCHANGED wiped
      BY <1>2, <3>2, DeliveryAssumption DEF Here, Gone, Gives
    <3> QED BY <2>2, <3>1, <3>2 DEF Human
  <2>3. CASE Read
    BY <2>3 DEF Read, Here, Gone
  <2> QED BY <2>1, <2>2, <2>3
<1>4. DeliveredIsTaken'
  <2>1. \A k \in Ids : rec[k] # None => rec[k].body \in Bodies
    BY <1>2 DEF Record
  <2> QED BY <1>1, <1>3, <2>1 DEF CarefulInv, DeliveredIsTaken, Gone
<1>5. ASSUME NEW p \in Procs PROVE Work(p)'
  <2>1. hand[p].pc \in {"enter", "watch", "sent"} => hand[p].body \in Bodies
    BY Known DEF Held
  <2> QED BY <1>1, <1>3, <2>1, Known DEF Work, Here, Gone
<1> QED BY <1>4, <1>5 DEF CarefulInv

\* Leaving send, submit_owned or failed(): a pass that saw the body go says so.
LEMMA LeaveWork ==
  ASSUME CarefulInv, NEW p \in Procs, NEW sent \in BOOLEAN, Leave(p, sent),
         hand[p].pc \in {"look", "watch", "giveup", "wipe", "erased"},
         \A k \in Ids : rec[k] # None => rec'[k] # None /\ rec'[k].body = rec[k].body,
         UNCHANGED <<taken, wiped>>, sent => Gone(hand[p].body)
  PROVE  /\ Work(p)' /\ \A q \in Procs : q # p => hand'[q] = hand[q]
         /\ holder' # holder => holder = p /\ holder' = None
<1>1. /\ \A q \in Procs : q # p => hand'[q] = hand[q]
      /\ holder' # holder => holder = p /\ holder' = None
  BY LeaveHand, Known
<1>2. CASE p \in Senders \/ (~sent /\ hand[p].doubt)
  <2>1. hand'[p] = Idle
    BY <1>2, Known DEF Leave, IInv, DTypeOK
  <2> QED BY <1>1, <2>1 DEF Work, Idle
<1>3. CASE ~(p \in Senders \/ (~sent /\ hand[p].doubt))
  <2> DEFINE h == [hand[p] EXCEPT !.pc = IF sent THEN "sent" ELSE "failed"]
  <2>1. hand'[p] = h /\ p \in Passes
    BY <1>3, Known DEF Leave, IInv, DTypeOK, Procs
  <2>2. /\ h.pc = IF sent THEN "sent" ELSE "failed"
        /\ h.body = hand[p].body /\ h.mine = hand[p].mine /\ h.copy = hand[p].copy
    BY Known DEF Hand
  <2>3. h.mine # None => h.mine \in Ids /\ rec[h.mine] # None
    BY <2>2, Known DEF Hand, Held
  <2>4. p \notin Senders
    BY <2>1, DeliveryAssumption
  <2> HIDE DEF h
  <2> QED BY <1>1, <2>1, <2>2, <2>3, <2>4, Known DEF Work, Gone
<1> QED BY <1>1, <1>2, <1>3

\* A record in another state has the same body.
LEMMA SameBodies ==
  ASSUME CarefulInv, NEW k \in Ids, rec[k] # None,
         NEW s \in {"prepared", "unknown", "queued", "cleared", "delivered", "acknowledged"},
         rec' = [rec EXCEPT ![k].state = s]
  PROVE  /\ \A i \in Ids : rec[i] # None => rec'[i] # None /\ rec'[i].body = rec[i].body
         /\ \A i \in Ids : rec[i] = None => rec'[i] = None
         /\ \A i \in Ids : i # k => rec'[i] = rec[i]
         /\ rec'[k].state = s
<1> DEFINE r == [rec[k] EXCEPT !.state = s]
<1>1. rec[k] \in Record /\ rec \in [Ids -> Record \union {None}]
  BY DEF CarefulInv, IInv, DTypeOK
<1>2. r \in Record /\ r.body = rec[k].body /\ r.state = s
  BY <1>1 DEF Record
<1>3. rec' = [rec EXCEPT ![k] = r]
  OBVIOUS
<1> HIDE DEF r
<1> QED BY <1>1, <1>2, <1>3, DeliveryAssumption

\* What a process has in hand, when the label it goes to and the fields that matter are known.
LEMMA HandIs ==
  ASSUME CarefulInv, NEW p \in Procs, NEW h, hand' = [hand EXCEPT ![p] = h]
  PROVE  hand'[p] = h /\ \A q \in Procs : q # p => hand'[q] = hand[q]
BY Known DEF IInv, DTypeOK

\* Going on at another label with the same things in hand.
LEMMA GoingOn ==
  ASSUME CarefulInv, NEW p \in Procs, NEW l \in Labels, Goto(p, l)
  PROVE  /\ \A q \in Procs : q # p => hand'[q] = hand[q]
         /\ hand'[p].pc = l /\ hand'[p].body = hand[p].body /\ hand'[p].own = hand[p].own
         /\ hand'[p].mine = hand[p].mine /\ hand'[p].copy = hand[p].copy
<1> DEFINE h == [hand[p] EXCEPT !.pc = l]
<1>1. hand[p] \in Hand /\ IInv
  BY Known
<1>2. /\ h.pc = l /\ h.body = hand[p].body /\ h.own = hand[p].own
      /\ h.mine = hand[p].mine /\ h.copy = hand[p].copy
  BY <1>1 DEF Hand
<1>3. hand' = [hand EXCEPT ![p] = h]
  BY DEF Goto
<1> HIDE DEF h
<1> QED BY <1>2, <1>3, HandIs

-----------------------------------------------------------------------------
(* send.                                                                    *)

LEMMA CallCareful ==
  ASSUME CarefulInv, Serial, IInv', NEW p \in Senders, NEW b \in Bodies, Call(p, b)
  PROVE  CarefulInv'
<1>1. p \in Procs /\ Work(p) /\ hand[p] \in Hand
  BY Known DEF Procs
<1>2. /\ hand[p].pc = "idle" /\ Free /\ holder' = p /\ UNCHANGED <<pane, rec, taken, wiped>>
      /\ hand' = [hand EXCEPT ![p].pc = "look", ![p].body = b]
  BY DEF Call, At, Locks
<1> DEFINE h == [hand[p] EXCEPT !.pc = "look", !.body = b]
<1>3. h.pc = "look" /\ h.mine = hand[p].mine
  BY <1>1 DEF Hand
<1>4. hand' = [hand EXCEPT ![p] = h]
  BY <1>2
<1> HIDE DEF h
<1>5. hand'[p] = h /\ \A q \in Procs : q # p => hand'[q] = hand[q]
  BY <1>1, <1>4, HandIs
<1>6. Work(p)'
  BY <1>1, <1>2, <1>3, <1>5 DEF Work
<1> QED BY <1>1, <1>2, <1>5, <1>6, OthersWork DEF Here, Gone

LEMMA LookCareful ==
  ASSUME CarefulInv, Serial, IInv', NEW p \in Procs, Look(p) PROVE CarefulInv'
<1> DEFINE b == hand[p].body
<1>1. /\ hand[p].pc = "look" /\ holder = p /\ b \in Bodies
      /\ UNCHANGED <<pane, taken, wiped>>
  BY Known DEF Look, At, Still, Work, Held
<1>2. ASSUME pane.box = b, hand[p].own = None, UNCHANGED <<rec, holder>>,
             hand' = [hand EXCEPT ![p].pc = "watch", ![p].calm = ~pane.busy]
      PROVE  CarefulInv'
  <2> DEFINE h == [hand[p] EXCEPT !.pc = "watch", !.calm = ~pane.busy]
  <2>1. /\ h.pc = "watch" /\ h.body = b /\ h.own = None
        /\ h.mine = hand[p].mine /\ h.copy = hand[p].copy
    BY <1>2, Known DEF Hand
  <2>2. hand' = [hand EXCEPT ![p] = h]
    BY <1>2
  <2> HIDE DEF h
  <2>3. hand'[p] = h /\ \A q \in Procs : q # p => hand'[q] = hand[q]
    BY <2>2, HandIs
  <2>4. Work(p)'
    BY <1>1, <1>2, <2>1, <2>3, Known DEF Work, Here
  <2> QED BY <1>1, <1>2, <2>3, <2>4, OthersWork DEF Gone
<1>3. ASSUME NEW k \in Ids, UNCHANGED <<rec, holder>>,
             hand' = [hand EXCEPT ![p].pc = "giveup", ![p].own = k]
      PROVE  CarefulInv'
  <2> DEFINE h == [hand[p] EXCEPT !.pc = "giveup", !.own = k]
  <2>1. /\ h.pc = "giveup" /\ h.body = b /\ h.mine = hand[p].mine /\ h.copy = hand[p].copy
    BY Known DEF Hand
  <2>2. hand' = [hand EXCEPT ![p] = h]
    BY <1>3
  <2> HIDE DEF h
  <2>3. hand'[p] = h /\ \A q \in Procs : q # p => hand'[q] = hand[q]
    BY <2>2, HandIs
  <2>4. Work(p)'
    BY <1>1, <1>3, <2>1, <2>3, Known DEF Work
  <2> QED BY <1>1, <1>3, <2>3, <2>4, OthersWork DEF Gone
<1>4. ASSUME Leave(p, FALSE), UNCHANGED rec PROVE CarefulInv'
  BY <1>1, <1>4, LeaveWork, OthersWork DEF Gone
<1>5. ASSUME BeginRecord(p, b), pane.box = "empty" PROVE CarefulInv'
  <2>1. CASE Leave(p, FALSE) /\ UNCHANGED rec
    BY <1>4, <2>1
  <2>2. ASSUME NEW k \in Ids, UNCHANGED holder,
               \/ rec[k] = None /\ rec' = [rec EXCEPT ![k] = Fresh(b)]
               \/ rec[k] # None /\ rec[k].body = b /\ rec' = [rec EXCEPT ![k].state = "prepared"],
               hand' = [hand EXCEPT ![p].pc = "type", ![p].own = k, ![p].calm = ~pane.busy]
        PROVE  CarefulInv'
    <3> DEFINE h == [hand[p] EXCEPT !.pc = "type", !.own = k, !.calm = ~pane.busy]
    <3>1. /\ h.pc = "type" /\ h.body = b /\ h.own = k
          /\ h.mine = hand[p].mine /\ h.copy = hand[p].copy
      BY Known DEF Hand
    <3>2. hand' = [hand EXCEPT ![p] = h]
      BY <2>2
    <3> HIDE DEF h
    <3>3. hand'[p] = h /\ \A q \in Procs : q # p => hand'[q] = hand[q]
      BY <3>2, HandIs
    <3>4. /\ rec'[k] # None /\ rec'[k].body = b /\ rec'[k].state # "delivered"
          /\ \A i \in Ids : rec[i] # None => rec'[i] # None /\ rec'[i].body = rec[i].body
          /\ \A i \in Ids : i # k => rec'[i] = rec[i]
      <4>1. CASE rec[k] = None /\ rec' = [rec EXCEPT ![k] = Fresh(b)]
        <5>1. Fresh(b) \in Record /\ Fresh(b).body = b /\ Fresh(b).state = "prepared"
          BY <1>1 DEF Fresh, Record
        <5> QED BY <4>1, <5>1, Known, DeliveryAssumption
      <4>2. CASE rec[k] # None /\ rec[k].body = b /\ rec' = [rec EXCEPT ![k].state = "prepared"]
        BY <4>2, SameBodies
      <4> QED BY <2>2, <4>1, <4>2
    <3>5. hand[p].mine # None => hand[p].mine \in Ids /\ rec[hand[p].mine] # None
      BY Known DEF Hand, Held
    <3>6. Work(p)'
      BY <1>1, <1>5, <2>2, <3>1, <3>3, <3>4, <3>5, Known, DeliveryAssumption DEF Work
    <3> QED BY <1>1, <2>2, <3>3, <3>4, <3>6, OthersWork DEF Gone
  <2>3. ASSUME ~Leave(p, FALSE) \/ ~UNCHANGED rec PROVE CarefulInv'
    <3>1. PICK k \in Ids :
            /\ IF Matches(b) = {} THEN \A i \in Ids : rec[i] = None <=> i >= k
                                 ELSE Matches(b) = {k}
            /\ rec' = [rec EXCEPT ![k] = IF Matches(b) = {} THEN Fresh(b)
                                                           ELSE [@ EXCEPT !.state = "prepared"]]
            /\ hand' = [hand EXCEPT ![p].pc = "type", ![p].own = k, ![p].calm = ~pane.busy]
            /\ UNCHANGED holder
      BY <1>5, <2>3 DEF BeginRecord
    <3>2. CASE Matches(b) = {}
      <4>1. rec[k] = None
        BY <3>1, <3>2 DEF Ids
      <4> QED BY <2>2, <3>1, <3>2, <4>1
    <3>3. CASE Matches(b) # {}
      <4>1. rec[k] # None /\ rec[k].body = b
        BY <3>1, <3>3 DEF Matches, Open
      <4> QED BY <2>2, <3>1, <3>3, <4>1
    <3> QED BY <3>2, <3>3
  <2> QED BY <2>1, <2>3
<1> QED BY <1>2, <1>3, <1>4, <1>5 DEF Look, Matches

LEMMA TypeCareful ==
  ASSUME CarefulInv, Serial, IInv', NEW p \in Procs, Type(p) PROVE CarefulInv'
<1>1. /\ hand[p].pc = "type" /\ holder = p /\ hand[p].body \in Bodies /\ pane.box \notin Bodies
      /\ UNCHANGED <<rec, holder, taken>>
  BY Known DEF Type, At, Work, Held
<1>2. PICK l \in {"enter", "giveup"} : Goto(p, l) /\ (l = "enter" =>
        /\ pane' = [pane EXCEPT !.box = IF @ = "empty" THEN hand[p].body ELSE "foreign"]
        /\ wiped' = IF pane.box = "foreign" THEN wiped \union {hand[p].body} ELSE wiped)
  BY DEF Type
<1>3. /\ \A q \in Procs : q # p => hand'[q] = hand[q]
      /\ hand'[p].pc = l /\ hand'[p].body = hand[p].body /\ hand'[p].own = hand[p].own
      /\ hand'[p].mine = hand[p].mine /\ hand'[p].copy = hand[p].copy
  BY <1>2, GoingOn DEF Labels
<1>4. wiped \subseteq wiped'
  BY DEF Type
<1>5. l = "enter" => Here(hand[p].body)'
  BY <1>1, <1>2, <1>3, Known DEF Here, Gone, Boxes
<1>6. Work(p)'
  BY <1>1, <1>3, <1>5, Known DEF Work, Here, Gone
<1> QED BY <1>1, <1>3, <1>4, <1>6, OthersWork DEF Gone

LEMMA EnterCareful ==
  ASSUME CarefulInv, Serial, IInv', NEW p \in Procs, Enter(p) PROVE CarefulInv'
<1>1. /\ hand[p].pc = "enter" /\ Goto(p, "watch") /\ Press /\ hand[p].body \in Bodies
      /\ UNCHANGED <<rec, holder, wiped>>
  BY Known DEF Enter, At, Still, Held
<1>2. /\ \A q \in Procs : q # p => hand'[q] = hand[q]
      /\ hand'[p].pc = "watch" /\ hand'[p].body = hand[p].body /\ hand'[p].own = hand[p].own
      /\ hand'[p].mine = hand[p].mine /\ hand'[p].copy = hand[p].copy
  BY <1>1, GoingOn DEF Labels
<1>3. Here(hand[p].body)'
  BY <1>1, <1>2, PressBrings, Known DEF Work, Here, Gone
<1>4. Work(p)'
  BY <1>1, <1>2, <1>3, Known DEF Work
<1> QED BY <1>1, <1>2, <1>4, PressBrings, OthersWork

\* _verify_codex_submission: what it takes for proof is that the body went to the agent.
LEMMA WatchCareful ==
  ASSUME CarefulInv, Serial, IInv', NEW p \in Procs, Watch(p) PROVE CarefulInv'
<1> DEFINE b == hand[p].body
           k == hand[p].own
           custody == holder = p /\ k # None
<1>1. /\ hand[p].pc = "watch" /\ b \in Bodies /\ Here(b) /\ UNCHANGED wiped
      /\ holder = p \/ (p \in Passes /\ holder = None)
  BY Known DEF Watch, At, Still, Work, Held
<1>2. k # None => k \in Ids /\ rec[k] # None /\ rec[k].body = b
  BY <1>1, Known DEF Held, Hand, Work
<1>3. CASE /\ Observed(p, b) /\ Leave(p, TRUE) /\ UNCHANGED <<pane, taken>>
           /\ rec' = IF custody THEN [rec EXCEPT ![k].state = "delivered"] ELSE rec
  <2>1. Gone(b)
    BY <1>1, <1>3, DeliveryAssumption DEF Observed, Here
  <2>2. /\ \A i \in Ids : rec[i] # None => rec'[i] # None /\ rec'[i].body = rec[i].body
        /\ \A i \in Ids : rec'[i] # rec[i] => rec[i] # None /\ rec[i].body = b
    BY <1>2, <1>3, SameBodies
  <2>3. Work(p)' /\ \A q \in Procs : q # p => hand'[q] = hand[q]
    BY <1>1, <1>3, <2>1, <2>2, LeaveWork
  <2>4. holder' # holder => holder = p /\ holder' = None
    BY <1>1, <1>3, <2>1, <2>2, LeaveWork
  <2>5. \A i \in Ids : rec'[i] # None /\ rec'[i].state = "delivered" =>
          (rec[i] # None /\ rec[i].state = "delivered") \/ Gone(rec[i].body)'
    <3>1. taken'[b] > 0 \/ b \in wiped'
      BY <1>1, <1>3, <2>1 DEF Gone
    <3> QED BY <2>2, <3>1 DEF Gone
  <2> QED BY <1>1, <1>3, <2>2, <2>3, <2>4, <2>5, OthersWork DEF Here, Gone
<1>4. CASE /\ Press /\ hand' = [hand EXCEPT ![p].again = TRUE, ![p].calm = ~pane.busy]
           /\ UNCHANGED <<rec, holder>>
  <2> DEFINE h == [hand[p] EXCEPT !.again = TRUE, !.calm = ~pane.busy]
  <2>1. /\ h.pc = "watch" /\ h.body = b /\ h.own = k /\ h.mine = hand[p].mine
        /\ h.copy = hand[p].copy
    BY <1>1, Known DEF Hand
  <2>2. hand' = [hand EXCEPT ![p] = h]
    BY <1>4
  <2> HIDE DEF h
  <2>3. hand'[p] = h /\ \A q \in Procs : q # p => hand'[q] = hand[q]
    BY <2>2, HandIs
  <2>4. Here(b)'
    BY <1>1, <1>4, <2>1, <2>3, PressBrings DEF Here, Gone
  <2>5. Work(p)'
    BY <1>1, <1>4, <2>1, <2>3, <2>4, Known DEF Work
  <2> QED BY <1>1, <1>4, <2>3, <2>5, PressBrings, OthersWork
<1>5. CASE custody /\ Goto(p, "giveup") /\ UNCHANGED <<holder, rec, pane, taken>>
  <2>1. /\ \A q \in Procs : q # p => hand'[q] = hand[q]
        /\ hand'[p].pc = "giveup" /\ hand'[p].body = b /\ hand'[p].own = k
        /\ hand'[p].mine = hand[p].mine /\ hand'[p].copy = hand[p].copy
    BY <1>5, GoingOn DEF Labels
  <2>2. Work(p)'
    BY <1>1, <1>5, <2>1, Known DEF Work
  <2> QED BY <1>1, <1>5, <2>1, <2>2, OthersWork DEF Here, Gone
<1>6. CASE Leave(p, FALSE) /\ UNCHANGED <<rec, pane, taken>>
  BY <1>1, <1>6, LeaveWork, OthersWork DEF Here, Gone
<1> QED BY <1>3, <1>4, <1>5, <1>6 DEF Watch

-----------------------------------------------------------------------------
(* failed: all of it is done under the lock.                                *)

\* It goes on with the same things in hand.
LEMMA OnCareful ==
  ASSUME CarefulInv, Serial, IInv', NEW p \in Procs, NEW l \in {"look", "wipe", "erase", "erased"},
         Goto(p, l), hand[p].pc \in {"giveup", "wipe", "erase", "erased"},
         l = "erased" => pane'.box \notin Bodies, UNCHANGED <<holder, taken, wiped>>,
         \/ UNCHANGED rec
         \/ \E s \in {"unknown", "queued", "cleared"} : rec' = [rec EXCEPT ![hand[p].own].state = s]
  PROVE  CarefulInv'
<1>1. /\ holder = p /\ hand[p].own \in Ids /\ rec[hand[p].own] # None
      /\ hand[p].mine # None => hand[p].mine \in Ids /\ rec[hand[p].mine] # None
  BY Known DEF Work, Held, Hand
<1>2. /\ \A q \in Procs : q # p => hand'[q] = hand[q]
      /\ hand'[p].pc = l /\ hand'[p].body = hand[p].body /\ hand'[p].own = hand[p].own
      /\ hand'[p].mine = hand[p].mine /\ hand'[p].copy = hand[p].copy
  BY GoingOn DEF Labels
<1>3. /\ \A i \in Ids : rec[i] # None => rec'[i] # None /\ rec'[i].body = rec[i].body
      /\ \A i \in Ids : rec'[i] # None /\ rec'[i].state = "delivered" =>
           rec[i] # None /\ rec[i].state = "delivered"
  BY <1>1, SameBodies
<1>4. Work(p)'
  BY <1>1, <1>2, <1>3, Known DEF Work
<1> QED BY <1>1, <1>2, <1>3, <1>4, OthersWork DEF Gone

LEMMA SettledCareful ==
  ASSUME CarefulInv, Serial, IInv', NEW p \in Procs, NEW c \in BOOLEAN, Settled(p, c),
         hand[p].pc \in {"giveup", "wipe", "erased"}, UNCHANGED <<pane, taken, wiped>>,
         \/ UNCHANGED rec
         \/ \E s \in {"unknown", "queued", "cleared"} : rec' = [rec EXCEPT ![hand[p].own].state = s]
  PROVE  CarefulInv'
<1>1. holder = p /\ hand[p].own \in Ids /\ rec[hand[p].own] # None
  BY Known DEF Work, Held, Hand
<1>2. /\ \A i \in Ids : rec[i] # None => rec'[i] # None /\ rec'[i].body = rec[i].body
      /\ \A i \in Ids : rec'[i] # None /\ rec'[i].state = "delivered" =>
           rec[i] # None /\ rec[i].state = "delivered"
  BY <1>1, SameBodies
<1>3. CASE Goto(p, "look") /\ UNCHANGED holder
  BY <1>3, OnCareful
<1>4. CASE Leave(p, FALSE)
  BY <1>1, <1>2, <1>4, LeaveWork, OthersWork DEF Gone
<1> QED BY <1>3, <1>4 DEF Settled

LEMMA FailedCareful ==
  ASSUME CarefulInv, Serial, IInv', NEW p \in Procs, GiveUp(p) \/ Wipe(p) \/ Erase(p) \/ Erased(p)
  PROVE  CarefulInv'
<1>1. UNCHANGED <<taken, wiped>>
  BY DEF GiveUp, Wipe, Erase, Erased, Still
<1>2. CASE GiveUp(p)
  <2>1. /\ hand[p].pc = "giveup" /\ UNCHANGED pane
        /\ \E s \in {"unknown", "queued", "cleared"} : rec' = [rec EXCEPT ![hand[p].own].state = s]
        /\ Settled(p, FALSE) \/ (Goto(p, "wipe") /\ UNCHANGED holder)
    BY <1>2 DEF GiveUp, At
  <2> QED BY <1>1, <2>1, SettledCareful, OnCareful
<1>3. CASE Wipe(p)
  <2>1. /\ hand[p].pc = "wipe" /\ UNCHANGED <<pane, rec>>
        /\ Settled(p, FALSE) \/ (Goto(p, "erase") /\ UNCHANGED holder)
    BY <1>3 DEF Wipe, At
  <2> QED BY <1>1, <2>1, SettledCareful, OnCareful
<1>4. CASE Erase(p)
  <2>1. hand[p].pc = "erase" /\ UNCHANGED <<rec, holder>> /\ Goto(p, "erased")
    BY <1>4 DEF Erase, At
  <2>2. pane'.box \notin Bodies
    BY <1>4, Known, DeliveryAssumption DEF Erase
  <2> QED BY <1>1, <2>1, <2>2, OnCareful
<1>5. CASE Erased(p)
  <2>1. /\ hand[p].pc = "erased" /\ UNCHANGED pane /\ Settled(p, pane.box = "empty")
        /\ UNCHANGED rec \/ rec' = [rec EXCEPT ![hand[p].own].state = "cleared"]
    BY <1>5 DEF Erased, At
  <2> QED BY <1>1, <2>1, SettledCareful
<1> QED BY <1>2, <1>3, <1>4, <1>5

-----------------------------------------------------------------------------
(* supervise.                                                               *)

\* A process that raises, or dies.
LEMMA AbortsCareful ==
  ASSUME CarefulInv, Serial, IInv', NEW p \in Procs, Aborts(p),
         UNCHANGED <<pane, rec, taken, wiped>>
  PROVE  CarefulInv'
<1>1. hand'[p] = Idle /\ \A q \in Procs : q # p => hand'[q] = hand[q]
  BY HandIs DEF Aborts
<1>2. holder' # holder => holder = p /\ holder' = None
  BY DEF Aborts
<1>3. Work(p)'
  BY <1>1 DEF Work, Idle
<1> QED BY <1>1, <1>2, <1>3, OthersWork DEF Here, Gone

\* A step of a pass that touches neither records nor the pane.
LEMMA PassCareful ==
  ASSUME CarefulInv, Serial, IInv', NEW p \in Procs, NEW h, hand' = [hand EXCEPT ![p] = h],
         UNCHANGED <<pane, rec, taken, wiped>>,
         holder' # holder => (holder = p /\ holder' = None) \/ (holder' = p /\ Free),
         hand'[p] = h => Work(p)'
  PROVE  CarefulInv'
BY HandIs, OthersWork DEF Here, Gone

LEMMA BeginCareful ==
  ASSUME CarefulInv, Serial, IInv', NEW p \in Procs, Begin(p) PROVE CarefulInv'
<1>1. hand[p].pc = "idle" /\ UNCHANGED <<pane, rec, holder, taken, wiped>>
  BY DEF Begin, At, Still
<1>2. PICK v : hand' = [hand EXCEPT ![p].pc = "lock", ![p].view = v]
  BY DEF Begin
<1> DEFINE h == [hand[p] EXCEPT !.pc = "lock", !.view = v]
<1>3. h.pc = "lock" /\ h.mine = hand[p].mine
  BY Known DEF Hand
<1>4. hand' = [hand EXCEPT ![p] = h]
  BY <1>2
<1>5. hand[p].mine = None
  BY <1>1, Known DEF Work, Idle
<1> HIDE DEF h
<1>6. hand'[p] = h => Work(p)'
  BY <1>3, <1>5 DEF Work
<1> QED BY <1>1, <1>4, <1>6, PassCareful

LEMMA LockCareful ==
  ASSUME CarefulInv, Serial, IInv', NEW p \in Procs, Lock(p) PROVE CarefulInv'
<1>1. hand[p].pc = "lock" /\ UNCHANGED <<pane, rec, taken, wiped>>
  BY DEF Lock, At, Still
<1>2. CASE Locks(p) /\ hand' = [hand EXCEPT ![p].pc = "scan", ![p].todo = {k \in Ids : Open(k)}]
  <2> DEFINE h == [hand[p] EXCEPT !.pc = "scan", !.todo = {k \in Ids : Open(k)}]
  <2>1. h.pc = "scan" /\ h.mine = hand[p].mine
    BY Known DEF Hand
  <2>2. hand' = [hand EXCEPT ![p] = h]
    BY <1>2
  <2> HIDE DEF h
  <2>3. hand'[p] = h => Work(p)'
    BY <1>1, <2>1, Known DEF Work
  <2> QED BY <1>1, <1>2, <2>2, <2>3, PassCareful DEF Locks
<1> QED BY <1>1, <1>2, AbortsCareful DEF Lock

\* A step of the lock's holder that writes a record: its body stays.
LEMMA RecordCareful ==
  ASSUME CarefulInv, Serial, IInv', NEW p \in Procs, hand[p].pc \in {"scan", "point"},
         NEW h, hand' = [hand EXCEPT ![p] = h], h.pc \in {"scan", "point"}, h.mine = hand[p].mine,
         UNCHANGED <<pane, holder, taken, wiped>>,
         NEW k \in Ids, rec[k] # None, NEW r \in Record, rec' = [rec EXCEPT ![k] = r],
         r.body = rec[k].body, r.state = "delivered" => rec[k].state = "delivered"
  PROVE  CarefulInv'
<1>1. hand'[p] = h /\ \A q \in Procs : q # p => hand'[q] = hand[q]
  BY HandIs
<1>2. r # None /\ rec'[k] = r /\ \A i \in Ids : i # k => rec'[i] = rec[i]
  BY Known, DeliveryAssumption
<1>3. Work(p)'
  BY <1>1, Known DEF Work
<1> QED BY <1>1, <1>2, <1>3, OthersWork DEF Here, Gone

LEMMA ScanCareful ==
  ASSUME CarefulInv, Serial, IInv', NEW p \in Procs, NEW k \in Ids, Scan(p, k)
  PROVE  CarefulInv'
<1>1. /\ hand[p].pc = "scan" /\ UNCHANGED <<pane, holder, taken, wiped>>
      /\ rec[k] # None /\ rec[k] \in Record
  BY Known DEF Scan, At, Still, Held
<1>2. ASSUME NEW h, hand' = [hand EXCEPT ![p] = h], h.pc \in {"scan", "point"},
             h.mine = hand[p].mine,
             \/ UNCHANGED rec
             \/ \E t \in {"attempting", "recorded"} : rec' = [rec EXCEPT ![k].ptr = t]
             \/ rec' = [rec EXCEPT ![k].state = "acknowledged"]
      PROVE  CarefulInv'
  <2>1. PICK r \in Record : /\ rec' = [rec EXCEPT ![k] = r] /\ r.body = rec[k].body
                            /\ r.state = "delivered" => rec[k].state = "delivered"
    <3>1. CASE UNCHANGED rec
      <4>1. rec' = [rec EXCEPT ![k] = rec[k]]
        BY <3>1, Known
      <4> QED BY <1>1, <4>1
    <3>2. ASSUME NEW t \in {"attempting", "recorded"}, rec' = [rec EXCEPT ![k].ptr = t]
          PROVE  rec' = [rec EXCEPT ![k] = [rec[k] EXCEPT !.ptr = t]]
      BY <3>2
    <3>3. ASSUME rec' = [rec EXCEPT ![k].state = "acknowledged"]
          PROVE  rec' = [rec EXCEPT ![k] = [rec[k] EXCEPT !.state = "acknowledged"]]
      BY <3>3
    <3>4. \A t \in {"attempting", "recorded"} : LET r == [rec[k] EXCEPT !.ptr = t] IN
            r \in Record /\ r.body = rec[k].body /\ r.state = rec[k].state
      BY <1>1 DEF Record
    <3>5. LET r == [rec[k] EXCEPT !.state = "acknowledged"] IN
            r \in Record /\ r.body = rec[k].body /\ r.state = "acknowledged"
      BY <1>1 DEF Record
    <3> QED BY <1>2, <3>1, <3>2, <3>3, <3>4, <3>5
  <2> QED BY <1>1, <1>2, <2>1, RecordCareful
<1>3. CASE hand' = [hand EXCEPT ![p].todo = @ \ {k}]
  <2> DEFINE h == [hand[p] EXCEPT !.todo = @ \ {k}]
  <2>1. h.pc = "scan" /\ h.mine = hand[p].mine
    BY <1>1, Known DEF Hand
  <2>2. hand' = [hand EXCEPT ![p] = h]
    BY <1>3
  <2>3. \/ UNCHANGED rec
        \/ \E t \in {"attempting", "recorded"} : rec' = [rec EXCEPT ![k].ptr = t]
        \/ rec' = [rec EXCEPT ![k].state = "acknowledged"]
    <3>1. ASSUME Keeps(p, k, rec[k]) PROVE UNCHANGED rec
      BY <3>1, Known DEF Keeps
    <3>2. ASSUME Keeps(p, k, [rec[k] EXCEPT !.ptr = "recorded"])
          PROVE  rec' = [rec EXCEPT ![k].ptr = "recorded"]
      BY <3>2 DEF Keeps
    <3> QED BY <3>1, <3>2 DEF Scan
  <2> HIDE DEF h
  <2> QED BY <1>2, <2>1, <2>2, <2>3
<1>4. CASE /\ hand' = [hand EXCEPT ![p].pc = "point", ![p].own = k]
           /\ rec' = [rec EXCEPT ![k].ptr = "attempting"]
  <2> DEFINE h == [hand[p] EXCEPT !.pc = "point", !.own = k]
  <2>1. h.pc = "point" /\ h.mine = hand[p].mine
    BY <1>1, Known DEF Hand
  <2>2. hand' = [hand EXCEPT ![p] = h]
    BY <1>4
  <2> HIDE DEF h
  <2> QED BY <1>2, <1>4, <2>1, <2>2
<1>5. CASE hand' = [hand EXCEPT ![p].todo = @ \ {k}, ![p].view.readable = FALSE] /\ UNCHANGED rec
  <2> DEFINE h == [hand[p] EXCEPT !.todo = @ \ {k}, !.view.readable = FALSE]
  <2>1. h.pc = "scan" /\ h.mine = hand[p].mine
    BY <1>1, Known DEF Hand
  <2>2. hand' = [hand EXCEPT ![p] = h]
    BY <1>5
  <2> HIDE DEF h
  <2> QED BY <1>2, <1>5, <2>1, <2>2
<1> QED BY <1>3, <1>4, <1>5 DEF Scan, Keeps

LEMMA PointCareful ==
  ASSUME CarefulInv, Serial, IInv', NEW p \in Procs, Point(p) PROVE CarefulInv'
<1> DEFINE k == hand[p].own
<1>1. /\ hand[p].pc = "point" /\ k \in Ids /\ rec[k] # None /\ rec[k] \in Record
      /\ UNCHANGED <<pane, taken, wiped>>
  BY Known DEF Point, At, Held, Hand
<1>2. CASE Aborts(p) /\ UNCHANGED rec
  BY <1>1, <1>2, AbortsCareful
<1>3. CASE /\ rec' = [rec EXCEPT ![k].ptr = "recorded"] /\ UNCHANGED holder
           /\ hand' = [hand EXCEPT ![p].pc = "scan", ![p].todo = @ \ {k}]
  <2> DEFINE h == [hand[p] EXCEPT !.pc = "scan", !.todo = @ \ {k}]
             r == [rec[k] EXCEPT !.ptr = "recorded"]
  <2>1. h.pc = "scan" /\ h.mine = hand[p].mine
    BY <1>1, Known DEF Hand
  <2>2. r \in Record /\ r.body = rec[k].body /\ r.state = rec[k].state
    BY <1>1 DEF Record
  <2>3. hand' = [hand EXCEPT ![p] = h] /\ rec' = [rec EXCEPT ![k] = r]
    BY <1>3
  <2> HIDE DEF h, r
  <2>4. UNCHANGED <<pane, holder, taken, wiped>> /\ hand[p].pc \in {"scan", "point"}
    BY <1>1, <1>3
  <2>5. k \in Ids /\ rec[k] # None /\ h.pc \in {"scan", "point"}
    BY <1>1, <2>1
  <2> HIDE DEF k
  <2> QED BY <2>1, <2>2, <2>3, <2>4, <2>5, RecordCareful
<1> QED BY <1>2, <1>3 DEF Point

LEMMA UnlockCareful ==
  ASSUME CarefulInv, Serial, IInv', NEW p \in Passes, Unlock(p) PROVE CarefulInv'
<1>1. /\ p \in Procs /\ p \notin Senders /\ hand[p].pc = "scan" /\ holder = p /\ holder' = None
      /\ UNCHANGED <<pane, rec, taken, wiped>>
  BY Known, DeliveryAssumption DEF Unlock, At, Still, Held, Procs
<1>2. CASE hand' = [hand EXCEPT ![p] = Idle]
  <2>1. hand'[p] = Idle => Work(p)'
    BY DEF Work, Idle
  <2> QED BY <1>1, <1>2, <2>1, PassCareful
<1>3. ASSUME NEW k \in Ids, Open(k), May(p, rec[k]),
             hand' = [hand EXCEPT ![p] = [Idle EXCEPT !.pc = "mark", !.mine = k,
                        !.body = rec[k].body, !.copy = rec[k], !.view.box = hand[p].view.box]]
      PROVE  CarefulInv'
  <2> DEFINE h == [Idle EXCEPT !.pc = "mark", !.mine = k, !.body = rec[k].body, !.copy = rec[k],
                               !.view.box = hand[p].view.box]
  <2>1. /\ h.pc = "mark" /\ h.mine = k /\ h.body = rec[k].body /\ h.copy = rec[k]
        /\ h.own = None
    BY DEF Idle
  <2>2. rec[k].state # "delivered"
    BY <1>3 DEF Open
  <2> HIDE DEF h
  <2>3. hand'[p] = h => Work(p)'
    BY <1>1, <2>1, <2>2 DEF Work
  <2> QED BY <1>1, <1>3, <2>3, PassCareful DEF h
<1> QED BY <1>2, <1>3 DEF Unlock

\* A copy written over its record is of the same body.
LEMMA CopyCareful ==
  ASSUME CarefulInv, Serial, IInv', NEW p \in Procs, holder = None,
         NEW h, hand' = [hand EXCEPT ![p] = h], UNCHANGED <<pane, holder, taken, wiped>>,
         hand[p].mine # None, NEW r \in Record, rec' = [rec EXCEPT ![hand[p].mine] = r],
         r.body = hand[p].body, r.state = "delivered" => Gone(hand[p].body),
         hand'[p] = h /\ rec'[hand[p].mine] = r => Work(p)'
  PROVE  CarefulInv'
<1>1. /\ hand[p].mine \in Ids /\ rec[hand[p].mine] # None
      /\ rec[hand[p].mine].body = hand[p].body
  BY Known DEF Held, Hand, Work
<1>2. PICK k : k = hand[p].mine
  OBVIOUS
<1>3. /\ r # None /\ rec'[k] = r /\ \A i \in Ids : i # k => rec'[i] = rec[i]
      /\ rec'[k].body = rec[k].body
  BY <1>1, <1>2, Known, DeliveryAssumption
<1>4. hand'[p] = h /\ \A q \in Procs : q # p => hand'[q] = hand[q]
  BY HandIs
<1>5. \A i \in Ids : rec'[i] # None /\ rec'[i].state = "delivered" =>
        (rec[i] # None /\ rec[i].state = "delivered") \/ Gone(rec[i].body)'
  BY <1>1, <1>2, <1>3 DEF Gone
<1> QED BY <1>1, <1>2, <1>3, <1>4, <1>5, OthersWork DEF Here, Gone

LEMMA MarkCareful ==
  ASSUME CarefulInv, Serial, IInv', NEW p \in Passes, Mark(p) PROVE CarefulInv'
<1> DEFINE k == hand[p].mine
           r == [hand[p].copy EXCEPT !.tried = TRUE]
<1>1. /\ p \in Procs /\ p \notin Senders /\ hand[p].pc = "mark"
      /\ UNCHANGED <<pane, holder, taken, wiped>>
  BY DeliveryAssumption DEF Mark, At, Still, Procs
<1>2. /\ k # None /\ k \in Ids /\ hand[p].copy \in Record /\ hand[p].own = None
      /\ hand[p].copy.body = hand[p].body /\ hand[p].copy.state # "delivered"
  BY <1>1, Known DEF Held, Hand, Work
<1>3. CASE hand' = [hand EXCEPT ![p] = Idle] /\ UNCHANGED rec
  <2>1. hand'[p] = Idle => Work(p)'
    BY DEF Work, Idle
  <2> QED BY <1>1, <1>3, <2>1, PassCareful
<1>4. ASSUME holder = None, rec' = [rec EXCEPT ![k] = r], NEW l \in {"submit", "send"},
             hand' = [hand EXCEPT ![p].copy = r, ![p].view = NoView, ![p].pc = l]
      PROVE  CarefulInv'
  <2> DEFINE h == [hand[p] EXCEPT !.copy = r, !.view = NoView, !.pc = l]
  <2>1. r \in Record /\ r.body = hand[p].body /\ r.state # "delivered"
    BY <1>2 DEF Record
  <2>2. /\ h.pc = l /\ h.mine = k /\ h.body = hand[p].body /\ h.copy = r /\ h.own = None
    BY <1>1, <1>2, Known DEF Hand
  <2>3. hand' = [hand EXCEPT ![p] = h]
    BY <1>4
  <2> HIDE DEF h, r
  <2>4. hand'[p] = h /\ rec'[k] = r => Work(p)'
    BY <1>1, <1>4, <2>1, <2>2 DEF Work
  <2> QED BY <1>1, <1>2, <1>4, <2>1, <2>3, <2>4, CopyCareful
<1> QED BY <1>3, <1>4 DEF Mark

LEMMA RecoveryCareful ==
  ASSUME CarefulInv, Serial, IInv', NEW p \in Passes, Submit(p) \/ Send(p) \/ Failed(p)
  PROVE  CarefulInv'
<1>1. /\ p \in Procs /\ p \notin Senders /\ hand[p].pc \in {"submit", "send", "failed"}
      /\ hand[p].mine # None /\ UNCHANGED <<pane, rec, taken, wiped>>
  BY Known, DeliveryAssumption DEF Submit, Send, Failed, At, Still, Procs, Held
<1>2. ASSUME NEW h, hand' = [hand EXCEPT ![p] = h], h.mine = hand[p].mine,
             h.body = hand[p].body, h.copy = hand[p].copy,
             \/ h.pc = "failed" /\ UNCHANGED holder
             \/ /\ h.pc = "watch" /\ h.own = None /\ holder = None /\ UNCHANGED holder
                /\ pane.box = hand[p].body
             \/ h.pc \in {"look", "giveup"} /\ holder' = p /\ Free
      PROVE  CarefulInv'
  <2>1. hand'[p] = h => Work(p)'
    BY <1>1, <1>2, Known DEF Work, Here
  <2> QED BY <1>1, <1>2, <2>1, PassCareful
<1>3. ASSUME NEW l \in {"look", "failed"}, Goto(p, l),
             IF l = "look" THEN Free /\ holder' = p ELSE UNCHANGED holder
      PROVE  CarefulInv'
  <2> DEFINE h == [hand[p] EXCEPT !.pc = l]
  <2>1. /\ h.pc = l /\ h.mine = hand[p].mine /\ h.body = hand[p].body /\ h.copy = hand[p].copy
    BY <1>1, Known DEF Hand
  <2>2. hand' = [hand EXCEPT ![p] = h]
    BY <1>3 DEF Goto
  <2> HIDE DEF h
  <2> QED BY <1>2, <1>3, <2>1, <2>2
<1>4. CASE Submit(p)
  <2>1. CASE pane.box = hand[p].body
    <3> DEFINE h == [hand[p] EXCEPT !.pc = "watch", !.calm = ~pane.busy]
    <3>1. /\ h.pc = "watch" /\ h.mine = hand[p].mine /\ h.body = hand[p].body
          /\ h.copy = hand[p].copy /\ h.own = hand[p].own
      BY <1>1, Known DEF Hand
    <3>2. hand[p].own = None /\ holder = None /\ UNCHANGED holder
      BY <1>1, <1>4, Known DEF Submit, At, Work
    <3>3. hand' = [hand EXCEPT ![p] = h]
      BY <1>4, <2>1 DEF Submit
    <3> HIDE DEF h
    <3> QED BY <1>2, <2>1, <3>1, <3>2, <3>3
  <2> QED BY <1>3, <1>4, <2>1 DEF Submit
<1>5. CASE Send(p)
  BY <1>3, <1>5 DEF Send, Locks
<1>6. CASE Failed(p)
  <2>1. CASE Aborts(p)
    BY <1>1, <2>1, AbortsCareful
  <2>2. CASE /\ Locks(p)
             /\ hand' = [hand EXCEPT ![p].pc = "giveup", ![p].own = hand[p].mine, ![p].doubt = TRUE]
    <3> DEFINE h == [hand[p] EXCEPT !.pc = "giveup", !.own = hand[p].mine, !.doubt = TRUE]
    <3>1. /\ h.pc = "giveup" /\ h.mine = hand[p].mine /\ h.body = hand[p].body
          /\ h.copy = hand[p].copy
      BY <1>1, Known DEF Hand
    <3>2. hand' = [hand EXCEPT ![p] = h]
      BY <2>2
    <3> HIDE DEF h
    <3> QED BY <1>2, <2>2, <3>1, <3>2 DEF Locks
  <2> QED BY <1>6, <2>1, <2>2 DEF Failed
<1> QED BY <1>1, <1>4, <1>5, <1>6

LEMMA SentCareful ==
  ASSUME CarefulInv, Serial, IInv', NEW p \in Passes, Sent(p) PROVE CarefulInv'
<1> DEFINE k == hand[p].mine
           r == [hand[p].copy EXCEPT !.state = "delivered"]
<1>1. /\ p \in Procs /\ hand[p].pc = "sent" /\ hand' = [hand EXCEPT ![p] = Idle]
      /\ UNCHANGED <<pane, holder, taken, wiped>>
  BY DEF Sent, At, Still, Procs
<1>2. /\ k # None /\ hand[p].copy \in Record /\ hand[p].copy.body = hand[p].body
      /\ Gone(hand[p].body)
  BY <1>1, Known DEF Held, Hand, Work
<1>3. hand'[p] = Idle => Work(p)'
  BY DEF Work, Idle
<1>4. CASE UNCHANGED rec
  BY <1>1, <1>3, <1>4, PassCareful
<1>5. CASE holder = None /\ rec' = [rec EXCEPT ![k] = r]
  <2>1. r \in Record /\ r.body = hand[p].body
    BY <1>2 DEF Record
  <2> HIDE DEF r
  <2> QED BY <1>1, <1>2, <1>3, <1>5, <2>1, CopyCareful
<1> QED BY <1>4, <1>5 DEF Sent

\* Every step keeps it, where the passes' keys are pressed beside no lock.
LEMMA NextCareful == Serial => (CarefulInv /\ [DNext]_dvars => CarefulInv')
<1> SUFFICES ASSUME Serial, CarefulInv, [DNext]_dvars PROVE CarefulInv'
  OBVIOUS
<1>1. IInv'
  BY NextKeeps DEF CarefulInv
<1>2. CASE UNCHANGED dvars
  <2>1. DeliveredIsTaken'
    BY <1>2 DEF CarefulInv, DeliveredIsTaken, dvars
  <2>2. ASSUME NEW p \in Procs PROVE Work(p)'
    BY <1>2, Known DEF dvars, Work, Here, Gone
  <2> QED BY <1>1, <2>1, <2>2 DEF CarefulInv
<1>3. ASSUME NEW p \in Procs, Sends(p) PROVE CarefulInv'
  BY <1>1, <1>3, LookCareful, TypeCareful, EnterCareful, WatchCareful, FailedCareful,
     AbortsCareful DEF Sends, Crash
<1>4. ASSUME NEW p \in Senders, NEW b \in Bodies, Call(p, b) PROVE CarefulInv'
  BY <1>1, <1>4, CallCareful
<1>5. ASSUME NEW p \in Passes,
             \/ Begin(p) \/ Lock(p) \/ Point(p) \/ Unlock(p) \/ Mark(p)
             \/ Submit(p) \/ Send(p) \/ Failed(p) \/ Sent(p)
             \/ \E k \in Ids : Scan(p, k)
      PROVE  CarefulInv'
  <2>1. p \in Procs
    BY DEF Procs
  <2> QED BY <1>1, <1>5, <2>1, BeginCareful, LockCareful, PointCareful, UnlockCareful,
             MarkCareful, RecoveryCareful, SentCareful, ScanCareful
<1> QED BY <1>1, <1>2, <1>3, <1>4, <1>5, WorldCareful DEF DNext

LEMMA InitCareful == DInit => CarefulInv
<1> SUFFICES ASSUME DInit PROVE CarefulInv
  OBVIOUS
<1>1. IInv
  BY InitEstablishes
<1>2. DeliveredIsTaken
  BY DEF DInit, DeliveredIsTaken
<1>3. ASSUME NEW p \in Procs PROVE Work(p)
  BY <1>3 DEF DInit, Work, Idle
<1> QED BY <1>1, <1>2, <1>3 DEF CarefulInv

\* A body recorded as delivered was given to the agent, or taken by a human.
THEOREM DeliveredWasTaken == Serial => (DSpec => []DeliveredIsTaken)
<1>1. CarefulInv => DeliveredIsTaken
  BY DEF CarefulInv
<1>2. SUFFICES ASSUME Serial PROVE DSpec => []DeliveredIsTaken
  OBVIOUS
<1>3. CarefulInv /\ [DNext]_dvars => CarefulInv'
  BY <1>2, NextCareful
<1> QED BY <1>1, <1>3, InitCareful, PTL DEF DSpec

-----------------------------------------------------------------------------
(* How often the agent is given it.                                         *)

\* One tend pass runs at a time over the pane.
OnePass == \A p, q \in Passes : p = q

\* A process that is yet to type a body, and one that erases it.
Typing(p, b) ==
  LET h == hand[p] IN
  /\ h.body = b
  /\ \/ h.pc \in {"look", "type", "send"}
     \/ h.pc \in {"giveup", "wipe", "erase", "erased"} /\ rec[h.own].body # b
     \/ h.pc = "mark" /\ h.view.box # b
Erasing(p, b) == hand[p].pc \in {"erase", "erased"} /\ rec[hand[p].own].body = b

\* The records by which a pass may type the body again, and those by which it is about to.
Cleared(b) == {k \in Ids : rec[k] # None /\ rec[k].body = b /\ rec[k].state = "cleared" /\ ~rec[k].tried}
Retyped(b) == {k \in Ids : \E p \in Passes : hand[p].mine = k /\ Typing(p, b)}
Due(b) == Cleared(b) \union Retyped(b)

\* In how many ways the agent may still be given a body: it stands in the composer or is
\* being erased from it, Codex has it queued, a sender is to type it, or it is due.
Standing(b) == IF pane.box = b \/ \E p \in Procs : Erasing(p, b) THEN 1 ELSE 0
Queued(b) == IF b \in pane.queued THEN 1 ELSE 0
Coming(b) == IF \E p \in Senders : Typing(p, b) THEN 1 ELSE 0
Spent(b) == taken[b] + Standing(b) + Queued(b) + Coming(b) + Cardinality(Due(b))

\* A recovery has marked its record, and keeps it so.
Marked(p) ==
  LET h == hand[p] IN h.mine # None /\ h.pc # "mark" => h.copy.tried /\ rec[h.mine].tried

CountInv == /\ CarefulInv
            /\ \A p \in Passes : Marked(p)
            /\ \A b \in Bodies : Spent(b) <= asked[b]

\* Sets of records: what one more or one less makes of their number.
LEMMA Numbers ==
  ASSUME NEW S \in SUBSET Ids, NEW T \in SUBSET Ids
  PROVE  /\ Cardinality(S) \in Nat /\ Cardinality(T) \in Nat
         /\ S \subseteq T => Cardinality(S) <= Cardinality(T)
         /\ \A k \in Ids : T \subseteq S \union {k} => Cardinality(T) <= Cardinality(S) + 1
         /\ \A k \in S : T \subseteq S \ {k} => Cardinality(T) + 1 <= Cardinality(S)
<1>1. IsFiniteSet(Ids)
  BY FS_Interval, DeliveryAssumption DEF Ids
<1>2. \A U \in SUBSET Ids : IsFiniteSet(U) /\ Cardinality(U) \in Nat
  BY <1>1, FS_Subset, FS_CardinalityType
<1>3. \A U, V \in SUBSET Ids : U \subseteq V => Cardinality(U) <= Cardinality(V)
  BY <1>2, FS_Subset
<1>4. ASSUME NEW k \in Ids, T \subseteq S \union {k} PROVE Cardinality(T) <= Cardinality(S) + 1
  <2>1. Cardinality(S \union {k}) <= Cardinality(S) + 1
    BY <1>2, FS_AddElement
  <2>2. Cardinality(T) <= Cardinality(S \union {k}) /\ Cardinality(S \union {k}) \in Nat
    BY <1>2, <1>3, <1>4
  <2> QED BY <1>2, <2>1, <2>2
<1>5. ASSUME NEW k \in S, T \subseteq S \ {k} PROVE Cardinality(T) + 1 <= Cardinality(S)
  <2>1. Cardinality(S \ {k}) = Cardinality(S) - 1
    BY <1>2, FS_RemoveElement
  <2>2. Cardinality(T) <= Cardinality(S \ {k})
    BY <1>3, <1>5
  <2> QED BY <1>2, <2>1, <2>2
<1> QED BY <1>2, <1>3, <1>4, <1>5

\* What a step of p does not change of the others.
LEMMA OthersCount ==
  ASSUME CountInv, NEW p \in Procs, NEW q \in Procs, q # p, hand'[q] = hand[q],
         \A k \in Ids : rec[k] # None => rec'[k] # None /\ rec'[k].body = rec[k].body
                                         /\ (rec[k].tried => rec'[k].tried)
  PROVE  /\ \A b \in Bodies : (Typing(q, b)' <=> Typing(q, b)) /\ (Erasing(q, b)' <=> Erasing(q, b))
         /\ Marked(q) => Marked(q)'
<1>1. CarefulInv /\ hand[q] \in Hand /\ Held(q)
  BY Known DEF CountInv
<1>2. /\ hand[q].own # None => hand[q].own \in Ids /\ rec'[hand[q].own].body = rec[hand[q].own].body
      /\ hand[q].pc \in {"giveup", "wipe", "erase", "erased"} => hand[q].own # None
  BY <1>1 DEF Hand, Held
<1>3. hand[q].mine # None => hand[q].mine \in Ids
        /\ (rec[hand[q].mine].tried => rec'[hand[q].mine].tried)
  BY <1>1 DEF Hand, Held
<1> QED BY <1>2, <1>3 DEF Typing, Erasing, Marked

\* A step of p that is no exchange: what it has typed, sent or cleared by then is less.
LEMMA Lessens ==
  ASSUME CountInv, CarefulInv', NEW p \in Procs,
         \A q \in Procs : q # p => hand'[q] = hand[q],
         \A k \in Ids : rec[k] # None => rec'[k] # None /\ rec'[k].body = rec[k].body
                                         /\ (rec[k].tried => rec'[k].tried),
         NEW b \in Bodies, Cleared(b)' \subseteq Cleared(b),
         Typing(p, b)' => \/ Typing(p, b) /\ hand'[p].mine = hand[p].mine
                          \/ p \in Passes /\ hand'[p].mine \in Cleared(b)
  PROVE  /\ Coming(b)' <= Coming(b) /\ Due(b)' \subseteq Due(b)
         /\ Cardinality(Due(b)') <= Cardinality(Due(b))
<1>1. \A q \in Procs : q # p => /\ Typing(q, b)' <=> Typing(q, b)
                                /\ hand'[q].mine = hand[q].mine
  BY OthersCount
<1>2. Due(b)' \subseteq Due(b)
  BY <1>1 DEF Due, Retyped, Procs
<1>3. Coming(b)' <= Coming(b)
  BY <1>1, DeliveryAssumption DEF Coming, Procs
<1>4. Due(b) \subseteq Ids /\ Due(b)' \subseteq Ids
  BY DEF Due, Cleared, Retyped
<1> QED BY <1>2, <1>3, <1>4, Numbers

\* The composer, likewise.
LEMMA StandsLess ==
  ASSUME CountInv, NEW p \in Procs,
         \A q \in Procs : q # p => hand'[q] = hand[q],
         \A k \in Ids : rec[k] # None => rec'[k] # None /\ rec'[k].body = rec[k].body
                                         /\ (rec[k].tried => rec'[k].tried),
         NEW b \in Bodies, pane'.box = b => pane.box = b,
         Erasing(p, b)' => Erasing(p, b) \/ pane.box = b
  PROVE  Standing(b)' <= Standing(b)
<1>1. \A q \in Procs : q # p => (Erasing(q, b)' <=> Erasing(q, b))
  BY OthersCount
<1> QED BY <1>1 DEF Standing

\* The terms of the sum are numbers.
LEMMA Terms ==
  ASSUME CountInv, CarefulInv', NEW b \in Bodies
  PROVE  /\ taken[b] \in Nat /\ taken'[b] \in Nat /\ asked[b] \in Nat /\ asked'[b] \in Nat
         /\ Standing(b) \in 0..1 /\ Standing(b)' \in 0..1
         /\ Queued(b) \in 0..1 /\ Queued(b)' \in 0..1 /\ Coming(b) \in 0..1 /\ Coming(b)' \in 0..1
         /\ Due(b) \subseteq Ids /\ Due(b)' \subseteq Ids
         /\ Cardinality(Due(b)) \in Nat /\ Cardinality(Due(b)') \in Nat
<1>1. /\ taken[b] \in Nat /\ taken'[b] \in Nat /\ asked[b] \in Nat /\ asked'[b] \in Nat
  BY DEF CountInv, CarefulInv, IInv, DTypeOK
<1>2. /\ Standing(b) \in 0..1 /\ Standing(b)' \in 0..1
      /\ Queued(b) \in 0..1 /\ Queued(b)' \in 0..1 /\ Coming(b) \in 0..1 /\ Coming(b)' \in 0..1
  BY DEF Standing, Queued, Coming
<1>3. Due(b) \subseteq Ids /\ Due(b)' \subseteq Ids
  BY DEF Due, Cleared, Retyped
<1> QED BY <1>1, <1>2, <1>3, Numbers

\* A step that only lets ways be lost.
LEMMA QuietCount ==
  ASSUME CountInv, CarefulInv', NEW p \in Procs,
         \A q \in Procs : q # p => hand'[q] = hand[q],
         \A k \in Ids : rec[k] # None => rec'[k] # None /\ rec'[k].body = rec[k].body
                                         /\ (rec[k].tried => rec'[k].tried),
         \A b \in Bodies : /\ Cleared(b)' \subseteq Cleared(b)
                           /\ pane'.box = b => pane.box = b
                           /\ Erasing(p, b)' => Erasing(p, b) \/ pane.box = b
                           /\ Typing(p, b)' => \/ Typing(p, b) /\ hand'[p].mine = hand[p].mine
                                               \/ p \in Passes /\ hand'[p].mine \in Cleared(b),
         pane'.queued = pane.queued, UNCHANGED <<taken, asked>>, p \in Passes => Marked(p)'
  PROVE  CountInv'
<1>1. ASSUME NEW q \in Passes PROVE Marked(q)'
  BY <1>1, OthersCount DEF CountInv, Procs
<1>2. ASSUME NEW b \in Bodies PROVE Spent(b)' <= asked'[b]
  <2>1. /\ Coming(b)' <= Coming(b) /\ Cardinality(Due(b)') <= Cardinality(Due(b))
        /\ Standing(b)' <= Standing(b)
    BY Lessens, StandsLess
  <2>2. Queued(b)' = Queued(b) /\ Spent(b) <= asked[b]
    BY DEF Queued, CountInv
  <2>3. Cardinality(Due(b))' = Cardinality(Due(b)')
    OBVIOUS
  <2> QED BY <2>1, <2>2, <2>3, Terms DEF Spent
<1> QED BY <1>1, <1>2 DEF CountInv

\* A record in another state is of the same body, and as much tried.
LEMMA SameTried ==
  ASSUME CountInv, NEW k \in Ids, rec[k] # None,
         NEW s \in {"prepared", "unknown", "queued", "cleared", "delivered", "acknowledged"},
         rec' = [rec EXCEPT ![k].state = s]
  PROVE  /\ \A i \in Ids : rec[i] # None => rec'[i] # None /\ rec'[i].body = rec[i].body
                                            /\ (rec[i].tried => rec'[i].tried)
         /\ s # "cleared" => \A b \in Bodies : Cleared(b)' \subseteq Cleared(b)
         /\ \A b \in Bodies : Cleared(b)' \subseteq Cleared(b) \union {k}
         /\ \A b \in Bodies : b # rec[k].body => Cleared(b)' \subseteq Cleared(b)
<1> DEFINE r == [rec[k] EXCEPT !.state = s]
<1>1. rec[k] \in Record /\ rec \in [Ids -> Record \union {None}]
  BY DEF CountInv, CarefulInv, IInv, DTypeOK
<1>2. r \in Record /\ r.body = rec[k].body /\ r.tried = rec[k].tried /\ r.state = s
  BY <1>1 DEF Record
<1>3. rec' = [rec EXCEPT ![k] = r]
  OBVIOUS
<1> HIDE DEF r
<1>4. r # None /\ rec'[k] = r /\ \A i \in Ids : i # k => rec'[i] = rec[i]
  BY <1>1, <1>2, <1>3, DeliveryAssumption
<1> QED BY <1>2, <1>4 DEF Cleared

\* Whoever has left types and erases nothing.
LEMMA LeaveCount ==
  ASSUME CountInv, CarefulInv', NEW p \in Procs, NEW sent \in BOOLEAN, Leave(p, sent),
         hand[p].pc \in {"look", "watch", "giveup", "wipe", "erased"},
         \A k \in Ids : rec[k] # None => rec'[k] # None /\ rec'[k].body = rec[k].body
                                         /\ (rec[k].tried => rec'[k].tried)
  PROVE  /\ \A q \in Procs : q # p => hand'[q] = hand[q]
         /\ \A b \in Bodies : ~Typing(p, b)' /\ ~Erasing(p, b)'
         /\ p \in Passes => Marked(p)'
<1>1. /\ \A q \in Procs : q # p => hand'[q] = hand[q]
      /\ \/ hand'[p] = Idle
         \/ /\ hand'[p].pc \in {"sent", "failed"} /\ hand'[p].mine = hand[p].mine
            /\ hand'[p].copy = hand[p].copy
  BY LeaveHand, Known DEF CountInv
<1>2. p \in Passes => (hand[p].mine # None => hand[p].mine \in Ids /\ rec[hand[p].mine] # None)
  BY Known DEF CountInv, Held, Hand
<1>3. \A b \in Bodies : ~Typing(p, b)' /\ ~Erasing(p, b)'
  BY <1>1 DEF Typing, Erasing, Idle
<1>4. p \in Passes => Marked(p)'
  BY <1>1, <1>2 DEF CountInv, Marked, Idle
<1> QED BY <1>1, <1>3, <1>4

\* A step that is no exchange and leaves the pane alone, with a record's state changed or not.
LEMMA LeavingCount ==
  ASSUME CountInv, CarefulInv', NEW p \in Procs, NEW sent \in BOOLEAN, Leave(p, sent),
         hand[p].pc \in {"look", "watch", "giveup", "wipe", "erased"},
         UNCHANGED <<pane, taken, asked>>,
         \/ UNCHANGED rec
         \/ \E k \in Ids, s \in {"unknown", "queued", "delivered"} :
              rec[k] # None /\ rec' = [rec EXCEPT ![k].state = s]
  PROVE  CountInv'
<1>1. /\ \A k \in Ids : rec[k] # None => rec'[k] # None /\ rec'[k].body = rec[k].body
                                         /\ (rec[k].tried => rec'[k].tried)
      /\ \A b \in Bodies : Cleared(b)' \subseteq Cleared(b)
  <2>1. CASE UNCHANGED rec
    BY <2>1 DEF Cleared
  <2> QED BY <2>1, SameTried
<1>2. /\ \A q \in Procs : q # p => hand'[q] = hand[q]
      /\ \A b \in Bodies : ~Typing(p, b)' /\ ~Erasing(p, b)'
      /\ p \in Passes => Marked(p)'
  BY <1>1, LeaveCount
<1> QED BY <1>1, <1>2, QuietCount

\* Going on at another label with the same things in hand, likewise.
LEMMA GoingCount ==
  ASSUME CountInv, CarefulInv', NEW p \in Procs,
         \A q \in Procs : q # p => hand'[q] = hand[q],
         hand[p].pc # "mark" \/ hand[p].mine = None,
         hand'[p].mine = hand[p].mine, hand'[p].copy = hand[p].copy,
         \A b \in Bodies : /\ Typing(p, b)' => Typing(p, b)
                           /\ Erasing(p, b)' => Erasing(p, b) \/ pane.box = b
                           /\ pane'.box = b => pane.box = b,
         pane'.queued = pane.queued, UNCHANGED <<taken, asked>>,
         \/ UNCHANGED rec
         \/ \E k \in Ids, s \in {"prepared", "unknown", "queued", "delivered"} :
              rec[k] # None /\ rec' = [rec EXCEPT ![k].state = s]
         \/ \E k \in Ids, b \in Bodies : rec[k] = None /\ rec' = [rec EXCEPT ![k] = Fresh(b)]
  PROVE  CountInv'
<1>1. /\ \A k \in Ids : rec[k] # None => rec'[k] # None /\ rec'[k].body = rec[k].body
                                         /\ (rec[k].tried => rec'[k].tried)
      /\ \A b \in Bodies : Cleared(b)' \subseteq Cleared(b)
  <2>1. CASE UNCHANGED rec
    BY <2>1 DEF Cleared
  <2>2. ASSUME NEW k \in Ids, NEW b \in Bodies, rec[k] = None, rec' = [rec EXCEPT ![k] = Fresh(b)]
        PROVE  /\ \A i \in Ids : rec[i] # None => rec'[i] = rec[i]
               /\ \A c \in Bodies : Cleared(c)' \subseteq Cleared(c)
    <3>1. Fresh(b).state = "prepared"
      BY DEF Fresh
    <3>2. rec'[k] = Fresh(b) /\ \A i \in Ids : i # k => rec'[i] = rec[i]
      BY <2>2, Known DEF CountInv
    <3> QED BY <2>2, <3>1, <3>2 DEF Cleared
  <2> QED BY <2>1, <2>2, SameTried
<1>2. hand[p].mine # None => hand[p].mine \in Ids /\ rec[hand[p].mine] # None
  BY Known DEF CountInv, Held, Hand
<1>3. p \in Passes => Marked(p)'
  BY <1>1, <1>2 DEF CountInv, Marked
<1> QED BY <1>1, <1>3, QuietCount

-----------------------------------------------------------------------------
(* The pane, its human, its agent.                                          *)

LEMMA WorldCount == ASSUME CountInv, CarefulInv', Turn \/ Human \/ Read PROVE CountInv'
<1>1. UNCHANGED <<rec, holder, hand>>
  BY DEF Turn, Human, Read
<1>2. /\ pane \in [box : Boxes, queued : SUBSET Bodies, busy : BOOLEAN]
      /\ taken \in [Bodies -> Nat] /\ asked \in [Bodies -> Nat]
  BY DEF CountInv, CarefulInv, IInv, DTypeOK
<1>3. \A p \in Passes : Marked(p)'
  BY <1>1 DEF CountInv, Marked
<1>4. ASSUME NEW b \in Bodies PROVE Spent(b)' <= asked'[b]
  <2>1. Coming(b)' = Coming(b) /\ Due(b)' = Due(b)
    BY <1>1 DEF Coming, Due, Cleared, Retyped, Typing
  <2>2. Spent(b) <= asked[b]
    BY DEF CountInv
  <2>3. taken'[b] + Standing(b)' + Queued(b)' + asked[b]
          <= taken[b] + Standing(b) + Queued(b) + asked'[b]
    <3>1. CASE Read
      BY <1>1, <1>2, <3>1 DEF Read, Standing, Queued, Erasing
    <3>2. CASE Turn
      <4>1. CASE UNCHANGED taken /\ pane'.box = pane.box /\ pane'.queued = pane.queued
        BY <1>1, <1>2, <3>2, <4>1 DEF Turn, Standing, Queued, Erasing
      <4>2. ASSUME NEW c \in pane.queued, pane' = [pane EXCEPT !.queued = @ \ {c}], Gives(c)
            PROVE  taken'[b] + Queued(b)' <= taken[b] + Queued(b) /\ Standing(b)' = Standing(b)
        BY <1>1, <1>2, <4>2 DEF Standing, Queued, Erasing, Gives
      <4>3. asked' = asked
        BY <3>2 DEF Turn
      <4>4. CASE ~(UNCHANGED taken /\ pane'.box = pane.box /\ pane'.queued = pane.queued)
        <5>1. taken'[b] + Queued(b)' <= taken[b] + Queued(b) /\ Standing(b)' = Standing(b)
          BY <1>2, <3>2, <4>2, <4>4 DEF Turn
        <5> QED BY <1>2, <4>3, <5>1, Terms
      <4> QED BY <4>1, <4>4
    <3>3. CASE Human
      <4>1. CASE /\ \E t \in {"empty", "foreign"} : pane' = [pane EXCEPT !.box = t]
                 /\ UNCHANGED <<taken, asked>>
        BY <1>1, <1>2, <4>1, DeliveryAssumption DEF Standing, Queued, Erasing
      <4>2. CASE /\ pane.box \in Bodies /\ pane' = [pane EXCEPT !.box = "empty", !.busy = TRUE]
                 /\ Gives(pane.box) /\ asked' = [asked EXCEPT ![pane.box] = @ + 1]
        <5>1. Standing(b)' <= Standing(b) /\ Queued(b)' = Queued(b)
          BY <1>1, <1>2, <4>2, DeliveryAssumption DEF Standing, Queued, Erasing
        <5>2. taken'[b] - taken[b] = asked'[b] - asked[b]
          BY <1>2, <4>2 DEF Gives
        <5> QED BY <1>2, <5>1, <5>2, Terms
      <4> QED BY <3>3, <4>1, <4>2 DEF Human
    <3> QED BY <3>1, <3>2, <3>3
  <2> QED BY <2>1, <2>2, <2>3, Terms DEF Spent
<1> QED BY <1>3, <1>4 DEF CountInv

-----------------------------------------------------------------------------
(* send.                                                                    *)

\* One more was asked for, and one more is to come.
LEMMA CallCount ==
  ASSUME CountInv, CarefulInv', NEW p \in Senders, NEW c \in Bodies, Call(p, c) PROVE CountInv'
<1>1. p \in Procs /\ p \notin Passes
  BY DeliveryAssumption DEF Procs
<1>2. /\ hand' = [hand EXCEPT ![p].pc = "look", ![p].body = c] /\ UNCHANGED <<pane, rec, taken>>
      /\ asked' = [asked EXCEPT ![c] = @ + 1] /\ asked \in [Bodies -> Nat]
  BY DEF Call, CountInv, CarefulInv, IInv, DTypeOK
<1> DEFINE h == [hand[p] EXCEPT !.pc = "look", !.body = c]
<1>3. h.pc = "look" /\ h.body = c
  BY <1>1, Known DEF Hand, CountInv
<1>4. hand' = [hand EXCEPT ![p] = h]
  BY <1>2
<1> HIDE DEF h
<1>5. hand'[p] = h /\ \A q \in Procs : q # p => hand'[q] = hand[q]
  BY <1>1, <1>4, HandIs DEF CountInv
<1>6. \A q \in Procs, b \in Bodies : q # p => (Typing(q, b)' <=> Typing(q, b))
  BY <1>1, <1>2, <1>5, OthersCount
<1>7. ASSUME NEW q \in Passes PROVE Marked(q)'
  BY <1>1, <1>2, <1>5, <1>7, OthersCount DEF CountInv, Procs
<1>8. ASSUME NEW b \in Bodies PROVE Spent(b)' <= asked'[b]
  <2>1. Due(b)' = Due(b)
    <3>1. Retyped(b)' = Retyped(b)
      BY <1>1, <1>5, <1>6 DEF Retyped, Procs
    <3> QED BY <1>2, <3>1 DEF Due, Cleared
  <2>2. Standing(b)' <= Standing(b)
    BY <1>1, <1>2, <1>3, <1>5, StandsLess DEF Erasing
  <2>3. Queued(b)' = Queued(b) /\ Spent(b) <= asked[b] /\ taken'[b] = taken[b]
    BY <1>2 DEF Queued, CountInv
  <2>4. Coming(b)' + asked[b] <= Coming(b) + asked'[b]
    <3>1. CASE b = c
      <4>1. asked'[b] = asked[b] + 1
        BY <1>2, <3>1
      <4> QED BY <4>1, Terms
    <3>2. CASE b # c
      <4>1. asked'[b] = asked[b]
        BY <1>2, <3>2
      <4>2. ~Typing(p, b)'
        BY <1>3, <1>5, <3>2 DEF Typing
      <4>3. Coming(b)' <= Coming(b)
        BY <1>6, <4>2 DEF Coming, Procs
      <4> QED BY <4>1, <4>3, Terms
    <3> QED BY <3>1, <3>2
  <2> QED BY <2>1, <2>2, <2>3, <2>4, Terms DEF Spent
<1> QED BY <1>7, <1>8 DEF CountInv

LEMMA LookCount == ASSUME CountInv, CarefulInv', NEW p \in Procs, Look(p) PROVE CountInv'
<1> DEFINE c == hand[p].body
<1>1. /\ hand[p].pc = "look" /\ hand[p] \in Hand /\ c \in Bodies /\ UNCHANGED <<pane, taken, asked>>
  BY Known DEF Look, At, Held, CountInv
<1>2. ASSUME NEW h, hand' = [hand EXCEPT ![p] = h], h.pc \in {"watch", "type", "giveup"},
             h.body = c, h.mine = hand[p].mine, h.copy = hand[p].copy,
             \/ UNCHANGED rec
             \/ \E k \in Ids, s \in {"prepared", "unknown", "queued", "delivered"} :
                  rec[k] # None /\ rec' = [rec EXCEPT ![k].state = s]
             \/ \E k \in Ids, b \in Bodies : rec[k] = None /\ rec' = [rec EXCEPT ![k] = Fresh(b)]
      PROVE  CountInv'
  <2>1. hand'[p] = h /\ \A q \in Procs : q # p => hand'[q] = hand[q]
    BY <1>2, HandIs DEF CountInv
  <2>2. \A b \in Bodies : (Typing(p, b)' => Typing(p, b)) /\ ~Erasing(p, b)'
    BY <1>1, <1>2, <2>1 DEF Typing, Erasing
  <2> HIDE DEF c
  <2>3. \A b \in Bodies : pane'.box = b => pane.box = b
    BY <1>1
  <2> QED BY <1>1, <1>2, <2>1, <2>2, <2>3, GoingCount
<1>3. CASE hand' = [hand EXCEPT ![p].pc = "watch", ![p].calm = ~pane.busy] /\ UNCHANGED rec
  <2> DEFINE h == [hand[p] EXCEPT !.pc = "watch", !.calm = ~pane.busy]
  <2>1. h.pc = "watch" /\ h.body = c /\ h.mine = hand[p].mine /\ h.copy = hand[p].copy
    BY <1>1 DEF Hand
  <2>2. hand' = [hand EXCEPT ![p] = h]
    BY <1>3
  <2> HIDE DEF h
  <2> QED BY <1>2, <1>3, <2>1, <2>2
<1>4. ASSUME NEW k, hand' = [hand EXCEPT ![p].pc = "giveup", ![p].own = k], UNCHANGED rec
      PROVE  CountInv'
  <2> DEFINE h == [hand[p] EXCEPT !.pc = "giveup", !.own = k]
  <2>1. h.pc = "giveup" /\ h.body = c /\ h.mine = hand[p].mine /\ h.copy = hand[p].copy
    BY <1>1 DEF Hand
  <2>2. hand' = [hand EXCEPT ![p] = h]
    BY <1>4
  <2> HIDE DEF h
  <2> QED BY <1>2, <1>4, <2>1, <2>2
<1>5. ASSUME Leave(p, FALSE), UNCHANGED rec PROVE CountInv'
  BY <1>1, <1>5, LeavingCount
<1>6. ASSUME BeginRecord(p, c), ~Leave(p, FALSE) \/ ~UNCHANGED rec PROVE CountInv'
  <2>1. PICK k \in Ids :
          /\ IF Matches(c) = {} THEN \A i \in Ids : rec[i] = None <=> i >= k
                               ELSE Matches(c) = {k}
          /\ rec' = [rec EXCEPT ![k] = IF Matches(c) = {} THEN Fresh(c)
                                                         ELSE [@ EXCEPT !.state = "prepared"]]
          /\ hand' = [hand EXCEPT ![p].pc = "type", ![p].own = k, ![p].calm = ~pane.busy]
    BY <1>6 DEF BeginRecord
  <2> DEFINE h == [hand[p] EXCEPT !.pc = "type", !.own = k, !.calm = ~pane.busy]
  <2>2. h.pc = "type" /\ h.body = c /\ h.mine = hand[p].mine /\ h.copy = hand[p].copy
    BY <1>1 DEF Hand
  <2>3. hand' = [hand EXCEPT ![p] = h]
    BY <2>1
  <2> HIDE DEF h
  <2>4. CASE Matches(c) = {}
    <3>1. rec[k] = None /\ rec' = [rec EXCEPT ![k] = Fresh(c)]
      BY <2>1, <2>4 DEF Ids
    <3> QED BY <1>1, <1>2, <2>2, <2>3, <3>1
  <2>5. CASE Matches(c) # {}
    <3>1. rec[k] # None /\ rec' = [rec EXCEPT ![k].state = "prepared"]
      BY <2>1, <2>5 DEF Matches, Open
    <3> QED BY <1>1, <1>2, <2>2, <2>3, <3>1
  <2> QED BY <2>4, <2>5
<1> QED BY <1>3, <1>4, <1>5, <1>6 DEF Look

\* Nobody but the lock's holder is yet to type, among the senders.
LEMMA OneSender ==
  ASSUME CountInv, NEW p \in Procs, holder = p, NEW q \in Senders, q # p, NEW b \in Bodies
  PROVE  ~Typing(q, b)
<1>1. q \in Procs /\ q \notin Passes
  BY DeliveryAssumption DEF Procs
<1> QED BY <1>1, Known DEF CountInv, Work, Typing

\* Nobody but the lock's holder erases.
LEMMA OneEraser ==
  ASSUME CountInv, NEW q \in Procs, NEW b \in Bodies, Erasing(q, b)
  PROVE  holder = q
BY Known DEF CountInv, Work, Erasing

\* What was to be typed stands in the composer: by a sender, or by the pass that has
\* marked its record.
LEMMA TypedCount ==
  ASSUME CountInv, OnePass, CarefulInv', NEW p \in Procs, hand[p].pc = "type", holder = p,
         Goto(p, "enter"), UNCHANGED <<rec, taken, asked>>, pane'.box = hand[p].body,
         pane.box \notin Bodies, pane'.queued = pane.queued
  PROVE  CountInv'
<1>1. /\ \A q \in Procs : q # p => hand'[q] = hand[q]
      /\ hand'[p].pc = "enter" /\ hand'[p].body = hand[p].body /\ hand'[p].own = hand[p].own
      /\ hand'[p].mine = hand[p].mine /\ hand'[p].copy = hand[p].copy
  BY GoingOn DEF Labels, CountInv
<1>2. ASSUME NEW q \in Passes PROVE Marked(q)'
  <2>1. q \in Procs /\ Marked(q)
    BY DEF Procs, CountInv
  <2>2. CASE q = p
    BY <1>1, <2>1, <2>2 DEF Marked
  <2> QED BY <1>1, <2>1, <2>2, OthersCount
<1>3. \A b \in Bodies : ~Typing(p, b)' /\ ~Erasing(p, b)'
  BY <1>1 DEF Typing, Erasing
<1>4. ASSUME NEW b \in Bodies PROVE Spent(b)' <= asked'[b]
  <2>1. /\ Coming(b)' <= Coming(b) /\ Due(b)' \subseteq Due(b)
        /\ Cardinality(Due(b)') <= Cardinality(Due(b))
    BY <1>1, <1>3, Lessens DEF Cleared
  <2>2. Queued(b)' = Queued(b) /\ Spent(b) <= asked[b]
    BY DEF Queued, CountInv
  <2>3. CASE b # hand[p].body
    <3>1. Standing(b)' <= Standing(b)
      BY <1>1, <1>3, <2>3, StandsLess
    <3> QED BY <2>1, <2>2, <3>1, Terms DEF Spent
  <2>4. CASE b = hand[p].body
    <3>1. Typing(p, b)
      BY <2>4 DEF Typing
    <3>2. CASE p \in Senders
      <4>1. Coming(b) = 1
        BY <3>1, <3>2 DEF Coming
      <4>2. \A q \in Senders : ~Typing(q, b)'
        <5>1. ASSUME NEW q \in Senders, q # p PROVE ~Typing(q, b)'
          BY <1>1, <5>1, OneSender, OthersCount DEF Procs
        <5> QED BY <1>3, <5>1
      <4>3. Coming(b)' = 0
        BY <4>2 DEF Coming
      <4> QED BY <2>1, <2>2, <4>1, <4>3, Terms DEF Spent
    <3>3. CASE p \in Passes
      <4>1. PICK k \in Ids : k = hand[p].mine /\ rec[k] # None /\ rec[k].tried
        <5>1. p \notin Senders /\ Marked(p)
          BY <3>3, DeliveryAssumption DEF CountInv
        <5> QED BY <5>1, Known DEF CountInv, Held, Hand, Marked
      <4>2. k \in Due(b)
        BY <3>1, <3>3, <4>1 DEF Due, Retyped
      <4>3. k \notin Due(b)'
        <5>1. k \notin Cleared(b)'
          BY <4>1 DEF Cleared
        <5>2. k \notin Retyped(b)'
          BY <1>3, <3>3 DEF Retyped, OnePass
        <5> QED BY <5>1, <5>2 DEF Due
      <4>4. Cardinality(Due(b)') + 1 <= Cardinality(Due(b))
        BY <2>1, <4>2, <4>3, Numbers, Terms
      <4> QED BY <2>1, <2>2, <4>4, Terms DEF Spent
    <3> QED BY <3>2, <3>3 DEF Procs
  <2> QED BY <2>3, <2>4
<1> QED BY <1>2, <1>4 DEF CountInv

LEMMA TypeCount ==
  ASSUME CountInv, OnePass, CarefulInv', NEW p \in Procs, Type(p) PROVE CountInv'
<1>1. /\ hand[p].pc = "type" /\ holder = p /\ pane.box \notin Bodies /\ hand[p].body \in Bodies
      /\ UNCHANGED <<rec, taken, asked>> /\ pane.box \in Boxes
  BY Known DEF Type, At, Work, CountInv, Held
<1>2. CASE pane.box = "empty" /\ Goto(p, "enter") /\ pane' = [pane EXCEPT !.box = hand[p].body]
  <2>1. pane'.box = hand[p].body /\ pane'.queued = pane.queued
    BY <1>2, Known DEF CountInv
  <2> QED BY <1>1, <1>2, <2>1, TypedCount
<1>3. ASSUME NEW l \in {"enter", "giveup"}, Goto(p, l), NEW t \in {pane.box, "foreign"},
             pane' = [pane EXCEPT !.box = t]
      PROVE  CountInv'
  <2>1. pane'.box \notin Bodies /\ pane'.queued = pane.queued
    BY <1>1, <1>3, Known, DeliveryAssumption DEF CountInv
  <2>2. /\ \A q \in Procs : q # p => hand'[q] = hand[q]
        /\ hand'[p].pc = l /\ hand'[p].body = hand[p].body
        /\ hand'[p].mine = hand[p].mine /\ hand'[p].copy = hand[p].copy
    BY <1>3, GoingOn DEF Labels, CountInv
  <2>3. \A b \in Bodies : (Typing(p, b)' => Typing(p, b)) /\ ~Erasing(p, b)'
    BY <1>1, <2>2 DEF Typing, Erasing
  <2> QED BY <1>1, <2>1, <2>2, <2>3, GoingCount
<1> QED BY <1>1, <1>2, <1>3 DEF Type

\* A key: what stood in the composer was given to the agent, or queued.
LEMMA PressCount ==
  ASSUME CountInv, CarefulInv', NEW p \in Procs, hand[p].pc \in {"enter", "watch"}, Press,
         \A q \in Procs : q # p => hand'[q] = hand[q],
         hand'[p].pc = "watch", hand'[p].mine = hand[p].mine, hand'[p].copy = hand[p].copy,
         UNCHANGED <<rec, asked>>
  PROVE  CountInv'
<1>1. /\ pane \in [box : Boxes, queued : SUBSET Bodies, busy : BOOLEAN]
      /\ taken \in [Bodies -> Nat] /\ (holder = p \/ holder = None)
  BY Known DEF CountInv, CarefulInv, IInv, DTypeOK, Work, Held
<1>2. \A b \in Bodies : ~Typing(p, b)' /\ ~Erasing(p, b)' /\ ~Typing(p, b) /\ ~Erasing(p, b)
  BY DEF Typing, Erasing
<1>3. CASE UNCHANGED <<pane, taken>>
  BY <1>2, <1>3, GoingCount
<1>4. ASSUME NEW c \in Boxes, pane.box = c, pane'.box = "empty",
             \/ pane'.queued = pane.queued /\ Gives(c)
             \/ pane'.queued = pane.queued \union {c} /\ c \in Bodies /\ UNCHANGED taken
      PROVE  CountInv'
  <2>1. ASSUME NEW q \in Passes PROVE Marked(q)'
    <3>1. q \in Procs /\ Marked(q)
      BY DEF Procs, CountInv
    <3>2. CASE q = p
      BY <3>1, <3>2 DEF Marked
    <3> QED BY <3>1, <3>2, OthersCount
  <2>2. ASSUME NEW b \in Bodies PROVE Spent(b)' <= asked'[b]
    <3>1. /\ Coming(b)' <= Coming(b) /\ Cardinality(Due(b)') <= Cardinality(Due(b))
      BY <1>2, Lessens DEF Cleared
    <3>2. Spent(b) <= asked[b]
      BY DEF CountInv
    <3>3. CASE b # c
      <4>1. Standing(b)' <= Standing(b)
        BY <1>2, <1>4, <3>3, DeliveryAssumption, StandsLess
      <4>2. Queued(b)' = Queued(b) /\ taken'[b] = taken[b]
        BY <1>1, <1>4, <3>3 DEF Queued, Gives
      <4> QED BY <3>1, <3>2, <4>1, <4>2, Terms DEF Spent
    <3>4. CASE b = c
      <4>1. Standing(b) = 1
        BY <1>4, <3>4 DEF Standing
      <4>2. Standing(b)' = 0
        <5>1. ASSUME NEW q \in Procs PROVE ~Erasing(q, b)'
          <6>1. CASE q # p
            BY <1>1, <6>1, OneEraser, OthersCount, DeliveryAssumption
          <6> QED BY <1>2, <6>1
        <5> QED BY <1>4, <5>1, DeliveryAssumption DEF Standing
      <4>3. taken'[b] + Queued(b)' <= taken[b] + Queued(b) + 1
        BY <1>1, <1>4, <3>4 DEF Queued, Gives
      <4> QED BY <3>1, <3>2, <4>1, <4>2, <4>3, Terms DEF Spent
    <3> QED BY <3>3, <3>4
  <2> QED BY <2>1, <2>2 DEF CountInv
<1> QED BY <1>1, <1>3, <1>4 DEF Press

LEMMA EnterCount == ASSUME CountInv, CarefulInv', NEW p \in Procs, Enter(p) PROVE CountInv'
<1>1. /\ hand[p].pc = "enter" /\ Goto(p, "watch") /\ Press /\ UNCHANGED <<rec, asked>>
  BY DEF Enter, At
<1>2. /\ \A q \in Procs : q # p => hand'[q] = hand[q]
      /\ hand'[p].pc = "watch" /\ hand'[p].mine = hand[p].mine /\ hand'[p].copy = hand[p].copy
  BY <1>1, GoingOn DEF Labels, CountInv
<1> QED BY <1>1, <1>2, PressCount

LEMMA WatchCount == ASSUME CountInv, CarefulInv', NEW p \in Procs, Watch(p) PROVE CountInv'
<1> DEFINE k == hand[p].own
<1>1. /\ hand[p].pc = "watch" /\ UNCHANGED asked
      /\ k # None => k \in Ids /\ rec[k] # None /\ rec[k].body = hand[p].body
  BY Known DEF Watch, At, Held, Hand, Work, CountInv
<1>2. CASE /\ Leave(p, TRUE) /\ UNCHANGED <<pane, taken>>
           /\ \/ UNCHANGED rec
              \/ k # None /\ rec' = [rec EXCEPT ![k].state = "delivered"]
  BY <1>1, <1>2, LeavingCount
<1>3. CASE /\ Press /\ hand' = [hand EXCEPT ![p].again = TRUE, ![p].calm = ~pane.busy]
           /\ UNCHANGED rec
  <2> DEFINE h == [hand[p] EXCEPT !.again = TRUE, !.calm = ~pane.busy]
  <2>1. h.pc = "watch" /\ h.mine = hand[p].mine /\ h.copy = hand[p].copy
    BY <1>1, Known DEF Hand, CountInv
  <2>2. hand' = [hand EXCEPT ![p] = h]
    BY <1>3
  <2> HIDE DEF h
  <2>3. hand'[p] = h /\ \A q \in Procs : q # p => hand'[q] = hand[q]
    BY <2>2, HandIs DEF CountInv
  <2> QED BY <1>1, <1>3, <2>1, <2>3, PressCount
<1>4. CASE k # None /\ Goto(p, "giveup") /\ UNCHANGED <<rec, pane, taken>>
  <2>1. /\ \A q \in Procs : q # p => hand'[q] = hand[q]
        /\ hand'[p].pc = "giveup" /\ hand'[p].body = hand[p].body /\ hand'[p].own = hand[p].own
        /\ hand'[p].mine = hand[p].mine /\ hand'[p].copy = hand[p].copy
    BY <1>4, GoingOn DEF Labels, CountInv
  <2>2. \A b \in Bodies : ~Typing(p, b)' /\ ~Erasing(p, b)'
    BY <1>1, <1>4, <2>1 DEF Typing, Erasing
  <2> QED BY <1>1, <1>4, <2>1, <2>2, GoingCount
<1>5. CASE Leave(p, FALSE) /\ UNCHANGED <<rec, pane, taken>>
  BY <1>1, <1>5, LeavingCount
<1> QED BY <1>2, <1>3, <1>4, <1>5 DEF Watch

-----------------------------------------------------------------------------
(* failed.                                                                  *)

\* failed() goes on, or leaves without having cleared the composer.
LEMMA FailedCount ==
  ASSUME CountInv, CarefulInv', NEW p \in Procs, hand[p].pc \in {"giveup", "wipe", "erase"},
         GiveUp(p) \/ Wipe(p) \/ Erase(p)
  PROVE  CountInv'
<1> DEFINE k == hand[p].own
<1>1. /\ k \in Ids /\ rec[k] # None /\ UNCHANGED <<taken, asked>>
      /\ pane \in [box : Boxes, queued : SUBSET Bodies, busy : BOOLEAN]
  BY Known DEF Held, Hand, CountInv, GiveUp, Wipe, Erase
<1>2. ASSUME NEW l \in {"wipe", "erase", "erased"}, Goto(p, l), l # "wipe" => UNCHANGED rec,
             \/ UNCHANGED rec
             \/ \E s \in {"unknown", "queued"} : rec' = [rec EXCEPT ![k].state = s],
             l = "erase" => pane.box = rec[k].body, l = "erased" => hand[p].pc = "erase",
             \A b \in Bodies : pane'.box = b => pane.box = b, pane'.queued = pane.queued
      PROVE  CountInv'
  <2>1. /\ \A q \in Procs : q # p => hand'[q] = hand[q]
        /\ hand'[p].pc = l /\ hand'[p].body = hand[p].body /\ hand'[p].own = k
        /\ hand'[p].mine = hand[p].mine /\ hand'[p].copy = hand[p].copy
    BY <1>2, GoingOn DEF Labels, CountInv
  <2>2. rec'[k].body = rec[k].body
    BY <1>1, <1>2, SameTried
  <2>3. \A b \in Bodies : /\ Typing(p, b)' => Typing(p, b)
                          /\ Erasing(p, b)' => Erasing(p, b) \/ pane.box = b
    BY <1>2, <2>1, <2>2 DEF Typing, Erasing
  <2> HIDE DEF k
  <2> QED BY <1>1, <1>2, <2>1, <2>3, GoingCount
<1>3. CASE GiveUp(p)
  <2>1. /\ \E s \in {"unknown", "queued"} : rec' = [rec EXCEPT ![k].state = s]
        /\ UNCHANGED pane /\ hand[p].pc = "giveup"
    BY <1>3 DEF GiveUp, At
  <2>2. Leave(p, FALSE) \/ Goto(p, "wipe")
    BY <1>3 DEF GiveUp, Settled
  <2> QED BY <1>1, <1>2, <2>1, <2>2, LeavingCount
<1>4. CASE Wipe(p)
  <2>1. /\ UNCHANGED <<rec, pane>> /\ hand[p].pc = "wipe"
        /\ Leave(p, FALSE) \/ (Goto(p, "erase") /\ pane.box = rec[k].body)
    BY <1>4 DEF Wipe, At, Settled
  <2> QED BY <1>1, <1>2, <2>1, LeavingCount
<1>5. CASE Erase(p)
  <2>1. UNCHANGED rec /\ hand[p].pc = "erase" /\ Goto(p, "erased")
    BY <1>5 DEF Erase, At
  <2>2. pane'.box = "empty" /\ pane'.queued = pane.queued
    BY <1>1, <1>5 DEF Erase
  <2>3. \A b \in Bodies : pane'.box # b
    BY <2>2, DeliveryAssumption
  <2> QED BY <1>1, <1>2, <2>1, <2>2, <2>3
<1> QED BY <1>3, <1>4, <1>5

\* What it erased is due, by its record.
LEMMA ErasedCount ==
  ASSUME CountInv, CarefulInv', NEW p \in Procs, Erased(p) PROVE CountInv'
<1>1. /\ hand[p].pc = "erased" /\ holder = p /\ pane.box \notin Bodies
      /\ hand[p].own \in Ids /\ rec[hand[p].own] # None /\ UNCHANGED <<pane, taken, asked>>
      /\ Settled(p, pane.box = "empty")
  BY Known DEF Erased, At, Work, Held, Hand, CountInv
<1>2. PICK k \in Ids : k = hand[p].own /\ rec[k] # None
  BY <1>1
<1>3. CASE pane.box # "empty"
  <2>1. Leave(p, FALSE) /\ UNCHANGED rec
    BY <1>1, <1>3 DEF Erased, Settled
  <2> QED BY <1>1, <2>1, LeavingCount
<1>4. CASE pane.box = "empty"
  <2>1. rec' = [rec EXCEPT ![k].state = "cleared"]
    BY <1>2, <1>4 DEF Erased
  <2>2. /\ \A i \in Ids : rec[i] # None => rec'[i] # None /\ rec'[i].body = rec[i].body
                                            /\ (rec[i].tried => rec'[i].tried)
        /\ \A b \in Bodies : Cleared(b)' \subseteq Cleared(b) \union {k}
        /\ \A b \in Bodies : b # rec[k].body => Cleared(b)' \subseteq Cleared(b)
    BY <1>2, <2>1, SameTried
  <2>3. /\ \A q \in Procs : q # p => hand'[q] = hand[q]
        /\ \A b \in Bodies : /\ ~Erasing(p, b)'
                             /\ Typing(p, b)' => Typing(p, b) /\ hand'[p].mine = hand[p].mine
        /\ p \in Passes => Marked(p)'
    <3>1. CASE Leave(p, FALSE)
      BY <1>1, <2>2, <3>1, LeaveCount
    <3>2. CASE Goto(p, "look") /\ rec[k].body # hand[p].body
      <4>1. /\ \A q \in Procs : q # p => hand'[q] = hand[q]
            /\ hand'[p].pc = "look" /\ hand'[p].body = hand[p].body
            /\ hand'[p].mine = hand[p].mine /\ hand'[p].copy = hand[p].copy
        BY <3>2, GoingOn DEF Labels, CountInv
      <4>2. hand[p].mine # None => hand[p].mine \in Ids /\ rec[hand[p].mine] # None
        BY Known DEF CountInv, Held, Hand
      <4>3. p \in Passes => Marked(p)'
        BY <1>1, <2>2, <4>1, <4>2 DEF CountInv, Marked
      <4> QED BY <1>1, <1>2, <3>2, <4>1, <4>3 DEF Typing, Erasing
    <3> QED BY <1>1, <1>2, <3>1, <3>2 DEF Settled
  <2>4. ASSUME NEW q \in Passes PROVE Marked(q)'
    BY <2>2, <2>3, <2>4, OthersCount DEF CountInv, Procs
  <2>5. ASSUME NEW b \in Bodies PROVE Spent(b)' <= asked'[b]
    <3>1. Queued(b)' = Queued(b) /\ Spent(b) <= asked[b] /\ UNCHANGED <<taken, asked>>
      BY <1>1 DEF Queued, CountInv
    <3>2. \A q \in Procs : q # p => /\ Typing(q, b)' <=> Typing(q, b)
                                    /\ Erasing(q, b)' <=> Erasing(q, b)
                                    /\ hand'[q].mine = hand[q].mine
      BY <2>2, <2>3, OthersCount
    <3>3. Coming(b)' <= Coming(b)
      BY <2>3, <3>2 DEF Coming, Procs
    <3>4. Retyped(b)' \subseteq Retyped(b)
      BY <2>3, <3>2 DEF Retyped, Procs
    <3>5. CASE b # rec[k].body
      <4>1. Standing(b)' <= Standing(b)
        BY <1>1, <2>3, <3>2 DEF Standing
      <4>2. Due(b)' \subseteq Due(b)
        BY <2>2, <3>4, <3>5 DEF Due
      <4>3. Cardinality(Due(b)') <= Cardinality(Due(b))
        BY <4>2, Numbers, Terms
      <4> QED BY <3>1, <3>3, <4>1, <4>3, Terms DEF Spent
    <3>6. CASE b = rec[k].body
      <4>1. Standing(b) = 1
        BY <1>1, <1>2, <3>6 DEF Standing, Erasing
      <4>2. Standing(b)' = 0
        <5>1. \A q \in Procs : ~Erasing(q, b)'
          BY <1>1, <2>3, <3>2, OneEraser
        <5> QED BY <1>1, <5>1 DEF Standing
      <4>3. Due(b)' \subseteq Due(b) \union {k}
        BY <2>2, <3>4 DEF Due
      <4>4. Cardinality(Due(b)') <= Cardinality(Due(b)) + 1
        BY <4>3, Numbers, Terms
      <4> QED BY <3>1, <3>3, <4>1, <4>2, <4>4, Terms DEF Spent
    <3> QED BY <3>5, <3>6
  <2> QED BY <2>4, <2>5 DEF CountInv
<1> QED BY <1>3, <1>4

-----------------------------------------------------------------------------
(* supervise.                                                               *)

LEMMA AbortsCount ==
  ASSUME CountInv, CarefulInv', NEW p \in Procs, Aborts(p), UNCHANGED <<pane, rec, taken, asked>>
  PROVE  CountInv'
<1>1. hand'[p] = Idle /\ \A q \in Procs : q # p => hand'[q] = hand[q]
  BY HandIs DEF Aborts, CountInv
<1>2. /\ \A b \in Bodies : ~Typing(p, b)' /\ ~Erasing(p, b)'
      /\ Marked(p)'
  BY <1>1 DEF Typing, Erasing, Marked, Idle
<1> QED BY <1>1, <1>2, QuietCount DEF Cleared

\* A step of a pass that leaves the pane alone and clears no record.
LEMMA PassCount ==
  ASSUME CountInv, CarefulInv', NEW p \in Passes, NEW h, hand' = [hand EXCEPT ![p] = h],
         UNCHANGED <<pane, taken, asked>>, h.pc \notin {"erase", "erased"},
         \A k \in Ids : rec[k] # None => rec'[k] # None /\ rec'[k].body = rec[k].body
                                         /\ (rec[k].tried => rec'[k].tried),
         \A b \in Bodies : Cleared(b)' \subseteq Cleared(b),
         hand'[p] = h => Marked(p)',
         \A b \in Bodies : hand'[p] = h /\ Typing(p, b)' =>
           (Typing(p, b) /\ h.mine = hand[p].mine) \/ h.mine \in Cleared(b)
  PROVE  CountInv'
<1>1. p \in Procs
  BY DEF Procs
<1>2. hand'[p] = h /\ \A q \in Procs : q # p => hand'[q] = hand[q]
  BY <1>1, HandIs DEF CountInv
<1>3. \A b \in Bodies : ~Erasing(p, b)'
  BY <1>2 DEF Erasing
<1>4. \A b \in Bodies : pane'.box = b => pane.box = b
  OBVIOUS
<1> QED BY <1>1, <1>2, <1>3, <1>4, QuietCount

\* A record rewritten, of the same body and no less tried, and not newly cleared.
LEMMA RecordCount ==
  ASSUME CountInv, NEW k \in Ids, rec[k] # None, NEW r \in Record, rec' = [rec EXCEPT ![k] = r],
         r.body = rec[k].body, rec[k].tried => r.tried,
         r.state = "cleared" => rec[k].state = "cleared" \/ r.tried
  PROVE  /\ \A i \in Ids : rec[i] # None => rec'[i] # None /\ rec'[i].body = rec[i].body
                                            /\ (rec[i].tried => rec'[i].tried)
         /\ \A b \in Bodies : Cleared(b)' \subseteq Cleared(b)
<1>1. r # None /\ rec'[k] = r /\ \A i \in Ids : i # k => rec'[i] = rec[i]
  BY DeliveryAssumption DEF CountInv, CarefulInv, IInv, DTypeOK
<1> QED BY <1>1 DEF Cleared

LEMMA BeginCount == ASSUME CountInv, CarefulInv', NEW p \in Passes, Begin(p) PROVE CountInv'
<1>1. p \in Procs /\ hand[p].pc = "idle" /\ UNCHANGED <<pane, rec, taken, asked>>
  BY DEF Begin, At, Procs
<1>2. PICK v : hand' = [hand EXCEPT ![p].pc = "lock", ![p].view = v]
  BY DEF Begin
<1> DEFINE h == [hand[p] EXCEPT !.pc = "lock", !.view = v]
<1>3. h.pc = "lock" /\ h.mine = hand[p].mine /\ hand[p].mine = None
  BY <1>1, Known DEF Hand, CountInv, Work, Idle
<1>4. hand' = [hand EXCEPT ![p] = h]
  BY <1>2
<1> HIDE DEF h
<1>5. hand'[p] = h => Marked(p)'
  BY <1>3 DEF Marked
<1>6. \A b \in Bodies : hand'[p] = h => ~Typing(p, b)'
  BY <1>3 DEF Typing
<1> QED BY <1>1, <1>3, <1>4, <1>5, <1>6, PassCount DEF Cleared

LEMMA LockCount == ASSUME CountInv, CarefulInv', NEW p \in Passes, Lock(p) PROVE CountInv'
<1>1. p \in Procs /\ hand[p].pc = "lock" /\ UNCHANGED <<pane, rec, taken, asked>>
  BY DEF Lock, At, Procs
<1>2. CASE hand' = [hand EXCEPT ![p].pc = "scan", ![p].todo = {k \in Ids : Open(k)}]
  <2> DEFINE h == [hand[p] EXCEPT !.pc = "scan", !.todo = {k \in Ids : Open(k)}]
  <2>1. h.pc = "scan" /\ h.mine = hand[p].mine /\ hand[p].mine = None
    BY <1>1, Known DEF Hand, CountInv, Work
  <2>2. hand' = [hand EXCEPT ![p] = h]
    BY <1>2
  <2> HIDE DEF h
  <2>3. hand'[p] = h => Marked(p)'
    BY <2>1 DEF Marked
  <2>4. \A b \in Bodies : hand'[p] = h => ~Typing(p, b)'
    BY <2>1 DEF Typing
  <2> QED BY <1>1, <2>1, <2>2, <2>3, <2>4, PassCount DEF Cleared
<1> QED BY <1>1, <1>2, AbortsCount DEF Lock

\* A step of a pass that reads records and asks the inbox.
LEMMA ReadsCount ==
  ASSUME CountInv, CarefulInv', NEW p \in Passes, hand[p].pc \in {"scan", "point"},
         NEW h, hand' = [hand EXCEPT ![p] = h], h.pc \in {"scan", "point"}, h.mine = hand[p].mine,
         UNCHANGED <<pane, taken, asked>>, NEW k \in Ids, rec[k] # None,
         \/ UNCHANGED rec
         \/ \E t \in {"attempting", "recorded"} : rec' = [rec EXCEPT ![k].ptr = t]
         \/ rec' = [rec EXCEPT ![k].state = "acknowledged"]
  PROVE  CountInv'
<1>1. p \in Procs /\ hand[p].mine = None /\ rec[k] \in Record
  BY Known DEF Procs, CountInv, Work
<1>2. hand'[p] = h => Marked(p)'
  BY <1>1 DEF Marked
<1>3. \A b \in Bodies : hand'[p] = h => ~Typing(p, b)'
  BY DEF Typing
<1>4. /\ \A i \in Ids : rec[i] # None => rec'[i] # None /\ rec'[i].body = rec[i].body
                                         /\ (rec[i].tried => rec'[i].tried)
      /\ \A b \in Bodies : Cleared(b)' \subseteq Cleared(b)
  <2>1. CASE UNCHANGED rec
    BY <2>1 DEF Cleared
  <2>2. ASSUME NEW t \in {"attempting", "recorded"}, rec' = [rec EXCEPT ![k].ptr = t]
        PROVE  /\ \A i \in Ids : rec[i] # None => rec'[i] # None /\ rec'[i].body = rec[i].body
                                                  /\ (rec[i].tried => rec'[i].tried)
               /\ \A b \in Bodies : Cleared(b)' \subseteq Cleared(b)
    <3> DEFINE r == [rec[k] EXCEPT !.ptr = t]
    <3>1. /\ r \in Record /\ r.body = rec[k].body /\ r.tried = rec[k].tried
          /\ r.state = rec[k].state
      BY <1>1 DEF Record
    <3>2. rec' = [rec EXCEPT ![k] = r]
      BY <2>2
    <3> HIDE DEF r
    <3> QED BY <3>1, <3>2, RecordCount
  <2> QED BY <2>1, <2>2, SameTried
<1> QED BY <1>2, <1>3, <1>4, PassCount

LEMMA ScanCount ==
  ASSUME CountInv, CarefulInv', NEW p \in Passes, NEW k \in Ids, Scan(p, k) PROVE CountInv'
<1>1. /\ p \in Procs /\ hand[p] \in Hand /\ hand[p].pc = "scan" /\ rec[k] # None
      /\ rec \in [Ids -> Record \union {None}] /\ UNCHANGED <<pane, taken, asked>>
  BY Known DEF Scan, At, Held, Procs, CountInv
<1>2. /\ rec' = [rec EXCEPT ![k] = rec[k]] => UNCHANGED rec
      /\ rec' = [rec EXCEPT ![k] = [rec[k] EXCEPT !.ptr = "recorded"]]
           => rec' = [rec EXCEPT ![k].ptr = "recorded"]
  BY <1>1
<1>3. \/ UNCHANGED rec
      \/ \E t \in {"attempting", "recorded"} : rec' = [rec EXCEPT ![k].ptr = t]
      \/ rec' = [rec EXCEPT ![k].state = "acknowledged"]
  BY <1>2 DEF Scan, Keeps
<1>4. CASE hand' = [hand EXCEPT ![p].todo = @ \ {k}]
  <2> DEFINE h == [hand[p] EXCEPT !.todo = @ \ {k}]
  <2>1. h.pc = "scan" /\ h.mine = hand[p].mine
    BY <1>1 DEF Hand
  <2>2. hand' = [hand EXCEPT ![p] = h]
    BY <1>4
  <2> HIDE DEF h
  <2> QED BY <1>1, <1>3, <2>1, <2>2, ReadsCount
<1>5. CASE hand' = [hand EXCEPT ![p].pc = "point", ![p].own = k]
  <2> DEFINE h == [hand[p] EXCEPT !.pc = "point", !.own = k]
  <2>1. h.pc = "point" /\ h.mine = hand[p].mine
    BY <1>1 DEF Hand
  <2>2. hand' = [hand EXCEPT ![p] = h]
    BY <1>5
  <2> HIDE DEF h
  <2> QED BY <1>1, <1>3, <2>1, <2>2, ReadsCount
<1>6. CASE hand' = [hand EXCEPT ![p].todo = @ \ {k}, ![p].view.readable = FALSE]
  <2> DEFINE h == [hand[p] EXCEPT !.todo = @ \ {k}, !.view.readable = FALSE]
  <2>1. h.pc = "scan" /\ h.mine = hand[p].mine
    BY <1>1 DEF Hand
  <2>2. hand' = [hand EXCEPT ![p] = h]
    BY <1>6
  <2> HIDE DEF h
  <2> QED BY <1>1, <1>3, <2>1, <2>2, ReadsCount
<1> QED BY <1>4, <1>5, <1>6 DEF Scan, Keeps

LEMMA PointCount == ASSUME CountInv, CarefulInv', NEW p \in Passes, Point(p) PROVE CountInv'
<1>1. /\ p \in Procs /\ hand[p] \in Hand /\ hand[p].pc = "point" /\ UNCHANGED <<pane, taken, asked>>
      /\ hand[p].own \in Ids /\ rec[hand[p].own] # None
  BY Known DEF Point, At, Held, Hand, Procs, CountInv
<1>2. CASE Aborts(p) /\ UNCHANGED rec
  BY <1>1, <1>2, AbortsCount
<1>3. CASE /\ rec' = [rec EXCEPT ![hand[p].own].ptr = "recorded"]
           /\ hand' = [hand EXCEPT ![p].pc = "scan", ![p].todo = @ \ {hand[p].own}]
  <2> DEFINE h == [hand[p] EXCEPT !.pc = "scan", !.todo = @ \ {hand[p].own}]
  <2>1. h.pc = "scan" /\ h.mine = hand[p].mine
    BY <1>1 DEF Hand
  <2>2. hand' = [hand EXCEPT ![p] = h]
    BY <1>3
  <2> HIDE DEF h
  <2>3. PICK k \in Ids : k = hand[p].own /\ rec[k] # None
    BY <1>1
  <2>4. \E t \in {"attempting", "recorded"} : rec' = [rec EXCEPT ![k].ptr = t]
    BY <1>3, <2>3
  <2> QED BY <1>1, <2>1, <2>2, <2>3, <2>4, ReadsCount
<1> QED BY <1>2, <1>3 DEF Point

\* It takes up a record whose body stands in the composer, or that is cleared and untried.
LEMMA UnlockCount == ASSUME CountInv, CarefulInv', NEW p \in Passes, Unlock(p) PROVE CountInv'
<1>1. p \in Procs /\ UNCHANGED <<pane, rec, taken, asked>>
  BY DEF Unlock, Procs
<1>2. CASE hand' = [hand EXCEPT ![p] = Idle]
  <2>1. hand'[p] = Idle => Marked(p)' /\ \A b \in Bodies : ~Typing(p, b)'
    BY DEF Marked, Typing, Idle
  <2>2. Idle.pc = "idle"
    BY DEF Idle
  <2> QED BY <1>1, <1>2, <2>1, <2>2, PassCount DEF Cleared
<1>3. ASSUME NEW k \in Ids, Open(k), May(p, rec[k]),
             hand' = [hand EXCEPT ![p] = [Idle EXCEPT !.pc = "mark", !.mine = k,
                        !.body = rec[k].body, !.copy = rec[k], !.view.box = hand[p].view.box]]
      PROVE  CountInv'
  <2> DEFINE h == [Idle EXCEPT !.pc = "mark", !.mine = k, !.body = rec[k].body, !.copy = rec[k],
                               !.view.box = hand[p].view.box]
  <2>1. /\ h.pc = "mark" /\ h.mine = k /\ h.body = rec[k].body
        /\ h.view.box = hand[p].view.box
    BY DEF Idle, NoView
  <2>2. hand' = [hand EXCEPT ![p] = h]
    BY <1>3
  <2> HIDE DEF h
  <2>3. hand'[p] = h => Marked(p)'
    BY <2>1 DEF Marked
  <2>4. \A b \in Bodies : hand'[p] = h /\ Typing(p, b)' => h.mine \in Cleared(b)
    BY <1>1, <1>3, <2>1 DEF Typing, Cleared, May, Open
  <2>5. \A b \in Bodies : Cleared(b)' \subseteq Cleared(b)
    BY <1>1 DEF Cleared
  <2> QED BY <1>1, <2>1, <2>2, <2>3, <2>4, <2>5, PassCount
<1> QED BY <1>2, <1>3 DEF Unlock

\* Its record is marked as tried before anything is typed.
LEMMA MarkCount == ASSUME CountInv, CarefulInv', NEW p \in Passes, Mark(p) PROVE CountInv'
<1> DEFINE k == hand[p].mine
           r == [hand[p].copy EXCEPT !.tried = TRUE]
<1>1. /\ p \in Procs /\ hand[p].pc = "mark" /\ UNCHANGED <<pane, taken, asked>>
      /\ k # None /\ k \in Ids /\ rec[k] # None /\ rec[k].body = hand[p].body
      /\ hand[p].copy \in Record /\ hand[p].copy.body = hand[p].body
  BY Known DEF Mark, At, Procs, Held, Hand, Work, CountInv
<1>2. CASE hand' = [hand EXCEPT ![p] = Idle] /\ UNCHANGED rec
  <2>1. hand'[p] = Idle => Marked(p)' /\ \A b \in Bodies : ~Typing(p, b)'
    BY DEF Marked, Typing, Idle
  <2>2. Idle.pc = "idle"
    BY DEF Idle
  <2> QED BY <1>1, <1>2, <2>1, <2>2, PassCount DEF Cleared
<1>3. ASSUME rec' = [rec EXCEPT ![k] = r], NEW l \in {"submit", "send"},
             l = "send" => hand[p].view.box # r.body,
             hand' = [hand EXCEPT ![p].copy = r, ![p].view = NoView, ![p].pc = l]
      PROVE  CountInv'
  <2> DEFINE h == [hand[p] EXCEPT !.copy = r, !.view = NoView, !.pc = l]
  <2>1. r \in Record /\ r.body = hand[p].body /\ r.tried
    BY <1>1 DEF Record
  <2>2. h.pc = l /\ h.mine = k /\ h.body = hand[p].body /\ h.copy = r
    BY <1>1, Known DEF Hand, CountInv
  <2>3. hand' = [hand EXCEPT ![p] = h]
    BY <1>3
  <2> HIDE DEF h, r
  <2>4. PICK n \in Ids : n = hand[p].mine
    BY <1>1
  <2>5. rec'[n] = r /\ rec' = [rec EXCEPT ![n] = r]
    BY <1>1, <1>3, <2>4, Known DEF CountInv
  <2>6. hand'[p] = h => Marked(p)'
    BY <2>1, <2>2, <2>4, <2>5 DEF Marked
  <2>7. \A b \in Bodies : hand'[p] = h /\ Typing(p, b)' => Typing(p, b) /\ h.mine = hand[p].mine
    BY <1>1, <1>3, <2>1, <2>2 DEF Typing
  <2>8. /\ \A i \in Ids : rec[i] # None => rec'[i] # None /\ rec'[i].body = rec[i].body
                                           /\ (rec[i].tried => rec'[i].tried)
        /\ \A b \in Bodies : Cleared(b)' \subseteq Cleared(b)
    <3>1. rec[n] # None /\ r.body = rec[n].body
      BY <1>1, <2>1, <2>4
    <3> HIDE DEF k
    <3> QED BY <2>1, <2>5, <3>1, RecordCount
  <2>9. UNCHANGED <<pane, taken, asked>> /\ h.pc \notin {"erase", "erased"}
    BY <1>1, <2>2
  <2> HIDE DEF k
  <2> QED BY <2>3, <2>6, <2>7, <2>8, <2>9, PassCount
<1> QED BY <1>2, <1>3 DEF Mark

LEMMA RecoveryCount ==
  ASSUME CountInv, CarefulInv', NEW p \in Passes, Submit(p) \/ Send(p) \/ Failed(p)
  PROVE  CountInv'
<1>1. /\ p \in Procs /\ hand[p].pc \in {"submit", "send", "failed"} /\ hand[p] \in Hand
      /\ UNCHANGED <<pane, rec, taken, asked>>
      /\ hand[p].mine # None /\ hand[p].mine \in Ids /\ rec[hand[p].mine].body = hand[p].body
  BY Known DEF Submit, Send, Failed, At, Procs, Held, Hand, Work, CountInv
<1>2. ASSUME NEW h, hand' = [hand EXCEPT ![p] = h], h.mine = hand[p].mine,
             h.body = hand[p].body, h.copy = hand[p].copy,
             \/ h.pc \in {"watch", "failed"} \/ (h.pc = "look" /\ hand[p].pc = "send")
             \/ h.pc = "giveup" /\ h.own = hand[p].mine
      PROVE  CountInv'
  <2>1. hand'[p] = h => Marked(p)'
    BY <1>1, <1>2 DEF Marked, CountInv
  <2>2. \A b \in Bodies : hand'[p] = h /\ Typing(p, b)' => Typing(p, b) /\ h.mine = hand[p].mine
    BY <1>1, <1>2 DEF Typing
  <2> QED BY <1>1, <1>2, <2>1, <2>2, PassCount DEF Cleared
<1>3. ASSUME NEW l \in {"look", "failed"}, Goto(p, l), l = "look" => hand[p].pc = "send"
      PROVE  CountInv'
  <2> DEFINE h == [hand[p] EXCEPT !.pc = l]
  <2>1. h.pc = l /\ h.mine = hand[p].mine /\ h.body = hand[p].body /\ h.copy = hand[p].copy
    BY <1>1 DEF Hand
  <2>2. hand' = [hand EXCEPT ![p] = h]
    BY <1>3 DEF Goto
  <2> HIDE DEF h
  <2> QED BY <1>2, <1>3, <2>1, <2>2
<1>4. CASE Submit(p)
  <2>1. CASE hand' = [hand EXCEPT ![p].pc = "watch", ![p].calm = ~pane.busy]
    <3> DEFINE h == [hand[p] EXCEPT !.pc = "watch", !.calm = ~pane.busy]
    <3>1. h.pc = "watch" /\ h.mine = hand[p].mine /\ h.body = hand[p].body /\ h.copy = hand[p].copy
      BY <1>1 DEF Hand
    <3>2. hand' = [hand EXCEPT ![p] = h]
      BY <2>1
    <3> HIDE DEF h
    <3> QED BY <1>2, <3>1, <3>2
  <2> QED BY <1>3, <1>4, <2>1 DEF Submit
<1>5. CASE Send(p)
  BY <1>3, <1>5 DEF Send, At
<1>6. CASE Failed(p)
  <2>1. CASE Aborts(p)
    BY <1>1, <2>1, AbortsCount
  <2>2. CASE hand' = [hand EXCEPT ![p].pc = "giveup", ![p].own = hand[p].mine, ![p].doubt = TRUE]
    <3> DEFINE h == [hand[p] EXCEPT !.pc = "giveup", !.own = hand[p].mine, !.doubt = TRUE]
    <3>1. /\ h.pc = "giveup" /\ h.mine = hand[p].mine /\ h.body = hand[p].body
          /\ h.copy = hand[p].copy /\ h.own = hand[p].mine
      BY <1>1 DEF Hand
    <3>2. hand' = [hand EXCEPT ![p] = h]
      BY <2>2
    <3> HIDE DEF h
    <3> QED BY <1>2, <3>1, <3>2
  <2> QED BY <1>6, <2>1, <2>2 DEF Failed
<1> QED BY <1>4, <1>5, <1>6

LEMMA SentCount == ASSUME CountInv, CarefulInv', NEW p \in Passes, Sent(p) PROVE CountInv'
<1> DEFINE k == hand[p].mine
           r == [hand[p].copy EXCEPT !.state = "delivered"]
<1>1. /\ p \in Procs /\ hand[p].pc = "sent" /\ hand' = [hand EXCEPT ![p] = Idle]
      /\ UNCHANGED <<pane, taken, asked>> /\ Marked(p)
  BY DEF Sent, At, Procs, CountInv
<1>2. /\ k # None /\ k \in Ids /\ rec[k] # None /\ rec[k].body = hand[p].body
      /\ hand[p].copy \in Record /\ hand[p].copy.body = hand[p].body /\ hand[p].copy.tried
  BY <1>1, Known DEF Held, Hand, Work, CountInv, Marked
<1>3. hand'[p] = Idle => Marked(p)' /\ \A b \in Bodies : ~Typing(p, b)'
  BY DEF Marked, Typing, Idle
<1>4. Idle.pc = "idle"
  BY DEF Idle
<1>5. CASE UNCHANGED rec
  BY <1>1, <1>3, <1>4, <1>5, PassCount DEF Cleared
<1>6. CASE rec' = [rec EXCEPT ![k] = r]
  <2>1. r \in Record /\ r.body = rec[k].body /\ r.tried /\ r.state = "delivered"
    BY <1>2 DEF Record
  <2> HIDE DEF r
  <2>2. PICK n \in Ids : n = hand[p].mine
    BY <1>2
  <2>3. /\ \A i \in Ids : rec[i] # None => rec'[i] # None /\ rec'[i].body = rec[i].body
                                           /\ (rec[i].tried => rec'[i].tried)
        /\ \A b \in Bodies : Cleared(b)' \subseteq Cleared(b)
    BY <1>2, <1>6, <2>1, <2>2, RecordCount
  <2> QED BY <1>1, <1>3, <1>4, <2>3, PassCount
<1> QED BY <1>5, <1>6 DEF Sent

-----------------------------------------------------------------------------
(* The theorem.                                                             *)

LEMMA NextCount == Serial /\ OnePass => (CountInv /\ [DNext]_dvars => CountInv')
<1> SUFFICES ASSUME Serial, OnePass, CountInv, [DNext]_dvars PROVE CountInv'
  OBVIOUS
<1>1. CarefulInv'
  BY NextCareful DEF CountInv
<1>2. CASE UNCHANGED dvars
  BY <1>1, <1>2 DEF CountInv, dvars, Marked, Spent, Standing, Queued, Coming, Due, Cleared,
                    Retyped, Typing, Erasing
<1>3. ASSUME NEW p \in Procs, Sends(p) PROVE CountInv'
  BY <1>1, <1>3, LookCount, TypeCount, EnterCount, WatchCount, FailedCount, ErasedCount,
     AbortsCount DEF Sends, Crash, GiveUp, Wipe, Erase, At
<1>4. ASSUME NEW p \in Senders, NEW b \in Bodies, Call(p, b) PROVE CountInv'
  BY <1>1, <1>4, CallCount
<1>5. ASSUME NEW p \in Passes,
             \/ Begin(p) \/ Lock(p) \/ Point(p) \/ Unlock(p) \/ Mark(p)
             \/ Submit(p) \/ Send(p) \/ Failed(p) \/ Sent(p)
             \/ \E k \in Ids : Scan(p, k)
      PROVE  CountInv'
  BY <1>1, <1>5, BeginCount, LockCount, PointCount, UnlockCount, MarkCount, RecoveryCount,
     SentCount, ScanCount
<1> QED BY <1>1, <1>2, <1>3, <1>4, <1>5, WorldCount DEF DNext

LEMMA InitCount == DInit => CountInv
<1> SUFFICES ASSUME DInit PROVE CountInv
  OBVIOUS
<1>1. CarefulInv
  BY InitCareful
<1>2. ASSUME NEW p \in Procs, NEW b \in Bodies PROVE ~Typing(p, b) /\ ~Erasing(p, b)
  BY <1>2 DEF DInit, Typing, Erasing, Idle
<1>3. ASSUME NEW p \in Passes PROVE Marked(p)
  BY <1>3 DEF DInit, Marked, Idle, Procs
<1>4. ASSUME NEW b \in Bodies PROVE Spent(b) <= asked[b]
  <2>1. Due(b) = {}
    BY <1>2 DEF DInit, Due, Cleared, Retyped, Procs
  <2>2. Standing(b) = 0 /\ Queued(b) = 0 /\ Coming(b) = 0
    BY <1>2, DeliveryAssumption DEF DInit, Standing, Queued, Coming, Procs
  <2>3. taken[b] = 0 /\ asked[b] = 0 /\ Cardinality({}) = 0
    BY FS_EmptySet DEF DInit
  <2> QED BY <2>1, <2>2, <2>3 DEF Spent
<1> QED BY <1>1, <1>3, <1>4 DEF CountInv

\* The agent is given a body once at most for each time it was asked for.
THEOREM TakenOnce == Serial /\ OnePass => (DSpec => []OneTake)
<1>1. CountInv => OneTake
  <2> SUFFICES ASSUME CountInv, NEW b \in Bodies PROVE taken[b] <= asked[b]
    BY DEF OneTake
  <2>1. /\ taken[b] \in Nat /\ asked[b] \in Nat /\ Due(b) \in SUBSET Ids
        /\ Standing(b) \in 0..1 /\ Queued(b) \in 0..1 /\ Coming(b) \in 0..1
    BY DEF CountInv, CarefulInv, IInv, DTypeOK, Standing, Queued, Coming, Due, Cleared, Retyped
  <2>2. Cardinality(Due(b)) \in Nat
    BY <2>1, Numbers
  <2> QED BY <2>1, <2>2 DEF CountInv, Spent
<1>2. SUFFICES ASSUME Serial, OnePass PROVE DSpec => []OneTake
  OBVIOUS
<1>3. CountInv /\ [DNext]_dvars => CountInv'
  BY <1>2, NextCount
<1> QED BY <1>1, <1>3, InitCount, PTL DEF DSpec
=============================================================================
