------------------------------- MODULE Plates -------------------------------
(***************************************************************************)
(* How work gets an owner: the admission of shantytown/plate_capacity.py   *)
(* that every create and update of a guarded tracker passes through, the   *)
(* same boundary for SDK producers in producer_capacity.py, and `st go`    *)
(* (dispatch.go), which sends an item to an agent's pane and then records  *)
(* it.  One lock per owner, held from the look to the write.  Outside: a   *)
(* write that does not land, an answer that is lost; a deferral that runs  *)
(* out and a change of priority alone, which no lock and no guard see.     *)
(* `st go --reassign` is an Update to the new owner and then a Go.         *)
(***************************************************************************)
EXTENDS Naturals, FiniteSets

CONSTANTS
  Items,
  Owners,
  Writers,    \* processes that create, update or dispatch
  MaxActive,
  MaxOps,
  Serial,     \* TRUE: no two writers have one item in hand under different locks
  None

Same == "same"

VARIABLES
  item,    \* the tracker: owner, status, deferral and priority of each item
  lock,    \* owner -> the writer that holds the plate
  pen,     \* writer -> its operation, and what it read
  ops,
  given,   \* history: item -> the agents it was sent to since it was last placed
  doubt,   \* history: items whose dispatch was reported as unverified or untracked
  over     \* history: items on a plate by urgency or a lapsed deferral, not by the count

pvars == <<item, lock, pen, ops, given, doubt, over>>

\* The fields of a record, and what an operation says of each: a new value, or Same.
Records == [owner : Owners \union {None}, st : {"none", "open", "closed"},
            defer : {"none", "later"}, rank : {"urgent", "plain"}]
Sayings == [owner : Owners \union {None, Same}, st : {"open", "closed", Same},
            defer : {"none", "later", Same}, rank : {"urgent", "plain", Same}]

Silent == [owner |-> Same, st |-> Same, defer |-> Same, rank |-> Same]
Rest == [pc |-> "idle", op |-> "none", i |-> None, says |-> Silent, by |-> "none",
         plate |-> None, was |-> None]

PInit ==
  /\ item = [i \in Items |-> [owner |-> None, st |-> "none", defer |-> "none", rank |-> "plain"]]
  /\ lock = [o \in Owners |-> None] /\ pen = [w \in Writers |-> Rest] /\ ops = 0
  /\ given = [i \in Items |-> {}] /\ doubt = {} /\ over = {}

At(w, label) == pen[w].pc = label

\* The record as an operation that says this would leave it.
Said(new, old) == IF new = Same THEN old ELSE new
With(x, says) == [owner |-> Said(says.owner, x.owner), st |-> Said(says.st, x.st),
                  defer |-> Said(says.defer, x.defer), rank |-> Said(says.rank, x.rank)]
Proposed(w) == With(item[pen[w].i], pen[w].says)

\* A piece of work put off until a later date is nobody's active work.
Active(x, o) == x.owner = o /\ x.st = "open" /\ x.defer = "none"
Plate(o) == {i \in Items : Active(item[i], o)}

\* Mutant: one too many.
FreeOffByOne(o) == Cardinality(Plate(o)) <= MaxActive
Free(o) == Cardinality(Plate(o)) < MaxActive

\* On what ground an item that is x now may become y on o's plate: it takes no new
\* place, it is counted in, it is urgent; or there is none.
\* Mutant: a deferred item has its owner already, and is not counted when it is resumed.
GroundByOwner(x, y, o) ==
  CASE ~Active(y, o) \/ (x.owner = o /\ x.st = "open") -> "none"
    [] OTHER -> IF Free(o) THEN "count" ELSE IF y.rank = "urgent" THEN "rank" ELSE "full"
Ground(x, y, o) ==
  CASE ~Active(y, o) \/ Active(x, o) -> "none"
    [] OTHER -> IF Free(o) THEN "count" ELSE IF y.rank = "urgent" THEN "rank" ELSE "full"

\* Does nobody else have the item in hand?
Alone(w, i) ==
  Serial => \A v \in Writers \ {w} : pen[v].i = i => pen[v].pc \in {"idle", "wait"}

-----------------------------------------------------------------------------
(* The operation is chosen, and the item read, before any lock.  One that is *)
(* about nobody's plate takes no lock, and looks no more.                   *)

Starts(w, op, i, says, plate) ==
  /\ At(w, "idle") /\ ops < MaxOps /\ ops' = ops + 1
  /\ plate = None => Alone(w, i)
  /\ pen' = [pen EXCEPT ![w] = [pc |-> IF plate = None THEN "write" ELSE "wait", op |-> op, i |-> i,
                                says |-> says, by |-> "none", plate |-> plate,
                                was |-> item[i].owner]]
  /\ UNCHANGED <<item, lock, given, doubt, over>>

\* What is created to be done later is counted on no plate.
Create(w, i, x) ==
  /\ item[i].st = "none" /\ x.st = "open"
  /\ Starts(w, "create", i, x, IF x.defer = "later" THEN None ELSE x.owner)

\* An update names a new owner (None: nobody), a status or a deferral; its plate is the
\* owner it names, or else the owner it found.  (A priority that it names besides is a
\* Rerank before it.)
Update(w, i, to, st, defer) ==
  /\ item[i].st # "none" /\ {to, st, defer} # {Same}
  /\ Starts(w, "update", i, [owner |-> to, st |-> st, defer |-> defer, rank |-> Same],
            IF to = Same THEN item[i].owner ELSE to)

Go(w, i, a) ==
  item[i].st # "none" /\ Starts(w, "go", i, [Silent EXCEPT !.owner = a, !.st = "open"], a)

-----------------------------------------------------------------------------
(* Under the plate's lock.                                                  *)

\* Mutant: the owner is not read again under the lock.
MovedUnseen(w) == FALSE
Moved(w) == pen[w].op = "update" /\ pen[w].says.owner = Same /\ item[pen[w].i].owner # pen[w].was

Done(w) ==
  /\ pen' = [pen EXCEPT ![w] = Rest]
  /\ lock' = [o \in Owners |-> IF lock[o] = w THEN None ELSE lock[o]]

Acquire(w) ==
  LET o == pen[w].plate IN
  /\ At(w, "wait") /\ Alone(w, pen[w].i) /\ lock[o] = None
  /\ IF Moved(w) THEN Done(w)
     ELSE /\ lock' = [lock EXCEPT ![o] = w]
          /\ pen' = [pen EXCEPT ![w].pc = IF pen[w].op = "go" THEN "plan" ELSE "admit"]
  /\ UNCHANGED <<item, ops, given, doubt, over>>

\* What is said of work that fits nowhere: it is open, and nobody's.
Pooled(says) == [says EXCEPT !.owner = None, !.st = "open"]

\* Work that fits nowhere goes to the pool; somebody's work stays where it is.
Admit(w) ==
  LET x == item[pen[w].i]
      ground == Ground(x, Proposed(w), pen[w].plate) IN
  /\ At(w, "admit")
  /\ \/ /\ ground # "full" /\ UNCHANGED lock
        /\ pen' = [pen EXCEPT ![w].pc = "write", ![w].by = ground]
     \/ /\ ground = "full" /\ x.owner = None /\ UNCHANGED lock
        /\ pen' = [pen EXCEPT ![w].pc = "write", ![w].says = Pooled(pen[w].says)]
     \/ ground = "full" /\ x.owner # None /\ Done(w)
  /\ UNCHANGED <<item, ops, given, doubt, over>>

\* The item is counted among those that were let in on this ground.
LetIn(i, ground) ==
  over' = CASE ground = "count" -> over \ {i}
            [] ground = "rank"  -> over \union {i}
            [] OTHER            -> over

\* The one write lands or does not; either way the process is done with it.
Write(w) ==
  LET i == pen[w].i IN
  /\ At(w, "write")
  /\ \/ /\ item' = [item EXCEPT ![i] = Proposed(w)] /\ LetIn(i, pen[w].by)
        /\ given' = IF pen[w].says.owner = Same /\ pen[w].says.st = Same THEN given
                    ELSE [given EXCEPT ![i] = {}]
     \/ UNCHANGED <<item, given, over>>
  /\ Done(w) /\ UNCHANGED <<ops, doubt>>

-----------------------------------------------------------------------------
(* st go: plan, send, verify, and only then write.                          *)

\* Mutant: an item somebody holds is planned all the same.
TakenNever(i, a) == FALSE
Taken(i, a) == item[i].owner \notin {None, a}

\* Work put off until later is resumed by its dispatch.
Plan(w) ==
  LET i == pen[w].i
      a == pen[w].plate IN
  /\ At(w, "plan")
  /\ IF \/ item[i].st = "closed" \/ Taken(i, a)
        \/ ~(Active(item[i], a) \/ Free(a) \/ item[i].rank = "urgent")
     THEN Done(w)
     ELSE /\ UNCHANGED lock
          /\ pen' = [pen EXCEPT ![w].pc = "send",
                       ![w].says.defer = IF item[i].defer = "later" THEN "none" ELSE Same]
  /\ UNCHANGED <<item, ops, given, doubt, over>>

\* A send that cannot be verified may have arrived: it is reported, and nothing
\* is written.
Send(w) ==
  LET i == pen[w].i IN
  /\ At(w, "send")
  /\ \/ /\ given' = [given EXCEPT ![i] = @ \union {pen[w].plate}]
        /\ pen' = [pen EXCEPT ![w].pc = "track"] /\ UNCHANGED <<lock, doubt>>
     \/ /\ given' \in {given, [given EXCEPT ![i] = @ \union {pen[w].plate}]}
        /\ doubt' = doubt \union {i} /\ Done(w)
  /\ UNCHANGED <<item, ops, over>>

\* The update passes the guard like any other, and is read back: work that fits no
\* more goes to the pool, and the dispatch is reported as untracked.
Track(w) ==
  LET i == pen[w].i
      x == item[i]
      ground == Ground(x, Proposed(w), pen[w].plate) IN
  /\ At(w, "track")
  /\ \/ /\ ground # "full" /\ LetIn(i, ground) /\ UNCHANGED doubt
        /\ item' = [item EXCEPT ![i] = Proposed(w)]
     \/ /\ ground = "full" /\ x.owner = None /\ doubt' = doubt \union {i} /\ UNCHANGED over
        /\ item' = [item EXCEPT ![i] = With(x, Pooled(pen[w].says))]
     \/ UNCHANGED <<item, over>> /\ doubt' = doubt \union {i}
  /\ Done(w) /\ UNCHANGED <<ops, given>>

-----------------------------------------------------------------------------
(* Without a writer.                                                        *)

\* The day comes that work was put off to: it is on its owner's plate again.
Lapse(i) ==
  /\ item[i].st # "none" /\ item[i].defer = "later"
  /\ item' = [item EXCEPT ![i].defer = "none"] /\ over' = over \union {i}
  /\ UNCHANGED <<lock, pen, ops, given, doubt>>

\* An update of the priority alone goes past the guard, in one write.
Rerank(i) ==
  /\ item[i].st # "none"
  /\ item' = [item EXCEPT ![i].rank = IF @ = "urgent" THEN "plain" ELSE "urgent"]
  /\ UNCHANGED <<lock, pen, ops, given, doubt, over>>

\* (The guard of Starts comes first, so that TLC lists what may be said only where it
\* can be.)
PNext ==
  \/ \E w \in Writers :
       \/ /\ At(w, "idle") /\ ops < MaxOps
          /\ \E i \in Items :
               \/ \E x \in Records : Create(w, i, x)
               \/ \E to \in Owners \union {None, Same}, st \in {"open", "closed", Same},
                     defer \in {"none", "later", Same} : Update(w, i, to, st, defer)
               \/ \E a \in Owners : Go(w, i, a)
       \/ Acquire(w) \/ Admit(w) \/ Write(w) \/ Plan(w) \/ Send(w) \/ Track(w)
  \/ \E i \in Items : Lapse(i) \/ Rerank(i)

PSpec == PInit /\ [][PNext]_pvars

-----------------------------------------------------------------------------
\* Every variable keeps its type.
PTypeOK ==
  /\ item \in [Items -> Records]
  /\ lock \in [Owners -> Writers \union {None}] /\ ops \in 0..MaxOps
  /\ \A o \in Owners : lock[o] # None => pen[lock[o]].plate = o

\* No plate holds more than MaxActive pieces of work that the count let in, however
\* creates, moves, reopenings, deferrals and dispatches interleave: more is there only
\* of what was urgent when it came to a full plate, or came back when a deferral ran out.
PlateBounded == \A o \in Owners : Cardinality(Plate(o) \ over) <= MaxActive

\* "Do not STEAL work someone is already doing": an item that was not placed anew
\* is with one agent at most, unless its dispatch was reported as in doubt.
GivenToOne == \A i \in Items \ doubt : Cardinality(given[i]) <= 1
=============================================================================
