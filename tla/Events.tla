------------------------------- MODULE Events -------------------------------
(***************************************************************************)
(* The stop-event store of shantytown/events.py (FilesEvents): one JSON    *)
(* file per event, written by the hooks of every agent and drained by the  *)
(* Stop hook of its destination (stop_event.py, _drain).  No lock is       *)
(* taken.  An unkeyed event is numbered one past the highest number seen   *)
(* and goes through `ev-N.json.tmp`, a name every writer of ev-N shares;   *)
(* a keyed one is linked into place.  Files are modelled as inodes behind  *)
(* names, for a writer keeps its open file when the name moves on.         *)
(***************************************************************************)
EXTENDS Naturals, Sequences, FiniteSets

CONSTANTS
  Hooks,       \* processes that persist events
  Readers,     \* processes that drain the events of one destination
  Keys,        \* producer keys, not numbers
  Serial,      \* TRUE: at most one hook at a time persists without a key
  MaxId,       \* bound on the numbers of unkeyed events
  MaxEvents,   \* bound on the calls of persist
  MaxPeeks,    \* bound on the drains begun
  MaxCrashes,
  None

Procs  == Hooks \union Readers
Slots  == (1 .. MaxId) \union Keys          \* ev-N.json and ev-key-<hash>.json
Calls  == 1 .. MaxEvents                    \* a call of persist; its event
Body   == [event : Calls, is : {"pending", "delivered"}]
Blank  == [event |-> 0, is |-> "blank"]
Torn   == [event |-> 0, is |-> "torn"]
Text   == Body \union {Blank, Torn}         \* what a file holds
New(c) == [event |-> c, is |-> "pending"]

VARIABLES
  dir,       \* the file behind each event name, if any
  tmp,       \* the file behind each event's .json.tmp
  text,      \* what each file holds, in the order they were made
  pc, slot, fd, body,   \* a process, the event it saves, through which file
  seen,      \* the events pending when a reader began
  busy,      \* whether its batch is of busy senders, to be discarded
  batch,     \* a reader's events: prepared, then claimed (slot -> event)
  left,      \* those of them it has yet to mark
  calls, peeks, crashes,
  keyOf,     \* history: the key a call was made with, or None
  stored,    \* history: the events whose persist returned
  told,      \* history: how often a destination was given each event
  dropped,   \* history: the events discarded, their sender being busy again
  spoilt     \* history: the events claimed by a drain that did not come to its end

files == <<dir, tmp, text>>
proc  == <<pc, slot, fd, body, seen, busy, batch, left>>
hist  == <<calls, peeks, crashes, keyOf, stored, told, dropped, spoilt>>
vars  == <<files, proc, hist>>

Nothing == [s \in {} |-> 0]
Read(slots) == [s \in slots |-> text[dir[s]].event]
Events(p) == {batch[p][s] : s \in DOMAIN batch[p]}

Init ==
  /\ dir = [s \in Slots |-> None] /\ tmp = [s \in Slots |-> None]
  /\ text = <<>>
  /\ pc = [p \in Procs |-> "idle"] /\ slot = [p \in Procs |-> None]
  /\ fd = [p \in Procs |-> None] /\ body = [p \in Procs |-> Blank]
  /\ seen = [p \in Procs |-> {}] /\ busy = [p \in Procs |-> FALSE]
  /\ batch = [p \in Procs |-> Nothing] /\ left = [p \in Procs |-> {}]
  /\ calls = 0 /\ peeks = 0 /\ crashes = 0
  /\ keyOf = [c \in Calls |-> None] /\ stored = {}
  /\ told = [c \in Calls |-> 0] /\ dropped = {} /\ spoilt = {}

Goto(p, label) == pc' = [pc EXCEPT ![p] = label]

Ends(p) == /\ Goto(p, "idle")
           /\ slot' = [slot EXCEPT ![p] = None] /\ fd' = [fd EXCEPT ![p] = None]
           /\ body' = [body EXCEPT ![p] = Blank]
           /\ seen' = [seen EXCEPT ![p] = {}] /\ busy' = [busy EXCEPT ![p] = FALSE]
           /\ batch' = [batch EXCEPT ![p] = Nothing] /\ left' = [left EXCEPT ![p] = {}]

Saves(p, s, b) == /\ Goto(p, "open")
                  /\ slot' = [slot EXCEPT ![p] = s] /\ body' = [body EXCEPT ![p] = b]

-----------------------------------------------------------------------------
(* persist                                                                  *)

Taken == {n \in 1 .. MaxId : dir[n] # None}

\* Mutant: the highest number itself.
NextIdSame == IF Taken = {} THEN 0 ELSE CHOOSE n \in Taken : \A m \in Taken : m <= n

\* Mutant: one past the number of the events that are not delivered yet.
NextIdCounts == 1 + Cardinality({n \in Taken : text[dir[n]].is = "pending"})

\* _next_id: one past the highest number; keyed names are not counted.
NextId == IF Taken = {} THEN 1 ELSE 1 + CHOOSE n \in Taken : \A m \in Taken : m <= n

Persist(h) ==
  /\ pc[h] = "idle" /\ calls < MaxEvents /\ NextId <= MaxId
  /\ Serial => \A g \in Hooks : slot[g] \notin Nat
  /\ calls' = calls + 1
  /\ Saves(h, NextId, New(calls + 1))
  /\ UNCHANGED <<files, fd, seen, busy, batch, left,
                 peeks, crashes, keyOf, stored, told, dropped, spoilt>>

\* os.link of a private temporary file: refused when the event is there.
Link(c, k) ==
  \/ /\ dir[k] = None
     /\ text' = Append(text, New(c)) /\ dir' = [dir EXCEPT ![k] = Len(text')]
  \/ dir[k] # None /\ UNCHANGED <<dir, text>>

PersistKeyed(h, k) ==
  /\ pc[h] = "idle" /\ calls < MaxEvents
  /\ calls' = calls + 1
  /\ Link(calls + 1, k)
  /\ keyOf' = [keyOf EXCEPT ![calls + 1] = k]
  /\ stored' = stored \union {calls + 1}
  /\ UNCHANGED <<tmp, proc, peeks, crashes, told, dropped, spoilt>>

-----------------------------------------------------------------------------
(* _write_json: write_text of the shared temporary name, then os.replace.   *)

Open(p) ==
  /\ pc[p] = "open"
  /\ LET at == tmp[slot[p]] IN
       /\ text' = IF at = None THEN Append(text, Blank) ELSE [text EXCEPT ![at] = Blank]
       /\ tmp' = [tmp EXCEPT ![slot[p]] = IF at = None THEN Len(text') ELSE at]
       /\ fd' = [fd EXCEPT ![p] = tmp'[slot[p]]]
  /\ Goto(p, "write")
  /\ UNCHANGED <<dir, slot, body, seen, busy, batch, left, hist>>

\* A longer text is overwritten from its start, and its end may stay behind.
Write(p) ==
  /\ pc[p] = "write"
  /\ \E t \in {body[p]} \union (IF text[fd[p]] = Blank THEN {} ELSE {Torn}) :
       text' = [text EXCEPT ![fd[p]] = t]
  /\ Goto(p, "replace")
  /\ UNCHANGED <<dir, tmp, slot, fd, body, seen, busy, batch, left, hist>>

\* The rename fails if another writer of the same name has renamed first; then
\* the caller of persist, or the whole drain, ends with the exception.
Replace(p) ==
  /\ pc[p] = "replace"
  /\ \/ /\ tmp[slot[p]] # None
        /\ dir' = [dir EXCEPT ![slot[p]] = tmp[slot[p]]]
        /\ tmp' = [tmp EXCEPT ![slot[p]] = None]
        /\ \/ /\ p \in Hooks
              /\ stored' = stored \union {body[p].event}
              /\ Ends(p)
           \/ /\ p \in Readers
              /\ Goto(p, "mark") /\ left' = [left EXCEPT ![p] = @ \ {slot[p]}]
              /\ UNCHANGED <<slot, fd, body, seen, busy, batch, stored>>
        /\ UNCHANGED spoilt
     \/ /\ tmp[slot[p]] = None
        /\ spoilt' = spoilt \union Events(p)
        /\ Ends(p)
        /\ UNCHANGED <<dir, tmp, stored>>
  /\ UNCHANGED <<text, calls, peeks, crashes, keyOf, told, dropped>>

-----------------------------------------------------------------------------
(* The destination's Stop hook.                                             *)

\* pending: the events that can be read and are not delivered.
Pending == {s \in Slots : dir[s] # None /\ text[dir[s]].is = "pending"}

\* The senders of the pending events are looked at, and the ordinary stops of
\* those that are busy again are drained and dropped first (discard_busy).
Peek(r) ==
  /\ pc[r] = "idle" /\ peeks < MaxPeeks /\ Pending # {}
  /\ peeks' = peeks + 1
  /\ seen' = [seen EXCEPT ![r] = Pending]
  /\ \E obsolete \in SUBSET Pending :
       /\ batch' = [batch EXCEPT ![r] = Read(obsolete)]
       /\ busy' = [busy EXCEPT ![r] = obsolete # {}]
       /\ Goto(r, IF obsolete # {} THEN "claim" ELSE "prepare")
  /\ UNCHANGED <<files, slot, fd, body, left,
                 calls, crashes, keyOf, stored, told, dropped, spoilt>>

\* The payload is prepared from a look that takes nothing ...
Prepare(r) ==
  /\ pc[r] = "prepare"
  /\ LET got == Pending \intersect seen[r] IN
       \/ /\ got # {}
          /\ batch' = [batch EXCEPT ![r] = Read(got)]
          /\ Goto(r, "claim")
          /\ UNCHANGED <<slot, fd, body, seen, busy, left>>
       \/ got = {} /\ Ends(r)
  /\ UNCHANGED <<files, hist>>

\* ... and drain claims what of it is still pending.
Claim(r) ==
  /\ pc[r] = "claim"
  /\ LET mine == DOMAIN batch[r] \intersect Pending
     IN /\ batch' = [batch EXCEPT ![r] = Read(mine)]
        /\ left' = [left EXCEPT ![r] = mine]
  /\ Goto(r, "mark")
  /\ UNCHANGED <<files, slot, fd, body, seen, busy, hist>>

\* Mutant: the event is marked in memory and not saved.
MarkUnsaved(r) ==
  /\ pc[r] = "mark"
  /\ \E s \in left[r] : left' = [left EXCEPT ![r] = @ \ {s}]
  /\ UNCHANGED <<files, pc, slot, fd, body, seen, busy, batch,
                 calls, peeks, crashes, keyOf, stored, told, dropped, spoilt>>

\* One event after the other is read again and saved with delivered = true; one
\* that does not parse ends the drain with the exception.
Mark(r) ==
  /\ pc[r] = "mark"
  /\ \E s \in left[r] :
       LET t == text[dir[s]] IN
       \/ /\ t \in Body
          /\ Saves(r, s, [t EXCEPT !.is = "delivered"])
          /\ UNCHANGED <<fd, seen, busy, batch, left, spoilt>>
       \/ t \notin Body /\ spoilt' = spoilt \union Events(r) /\ Ends(r)
  /\ UNCHANGED <<files, calls, peeks, crashes, keyOf, stored, told, dropped>>

\* What was discarded is dropped.
Drop(r) ==
  /\ pc[r] = "mark" /\ left[r] = {} /\ busy[r]
  /\ dropped' = dropped \union Events(r)
  /\ busy' = [busy EXCEPT ![r] = FALSE]
  /\ batch' = [batch EXCEPT ![r] = Nothing]
  /\ Goto(r, "prepare")
  /\ UNCHANGED <<files, slot, fd, body, seen, left,
                 calls, peeks, crashes, keyOf, stored, told, spoilt>>

\* Mutant: the payload lists what is pending once the batch is marked.
TellPending(r) ==
  /\ pc[r] = "mark" /\ left[r] = {} /\ ~busy[r]
  /\ told' = [c \in Calls |-> told[c] + (IF \E s \in DOMAIN batch[r] \intersect Pending :
                                               batch[r][s] = c THEN 1 ELSE 0)]
  /\ Ends(r)
  /\ UNCHANGED <<files, calls, peeks, crashes, keyOf, stored, dropped, spoilt>>

\* The block payload is printed once everything claimed is marked.
Tell(r) ==
  /\ pc[r] = "mark" /\ left[r] = {} /\ ~busy[r]
  /\ told' = [c \in Calls |-> told[c] + (IF c \in Events(r) THEN 1 ELSE 0)]
  /\ Ends(r)
  /\ UNCHANGED <<files, calls, peeks, crashes, keyOf, stored, dropped, spoilt>>

-----------------------------------------------------------------------------
\* A hook is killed: what it had open is closed, what it made stays.
Crash(p) ==
  /\ pc[p] # "idle" /\ crashes < MaxCrashes
  /\ crashes' = crashes + 1
  /\ spoilt' = IF pc[p] = "claim" THEN spoilt ELSE spoilt \union Events(p)
  /\ Ends(p)
  /\ UNCHANGED <<files, calls, peeks, keyOf, stored, told, dropped>>

Step(p) == Open(p) \/ Write(p) \/ Replace(p) \/ Crash(p)

Next == \/ \E h \in Hooks : \/ Persist(h) \/ Step(h)
                            \/ \E k \in Keys : PersistKeyed(h, k)
        \/ \E r \in Readers : Peek(r) \/ Prepare(r) \/ Claim(r) \/ Mark(r)
                              \/ Drop(r) \/ Tell(r) \/ Step(r)

Spec == Init /\ [][Next]_vars

-----------------------------------------------------------------------------
(* What the store promises.                                                 *)

TypeOK ==
  /\ dir \in [Slots -> DOMAIN text \union {None}] /\ tmp \in [Slots -> DOMAIN text \union {None}]
  /\ text \in Seq(Text)
  /\ pc \in [Procs -> {"idle", "open", "write", "replace", "prepare", "claim", "mark"}]
  /\ slot \in [Procs -> Slots \union {None}] /\ fd \in [Procs -> DOMAIN text \union {None}]
  /\ body \in [Procs -> Body \union {Blank}]
  /\ \A p \in Procs : /\ DOMAIN batch[p] \subseteq Slots /\ left[p] \subseteq DOMAIN batch[p]
                      /\ \A s \in DOMAIN batch[p] : batch[p][s] \in Calls
  /\ calls \in 0 .. MaxEvents /\ peeks \in 0 .. MaxPeeks /\ crashes \in 0 .. MaxCrashes
  /\ keyOf \in [Calls -> Keys \union {None}] /\ stored \subseteq Calls /\ spoilt \subseteq Calls
  /\ told \in [Calls -> Nat] /\ dropped \subseteq Calls
  /\ seen \in [Procs -> SUBSET Slots] /\ busy \in [Procs -> BOOLEAN]

Held == {text[dir[s]].event : s \in {x \in Slots : dir[x] # None /\ text[dir[x]] \in Body}}

\* "It is on the store before it is read, so it cannot vanish": an event whose
\* persist returned stays in a file that can be read; a keyed one, the first of
\* its key at least.  "A reader sees the old world or the new file, never a torn one."
Survives ==
  /\ \A c \in stored : \/ c \in Held
                       \/ keyOf[c] # None /\ \E d \in Held : keyOf[d] = keyOf[c]
  /\ \A s \in Slots : dir[s] # None => text[dir[s]] \in Body

\* An event is given to its destination once at most, and never once it was
\* dropped; so is what a producer stores again under the key of a told event.
BlockOnce ==
  /\ \A c \in Calls : told[c] <= 1 /\ (c \in dropped => told[c] = 0)
  /\ \A c, d \in Calls : told[c] > 0 /\ told[d] > 0 /\ keyOf[c] = keyOf[d]
                           => c = d \/ keyOf[c] = None

\* An event leaves the pending ones by being told or discarded, or by a drain
\* that was ended from outside between its first mark and its payload.
MarkedIsTold ==
  \A s \in Slots :
    dir[s] # None /\ text[dir[s]].is = "delivered" =>
      LET c == text[dir[s]].event
      IN \/ told[c] > 0 \/ c \in dropped \/ c \in spoilt
         \/ \E r \in Readers : s \in DOMAIN batch[r] \ left[r]
=============================================================================
