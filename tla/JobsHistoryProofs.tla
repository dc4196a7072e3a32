-------------------------- MODULE JobsHistoryProofs --------------------------
(***************************************************************************)
(* What a job does over time, for every number of passes, runners, events  *)
(* and crashes: nothing its cursor passed was dropped, nothing is fired    *)
(* twice, an event waits for the earlier ones, a firing is attempted and   *)
(* an item made a bounded number of times, runners are alone, and the      *)
(* administrator is told the truth.                                        *)
(*                                                                         *)
(* JobsProofs gives the lock and the durable queue.  Three more invariants *)
(* carry the histories.  History: all that was fired lies behind the mark  *)
(* of the trigger and ascends, and so do the queue on disk and the copy of *)
(* it in force.  Budget: what was spent on a key, and what its firings in  *)
(* the queue in force may still spend, is covered by its firings and the   *)
(* crashes; a crash brings the queue on disk back, at most one full round  *)
(* of every firing.  Runners: only the head has a runner, and every live   *)
(* runner but that one is paid for by a crash, a result of another runner  *)
(* by one more.                                                            *)
(*                                                                         *)
(* At the end the job is shown to serve a durable queue (Firings): every   *)
(* step is a step of that queue or none.                                   *)
(***************************************************************************)
EXTENDS JobsProofs, FunctionTheorems

\* Every job but one on closed items looks in one direction: its keys ascend.
Onward == job.trigger # "closed"
Rising(keys)   == \A i, j \in DOMAIN keys : i < j => keys[i] < keys[j]
RisingQueue(q) == \A i, j \in DOMAIN q : i < j => q[i].key < q[j].key

\* What the trigger has passed: it fires none of it again.
Behind(k) ==
  /\ job.trigger \in NumberedKinds => k <= disk.cursor
  /\ job.trigger = "cron" => disk.lastSlot # None /\ k <= disk.lastSlot
  /\ job.trigger \in {"every", "when"} => k <= Len(fired)

\* A pass changes what is written of the queue only.
SameTrigger(s, t) == /\ s.lastSlot = t.lastSlot /\ s.cursor = t.cursor
                     /\ s.seeded = t.seeded /\ s.seen = t.seen
Copied == \A p \in Passes : lock = p => SameTrigger(mem[p], disk)

\* The first poll is remembered, and no poll passes what there is.
Seeds == (seed # None <=> disk.seeded) /\ disk.cursor <= top

\* Everything queued, finished, tried or made was fired.
FromFired ==
  /\ KeysOf(disk.pending) \subseteq Range(fired) /\ KeysOf(Queue) \subseteq Range(fired)
  /\ DOMAIN final \subseteq Range(fired) /\ DOMAIN tries \subseteq Range(fired)
  /\ DOMAIN created \subseteq Range(fired)

\* What was fired, and what is left of it, ascends up to the trigger's mark.
Sorted ==
  Onward => /\ Rising(fired) /\ \A k \in Range(fired) : Behind(k)
            /\ RisingQueue(disk.pending) /\ RisingQueue(Queue)

\* A time trigger has one firing in the queue at a time.
AtMostOne ==
  job.trigger \in TimedKinds => Len(disk.pending) <= 1 /\ Len(Queue) <= 1

\* The passes that hold a list no other pass has overtaken.
Current == {p \in Passes : list[p] # None /\ p \notin overtaken}

\* A closed item is owed a firing while `seen` does not have it; so it is if a
\* list shows it and `seen` does not, or if it was closed after the list was read.
Unfired(e) == \/ e \in closed \ disk.seen
           \/ \E p \in Current : e \in list[p] \ disk.seen \/ e \in closed \ list[p]

\* An item is fired once for each time it was closed, and one time more for each
\* poll by an overtaken list; an item that is owed a firing has one left.
SeenOnce ==
  job.trigger = "closed" =>
    /\ Range(fired) \subseteq Events
    /\ \A e \in Events : /\ Times(e) <= closings[e] + stale
                         /\ Unfired(e) => Times(e) < closings[e] + stale

\* Without a crash, what is finished is not in the queue any more.
Unfinished ==
  Onward /\ crashes = 0 => KeysOf(Queue) \intersect DOMAIN final = {}

History == /\ Copied /\ Seeds /\ FromFired /\ Sorted /\ AtMostOne /\ SeenOnce
           /\ Unfinished /\ ToldTruth /\ InOrder

-----------------------------------------------------------------------------
(* More about queues: the order of the keys.                                *)

\* Taking the head off leaves a shorter queue of the other keys, in order.
LEMMA TailAscends ==
  ASSUME NEW q \in Seq(Fire), q # <<>>
  PROVE  /\ Tail(q) \in Seq(Fire) /\ Len(Tail(q)) <= Len(q)
         /\ KeysOf(Tail(q)) \subseteq KeysOf(q)
         /\ RisingQueue(q) => /\ RisingQueue(Tail(q))
                              /\ q[1].key \notin KeysOf(Tail(q))
<1> DEFINE t == Tail(q)
<1>1. /\ t \in Seq(Fire) /\ Len(t) = Len(q) - 1
      /\ \A i \in 1 .. Len(t) : t[i] = q[i + 1]
  BY HeadTailProperties
<1>2. /\ Len(q) \in Nat /\ DOMAIN q = 1 .. Len(q)
      /\ Len(t) \in Nat /\ DOMAIN t = 1 .. Len(t)
  BY <1>1, LenProperties
<1> HIDE DEF t
<1>3. \A i \in DOMAIN t : i + 1 \in DOMAIN q /\ t[i] = q[i + 1] /\ 1 < i + 1
  BY <1>1, <1>2
<1>4. KeysOf(t) \subseteq KeysOf(q)
  BY <1>3 DEF KeysOf
<1>5. ASSUME RisingQueue(q) PROVE RisingQueue(t)
  <2> SUFFICES ASSUME NEW i \in DOMAIN t, NEW j \in DOMAIN t, i < j
               PROVE  t[i].key < t[j].key
    BY DEF RisingQueue
  <2>1. i + 1 < j + 1
    BY <1>2
  <2> QED BY <1>3, <1>5, <2>1 DEF RisingQueue
<1>6. ASSUME RisingQueue(q) PROVE q[1].key \notin KeysOf(t)
  <2> SUFFICES ASSUME NEW i \in DOMAIN t, t[i].key = q[1].key PROVE FALSE
    BY DEF KeysOf
  <2>1. 1 \in DOMAIN q /\ q[i + 1] \in Fire /\ q[1] \in Fire
    BY <1>2, <1>3, ElementOfSeq
  <2>2. q[1].key < q[i + 1].key
    BY <1>3, <1>6, <2>1 DEF RisingQueue
  <2>3. q[1].key \in Nat
    BY <2>1 DEF Fire, Keys
  <2> QED BY <1>3, <2>2, <2>3
<1> QED BY <1>1, <1>2, <1>4, <1>5, <1>6 DEF t

\* Replacing the head by a firing of the same key keeps length, keys and order.
LEMMA ReplaceAscends ==
  ASSUME NEW q \in Seq(Fire), q # <<>>, NEW f \in Fire, f.key = q[1].key
  PROVE  LET r == [q EXCEPT ![1] = f]
         IN /\ r \in Seq(Fire) /\ Len(r) = Len(q) /\ KeysOf(r) = KeysOf(q)
            /\ RisingQueue(q) => RisingQueue(r)
<1> DEFINE r == [q EXCEPT ![1] = f]
<1>1. r \in Seq(Fire) /\ KeysOf(r) = KeysOf(q)
  BY ReplaceHead
<1>2. Len(q) \in Nat \ {0} /\ DOMAIN q = 1 .. Len(q)
  BY EmptySeq, LenProperties
<1>3. /\ Len(r) = Len(q) /\ DOMAIN r = DOMAIN q
      /\ \A j \in DOMAIN q : r[j].key = q[j].key
  BY <1>2, ExceptSeq
<1> HIDE DEF r
<1>4. RisingQueue(q) => RisingQueue(r)
  BY <1>3 DEF RisingQueue
<1> QED BY <1>1, <1>3, <1>4 DEF r

\* The head of a queue in order has the smallest key.
LEMMA HeadIsLeast ==
  ASSUME NEW q \in Seq(Fire), q # <<>>, RisingQueue(q), NEW k \in KeysOf(q)
  PROVE  q[1].key <= k
<1>1. Len(q) \in Nat \ {0} /\ DOMAIN q = 1 .. Len(q)
  BY EmptySeq, LenProperties
<1>2. PICK i \in DOMAIN q : k = q[i].key
  BY DEF KeysOf
<1>3. q[1] \in Fire /\ q[i] \in Fire
  BY <1>1, ElementOfSeq
<1>4. q[1].key \in Nat /\ q[i].key \in Nat
  BY <1>3 DEF Fire, Keys
<1>5. i = 1 \/ 1 < i
  BY <1>1
<1> QED BY <1>1, <1>2, <1>4, <1>5 DEF RisingQueue

\* What is in a sequence with more at its end.
LEMMA ConcatElements ==
  ASSUME NEW S, NEW a \in Seq(S), NEW b \in Seq(S)
  PROVE  /\ a \o b \in Seq(S) /\ Len(a \o b) = Len(a) + Len(b)
         /\ \A i \in DOMAIN a : i \in DOMAIN (a \o b) /\ (a \o b)[i] = a[i]
         /\ \A i \in DOMAIN b : /\ Len(a) + i \in DOMAIN (a \o b)
                                /\ (a \o b)[Len(a) + i] = b[i]
         /\ \A i \in DOMAIN (a \o b) :
              \/ i \in DOMAIN a
              \/ i \notin DOMAIN a /\ i - Len(a) \in DOMAIN b
         /\ Range(a \o b) = Range(a) \union Range(b)
<1> DEFINE c == a \o b
<1>1. /\ c \in Seq(S) /\ Len(c) = Len(a) + Len(b)
      /\ \A i \in 1 .. Len(a) + Len(b) :
           c[i] = IF i <= Len(a) THEN a[i] ELSE b[i - Len(a)]
  BY ConcatProperties
<1>2. /\ Len(a) \in Nat /\ DOMAIN a = 1 .. Len(a)
      /\ Len(b) \in Nat /\ DOMAIN b = 1 .. Len(b)
      /\ DOMAIN c = 1 .. Len(a) + Len(b)
  BY <1>1, LenProperties
<1> HIDE DEF c
<1>3. \A i \in DOMAIN a : i \in DOMAIN c /\ c[i] = a[i]
  BY <1>1, <1>2
<1>4. ASSUME NEW i \in DOMAIN b PROVE Len(a) + i \in DOMAIN c /\ c[Len(a) + i] = b[i]
  <2>1. Len(a) + i \in DOMAIN c /\ ~(Len(a) + i <= Len(a)) /\ Len(a) + i - Len(a) = i
    BY <1>2
  <2> QED BY <2>1, <1>1, <1>2
<1>5. \A i \in DOMAIN c : i \in DOMAIN a \/ (i \notin DOMAIN a /\ i - Len(a) \in DOMAIN b)
  BY <1>2
<1>6. ASSUME NEW i \in DOMAIN c, i \notin DOMAIN a PROVE c[i] = b[i - Len(a)]
  BY <1>1, <1>2, <1>6
<1>7. Range(c) = Range(a) \union Range(b)
  <2>1. Range(c) \subseteq Range(a) \union Range(b)
    BY <1>3, <1>5, <1>6 DEF Range
  <2>2. Range(a) \subseteq Range(c)
    BY <1>3 DEF Range
  <2>3. Range(b) \subseteq Range(c)
    BY <1>4 DEF Range
  <2> QED BY <2>1, <2>2, <2>3
<1> QED BY <1>1, <1>3, <1>4, <1>5, <1>7 DEF c

\* Greater keys at the end keep a sequence of keys ascending.
LEMMA ConcatAscends ==
  ASSUME NEW a \in Seq(Keys), NEW b \in Seq(Keys), Rising(a), Rising(b),
         \A x \in Range(a), y \in Range(b) : x < y
  PROVE  Rising(a \o b)
<1> SUFFICES ASSUME NEW i \in DOMAIN (a \o b), NEW j \in DOMAIN (a \o b), i < j
             PROVE  (a \o b)[i] < (a \o b)[j]
  BY DEF Rising
<1>1. /\ Len(a) \in Nat /\ DOMAIN a = 1 .. Len(a)
      /\ Len(b) \in Nat /\ DOMAIN b = 1 .. Len(b)
      /\ DOMAIN (a \o b) = 1 .. Len(a) + Len(b)
      /\ \A n \in DOMAIN a : (a \o b)[n] = a[n]
      /\ \A n \in DOMAIN b : (a \o b)[Len(a) + n] = b[n]
  BY LenProperties, ConcatElements
<1>2. CASE j \in DOMAIN a
  <2>1. i \in DOMAIN a
    BY <1>1, <1>2
  <2> QED BY <1>1, <1>2, <2>1 DEF Rising
<1>3. CASE j \notin DOMAIN a
  <2>1. j - Len(a) \in DOMAIN b /\ Len(a) + (j - Len(a)) = j
    BY <1>1, <1>3
  <2>2. (a \o b)[j] = b[j - Len(a)]
    BY <1>1, <2>1
  <2>3. CASE i \in DOMAIN a
    BY <1>1, <2>1, <2>2, <2>3 DEF Range
  <2>4. CASE i \notin DOMAIN a
    <3>1. i - Len(a) \in DOMAIN b /\ Len(a) + (i - Len(a)) = i /\ i - Len(a) < j - Len(a)
      BY <1>1, <2>4
    <3>2. (a \o b)[i] = b[i - Len(a)]
      BY <1>1, <3>1
    <3> QED BY <2>1, <2>2, <3>1, <3>2 DEF Rising
  <2> QED BY <2>3, <2>4
<1> QED BY <1>2, <1>3

\* So do firings of greater keys at the end of a queue.
LEMMA AppendAscends ==
  ASSUME NEW q \in Seq(Fire), NEW keys \in Seq(Keys)
  PROVE  LET new == [i \in DOMAIN keys |-> NewFire(keys[i])]
         IN /\ new \in Seq(Fire) /\ q \o new \in Seq(Fire)
            /\ Len(q \o new) = Len(q) + Len(keys)
            /\ KeysOf(q \o new) = KeysOf(q) \union Range(keys)
            /\ (/\ RisingQueue(q) /\ Rising(keys)
                /\ \A x \in KeysOf(q), y \in Range(keys) : x < y)
                 => RisingQueue(q \o new)
<1> DEFINE new == [i \in DOMAIN keys |-> NewFire(keys[i])]
<1>1. Len(keys) \in Nat /\ DOMAIN keys = 1 .. Len(keys)
  BY LenProperties
<1>2. \A i \in DOMAIN keys : NewFire(keys[i]) \in Fire /\ NewFire(keys[i]).key = keys[i]
  BY <1>1, ElementOfSeq DEF NewFire, Fire
<1>3. /\ new \in Seq(Fire) /\ Len(new) = Len(keys) /\ DOMAIN new = DOMAIN keys
      /\ \A i \in DOMAIN keys : new[i].key = keys[i]
  BY <1>1, <1>2
<1>4. q \o new \in Seq(Fire) /\ KeysOf(q \o new) = KeysOf(q) \union Range(keys)
  BY AppendFirings
<1> HIDE DEF new
<1>5. /\ Len(q) \in Nat /\ DOMAIN q = 1 .. Len(q)
      /\ Len(q \o new) = Len(q) + Len(keys)
      /\ DOMAIN (q \o new) = 1 .. Len(q) + Len(keys)
      /\ \A n \in DOMAIN q : (q \o new)[n] = q[n]
      /\ \A n \in DOMAIN new : (q \o new)[Len(q) + n] = new[n]
  <2>1. /\ Len(q \o new) = Len(q) + Len(new)
        /\ \A n \in DOMAIN q : (q \o new)[n] = q[n]
        /\ \A n \in DOMAIN new : (q \o new)[Len(q) + n] = new[n]
    <3>1. new \in Seq(Fire)
      BY <1>3
    <3>2. \A b \in Seq(Fire) :
            /\ Len(q \o b) = Len(q) + Len(b)
            /\ \A n \in DOMAIN q : (q \o b)[n] = q[n]
            /\ \A n \in DOMAIN b : (q \o b)[Len(q) + n] = b[n]
      BY ConcatElements
    <3> QED BY <3>1, <3>2
  <2>2. /\ Len(q) \in Nat /\ DOMAIN q = 1 .. Len(q)
        /\ DOMAIN (q \o new) = 1 .. Len(q \o new)
    BY <1>4, LenProperties
  <2> QED BY <1>3, <2>1, <2>2
<1>6. ASSUME RisingQueue(q), Rising(keys),
             \A x \in KeysOf(q), y \in Range(keys) : x < y
      PROVE  RisingQueue(q \o new)
  <2> SUFFICES ASSUME NEW i \in DOMAIN (q \o new), NEW j \in DOMAIN (q \o new), i < j
               PROVE  (q \o new)[i].key < (q \o new)[j].key
    BY DEF RisingQueue
  <2>1. CASE j \in DOMAIN q
    <3>1. i \in DOMAIN q
      BY <1>5, <2>1
    <3> QED BY <1>5, <1>6, <2>1, <3>1 DEF RisingQueue
  <2>2. CASE j \notin DOMAIN q
    <3>1. j - Len(q) \in DOMAIN keys /\ Len(q) + (j - Len(q)) = j
      BY <1>1, <1>5, <2>2
    <3>2. (q \o new)[j].key = keys[j - Len(q)]
      BY <1>3, <1>5, <3>1
    <3>3. CASE i \in DOMAIN q
      <4>1. q[i].key \in KeysOf(q) /\ keys[j - Len(q)] \in Range(keys)
        BY <3>1, <3>3 DEF KeysOf, Range
      <4> QED BY <1>5, <1>6, <3>2, <3>3, <4>1
    <3>4. CASE i \notin DOMAIN q
      <4>1. i - Len(q) \in DOMAIN keys /\ Len(q) + (i - Len(q)) = i /\ i - Len(q) < j - Len(q)
        BY <1>1, <1>5, <3>4
      <4>2. (q \o new)[i].key = keys[i - Len(q)]
        BY <1>3, <1>5, <4>1
      <4> QED BY <1>6, <3>1, <3>2, <4>1, <4>2 DEF Rising
    <3> QED BY <3>3, <3>4
  <2> QED BY <2>1, <2>2
<1> QED BY <1>3, <1>4, <1>5, <1>6 DEF new

-----------------------------------------------------------------------------
(* History: the steps of a pass over its queue.                             *)

\* The queue in force of a pass that holds the lock is its copy's.
LEMMA HolderQueue ==
  ASSUME IInv, NEW p \in Passes, lock = p
  PROVE  /\ Queue = mem[p].pending /\ p \in Procs
         /\ mem \in [Procs -> State] /\ mem[p] \in State /\ mem[p].pending \in Seq(Fire)
         /\ disk \in State /\ disk.pending \in Seq(Fire) /\ fired \in Seq(Keys)
BY DEF Queue, IInv, TypeOK, State, Procs

\* Everything fired is in the queue of the lock's holder or finished.
LEMMA HolderHasAll ==
  ASSUME IInv, NEW p \in Passes, lock = p, NEW k \in Range(fired)
  PROVE  k \in KeysOf(mem[p].pending) \union DOMAIN final
BY DEF IInv, NothingLost, CopyKeeps

\* A step of the lock's holder that shortens or keeps its queue.
LEMMA HolderKeeps ==
  ASSUME IInv, History, NEW p \in Passes, lock = p, NEW m \in State,
         SameTrigger(m, mem[p]), mem' = [mem EXCEPT ![p] = m],
         UNCHANGED <<job, world, cache, disk, lock, fired, seed, crashes>>,
         KeysOf(m.pending) \subseteq KeysOf(mem[p].pending),
         RisingQueue(mem[p].pending) => RisingQueue(m.pending),
         Len(m.pending) <= Len(mem[p].pending),
         DOMAIN final \subseteq DOMAIN final',
         DOMAIN final' \subseteq DOMAIN final \union KeysOf(mem[p].pending),
         \A k \in DOMAIN tries' : \/ k \in DOMAIN tries
                                  \/ mem[p].pending # <<>> /\ k = First(p).key,
         DOMAIN created' \subseteq DOMAIN created \union KeysOf(mem[p].pending),
         Unfinished', ToldTruth'
  PROVE  History'
<1>1. /\ Queue = mem[p].pending /\ p \in Procs /\ mem \in [Procs -> State]
      /\ mem[p].pending \in Seq(Fire) /\ m.pending \in Seq(Fire)
  BY HolderQueue DEF State
<1>2. /\ mem'[p] = m /\ lock' = p /\ Queue' = m.pending /\ disk' = disk
      /\ \A r \in Procs : r # p => mem'[r] = mem[r]
  BY <1>1 DEF Queue
<1>3. Copied'
  BY <1>1, <1>2 DEF History, Copied, SameTrigger, Procs
<1>4. Seeds'
  BY DEF History, Seeds, world
<1>5. mem[p].pending # <<>> => First(p).key \in KeysOf(mem[p].pending)
  BY <1>1, HeadOfQueue DEF First, KeysOf
<1>6. FromFired'
  BY <1>1, <1>2, <1>5 DEF History, FromFired
<1>7. Sorted'
  BY <1>1, <1>2 DEF History, Sorted, Onward, Behind
<1>8. AtMostOne'
  <2>1. Len(m.pending) \in Nat /\ Len(mem[p].pending) \in Nat
    BY <1>1, LenProperties
  <2> QED BY <1>1, <1>2, <2>1 DEF History, AtMostOne
<1>9. SeenOnce'
  BY <1>2 DEF History, SeenOnce, Unfired, Current, Times, world, cache
<1>10. InOrder'
  <2> SUFFICES ASSUME job.trigger \in NumberedKinds,
                      NEW k \in DOMAIN tries', NEW n \in Range(fired), n < k
               PROVE  n \in DOMAIN final'
    BY DEF InOrder
  <2>1. CASE k \in DOMAIN tries
    BY <2>1 DEF History, InOrder
  <2>2. CASE mem[p].pending # <<>> /\ k = First(p).key
    <3>1. RisingQueue(mem[p].pending)
      BY <1>1 DEF History, Sorted, Onward, NumberedKinds
    <3>2. n \in KeysOf(mem[p].pending) => k <= n
      BY <1>1, <2>2, <3>1, HeadIsLeast DEF First
    <3>3. k \in Nat /\ n \in Nat
      <4>1. k \in Nat
        BY <1>1, <2>2, HeadOfQueue DEF First, Keys
      <4>2. n \in Nat
        BY HolderQueue, ElementOfSeq, LenProperties DEF Range, Keys
      <4> QED BY <4>1, <4>2
    <3>4. n \notin KeysOf(mem[p].pending)
      BY <3>2, <3>3
    <3> QED BY <3>4, HolderHasAll
  <2> QED BY <2>1, <2>2
<1> QED BY <1>3, <1>4, <1>6, <1>7, <1>8, <1>9, <1>10 DEF History

\* The head is replaced by a firing of the same key.
LEMMA WorkKeepsHistory ==
  ASSUME IInv, History, NEW p \in Passes, lock = p, mem[p].pending # <<>>,
         NEW f \in Fire, f.key = First(p).key, Work(p, f),
         UNCHANGED <<job, world, cache, disk, lock, fired, seed, crashes, final>>,
         told' = told,
         tries' \in {tries, AddOne(tries, First(p).key)},
         created' \in {created, AddOne(created, First(p).key)}
  PROVE  History'
<1> DEFINE q == mem[p].pending
           m == [mem[p] EXCEPT !.pending = [q EXCEPT ![1] = f]]
<1>1. /\ Queue = q /\ p \in Procs /\ mem \in [Procs -> State] /\ mem[p] \in State
      /\ q \in Seq(Fire) /\ First(p) = q[1] /\ q[1].key \in KeysOf(q)
  BY HolderQueue, HeadOfQueue DEF First, KeysOf
<1>2. /\ [q EXCEPT ![1] = f] \in Seq(Fire) /\ Len([q EXCEPT ![1] = f]) = Len(q)
      /\ KeysOf([q EXCEPT ![1] = f]) = KeysOf(q)
      /\ RisingQueue(q) => RisingQueue([q EXCEPT ![1] = f])
  BY <1>1, ReplaceAscends
<1>3. /\ m \in State /\ m.pending = [q EXCEPT ![1] = f] /\ SameTrigger(m, mem[p])
  BY <1>1, <1>2 DEF State, SameTrigger
<1>4. mem' = [mem EXCEPT ![p] = m]
  BY <1>1 DEF Work, State
<1>5. Len(q) \in Nat
  BY <1>1, LenProperties
<1> HIDE DEF m
<1>6. /\ \A k \in DOMAIN tries' : k \in DOMAIN tries \/ (q # <<>> /\ k = First(p).key)
      /\ DOMAIN created' \subseteq DOMAIN created \union KeysOf(q)
  BY <1>1 DEF AddOne
<1>7. Unfinished'
  BY <1>1, <1>2, <1>3, <1>4 DEF History, Unfinished, Onward, Queue
<1>8. ToldTruth'
  BY DEF History, ToldTruth
<1>9. /\ KeysOf(m.pending) \subseteq KeysOf(q) /\ Len(m.pending) <= Len(q)
      /\ RisingQueue(q) => RisingQueue(m.pending)
      /\ DOMAIN final \subseteq DOMAIN final'
      /\ DOMAIN final' \subseteq DOMAIN final \union KeysOf(q)
  BY <1>2, <1>3, <1>5
<1> QED BY <1>3, <1>4, <1>6, <1>7, <1>8, <1>9, HolderKeeps

\* The head is finished and leaves the queue, or is put off for a retry.
LEMMA FinishKeepsHistory ==
  ASSUME IInv, History, NEW p \in Passes, lock = p, mem[p].pending # <<>>,
         NEW f \in Fire, f.key = First(p).key, f.attempts >= 1,
         NEW ok \in BOOLEAN, Finish(p, f, ok),
         UNCHANGED <<job, now, world, cache, disk, lock, fired, seed, crashes, created>>,
         tries' \in {tries, AddOne(tries, First(p).key)}
  PROVE  History'
<1> DEFINE q == mem[p].pending
<1>1. /\ Queue = q /\ p \in Procs /\ mem \in [Procs -> State] /\ mem[p] \in State
      /\ q \in Seq(Fire) /\ First(p) = q[1] /\ q[1].key \in KeysOf(q)
  BY HolderQueue, HeadOfQueue DEF First, KeysOf
<1>2. CASE Retry(p, f)
  <2> DEFINE g == [f EXCEPT !.retryAt = now + Backoff * 2 ^ (f.attempts - 1)]
  <2>1. now + Backoff * 2 ^ (f.attempts - 1) \in Nat
    <3>1. now \in Nat /\ job \in JobFiles /\ job.retryMax \in Nat
      BY JobsAssumption DEF IInv, TypeOK, Time, Job
    <3>2. f.attempts - 1 \in 0 .. job.retryMax
      BY <1>2, <3>1 DEF Retry, Fire
    <3>3. 2 ^ (f.attempts - 1) \in Nat
      BY <3>1, <3>2, DoublingAssumption
    <3>4. \A a, b \in Nat : a * b \in Nat
      OBVIOUS
    <3>5. Backoff * 2 ^ (f.attempts - 1) \in Nat
      BY <3>3, <3>4, JobsAssumption
    <3> QED BY <3>1, <3>5
  <2>2. g \in Fire /\ g.key = First(p).key
    BY <2>1 DEF Fire
  <2>3. Work(p, g) /\ final' = final /\ told' = told
    BY <1>2 DEF Retry
  <2> HIDE DEF g
  <2> QED BY <2>2, <2>3, WorkKeepsHistory
<1>3. ASSUME NEW how, Popped(p, f), Record(f, how),
             told' \in {told, told \union {f.key}},
             told' # told => how = "gaveup"
      PROVE  History'
  <2> DEFINE m == [mem[p] EXCEPT !.pending = Tail(q), !.lastDone = now]
  <2>1. /\ Tail(q) \in Seq(Fire) /\ Len(Tail(q)) <= Len(q)
        /\ KeysOf(Tail(q)) \subseteq KeysOf(q)
        /\ RisingQueue(q) => RisingQueue(Tail(q)) /\ q[1].key \notin KeysOf(Tail(q))
    BY <1>1, TailAscends
  <2>2. now \in Time
    BY DEF IInv, TypeOK
  <2>3. m \in State /\ m.pending = Tail(q) /\ SameTrigger(m, mem[p])
    BY <1>1, <2>1, <2>2 DEF State, SameTrigger
  <2>4. mem' = [mem EXCEPT ![p] = m]
    BY <1>1, <1>3 DEF Popped, State
  <2>5. /\ DOMAIN final' = DOMAIN final \union {q[1].key}
        /\ final'[q[1].key] = how
        /\ \A k \in DOMAIN final : k # q[1].key => final'[k] = final[k]
    BY <1>1, <1>3 DEF Record
  <2> HIDE DEF m
  <2>6. Queue' = Tail(q)
    BY <1>1, <2>3, <2>4 DEF Queue
  <2>7. Unfinished'
    <3> SUFFICES ASSUME Onward, crashes = 0
                 PROVE  KeysOf(Tail(q)) \intersect DOMAIN final' = {}
      BY <2>6 DEF Unfinished, Onward
    <3>1. RisingQueue(q) /\ KeysOf(q) \intersect DOMAIN final = {}
      BY <1>1 DEF History, Sorted, Unfinished
    <3> QED BY <2>1, <2>5, <3>1
  <2>8. ToldTruth'
    <3> SUFFICES ASSUME Onward, crashes = 0, NEW k \in told'
                 PROVE  k \in DOMAIN final' /\ final'[k] = "gaveup"
      BY DEF ToldTruth, Onward
    <3>1. q[1].key \notin DOMAIN final
      BY <1>1 DEF History, Unfinished
    <3>2. CASE k \in told
      BY <2>5, <3>1, <3>2 DEF History, ToldTruth, Onward
    <3>3. CASE k \notin told
      BY <1>1, <1>3, <2>5, <3>3
    <3> QED BY <3>2, <3>3
  <2>9. /\ \A k \in DOMAIN tries' : k \in DOMAIN tries \/ (q # <<>> /\ k = First(p).key)
        /\ DOMAIN created' \subseteq DOMAIN created \union KeysOf(q)
    BY <1>1 DEF AddOne
  <2> QED BY <1>1, <2>1, <2>3, <2>4, <2>5, <2>7, <2>8, <2>9, HolderKeeps
<1>4. CASE Succeed(p, f)
  BY <1>3, <1>4 DEF Succeed
<1>5. CASE GiveUp(p, f)
  BY <1>3, <1>5 DEF GiveUp
<1> QED BY <1>2, <1>4, <1>5 DEF Finish

\* What History speaks of, but for the queue in force.
Remembered == <<job, world, cache, disk, fired, seed, crashes, final, told, tries, created>>

\* A step that leaves the histories and the queue in force as they are.
LEMMA SameHistory ==
  ASSUME History, UNCHANGED Remembered, Queue' = Queue, Copied'
  PROVE  History'
<1>1. /\ Seeds' /\ FromFired' /\ Sorted' /\ AtMostOne' /\ SeenOnce' /\ Unfinished'
  BY DEF History, Remembered, Seeds, FromFired, Sorted, Onward, Behind, AtMostOne, SeenOnce,
         Unfired, Current, Times, world, cache, Unfinished
<1>2. ToldTruth' /\ InOrder'
  BY DEF History, Remembered, ToldTruth, InOrder
<1> QED BY <1>1, <1>2 DEF History

\* A step of a pass over its queue keeps History.
LEMMA DrainKeepsHistory ==
  ASSUME IInv, History, NEW p \in Passes, Drain(p)
  PROVE  History'
<1> DEFINE q == mem[p].pending
<1>1. pc[p] \in InDrain /\ p \in Procs
  BY DEF Drain, Attempt, Send, Create, Go, Spawn, HarvestRead, HarvestLook,
         WriteBack, Stops, InDrain, Procs
<1>2. lock = p
  BY <1>1 DEF IInv, Exclusive, InDrain
<1>3. /\ Queue = q /\ mem \in [Procs -> State] /\ q \in Seq(Fire)
      /\ pc \in [Procs -> Labels]
  BY <1>2, HolderQueue DEF IInv, TypeOK
<1>4. ASSUME q # <<>>
      PROVE  /\ First(p) \in Fire /\ First(p).attempts \in Nat
             /\ First(p).child # None => First(p).attempts >= 1
  BY <1>1, <1>3, <1>4, HeadOfQueue DEF First, IInv, Attempted, Begun
<1>5. pc[p] = "act" => q # <<>> /\ First(p).attempts >= 1
  BY <1>1 DEF IInv, Attempted
<1>6. pc[p] = "look" => q # <<>> /\ First(p).child # None
  BY <1>1 DEF IInv, Attempted
<1>7. ASSUME q # <<>>, First(p).attempts >= 1,
             NEW f, f \in {First(p), [First(p) EXCEPT !.child = None]},
             NEW ok \in BOOLEAN, Finish(p, f, ok),
             UNCHANGED <<job, now, world, cache, disk, lock, fired, seed, faults, created>>,
             tries' \in {tries, AddOne(tries, First(p).key)}
      PROVE  History'
  <2>1. f \in Fire /\ f.key = First(p).key /\ f.attempts >= 1
    BY <1>4, <1>7 DEF Fire
  <2> QED BY <1>2, <1>7, <2>1, FinishKeepsHistory DEF faults
<1>8. ASSUME UNCHANGED <<job, world, cache, disk, lock, mem, ghost, faults>>
      PROVE  History'
  <2>1. Queue' = Queue
    BY <1>8 DEF Queue
  <2>2. Copied'
    BY <1>8 DEF History, Copied, SameTrigger
  <2> QED BY <1>8, <2>1, <2>2, SameHistory DEF Remembered, ghost, faults
<1>9. ASSUME q # <<>>, First(p).attempts >= 1, Collect(p),
             UNCHANGED <<job, now, world, cache, disk, lock, fired, seed, faults, created, tries>>
      PROVE  History'
  <2>1. result.ok \in BOOLEAN /\ Finish(p, [First(p) EXCEPT !.child = None], result.ok)
    BY <1>9 DEF Collect, IInv, TypeOK
  <2> QED BY <1>7, <1>9, <2>1
<1>10. CASE Attempt(p)
  <2> DEFINE f == [First(p) EXCEPT !.attempts = @ + 1]
  <2>1. q # <<>>
    BY <1>10 DEF Attempt, CanAttempt
  <2>2. f \in Fire /\ f.key = First(p).key
    BY <1>4, <2>1 DEF Fire
  <2>3. Work(p, f) /\ UNCHANGED <<job, world, cache, disk, lock, ghost, faults>>
    BY <1>10 DEF Attempt
  <2> HIDE DEF f
  <2> QED BY <1>2, <2>1, <2>2, <2>3, WorkKeepsHistory DEF ghost, faults
<1>11. CASE Send(p)
  <2>1. PICK ok \in BOOLEAN : Finish(p, First(p), ok)
    BY <1>11 DEF Send
  <2>2. tries' \in {tries, AddOne(tries, First(p).key)}
    BY <1>11 DEF Send
  <2>3. UNCHANGED <<job, now, world, cache, disk, lock, fired, seed, faults, created>>
    BY <1>11 DEF Send
  <2> QED BY <1>5, <1>7, <1>11, <2>1, <2>2, <2>3 DEF Send
<1>12. CASE Create(p)
  <2> DEFINE f == [First(p) EXCEPT !.item = TRUE]
  <2>1. pc[p] = "act" /\ q # <<>> /\ First(p).attempts >= 1
    BY <1>5, <1>12 DEF Create
  <2>2. CASE Finish(p, First(p), FALSE) /\ UNCHANGED created
    BY <1>7, <1>12, <2>1, <2>2 DEF Create
  <2>3. CASE /\ created' = AddOne(created, First(p).key)
             /\ Work(p, f) /\ UNCHANGED <<pc, final, told>>
    <3>1. f \in Fire /\ f.key = First(p).key
      BY <1>4, <2>1 DEF Fire
    <3>2. UNCHANGED <<job, world, cache, disk, lock, fired, seed, tries, faults>>
      BY <1>12 DEF Create
    <3>3. Work(p, f)
      BY <2>3
    <3> HIDE DEF f
    <3> QED BY <1>2, <2>1, <2>3, <3>1, <3>2, <3>3, WorkKeepsHistory DEF faults
  <2> QED BY <1>12, <2>2, <2>3 DEF Create
<1>13. CASE Go(p)
  <2>1. PICK ok \in BOOLEAN : Finish(p, First(p), ok)
    BY <1>13 DEF Go
  <2> QED BY <1>5, <1>7, <1>13, <2>1 DEF Go
<1>14. CASE Spawn(p)
  <2>1. pc[p] = "act" /\ q # <<>> /\ First(p).attempts >= 1
    BY <1>5, <1>14 DEF Spawn
  <2>2. CASE Finish(p, First(p), FALSE) /\ UNCHANGED <<child, tries>>
    BY <1>7, <1>14, <2>1, <2>2 DEF Spawn
  <2>3. ASSUME NEW c \in Children, Work(p, [First(p) EXCEPT !.child = c]),
               tries' = AddOne(tries, First(p).key), UNCHANGED <<final, told>>
        PROVE  History'
    <3> DEFINE f == [First(p) EXCEPT !.child = c]
    <3>1. f \in Fire /\ f.key = First(p).key
      BY <1>4, <2>1 DEF Fire
    <3>2. UNCHANGED <<job, world, cache, disk, lock, fired, seed, created, faults>>
      BY <1>14 DEF Spawn
    <3>3. Work(p, f)
      BY <2>3
    <3> HIDE DEF f
    <3> QED BY <1>2, <2>1, <2>3, <3>1, <3>2, <3>3, WorkKeepsHistory DEF faults
  <2> QED BY <1>14, <2>2, <2>3 DEF Spawn
<1>15. CASE HarvestRead(p)
  <2>1. q # <<>> /\ First(p).attempts >= 1
    BY <1>4, <1>15 DEF HarvestRead
  <2>2. CASE Collect(p)
    BY <1>9, <1>15, <2>1, <2>2 DEF HarvestRead
  <2>3. CASE UNCHANGED <<mem, final, told, honest>>
    BY <1>8, <1>15, <2>3 DEF HarvestRead, ghost
  <2> QED BY <1>15, <2>2, <2>3 DEF HarvestRead
<1>16. CASE HarvestLook(p)
  <2>1. q # <<>> /\ First(p).attempts >= 1
    BY <1>4, <1>6, <1>16 DEF HarvestLook
  <2>2. CASE Collect(p)
    BY <1>9, <1>16, <2>1, <2>2 DEF HarvestLook
  <2>3. CASE UNCHANGED <<mem, final, told, honest>>
    BY <1>8, <1>16, <2>3 DEF HarvestLook, ghost
  <2>4. CASE Finish(p, [First(p) EXCEPT !.child = None], FALSE)
    BY <1>7, <1>16, <2>1, <2>4 DEF HarvestLook
  <2> QED BY <1>16, <2>2, <2>3, <2>4 DEF HarvestLook
<1>17. CASE WriteBack(p)
  <2>1. /\ disk' = mem[p] /\ lock' = None /\ mem' = [mem EXCEPT ![p] = NoState]
        /\ UNCHANGED <<job, now, world, cache, ghost, faults>>
    BY <1>17 DEF WriteBack
  <2>2. None \notin Passes /\ Queue = q /\ Queue' = q
    BY <1>3, <2>1, JobsAssumption DEF Queue, Procs
  <2>3. SameTrigger(mem[p], disk)
    BY <1>2 DEF History, Copied
  <2>4. Copied'
    BY <2>1, <2>2 DEF Copied
  <2>5. Seeds' /\ SeenOnce'
    BY <2>1, <2>3 DEF History, Seeds, SeenOnce, Unfired, Current, SameTrigger, Times, world,
                            cache, ghost
  <2>6. FromFired' /\ AtMostOne' /\ Unfinished'
    BY <2>1, <2>2 DEF History, FromFired, AtMostOne, Unfinished, Onward, ghost, faults
  <2>7. Sorted'
    BY <2>1, <2>2, <2>3 DEF History, Sorted, Onward, Behind, SameTrigger, ghost
  <2>8. ToldTruth' /\ InOrder'
    BY <2>1 DEF History, ToldTruth, InOrder, ghost, faults
  <2> QED BY <2>4, <2>5, <2>6, <2>7, <2>8 DEF History
<1> QED BY <1>10, <1>11, <1>12, <1>13, <1>14, <1>15, <1>16, <1>17 DEF Drain

-----------------------------------------------------------------------------
(* History: a pass that looks at the trigger.                               *)

\* Where a key occurs in a sequence.
Hits(f, k) == {i \in DOMAIN f : f[i] = k}

\* Appending ascending keys makes one more hit of each of them, and of no other.
LEMMA HitsAfter ==
  ASSUME NEW a \in Seq(Keys), NEW b \in Seq(Keys), Rising(b), NEW k
  PROVE  /\ IsFiniteSet(Hits(a, k)) /\ Cardinality(Hits(a, k)) \in Nat
         /\ k \notin Range(b) => Cardinality(Hits(a \o b, k)) = Cardinality(Hits(a, k))
         /\ k \in Range(b) => Cardinality(Hits(a \o b, k)) = Cardinality(Hits(a, k)) + 1
<1>1. /\ Len(a) \in Nat /\ DOMAIN a = 1 .. Len(a)
      /\ Len(b) \in Nat /\ DOMAIN b = 1 .. Len(b)
      /\ \A n \in DOMAIN a : n \in DOMAIN (a \o b) /\ (a \o b)[n] = a[n]
      /\ \A n \in DOMAIN b : /\ Len(a) + n \in DOMAIN (a \o b)
                             /\ (a \o b)[Len(a) + n] = b[n]
      /\ \A n \in DOMAIN (a \o b) :
           n \in DOMAIN a \/ (n \notin DOMAIN a /\ n - Len(a) \in DOMAIN b)
  BY LenProperties, ConcatElements
<1>2. IsFiniteSet(Hits(a, k)) /\ Cardinality(Hits(a, k)) \in Nat
  <2>1. IsFiniteSet(DOMAIN a)
    BY <1>1, FS_Interval
  <2>2. Hits(a, k) \subseteq DOMAIN a
    BY DEF Hits
  <2> QED BY <2>1, <2>2, FS_Subset, FS_CardinalityType
<1>3. ASSUME NEW n \in DOMAIN (a \o b), n \notin DOMAIN a
      PROVE  n - Len(a) \in DOMAIN b /\ (a \o b)[n] = b[n - Len(a)]
  <2>1. n - Len(a) \in DOMAIN b
    BY <1>1, <1>3
  <2>2. Len(a) + (n - Len(a)) = n
    BY <1>1, <2>1, <1>3
  <2> QED BY <1>1, <2>1, <2>2
<1>4. ASSUME k \notin Range(b) PROVE Hits(a \o b, k) = Hits(a, k)
  BY <1>1, <1>3, <1>4 DEF Hits, Range
<1>5. ASSUME k \in Range(b)
      PROVE  Cardinality(Hits(a \o b, k)) = Cardinality(Hits(a, k)) + 1
  <2>1. PICK j \in DOMAIN b : b[j] = k
    BY <1>5 DEF Range
  <2>2. \A i \in DOMAIN b : b[i] = k => i = j
    <3> SUFFICES ASSUME NEW i \in DOMAIN b, b[i] = k PROVE i = j
      OBVIOUS
    <3>1. b[j] \in Nat
      BY ElementOfSeq, <1>1 DEF Keys
    <3>2. ~(i < j) /\ ~(j < i)
      BY <2>1, <3>1 DEF Rising
    <3> QED BY <1>1, <3>2
  <2>3. Len(a) + j \notin DOMAIN a
    BY <1>1
  <2>4. Hits(a \o b, k) \subseteq Hits(a, k) \union {Len(a) + j}
    <3> SUFFICES ASSUME NEW n \in DOMAIN (a \o b), (a \o b)[n] = k, n \notin DOMAIN a
                 PROVE  n = Len(a) + j
      BY <1>1 DEF Hits
    <3>1. n - Len(a) = j
      BY <1>3, <2>2
    <3>2. n \in Int
      BY ConcatElements, LenProperties
    <3> QED BY <1>1, <3>1, <3>2
  <2>5. Hits(a, k) \union {Len(a) + j} \subseteq Hits(a \o b, k)
    BY <1>1, <2>1 DEF Hits
  <2>6. Len(a) + j \notin Hits(a, k)
    BY <2>3 DEF Hits
  <2> QED BY <1>2, <2>4, <2>5, <2>6, FS_AddElement
<1> QED BY <1>2, <1>4, <1>5

\* What a listing in ascending order is: the rows, each once, in order.
LEMMA AscendingRises ==
  ASSUME NEW S \in SUBSET Matching, NEW keys \in Ascending(S)
  PROVE  keys \in Seq(Keys) /\ Rising(keys) /\ Range(keys) = S
BY AscendingIsSeq DEF Ascending, Rising, Range

\* A poll of closed items fires some that are new in its list, and remembers the list.
MovesSeen(p, s, keys) ==
  /\ Range(keys) \subseteq Events /\ Range(keys) \subseteq Listed(p) \ disk.seen
  /\ \/ s.seen = Listed(p) /\ Polled(p, Listed(p) # disk.seen)
     \/ Range(keys) = {} /\ s.seen = disk.seen /\ Polled(p, FALSE)

\* How far a pass that fires keys moves its trigger, from disk to s.
Moves(p, s, keys) ==
  /\ Rising(keys)
  /\ job.trigger \in NumberedKinds =>
       /\ disk.cursor <= s.cursor
       /\ \A k \in Range(keys) : disk.cursor < k /\ k <= s.cursor
  /\ job.trigger = "cron" =>
       /\ s.lastSlot # None /\ (disk.lastSlot # None => disk.lastSlot <= s.lastSlot)
       /\ \A k \in Range(keys) : /\ disk.lastSlot # None => disk.lastSlot < k
                                 /\ k <= s.lastSlot
  /\ job.trigger \in {"every", "when"} => keys = <<>> \/ keys = <<NextKey>>
  /\ job.trigger \in TimedKinds => keys = <<>> \/ (disk.pending = <<>> /\ Len(keys) = 1)
  /\ job.trigger = "closed" => MovesSeen(p, s, keys)

\* What it does with the mark of the first poll.
MovesSeed(s) == /\ \/ seed' = seed /\ s.seeded = disk.seeded
                   \/ ~disk.seeded /\ s.seeded /\ seed' # None
                /\ s.cursor <= top

\* A pass that begins and moves its trigger so keeps History.
LEMMA EnqueueKeepsHistory ==
  ASSUME IInv, History, NEW p \in Passes, NEW s \in State, NEW keys \in Seq(Keys),
         s.pending = disk.pending, Enqueue(p, s, keys), Moves(p, s, keys),
         MovesSeed(s), crashes' = crashes
  PROVE  History'
<1> DEFINE q  == s.pending \o [i \in DOMAIN keys |-> NewFire(keys[i])]
           st == [s EXCEPT !.pending = q]
<1>1. /\ disk \in State /\ disk.pending \in Seq(Fire) /\ fired \in Seq(Keys) /\ p \in Procs
      /\ mem \in [Procs -> State] /\ s.pending \in Seq(Fire)
  BY DEF IInv, TypeOK, State, Procs
<1>2. /\ q \in Seq(Fire) /\ KeysOf(q) = KeysOf(disk.pending) \union Range(keys)
      /\ Len(q) = Len(disk.pending) + Len(keys)
      /\ (/\ RisingQueue(disk.pending) /\ Rising(keys)
          /\ \A x \in KeysOf(disk.pending), y \in Range(keys) : x < y)
           => RisingQueue(q)
  BY <1>1, AppendAscends
<1> HIDE DEF q
<1>3. /\ st \in State /\ st.pending = q /\ SameTrigger(st, s)
  BY <1>2 DEF State, SameTrigger
<1>4. /\ lock = None /\ lock' = p /\ disk' = st /\ mem' = [mem EXCEPT ![p] = st]
      /\ fired' = fired \o keys
      /\ UNCHANGED <<job, now, world, final, tries, created, told>>
  BY DEF Enqueue, q
<1> HIDE DEF st
<1>5. /\ mem'[p] = st /\ Queue' = q
      /\ Queue = disk.pending
  BY <1>1, <1>3, <1>4, JobsAssumption DEF Queue, Procs
<1>6. /\ fired' \in Seq(Keys) /\ Range(fired') = Range(fired) \union Range(keys)
      /\ Len(fired') = Len(fired) + Len(keys)
      /\ Len(fired) \in Nat /\ Len(keys) \in Nat /\ Len(disk.pending) \in Nat
      /\ Range(fired) \subseteq Nat /\ Range(keys) \subseteq Nat
  <2>1. /\ fired' \in Seq(Keys) /\ Range(fired') = Range(fired) \union Range(keys)
        /\ Len(fired') = Len(fired) + Len(keys)
    BY <1>1, <1>4, ConcatElements
  <2>2. Len(fired) \in Nat /\ Len(keys) \in Nat /\ Len(disk.pending) \in Nat
    BY <1>1, LenProperties
  <2>3. Range(fired) \subseteq Nat /\ Range(keys) \subseteq Nat
    BY <1>1, LenProperties, ElementOfSeq DEF Range, Keys
  <2> QED BY <2>1, <2>2, <2>3
<1>7. ASSUME Onward, NEW x \in Range(fired), NEW y \in Range(keys) PROVE x < y
  <2>1. Behind(x) /\ x \in Nat /\ y \in Nat
    BY <1>6, <1>7 DEF History, Sorted
  <2>2. /\ disk.cursor \in Nat
        /\ disk.lastSlot # None => disk.lastSlot \in Nat
    BY <1>1, JobsAssumption DEF State, Time
  <2>3. CASE job.trigger \in NumberedKinds
    BY <2>1, <2>2, <2>3 DEF Behind, Moves
  <2>4. CASE job.trigger = "cron"
    BY <2>1, <2>2, <2>4 DEF Behind, Moves
  <2>5. CASE job.trigger \in {"every", "when"}
    <3>1. y = Len(fired) + 1
      BY <2>5, <1>6 DEF Moves, NextKey, Range
    <3> QED BY <2>1, <2>5, <3>1, <1>6 DEF Behind
  <2>6. job.trigger \in TriggerKinds
    BY JobsAssumption DEF IInv, TypeOK, Job
  <2> QED BY <1>7, <2>3, <2>4, <2>5, <2>6 DEF TriggerKinds, NumberedKinds, Onward
<1>8. Copied'
  BY <1>4, <1>5 DEF Copied, SameTrigger
<1>9. Seeds'
  BY <1>3, <1>4 DEF History, Seeds, MovesSeed, SameTrigger, world
<1>10. FromFired'
  BY <1>2, <1>3, <1>4, <1>5, <1>6 DEF History, FromFired
<1>11. Sorted'
  <2> SUFFICES ASSUME Onward
               PROVE  /\ Rising(fired') /\ \A k \in Range(fired') : Behind(k)'
                      /\ RisingQueue(q)
    BY <1>3, <1>4, <1>5 DEF Sorted, Onward
  <2>1. Rising(keys) /\ Rising(fired) /\ RisingQueue(disk.pending)
    BY DEF Moves, History, Sorted
  <2>2. Rising(fired')
    BY <1>1, <1>4, <1>7, <2>1, ConcatAscends
  <2>3. RisingQueue(q)
    BY <1>2, <1>7, <2>1 DEF History, FromFired
  <2>4. ASSUME NEW k \in Range(fired') PROVE Behind(k)'
    <3>1. /\ disk'.cursor = s.cursor /\ disk'.lastSlot = s.lastSlot /\ job' = job
          /\ disk.cursor \in Nat /\ s.cursor \in Nat /\ k \in Nat
      BY <1>1, <1>3, <1>4, <1>6 DEF SameTrigger, State
    <3>2. /\ disk.lastSlot # None => disk.lastSlot \in Nat
          /\ s.lastSlot # None => s.lastSlot \in Nat
      BY <1>1, JobsAssumption DEF State, Time
    <3>3. CASE k \in Range(fired)
      <4>1. Behind(k)
        BY <3>3 DEF History, Sorted
      <4> QED BY <1>6, <3>1, <3>2, <4>1 DEF Behind, Moves
    <3>4. CASE k \in Range(keys)
      <4>1. job.trigger \in {"every", "when"} => k = Len(fired) + 1 /\ Len(keys) = 1
        BY <3>4, <1>6 DEF Moves, NextKey, Range
      <4>2. ASSUME job.trigger \in {"every", "when"} PROVE k <= Len(fired')
        <5>1. k = Len(fired) + 1 /\ Len(fired') = Len(fired) + 1
          BY <1>6, <4>1, <4>2
        <5> QED BY <1>6, <5>1
      <4>3. job.trigger \in NumberedKinds => k <= s.cursor
        BY <3>4 DEF Moves
      <4>4. job.trigger = "cron" => s.lastSlot # None /\ k <= s.lastSlot
        BY <3>4 DEF Moves
      <4> QED BY <3>1, <4>2, <4>3, <4>4 DEF Behind
    <3> QED BY <1>6, <3>3, <3>4
  <2> QED BY <2>2, <2>3, <2>4
<1>12. AtMostOne'
  <2>1. keys = <<>> => Len(keys) = 0
    BY EmptySeq
  <2>2. disk.pending = <<>> => Len(disk.pending) = 0
    BY EmptySeq
  <2>3. job.trigger \in TimedKinds => keys = <<>> \/ (disk.pending = <<>> /\ Len(keys) = 1)
    BY DEF Moves
  <2> QED BY <1>2, <1>3, <1>4, <1>5, <1>6, <2>1, <2>2, <2>3 DEF AtMostOne, History
<1>13. SeenOnce'
  <2> SUFFICES ASSUME job.trigger = "closed"
               PROVE  /\ Range(fired') \subseteq Events
                      /\ \A e \in Events :
                           /\ Times(e)' <= closings[e] + stale'
                           /\ Unfired(e)' => Times(e)' < closings[e] + stale'
    BY <1>4 DEF SeenOnce, world
  <2>0. Range(fired') \subseteq Events
    BY <1>6 DEF Moves, MovesSeen, History, SeenOnce
  <2> SUFFICES ASSUME NEW e \in Events
               PROVE  /\ Times(e)' <= closings[e] + stale'
                      /\ Unfired(e)' => Times(e)' < closings[e] + stale'
    BY <2>0
  <2>1. /\ Range(fired) \subseteq Events
        /\ Times(e) <= closings[e] + stale
        /\ Unfired(e) => Times(e) < closings[e] + stale
    BY DEF History, SeenOnce
  <2> DEFINE rows == Listed(p)
  <2>2. /\ Range(keys) \subseteq Events /\ Range(keys) \subseteq rows \ disk.seen
        /\ Rising(keys)
    BY DEF Moves, MovesSeen
  <2>3. /\ Times(e) \in Nat
        /\ e \notin Range(keys) => Times(e)' = Times(e)
        /\ e \in Range(keys) => Times(e)' = Times(e) + 1
    <3>1. /\ Times(e) = Cardinality(Hits(fired, e))
          /\ Times(e)' = Cardinality(Hits(fired \o keys, e))
      BY <1>4 DEF Times, Hits
    <3> QED BY <1>1, <2>2, <3>1, HitsAfter
  <2>4. /\ closings[e] \in Nat /\ stale \in Nat
        /\ list \in [Passes -> (SUBSET Events) \union {None}] /\ overtaken \subseteq Passes
    BY DEF IInv, TypeOK, CacheOK
  <2>5. disk'.seen = s.seen /\ closed' = closed
    BY <1>3, <1>4 DEF SameTrigger, world
  <2>6. ASSUME Range(keys) = {}, s.seen = disk.seen, Polled(p, FALSE)
        PROVE  /\ Times(e)' <= closings[e] + stale'
               /\ Unfired(e)' => Times(e)' < closings[e] + stale'
    <3>1. stale' = stale /\ Times(e)' = Times(e)
      BY <2>3, <2>6 DEF Polled
    <3>2. Current' \subseteq Current /\ \A o \in Current' : list'[o] = list[o]
      BY <2>4, <2>6 DEF Polled, Current
    <3>3. Unfired(e)' => Unfired(e)
      BY <2>5, <2>6, <3>2 DEF Unfired
    <3> QED BY <2>1, <3>1, <3>3
  <2>7. ASSUME s.seen = rows, rows # disk.seen, Polled(p, TRUE)
        PROVE  /\ Times(e)' <= closings[e] + stale'
               /\ Unfired(e)' => Times(e)' < closings[e] + stale'
    <3>1. Current' = {}
      BY <2>4, <2>7 DEF Polled, Current
    <3>2. Unfired(e)' => e \in closed \ rows
      BY <2>5, <2>7, <3>1 DEF Unfired
    <3>3. CASE p \in overtaken
      <4>1. stale' = stale + 1
        BY <2>7, <3>3 DEF Polled
      <4> QED BY <2>1, <2>2, <2>3, <2>4, <3>2, <4>1
    <3>4. CASE p \notin overtaken
      <4>1. stale' = stale
        BY <2>7, <3>4 DEF Polled
      <4>2. e \in Range(keys) \/ e \in closed \ rows => Unfired(e)
        BY <2>2, <3>4 DEF Unfired, Current, Listed
      <4> QED BY <2>1, <2>2, <2>3, <2>4, <3>2, <4>1, <4>2
    <3> QED BY <3>3, <3>4
  <2>8. \/ s.seen = rows /\ Polled(p, rows # disk.seen)
        \/ Range(keys) = {} /\ s.seen = disk.seen /\ Polled(p, FALSE)
    BY DEF Moves, MovesSeen
  <2>9. CASE s.seen = rows /\ Polled(p, rows # disk.seen)
    <3>1. CASE rows = disk.seen
      <4>1. (rows # disk.seen) = FALSE /\ Range(keys) = {}
        BY <2>2, <3>1
      <4>2. Polled(p, FALSE)
        BY <2>9, <4>1
      <4> QED BY <2>6, <2>9, <3>1, <4>1, <4>2, <1>6, <2>1
    <3>2. CASE rows # disk.seen
      <4>1. (rows # disk.seen) = TRUE
        BY <3>2
      <4>2. Polled(p, TRUE)
        BY <2>9, <4>1
      <4> QED BY <2>7, <2>9, <3>2, <4>2, <1>6, <2>1, <2>2
    <3> QED BY <3>1, <3>2
  <2> QED BY <1>6, <2>1, <2>2, <2>6, <2>8, <2>9
<1>14. Unfinished'
  <2> SUFFICES ASSUME Onward, crashes = 0
               PROVE  KeysOf(q) \intersect DOMAIN final = {}
    BY <1>4, <1>5 DEF Unfinished, Onward
  <2>1. KeysOf(disk.pending) \intersect DOMAIN final = {}
    BY <1>5 DEF History, Unfinished
  <2>2. \A x \in Range(fired) : x \notin Range(keys)
    BY <1>6, <1>7
  <2> QED BY <1>2, <2>1, <2>2 DEF History, FromFired
<1>15. ToldTruth'
  BY <1>4 DEF History, ToldTruth
<1>16. InOrder'
  <2> SUFFICES ASSUME job.trigger \in NumberedKinds, NEW k \in DOMAIN tries,
                      NEW n \in Range(fired'), n < k
               PROVE  n \in DOMAIN final
    BY <1>4 DEF InOrder
  <2>1. k \in Range(fired)
    BY DEF History, FromFired
  <2>2. n \notin Range(keys)
    <3> SUFFICES ASSUME n \in Range(keys) PROVE FALSE
      OBVIOUS
    <3>1. k < n
      BY <1>7, <2>1 DEF Onward, NumberedKinds
    <3> QED BY <1>6, <2>1, <3>1
  <2> QED BY <1>6, <2>2 DEF History, InOrder
<1> QED BY <1>8, <1>9, <1>10, <1>11, <1>12, <1>13, <1>14, <1>15, <1>16 DEF History

\* Looking at the trigger, of whichever kind, moves it so.
LEMMA LookMoves ==
  ASSUME IInv, History, NEW p \in Passes, Look(p)
  PROVE  \E s \in State, keys \in Seq(Keys) :
           /\ s.pending = disk.pending /\ Enqueue(p, s, keys)
           /\ Moves(p, s, keys) /\ MovesSeed(s) /\ crashes' = crashes
<1> DEFINE Good(s, keys) ==
             /\ s \in State /\ keys \in Seq(Keys) /\ s.pending = disk.pending
             /\ Moves(p, s, keys) /\ MovesSeed(s) /\ crashes' = crashes
<1>1. /\ disk \in State /\ now \in Nat /\ now \in Time /\ top \in Nat /\ fired \in Seq(Keys)
      /\ closed \subseteq Events /\ job.trigger \in TriggerKinds
      /\ Slots \subseteq Time /\ Time \subseteq Nat /\ disk.cursor <= top
  BY JobsAssumption DEF IInv, TypeOK, Time, Job, History, Seeds
<1>2. /\ Opened \in State /\ Opened.pending = disk.pending
      /\ Opened.cursor = disk.cursor /\ Opened.seeded = disk.seeded
      /\ Opened.seen = disk.seen
      /\ Opened.lastSlot = IF disk.lastSlot = None THEN now ELSE disk.lastSlot
      /\ Opened.lastSlot \in Nat /\ Opened.cursor \in Nat
  BY <1>1, JobsAssumption DEF Opened, State
<1>3. <<>> \in Seq(Keys) /\ Rising(<<>>) /\ Range(<<>>) = {}
  BY EmptySeq DEF Rising, Range
<1>4. NextKey \in Keys /\ <<NextKey>> \in Seq(Keys) /\ Len(<<NextKey>>) = 1 /\ Rising(<<NextKey>>)
  <2>1. NextKey \in Nat
    BY <1>1, LenProperties DEF NextKey
  <2> QED BY <2>1 DEF Keys, Rising
<1> DEFINE Idle == Quiet(p, Opened) /\ (job.trigger = "closed" => Polled(p, FALSE))
<1>5. Idle => Moves(p, Opened, <<>>)
  <2>1. Idle /\ job.trigger = "closed" => MovesSeen(p, Opened, <<>>)
    BY <1>2, <1>3 DEF MovesSeen
  <2> HIDE DEF Idle
  <2> QED BY <1>1, <1>2, <1>3, <2>1, JobsAssumption DEF Moves
<1>6. Idle => Enqueue(p, Opened, <<>>) /\ Good(Opened, <<>>)
  BY <1>1, <1>2, <1>3, <1>5 DEF Quiet, MovesSeed, faults
<1>7. ASSUME NEW s, NEW keys, Good(s, keys), Enqueue(p, s, keys)
      PROVE  \E t \in State, ks \in Seq(Keys) :
               /\ t.pending = disk.pending /\ Enqueue(p, t, ks)
               /\ Moves(p, t, ks) /\ MovesSeed(t) /\ crashes' = crashes
  BY <1>7
<1>8. CASE Idle
  BY <1>6, <1>7, <1>8
<1> HIDE DEF Good
<1>9. CASE CronTick(p)
  <2>1. SUFFICES ASSUME NEW slot \in Slots, Opened.lastSlot < slot, slot <= now,
                        job.trigger = "cron", disk.pending = <<>>,
                        NEW keys, keys \in {<<>>, <<slot>>},
                        Fires(p, [Opened EXCEPT !.lastSlot = slot], keys)
                 PROVE  \E s \in State, ks \in Seq(Keys) :
                          /\ s.pending = disk.pending /\ Enqueue(p, s, ks)
                          /\ Moves(p, s, ks) /\ MovesSeed(s) /\ crashes' = crashes
    BY <1>2, <1>8, <1>9 DEF CronTick, GuardHolds, Quiet, Fires
  <2> DEFINE s == [Opened EXCEPT !.lastSlot = slot]
  <2>2. /\ s \in State /\ s.pending = disk.pending /\ s.lastSlot = slot
        /\ s.seeded = disk.seeded /\ slot \in Nat /\ slot # None
        /\ s.cursor = disk.cursor
    BY <1>1, <1>2, JobsAssumption DEF State
  <2>3. keys \in Seq(Keys) /\ Rising(keys) /\ Range(keys) \subseteq {slot}
    <3>1. <<slot>> \in Seq(Keys) /\ Rising(<<slot>>) /\ Range(<<slot>>) = {slot}
      BY <2>2 DEF Keys, Rising, Range
    <3> QED BY <1>3, <2>1, <3>1
  <2>4. keys = <<>> \/ (disk.pending = <<>> /\ Len(keys) = 1)
    BY <2>1
  <2> HIDE DEF s
  <2>5. disk.lastSlot # None => disk.lastSlot < slot /\ disk.lastSlot \in Nat
    BY <1>2, <2>1
  <2>6. Moves(p, s, keys)
    BY <2>1, <2>2, <2>3, <2>4, <2>5 DEF Moves, NumberedKinds
  <2>7. MovesSeed(s) /\ crashes' = crashes /\ Enqueue(p, s, keys)
    BY <1>1, <2>1, <2>2 DEF Fires, faults, MovesSeed, s
  <2> QED BY <1>7, <2>2, <2>3, <2>6, <2>7 DEF Good
<1>10. ASSUME NEW b \in BOOLEAN, NEW keys, keys \in {<<>>, <<NextKey>>},
              job.trigger \in {"every", "when"}, disk.pending = <<>>,
              Enqueue(p, [Opened EXCEPT !.whenLast = b], keys),
              seed' = seed, crashes' = crashes
       PROVE  \E s \in State, ks \in Seq(Keys) :
                /\ s.pending = disk.pending /\ Enqueue(p, s, ks)
                /\ Moves(p, s, ks) /\ MovesSeed(s) /\ crashes' = crashes
  <2> DEFINE s == [Opened EXCEPT !.whenLast = b]
  <2>1. /\ s \in State /\ s.pending = disk.pending /\ s.seeded = disk.seeded
        /\ s.cursor = disk.cursor
    BY <1>1, <1>2 DEF State
  <2>2. keys \in Seq(Keys) /\ Rising(keys) /\ (keys = <<>> \/ Len(keys) = 1)
    BY <1>3, <1>4, <1>10
  <2> HIDE DEF s
  <2>3. Moves(p, s, keys) /\ MovesSeed(s)
    BY <1>1, <1>10, <2>1, <2>2 DEF Moves, MovesSeed, NumberedKinds
  <2> QED BY <1>7, <1>10, <2>1, <2>2, <2>3 DEF Good, s
<1>11. CASE EveryTick(p)
  <2>1. CASE Fires(p, Opened, <<NextKey>>)
    <3>1. Opened = [Opened EXCEPT !.whenLast = Opened.whenLast] /\ Opened.whenLast \in BOOLEAN
      BY <1>2 DEF State
    <3>2. /\ Enqueue(p, [Opened EXCEPT !.whenLast = Opened.whenLast], <<NextKey>>)
          /\ seed' = seed /\ crashes' = crashes
      BY <2>1, <3>1 DEF Fires, faults
    <3>3. job.trigger \in {"every", "when"} /\ disk.pending = <<>>
      BY <1>11 DEF EveryTick
    <3> QED BY <1>10, <3>1, <3>2, <3>3
  <2> QED BY <1>8, <1>11, <2>1 DEF EveryTick, GuardHolds
<1>12. CASE WhenTick(p)
  <2>1. job.trigger \in {"every", "when"} /\ disk.pending = <<>>
    BY <1>12 DEF WhenTick
  <2>2. CASE Fires(p, [Opened EXCEPT !.whenLast = TRUE], <<NextKey>>)
    BY <1>10, <2>1, <2>2 DEF Fires, faults
  <2>3. CASE Quiet(p, [Opened EXCEPT !.whenLast = FALSE])
    BY <1>10, <2>1, <2>3 DEF Quiet, faults
  <2>4. CASE /\ Enqueue(p, [Opened EXCEPT !.whenLast = FALSE], <<>>)
             /\ UNCHANGED <<seed, crashes>>
    BY <1>10, <2>1, <2>4
  <2> QED BY <1>8, <1>12, <2>2, <2>3, <2>4 DEF WhenTick
<1>13. CASE PollNumbered(p)
  <2>1. SUFFICES ASSUME NEW last \in Rows(Opened.cursor),
                        NEW keys \in Ascending(Rows(Opened.cursor) \intersect Matching),
                        \A n \in Rows(Opened.cursor) : n <= last,
                        job.trigger \in NumberedKinds,
                        Fires(p, [Opened EXCEPT !.cursor = last], keys)
                 PROVE  \E s \in State, ks \in Seq(Keys) :
                          /\ s.pending = disk.pending /\ Enqueue(p, s, ks)
                          /\ Moves(p, s, ks) /\ MovesSeed(s) /\ crashes' = crashes
    BY <1>8, <1>13 DEF PollNumbered, GuardHolds, NumberedKinds
  <2> DEFINE s == [Opened EXCEPT !.cursor = last]
  <2>2. /\ keys \in Seq(Keys) /\ Rising(keys)
        /\ Range(keys) = Rows(Opened.cursor) \intersect Matching
    BY AscendingRises
  <2>3. /\ last \in Nat /\ disk.cursor < last /\ last <= top
        /\ \A n \in Rows(Opened.cursor) : disk.cursor < n
    BY <1>1, <1>2 DEF Rows
  <2>4. /\ s \in State /\ s.pending = disk.pending /\ s.seeded = disk.seeded
        /\ s.cursor = last
    BY <1>1, <1>2, <2>3 DEF State
  <2>5. MovesSeed(s) /\ crashes' = crashes /\ Enqueue(p, s, keys)
    BY <2>1, <2>3, <2>4 DEF Fires, faults, MovesSeed
  <2> HIDE DEF s
  <2>6. Moves(p, s, keys)
    BY <1>2, <2>1, <2>2, <2>3, <2>4 DEF Moves, NumberedKinds, TimedKinds
  <2> QED BY <1>7, <2>2, <2>4, <2>5, <2>6 DEF Good
<1>14. CASE SeedNumbered(p)
  <2> DEFINE reach == Opened.cursor + SeedPages * Page
  <2>1. reach \in Nat /\ disk.cursor <= reach
    <3>1. \A a, b \in Nat : a * b \in Nat
      OBVIOUS
    <3>2. SeedPages * Page \in Nat
      BY <3>1, JobsAssumption
    <3> QED BY <1>2, <3>2
  <2> HIDE DEF reach
  <2>2. CASE /\ Enqueue(p, [Opened EXCEPT !.cursor = top, !.seeded = TRUE], <<>>)
             /\ seed' = top /\ UNCHANGED faults
    <3> DEFINE s == [Opened EXCEPT !.cursor = top, !.seeded = TRUE]
    <3>1. s \in State /\ s.pending = disk.pending /\ s.seeded /\ s.cursor = top
      BY <1>1, <1>2 DEF State
    <3>2. top # None /\ ~disk.seeded /\ job.trigger \in NumberedKinds
      BY <1>1, <1>2, <1>14, JobsAssumption DEF SeedNumbered
    <3> HIDE DEF s
    <3>3. s.cursor <= top
      BY <1>1, <3>1
    <3>4. MovesSeed(s) /\ crashes' = crashes
      BY <2>2, <3>1, <3>2, <3>3 DEF MovesSeed, faults
    <3>5. Moves(p, s, <<>>)
      BY <1>1, <1>3, <3>1, <3>2 DEF Moves, NumberedKinds, TimedKinds
    <3> QED BY <1>3, <1>7, <2>2, <3>1, <3>4, <3>5 DEF Good, s
  <2>3. CASE Quiet(p, [Opened EXCEPT !.cursor = reach]) /\ top >= reach
    <3> DEFINE s == [Opened EXCEPT !.cursor = reach]
    <3>1. s \in State /\ s.pending = disk.pending /\ s.seeded = disk.seeded /\ s.cursor = reach
      BY <1>1, <1>2, <2>1 DEF State
    <3>2. job.trigger \in NumberedKinds
      BY <1>14 DEF SeedNumbered
    <3> HIDE DEF s
    <3>3. Moves(p, s, <<>>)
      BY <1>3, <2>1, <3>1, <3>2 DEF Moves, NumberedKinds, TimedKinds
    <3>4. MovesSeed(s) /\ crashes' = crashes /\ Enqueue(p, s, <<>>)
      BY <1>1, <2>1, <2>3, <3>1 DEF MovesSeed, Quiet, faults, s
    <3> QED BY <1>3, <1>7, <3>1, <3>3, <3>4 DEF Good
  <2> QED BY <1>14, <2>2, <2>3 DEF SeedNumbered, reach
<1>15. CASE PollClosed(p)
  <2> DEFINE rows == Listed(p)
  <2>1. job.trigger = "closed" /\ rows \subseteq Events
    <3>1. list \in [Passes -> (SUBSET Events) \union {None}]
      BY DEF IInv, TypeOK, CacheOK
    <3> QED BY <1>1, <1>15, <3>1 DEF PollClosed, Listed
  <2> HIDE DEF rows
  <2>2. CASE /\ Enqueue(p, [Opened EXCEPT !.seen = rows, !.seeded = TRUE], <<>>)
             /\ Polled(p, rows # Opened.seen)
             /\ seed' = 0 /\ UNCHANGED faults /\ ~Opened.seeded
    <3> DEFINE s == [Opened EXCEPT !.seen = rows, !.seeded = TRUE]
    <3>1. s \in State /\ s.pending = disk.pending /\ s.seeded /\ s.seen = rows
          /\ s.cursor = disk.cursor
      BY <1>1, <1>2, <2>1 DEF State
    <3>4. s.cursor <= top /\ 0 # None
      BY <1>1, <3>1, JobsAssumption
    <3> HIDE DEF s
    <3>2. Moves(p, s, <<>>)
      BY <1>2, <1>3, <2>1, <2>2, <3>1 DEF Moves, MovesSeen, NumberedKinds, TimedKinds, rows
    <3>3. MovesSeed(s) /\ crashes' = crashes
      BY <1>2, <2>2, <3>1, <3>4 DEF MovesSeed, faults
    <3> QED BY <1>3, <1>7, <2>2, <3>1, <3>2, <3>3 DEF Good, s
  <2>3. ASSUME NEW keys \in Ascending((rows \ Opened.seen) \intersect Matching),
               Fires(p, [Opened EXCEPT !.seen = rows], keys),
               Polled(p, rows # Opened.seen)
        PROVE  \E t \in State, ks \in Seq(Keys) :
                 /\ t.pending = disk.pending /\ Enqueue(p, t, ks)
                 /\ Moves(p, t, ks) /\ MovesSeed(t) /\ crashes' = crashes
    <3> DEFINE s == [Opened EXCEPT !.seen = rows]
    <3>1. s \in State /\ s.pending = disk.pending /\ s.seeded = disk.seeded /\ s.seen = rows
          /\ s.cursor = disk.cursor
      BY <1>1, <1>2, <2>1 DEF State
    <3>2. /\ keys \in Seq(Keys) /\ Rising(keys)
          /\ Range(keys) = (rows \ Opened.seen) \intersect Matching
      BY AscendingRises
    <3> HIDE DEF s
    <3>3. Moves(p, s, keys)
      BY <1>1, <1>2, <2>1, <2>3, <3>1, <3>2 DEF Moves, MovesSeen, NumberedKinds, TimedKinds, rows
    <3>4. MovesSeed(s) /\ crashes' = crashes /\ Enqueue(p, s, keys)
      BY <1>1, <2>3, <3>1 DEF MovesSeed, Fires, faults, s
    <3> QED BY <1>7, <3>1, <3>2, <3>3, <3>4 DEF Good
  <2> QED BY <1>8, <1>15, <2>2, <2>3 DEF PollClosed, GuardHolds, rows
<1>16. CASE StillPending(p)
  BY <1>8, <1>16 DEF StillPending, TimedKinds
<1> QED BY <1>9, <1>11, <1>12, <1>13, <1>14, <1>15, <1>16 DEF Look

-----------------------------------------------------------------------------
(* History: the other steps.                                                *)

\* A step that may open the file's first slot, and leaves its queue alone.
LEMMA FileKeepsHistory ==
  ASSUME IInv, History, disk' \in State, disk'.pending = disk.pending,
         disk'.cursor = disk.cursor, disk'.seeded = disk.seeded,
         disk'.seen = disk.seen,
         disk.lastSlot # None => disk'.lastSlot = disk.lastSlot,
         lock \notin Passes, lock' \notin Passes,
         UNCHANGED <<job, world, cache, ghost, faults>>
  PROVE  History'
<1>1. Queue = disk.pending /\ Queue' = disk.pending
  BY DEF Queue
<1>2. Copied' /\ Seeds' /\ FromFired' /\ AtMostOne' /\ Unfinished'
  BY <1>1 DEF History, Copied, Seeds, FromFired, AtMostOne, Unfinished, Onward,
              world, ghost, faults
<1>3. Sorted'
  BY <1>1 DEF History, Sorted, Onward, Behind, ghost
<1>4. SeenOnce'
  BY DEF History, SeenOnce, Unfired, Current, Times, world, cache, ghost
<1>5. ToldTruth' /\ InOrder'
  BY DEF History, ToldTruth, InOrder, ghost, faults
<1> QED BY <1>2, <1>3, <1>4, <1>5 DEF History

\* A process that dies: the queue on disk is in force again.
LEMMA CrashKeepsHistory ==
  ASSUME IInv, History, NEW p \in Procs, Crash(p)
  PROVE  History'
<1>1. /\ crashes \in Nat /\ crashes' = crashes + 1 /\ lock' = None
      /\ UNCHANGED <<job, world, cache, disk, ghost>>
  BY JobsAssumption DEF Crash, IInv, TypeOK
<1>2. None \notin Passes /\ Queue' = disk.pending
  BY <1>1, JobsAssumption DEF Queue, Procs
<1>3. Copied' /\ Seeds' /\ FromFired' /\ Sorted'
  BY <1>1, <1>2 DEF History, Copied, Seeds, FromFired, Sorted, Onward, Behind, ghost, world
<1>4. AtMostOne'
  BY <1>1, <1>2 DEF History, AtMostOne
<1>5. SeenOnce'
  BY <1>1 DEF History, SeenOnce, Unfired, Current, Times, world, cache, ghost
<1>6. crashes' # 0
  BY <1>1
<1>7. Unfinished' /\ ToldTruth'
  BY <1>6 DEF Unfinished, ToldTruth
<1>8. InOrder'
  BY <1>1 DEF History, InOrder, ghost
<1> QED BY <1>3, <1>4, <1>5, <1>7, <1>8 DEF History

\* An item that is closed owes one more firing; one that is reopened owes none.
LEMMA ClosingKeepsHistory ==
  ASSUME IInv, History, NEW e \in Events, Closes(e) \/ Reopens(e)
  PROVE  History'
<1>1. UNCHANGED <<job, now, top, cache, disk, lock, pc, mem, ghost, faults>>
  BY DEF Closes, Reopens
<1>2. Queue' = Queue
  BY <1>1 DEF Queue
<1>3. /\ Copied' /\ Seeds' /\ FromFired' /\ Sorted' /\ AtMostOne' /\ Unfinished'
  BY <1>1, <1>2 DEF History, Copied, SameTrigger, Seeds, FromFired, Sorted, Onward, Behind,
                    AtMostOne, Unfinished, ghost, faults
<1>4. ToldTruth' /\ InOrder'
  BY <1>1 DEF History, ToldTruth, InOrder, ghost, faults
<1>5. SeenOnce'
  <2> SUFFICES ASSUME job.trigger = "closed", NEW x \in Events
               PROVE  /\ Range(fired) \subseteq Events
                      /\ Times(x) <= closings'[x] + stale
                      /\ Unfired(x)' => Times(x) < closings'[x] + stale
    BY <1>1 DEF SeenOnce, Times, ghost, cache
  <2>1. /\ Range(fired) \subseteq Events /\ Times(x) <= closings[x] + stale
        /\ Unfired(x) => Times(x) < closings[x] + stale
    BY DEF History, SeenOnce
  <2>2. /\ closings[x] \in Nat /\ closings[e] \in Nat /\ closings \in [Events -> Nat]
        /\ stale \in Nat
    BY DEF IInv, TypeOK, CacheOK
  <2> Current' = Current /\ UNCHANGED <<disk, list>>
    BY <1>1 DEF Current, cache
  <2>3. Times(x) \in Nat
    <3>1. Times(x) = Cardinality(Hits(fired, x)) /\ fired \in Seq(Keys)
      BY DEF Times, Hits, IInv, TypeOK
    <3>2. <<>> \in Seq(Keys) /\ Rising(<<>>)
      BY EmptySeq DEF Rising
    <3> QED BY <3>1, <3>2, HitsAfter
  <2>4. CASE Closes(e)
    <3>1. /\ closed' = closed \union {e} /\ closings' = [closings EXCEPT ![e] = @ + 1]
      BY <2>4 DEF Closes
    <3>2. closings'[x] = IF x = e THEN closings[x] + 1 ELSE closings[x]
      BY <2>2, <3>1
    <3>3. Unfired(x)' => x = e \/ Unfired(x)
      BY <3>1 DEF Unfired
    <3> QED BY <2>1, <2>2, <2>3, <3>2, <3>3
  <2>5. CASE Reopens(e)
    <3>1. closed' \subseteq closed /\ closings' = closings
      BY <2>5 DEF Reopens
    <3>2. Unfired(x)' => Unfired(x)
      BY <3>1 DEF Unfired
    <3> QED BY <2>1, <3>1, <3>2
  <2> QED BY <2>4, <2>5
<1> QED BY <1>3, <1>4, <1>5 DEF History

\* A pass that reads the items sees what is closed; what is owed stays the same.
LEMMA ListingKeepsHistory ==
  ASSUME IInv, History, NEW p \in Passes, Lists(p) \/ Skips(p)
  PROVE  History'
<1>1. UNCHANGED <<job, now, world, stale, disk, lock, pc, mem, ghost, faults>>
  BY DEF Lists, Skips
<1>2. Queue' = Queue
  BY <1>1 DEF Queue
<1>3. /\ Copied' /\ Seeds' /\ FromFired' /\ Sorted' /\ AtMostOne' /\ Unfinished'
  BY <1>1, <1>2 DEF History, Copied, SameTrigger, Seeds, FromFired, Sorted, Onward, Behind,
                    AtMostOne, Unfinished, world, ghost, faults
<1>4. ToldTruth' /\ InOrder'
  BY <1>1 DEF History, ToldTruth, InOrder, ghost, faults
<1>5. list \in [Passes -> (SUBSET Events) \union {None}]
  BY DEF IInv, TypeOK, CacheOK
<1>6. ASSUME NEW q \in Current'
      PROVE  \/ q \in Current /\ list'[q] = list[q]
             \/ list'[q] = closed
  BY <1>5, <1>6 DEF Current, Lists, Skips
<1>7. \A e \in Events : Unfired(e)' => Unfired(e)
  BY <1>1, <1>6 DEF Unfired, world
<1>8. SeenOnce'
  BY <1>1, <1>7 DEF History, SeenOnce, Times, world, ghost
<1> QED BY <1>3, <1>4, <1>8 DEF History

\* Every step keeps History.
LEMMA NextKeepsHistory == IInv /\ History /\ [Next]_vars => History'
<1> SUFFICES ASSUME IInv, History, [Next]_vars PROVE History'
  OBVIOUS
<1>0. /\ Operator \in Procs /\ Operator \notin Passes /\ None \notin Passes
      /\ disk \in State /\ now \in Time /\ mem \in [Procs -> State]
  BY JobsAssumption DEF IInv, TypeOK, Procs
<1>1. ASSUME NEW p \in Passes, Look(p) PROVE History'
  BY <1>1, LookMoves, EnqueueKeepsHistory
<1>2. ASSUME NEW p \in Passes, PollFails(p) PROVE History'
  <2>1. /\ Opened \in State /\ Opened.pending = disk.pending /\ Opened.cursor = disk.cursor
        /\ Opened.seeded = disk.seeded /\ Opened.seen = disk.seen
        /\ disk.lastSlot # None => Opened.lastSlot = disk.lastSlot
    BY <1>0 DEF Opened, State
  <2>2. /\ disk' = Opened /\ lock = None
        /\ UNCHANGED <<job, now, world, cache, result, lock, pc, mem, child, ghost, faults>>
    BY <1>2 DEF PollFails
  <2> QED BY <1>0, <2>1, <2>2, FileKeepsHistory
<1>3. CASE RunNow
  BY <1>0, <1>3, FileKeepsHistory DEF RunNow
<1>4. CASE RunNowRecords
  <2>1. lock = Operator
    BY <1>0, <1>4 DEF RunNowRecords, IInv, Exclusive
  <2>2. PICK ok \in BOOLEAN :
          disk' = [disk EXCEPT
                     !.lastSlot = IF @ = None THEN mem[Operator].lastSlot ELSE @,
                     !.lastDone = IF ok THEN now ELSE @]
    BY <1>4 DEF RunNowRecords
  <2>3. mem[Operator] \in State
    BY <1>0
  <2>4. /\ disk' \in State /\ disk'.pending = disk.pending /\ disk'.cursor = disk.cursor
        /\ disk'.seeded = disk.seeded /\ disk'.seen = disk.seen
        /\ disk.lastSlot # None => disk'.lastSlot = disk.lastSlot
    BY <1>0, <2>2, <2>3 DEF State
  <2>5. lock' = None /\ UNCHANGED <<job, world, cache, ghost, faults>>
    BY <1>4 DEF RunNowRecords
  <2> QED BY <1>0, <2>1, <2>4, <2>5, FileKeepsHistory
<1>5. ASSUME UNCHANGED <<job, world, cache, disk, lock, mem, ghost, faults>> PROVE History'
  <2>1. Queue' = Queue
    BY <1>5 DEF Queue
  <2>2. Copied'
    BY <1>5 DEF History, Copied, SameTrigger
  <2> QED BY <1>5, <2>1, <2>2, SameHistory DEF Remembered, ghost, faults
<1>6. CASE World
  <2>1. CASE ClockTicks
    BY <1>5, <2>1 DEF ClockTicks
  <2>2. CASE Arrives
    <3>1. UNCHANGED <<job, now, closed, closings, cache, disk, lock, pc, mem, ghost, faults>>
      BY <2>2 DEF Arrives
    <3>2. top \in Nat /\ disk.cursor \in Nat /\ top' = top + 1
      BY <1>0, <2>2, JobsAssumption DEF Arrives, IInv, TypeOK, State
    <3>3. Queue' = Queue
      BY <3>1 DEF Queue
    <3>4. Seeds'
      BY <3>1, <3>2 DEF History, Seeds, ghost
    <3>5. /\ Copied' /\ FromFired' /\ Sorted' /\ AtMostOne' /\ SeenOnce' /\ Unfinished'
      BY <3>1, <3>3 DEF History, Copied, SameTrigger, FromFired, Sorted, Onward, Behind,
                        AtMostOne, SeenOnce, Unfired, Current, Times, Unfinished, cache, ghost,
                        faults
    <3>6. ToldTruth' /\ InOrder'
      BY <3>1 DEF History, ToldTruth, InOrder, ghost, faults
    <3> QED BY <3>4, <3>5, <3>6 DEF History
  <2>3. ASSUME NEW c \in Children, ChildExits(c) \/ ChildDies(c) PROVE History'
    BY <1>5, <2>3 DEF ChildExits, ChildDies
  <2> QED BY <1>6, <2>1, <2>2, <2>3, ClosingKeepsHistory, JobsAssumption DEF World
<1>7. CASE UNCHANGED vars
  BY <1>5, <1>7 DEF vars
<1>8. ASSUME NEW p \in Passes, Pass(p) PROVE History'
  BY <1>1, <1>2, <1>8, ListingKeepsHistory, DrainKeepsHistory DEF Pass
<1> QED BY <1>3, <1>4, <1>6, <1>7, <1>8, CrashKeepsHistory DEF Next

\* A job that was never looked at has no history.
LEMMA InitHistory == Init => History
<1> SUFFICES ASSUME Init PROVE History
  OBVIOUS
<1>1. /\ lock = None /\ None \notin Passes /\ disk = NoState /\ fired = <<>> /\ Queue = <<>>
      /\ seed = None /\ top = 0 /\ told = {}
  BY JobsAssumption DEF Init, Queue, NoState, Procs
<1>2. /\ KeysOf(<<>>) = {} /\ Range(<<>>) = {} /\ Len(<<>>) = 0
      /\ Rising(<<>>) /\ RisingQueue(<<>>)
  BY DEF KeysOf, Range, Rising, RisingQueue
<1>3. DOMAIN tries = {} /\ DOMAIN created = {} /\ DOMAIN final = {}
  BY DEF Init
<1>4. Copied /\ Seeds /\ FromFired /\ Sorted /\ AtMostOne /\ Unfinished /\ ToldTruth /\ InOrder
  BY <1>1, <1>2, <1>3 DEF Copied, Seeds, NoState, FromFired, Sorted, AtMostOne, Unfinished,
                          ToldTruth, InOrder
<1>5. SeenOnce
  <2>1. closed = {} /\ closings = [e \in Events |-> 0]
    BY DEF Init
  <2>2. \A e \in Events : Times(e) = 0
    <3> SUFFICES ASSUME NEW e \in Events PROVE Times(e) = 0
      OBVIOUS
    <3>1. {i \in DOMAIN fired : fired[i] = e} = {}
      BY <1>1
    <3> QED BY <3>1, FS_EmptySet DEF Times
  <2>3. Current = {} /\ stale = 0
    BY DEF Init, Current
  <2> QED BY <1>1, <1>2, <2>1, <2>2, <2>3 DEF SeenOnce, Unfired
<1> QED BY <1>4, <1>5 DEF History

\* The histories of a job: what was fired, in which order, and how it ended.
THEOREM HistoryInvariance == Spec => [](IInv /\ History)
<1>1. Init => IInv /\ History
  BY InitEstablishes, InitHistory
<1>2. (IInv /\ History) /\ [Next]_vars => (IInv /\ History)'
  BY NextKeeps, NextKeepsHistory
<1> QED BY <1>1, <1>2, PTL DEF Spec

\* Two passes that look at the same slot or the same event fire it once, an
\* item once for each closing and once more at most for each poll by a list that
\* another pass had overtaken, and a time trigger has one firing at a time.
THEOREM NothingFiresTwice == Spec => []FiredOnce
<1>1. IInv /\ History => FiredOnce
  <2> SUFFICES ASSUME IInv, History PROVE FiredOnce
    OBVIOUS
  <2>1. fired \in Seq(Keys)
    BY DEF IInv, TypeOK
  <2>2. ASSUME NEW k \in Range(fired), job.trigger = "closed" PROVE Times(k) <= closings[k] + stale
    BY <2>2 DEF History, SeenOnce
  <2>3. ASSUME NEW k \in Range(fired), job.trigger # "closed" PROVE Times(k) <= 1
    <3>1. Rising(fired)
      BY <2>3 DEF History, Sorted, Onward
    <3>2. PICK i \in DOMAIN fired : fired[i] = k
      BY DEF Range
    <3>3. \A j \in DOMAIN fired : fired[j] = k => j = i
      <4>1. \A j \in DOMAIN fired : j \in Nat /\ fired[j] \in Nat
        BY <2>1, LenProperties, ElementOfSeq DEF Keys
      <4>2. ASSUME NEW j \in DOMAIN fired, fired[j] = k PROVE j = i
        <5>1. ~(i < j) /\ ~(j < i)
          BY <3>1, <3>2, <4>1, <4>2 DEF Rising
        <5> QED BY <4>1, <5>1
      <4> QED BY <4>2
    <3>4. {j \in DOMAIN fired : fired[j] = k} = {i}
      BY <3>2, <3>3
    <3> QED BY <3>4, FS_Singleton DEF Times
  <2>4. job.trigger \in TimedKinds => Len(disk.pending) <= 1
    BY DEF History, AtMostOne
  <2> QED BY <2>2, <2>3, <2>4 DEF FiredOnce
<1> QED BY <1>1, HistoryInvariance, PTL

\* "serialize per job": an event is tried only when the earlier ones are done.
THEOREM EventsWaitTheirTurn == Spec => []InOrder
<1>1. IInv /\ History => InOrder
  BY DEF History
<1> QED BY <1>1, HistoryInvariance, PTL

\* Without a crash, who is told that a firing was given up is told the truth.
THEOREM TheAdministratorIsToldTheTruth == Spec => []ToldTruth
<1>1. IInv /\ History => ToldTruth
  BY DEF History
<1> QED BY <1>1, HistoryInvariance, PTL

-----------------------------------------------------------------------------
(* Nothing the cursor has passed was dropped.                               *)

\* No job on GitHub rows has more of them than one listing shows.  Without it
\* a burst between two passes is lost (MCJobsBurst.cfg); quipu pages instead.
ListingsReach == \A f \in JobFiles : f.trigger = "gh" => MaxEvent <= Limit

\* A pass that looks at its trigger passes no matching event without firing it.
LEMMA LookDropsNothing ==
  ASSUME ListingsReach, IInv, History, NeverDropped, NEW p \in Passes, Look(p)
  PROVE  NeverDropped'
<1>1. /\ disk \in State /\ disk.cursor \in Nat /\ fired \in Seq(Keys)
      /\ top \in 0 .. MaxEvent /\ MaxEvent \in Nat /\ top \in Nat /\ job \in JobFiles
      /\ Limit \in Nat /\ Page \in Nat
  BY JobsAssumption DEF IInv, TypeOK, State
<1>2. /\ Opened \in State /\ Opened.cursor = disk.cursor /\ Opened.seeded = disk.seeded
  BY <1>1 DEF Opened, State, IInv, TypeOK
<1>3. ASSUME NEW s \in State, NEW keys \in Seq(Keys), Enqueue(p, s, keys)
      PROVE  /\ job' = job /\ disk'.cursor = s.cursor
             /\ Range(fired') = Range(fired) \union Range(keys)
  BY <1>1, <1>3, ConcatElements DEF Enqueue, State
<1>4. <<>> \in Seq(Keys) /\ Range(<<>>) = {}
  BY EmptySeq DEF Range
<1>5. CASE Quiet(p, Opened)
  BY <1>2, <1>3, <1>4, <1>5 DEF Quiet, NeverDropped
<1>6. CASE job.trigger \notin NumberedKinds
  <2>1. job' = job
    BY LookMoves DEF Enqueue
  <2> QED BY <1>6, <2>1 DEF NeverDropped
<1>7. CASE PollNumbered(p)
  <2>1. SUFFICES ASSUME NEW last \in Rows(Opened.cursor),
                        NEW keys \in Ascending(Rows(Opened.cursor) \intersect Matching),
                        job.trigger \in NumberedKinds,
                        Fires(p, [Opened EXCEPT !.cursor = last], keys)
                 PROVE  NeverDropped'
    BY <1>5, <1>7 DEF PollNumbered, GuardHolds
  <2>2. /\ keys \in Seq(Keys) /\ Range(keys) = Rows(Opened.cursor) \intersect Matching
    BY AscendingRises
  <2>3. /\ last \in Nat /\ last <= top /\ last > disk.cursor
        /\ job.trigger = "quipu" => last <= disk.cursor + Page
    BY <1>1, <1>2 DEF Rows
  <2>4. /\ [Opened EXCEPT !.cursor = last] \in State
        /\ [Opened EXCEPT !.cursor = last].cursor = last
    BY <1>2, <2>3 DEF State
  <2>5. /\ job' = job /\ disk'.cursor = last /\ seed' = seed
        /\ Range(fired') = Range(fired) \union Range(keys)
    BY <1>3, <2>1, <2>2, <2>4 DEF Fires
  <2>6. ASSUME seed # None, NEW n \in Matching, seed < n, n <= last
        PROVE  n \in Range(fired')
    <3>1. CASE n <= disk.cursor
      BY <2>1, <2>5, <2>6, <3>1 DEF NeverDropped
    <3>2. CASE ~(n <= disk.cursor)
      <4>1. n \in Nat /\ n >= 1
        BY <1>1, JobsAssumption DEF Events
      <4>2. n \in 1 .. top /\ n > disk.cursor
        BY <1>1, <2>3, <2>6, <3>2, <4>1
      <4>3. job.trigger = "gh" => n > top - Limit
        <5>1. job.trigger = "gh" => MaxEvent <= Limit
          BY <1>1 DEF ListingsReach
        <5> QED BY <1>1, <4>1, <5>1
      <4>4. job.trigger = "quipu" => n <= disk.cursor + Page
        BY <1>1, <2>3, <2>6, <4>1
      <4>5. n \in Rows(Opened.cursor)
        BY <1>2, <4>2, <4>3, <4>4 DEF Rows
      <4> QED BY <2>2, <2>5, <4>5
    <3> QED BY <3>1, <3>2
  <2> QED BY <2>5, <2>6 DEF NeverDropped
<1>8. CASE SeedNumbered(p)
  <2> DEFINE reach == Opened.cursor + SeedPages * Page
  <2>1. reach \in Nat
    <3>1. \A a, b \in Nat : a * b \in Nat
      OBVIOUS
    <3>2. SeedPages * Page \in Nat
      BY <3>1, JobsAssumption
    <3> QED BY <1>1, <1>2, <3>2
  <2> HIDE DEF reach
  <2>2. CASE /\ Enqueue(p, [Opened EXCEPT !.cursor = top, !.seeded = TRUE], <<>>)
             /\ seed' = top
    <3>1. /\ [Opened EXCEPT !.cursor = top, !.seeded = TRUE] \in State
          /\ [Opened EXCEPT !.cursor = top, !.seeded = TRUE].cursor = top
      BY <1>1, <1>2 DEF State
    <3>2. disk'.cursor = top
      BY <1>3, <1>4, <2>2, <3>1
    <3>3. \A n \in Matching : ~(top < n /\ n <= top)
      BY <1>1, JobsAssumption DEF Events
    <3> QED BY <2>2, <3>2, <3>3 DEF NeverDropped
  <2>3. CASE Quiet(p, [Opened EXCEPT !.cursor = reach])
    <3>1. ~disk.seeded /\ seed' = seed
      BY <1>2, <1>8, <2>3 DEF SeedNumbered, Quiet
    <3>2. seed' = None
      BY <3>1 DEF History, Seeds
    <3> QED BY <3>2 DEF NeverDropped
  <2> QED BY <1>8, <2>2, <2>3 DEF SeedNumbered, reach
<1>9. CASE job.trigger \in NumberedKinds /\ ~PollNumbered(p) /\ ~SeedNumbered(p)
  BY <1>9, <1>5 DEF Look, StillPending, CronTick, EveryTick, WhenTick, PollClosed,
                    NumberedKinds, TimedKinds
<1> QED BY <1>6, <1>7, <1>8, <1>9

\* "a missed pass makes a job late but never drops it": what the cursor has
\* passed since the first poll was fired, when listings reach far enough.
THEOREM NothingIsDropped == ListingsReach => (Spec => []NeverDropped)
<1> SUFFICES ASSUME ListingsReach PROVE Spec => []NeverDropped
  OBVIOUS
<1>1. Init => NeverDropped
  BY DEF Init, NeverDropped
<1>2. IInv /\ History /\ NeverDropped /\ [Next]_vars => NeverDropped'
  <2> SUFFICES ASSUME IInv, History, NeverDropped, [Next]_vars PROVE NeverDropped'
    OBVIOUS
  <2>1. ASSUME job' = job, disk'.cursor = disk.cursor, seed' = seed, fired' = fired
        PROVE  NeverDropped'
    BY <2>1 DEF NeverDropped
  <2>2. disk \in State
    BY DEF IInv, TypeOK
  <2>3. ASSUME NEW p \in Passes, Drain(p) PROVE NeverDropped'
    <3>1. CASE WriteBack(p)
      <4>1. lock = p
        <5>1. p \in Procs /\ pc[p] \in {"write", "drain"}
          BY <3>1 DEF WriteBack, Stops, Procs
        <5> QED BY <5>1 DEF IInv, Exclusive
      <4>2. mem[p].cursor = disk.cursor
        BY <4>1 DEF History, Copied, SameTrigger
      <4> QED BY <2>1, <3>1, <4>2 DEF WriteBack, ghost
    <3>2. CASE UNCHANGED <<job, disk, seed, fired>>
      BY <2>1, <3>2
    <3> QED BY <2>3, <3>1, <3>2 DEF Drain, Attempt, Send, Create, Go, Spawn, HarvestRead,
                                    HarvestLook, ghost
  <2>4. ASSUME NEW p \in Passes, PollFails(p) PROVE NeverDropped'
    <3>1. disk' = Opened /\ UNCHANGED <<job, ghost>>
      BY <2>4 DEF PollFails
    <3>2. Opened.cursor = disk.cursor
      BY <2>2 DEF Opened, State
    <3> QED BY <2>1, <3>1, <3>2 DEF ghost
  <2>5. CASE RunNowRecords
    <3>1. PICK ok \in BOOLEAN :
            disk' = [disk EXCEPT
                       !.lastSlot = IF @ = None THEN mem[Operator].lastSlot ELSE @,
                       !.lastDone = IF ok THEN now ELSE @]
      BY <2>5 DEF RunNowRecords
    <3>2. disk'.cursor = disk.cursor
      BY <2>2, <3>1 DEF State
    <3> QED BY <2>1, <2>5, <3>2 DEF RunNowRecords, ghost
  <2>6. CASE UNCHANGED <<job, disk, seed, fired>>
    BY <2>1, <2>6
  <2>7. RunNow \/ World \/ UNCHANGED vars \/ (\E p \in Procs : Crash(p))
          => UNCHANGED <<job, disk, seed, fired>>
    BY DEF RunNow, World, ClockTicks, Arrives, Closes, Reopens, ChildExits, ChildDies,
           Crash, vars, ghost
  <2>8. ASSUME NEW p \in Passes, Lists(p) \/ Skips(p) PROVE UNCHANGED <<job, disk, seed, fired>>
    BY <2>8 DEF Lists, Skips, ghost
  <2> QED BY <2>3, <2>4, <2>5, <2>6, <2>7, <2>8, LookDropsNothing DEF Next, Pass
<1>3. Spec => [](IInv /\ History)
  BY HistoryInvariance
<1> QED BY <1>1, <1>2, <1>3, PTL DEF Spec

-----------------------------------------------------------------------------
(* Runners: the head's own, and those that crashes left behind.             *)

\* Only the head of a queue has a runner.
HeadOnly(q) == \A i \in DOMAIN q : q[i].child # None => i = 1
RunnerOf(q) == IF q = <<>> THEN None ELSE q[1].child

\* The live runners that the queue in force does not know.
Strays == Live \ {RunnerOf(Queue)}

Runners ==
  /\ HeadOnly(disk.pending) /\ HeadOnly(Queue)
  /\ \A p \in Passes : pc[p] = "act" => First(p).child = None
  /\ IsFiniteSet(Live) /\ Cardinality(Strays) <= crashes
  /\ result # None => child[result.by] = "exited"
  /\ result # None /\ RunnerOf(Queue) # None /\ result.by # RunnerOf(Queue)
       => Cardinality(Strays) < crashes
  /\ crashes = 0 => honest

\* When the head's runner has ended or there is a result, the strays are all.
LEMMA LiveRunners ==
  ASSUME IInv, Runners
  PROVE  /\ Cardinality(Live) \in Nat /\ crashes \in Nat
         /\ Cardinality(Live) <= crashes + 1
         /\ RunnerOf(Queue) \notin Live => Strays = Live /\ Cardinality(Live) <= crashes
         /\ result # None => Cardinality(Live) <= crashes
<1> DEFINE r == RunnerOf(Queue)
<1>1. crashes \in Nat /\ IsFiniteSet(Live) /\ Cardinality(Strays) <= crashes
  BY JobsAssumption DEF IInv, TypeOK, Runners
<1>2. /\ Cardinality(Live) \in Nat
      /\ Cardinality(Strays) = IF r \in Live THEN Cardinality(Live) - 1 ELSE Cardinality(Live)
  BY <1>1, FS_CardinalityType, FS_RemoveElement DEF Strays
<1>3. r \notin Live => Strays = Live /\ Cardinality(Live) <= crashes
  BY <1>1, <1>2 DEF Strays
<1>4. ASSUME result # None PROVE Cardinality(Live) <= crashes
  <2>1. CASE r \notin Live
    BY <1>3, <2>1
  <2>2. CASE r \in Live
    <3>1. r # None /\ child[r] = "running"
      BY <2>2, JobsAssumption DEF Live
    <3>2. result.by # r
      BY <1>4, <3>1 DEF Runners
    <3>3. Cardinality(Strays) < crashes
      BY <1>4, <3>1, <3>2 DEF Runners
    <3> QED BY <1>1, <1>2, <2>2, <3>3
  <2> QED BY <2>1, <2>2
<1> HIDE DEF r
<1>5. Cardinality(Live) <= crashes + 1
  BY <1>1, <1>2
<1> QED BY <1>1, <1>2, <1>3, <1>4, <1>5 DEF r

\* A step that starts and ends no runner, and leaves the head its own.
LEMMA SameRunners ==
  ASSUME Runners, UNCHANGED <<child, crashes, honest>>, result' \in {result, None},
         HeadOnly(disk'.pending), HeadOnly(Queue'),
         RunnerOf(Queue)' = RunnerOf(Queue),
         \A p \in Passes : pc'[p] = "act" => First(p)'.child = None
  PROVE  Runners'
<1>1. Live' = Live /\ Strays' = Strays
  BY DEF Live, Strays
<1>2. result' = result \/ result' = None
  OBVIOUS
<1> QED BY <1>1, <1>2 DEF Runners

\* A pass that settles its head leaves a queue without a runner.
LEMMA FinishRunner ==
  ASSUME IInv, Runners, NEW p \in Passes, lock = p, mem[p].pending # <<>>,
         NEW f \in Fire, f.child = None, NEW ok \in BOOLEAN, Finish(p, f, ok),
         UNCHANGED <<disk, lock>>
  PROVE  /\ RunnerOf(Queue)' = None /\ HeadOnly(Queue') /\ HeadOnly(disk'.pending)
         /\ \A r \in Passes : pc'[r] # "act"
<1> DEFINE q == mem[p].pending
<1>1. /\ Queue = q /\ p \in Procs /\ mem \in [Procs -> State] /\ mem[p] \in State
      /\ q \in Seq(Fire) /\ pc \in [Procs -> Labels]
  BY HolderQueue DEF IInv, TypeOK
<1>2. HeadOnly(q) /\ HeadOnly(disk.pending)
  BY <1>1 DEF Runners
<1>3. /\ pc' = [pc EXCEPT ![p] = "drain"]
      /\ \A r \in Passes : r # p => pc[r] # "act"
  BY DEF Finish, Succeed, Retry, GiveUp, At, IInv, Exclusive, Procs
<1>4. \A r \in Passes : pc'[r] # "act"
  BY <1>1, <1>3 DEF Procs
<1>5. ASSUME NEW g, g.child = None, Work(p, g)
      PROVE  RunnerOf(Queue)' = None /\ HeadOnly(Queue')
  <2>1. Queue' = [q EXCEPT ![1] = g]
    BY <1>1, <1>5 DEF Work, Queue, State
  <2>2. Len(q) \in Nat \ {0} /\ DOMAIN q = 1 .. Len(q)
    BY <1>1, EmptySeq, LenProperties
  <2>3. [q EXCEPT ![1] = g][1] = g
    BY <2>2
  <2>4. HeadOnly([q EXCEPT ![1] = g])
    BY <1>2, <2>2 DEF HeadOnly
  <2> QED BY <1>5, <2>1, <2>3, <2>4 DEF RunnerOf
<1>6. ASSUME Popped(p, f) PROVE RunnerOf(Queue)' = None /\ HeadOnly(Queue')
  <2>1. Queue' = Tail(q)
    BY <1>1, <1>6 DEF Popped, Queue, State
  <2>2. /\ Len(q) \in Nat /\ DOMAIN q = 1 .. Len(q)
        /\ Tail(q) \in Seq(Fire) /\ Len(Tail(q)) = Len(q) - 1
        /\ \A i \in 1 .. Len(Tail(q)) : Tail(q)[i] = q[i + 1]
    BY <1>1, LenProperties, HeadTailProperties
  <2>3. DOMAIN Tail(q) = 1 .. Len(Tail(q)) /\ Len(Tail(q)) \in Nat
    BY <2>2, LenProperties
  <2>4. \A i \in DOMAIN Tail(q) : Tail(q)[i].child = None
    <3> SUFFICES ASSUME NEW i \in DOMAIN Tail(q) PROVE Tail(q)[i].child = None
      OBVIOUS
    <3>1. i + 1 \in DOMAIN q /\ i + 1 # 1 /\ Tail(q)[i] = q[i + 1]
      BY <2>2, <2>3
    <3> QED BY <1>2, <3>1 DEF HeadOnly
  <2>5. Tail(q) # <<>> => 1 \in DOMAIN Tail(q)
    BY <2>2, <2>3, EmptySeq
  <2> QED BY <2>1, <2>4, <2>5 DEF RunnerOf, HeadOnly
<1>7. CASE Retry(p, f)
  <2>1. \A t : [f EXCEPT !.retryAt = t].child = None
    BY DEF Fire
  <2> QED BY <1>2, <1>4, <1>5, <1>7, <2>1 DEF Retry
<1>8. CASE Succeed(p, f) \/ GiveUp(p, f)
  BY <1>2, <1>4, <1>6, <1>8 DEF Succeed, GiveUp
<1> QED BY <1>2, <1>4, <1>7, <1>8 DEF Finish

\* Replacing the head by f gives the queue in force f's runner.
LEMMA WorkRunner ==
  ASSUME IInv, Runners, NEW p \in Passes, lock = p, mem[p].pending # <<>>,
         NEW f, Work(p, f), UNCHANGED <<disk, lock>>,
         NEW l \in InDrain, At(p, l)
  PROVE  /\ RunnerOf(Queue) = First(p).child /\ RunnerOf(Queue)' = f.child
         /\ HeadOnly(Queue') /\ HeadOnly(disk'.pending) /\ First(p)' = f
         /\ \A r \in Passes : pc'[r] = "act" => r = p
<1> DEFINE q == mem[p].pending
<1>1. /\ Queue = q /\ p \in Procs /\ mem \in [Procs -> State] /\ mem[p] \in State
      /\ q \in Seq(Fire) /\ pc \in [Procs -> Labels]
  BY HolderQueue DEF IInv, TypeOK
<1>2. HeadOnly(q) /\ HeadOnly(disk.pending)
  BY <1>1 DEF Runners
<1>3. \A r \in Passes : r # p => pc[r] # "act" /\ pc'[r] = pc[r]
  BY <1>1 DEF At, IInv, Exclusive, Procs
<1>4. Queue' = [q EXCEPT ![1] = f] /\ mem'[p].pending = [q EXCEPT ![1] = f]
  BY <1>1 DEF Work, Queue, State
<1>5. Len(q) \in Nat \ {0} /\ DOMAIN q = 1 .. Len(q)
  BY <1>1, EmptySeq, LenProperties
<1>6. [q EXCEPT ![1] = f][1] = f /\ HeadOnly([q EXCEPT ![1] = f]) /\ [q EXCEPT ![1] = f] # <<>>
  <2>1. [q EXCEPT ![1] = f][1] = f /\ HeadOnly([q EXCEPT ![1] = f])
    BY <1>2, <1>5 DEF HeadOnly
  <2>2. 1 \in DOMAIN [q EXCEPT ![1] = f] /\ DOMAIN <<>> = {}
    <3>1. DOMAIN [q EXCEPT ![1] = f] = DOMAIN q
      OBVIOUS
    <3> QED BY <1>5, <3>1
  <2> QED BY <2>1, <2>2
<1> QED BY <1>1, <1>2, <1>3, <1>4, <1>6 DEF RunnerOf, First

\* Settling the head of a pass whose runner has answered or ended.
LEMMA SettleRunner ==
  ASSUME IInv, Runners, NEW p \in Passes, lock = p, mem[p].pending # <<>>,
         First(p) \in Fire, First(p).child # None, NEW ok \in BOOLEAN,
         Finish(p, [First(p) EXCEPT !.child = None], ok),
         \/ result # None /\ honest' = (honest /\ result.by = First(p).child)
         \/ child[First(p).child] # "running" /\ honest' = honest,
         UNCHANGED <<disk, lock, child, result, crashes>>
  PROVE  Runners'
<1>1. Queue = mem[p].pending /\ RunnerOf(Queue) = First(p).child
  BY HolderQueue DEF RunnerOf, First
<1>2. [First(p) EXCEPT !.child = None] \in Fire /\ [First(p) EXCEPT !.child = None].child = None
  BY DEF Fire
<1>3. /\ RunnerOf(Queue)' = None /\ HeadOnly(Queue') /\ HeadOnly(disk'.pending)
      /\ \A r \in Passes : pc'[r] # "act"
  BY <1>2, FinishRunner
<1>4. child[First(p).child] # "running" => RunnerOf(Queue) \notin Live
  BY <1>1 DEF Live
<1>5. Cardinality(Live) <= crashes /\ IsFiniteSet(Live) /\ None \notin Live
  BY <1>4, LiveRunners, JobsAssumption DEF Runners, Live
<1>6. Live' = Live /\ Strays' = Live
  BY <1>3, <1>5 DEF Live, Strays
<1>7. crashes = 0 => honest'
  <2>1. CASE honest' = honest
    BY <2>1 DEF Runners
  <2>2. CASE result # None /\ honest' = (honest /\ result.by = First(p).child)
    <3>1. ASSUME crashes = 0, result.by # First(p).child PROVE FALSE
      <4>1. Cardinality(Strays) < 0
        BY <1>1, <2>2, <3>1 DEF Runners
      <4>2. Cardinality(Strays) \in Nat
        BY FS_RemoveElement, FS_CardinalityType DEF Runners, Strays
      <4> QED BY <4>1, <4>2
    <3>2. crashes = 0 => honest
      BY DEF Runners
    <3> QED BY <2>2, <3>1, <3>2
  <2> QED BY <2>1, <2>2
<1> QED BY <1>3, <1>5, <1>6, <1>7 DEF Runners

\* A step of a pass over its queue keeps the account of the runners.
LEMMA DrainKeepsRunners ==
  ASSUME IInv, Runners, NEW p \in Passes, Drain(p)
  PROVE  Runners'
<1> DEFINE q == mem[p].pending
<1>1. pc[p] \in InDrain /\ p \in Procs
  BY DEF Drain, Attempt, Send, Create, Go, Spawn, HarvestRead, HarvestLook,
         WriteBack, Stops, InDrain, Procs
<1>2. lock = p
  BY <1>1 DEF IInv, Exclusive, InDrain
<1>3. /\ Queue = q /\ mem \in [Procs -> State] /\ q \in Seq(Fire)
      /\ pc \in [Procs -> Labels] /\ child \in [Children -> Statuses]
      /\ HeadOnly(q) /\ HeadOnly(disk.pending)
  BY <1>2, HolderQueue DEF IInv, TypeOK, Runners
<1>4. q # <<>> => First(p) \in Fire
  BY <1>3, HeadOfQueue DEF First
<1>5. pc[p] = "act" => q # <<>> /\ First(p).child = None
  BY <1>1 DEF IInv, Attempted, Runners
<1>6. pc[p] = "look" => q # <<>> /\ First(p).child # None
  BY <1>1 DEF IInv, Attempted
<1>7. ASSUME pc[p] = "act", NEW ok \in BOOLEAN, Finish(p, First(p), ok),
             result' \in {result, None}, UNCHANGED <<disk, lock, child, crashes, honest>>
      PROVE  Runners'
  <2>1. q # <<>> /\ First(p).child = None /\ First(p) \in Fire
    BY <1>4, <1>5, <1>7
  <2>2. RunnerOf(Queue) = None
    BY <1>3, <2>1 DEF RunnerOf, First
  <2>3. /\ RunnerOf(Queue)' = None /\ HeadOnly(Queue') /\ HeadOnly(disk'.pending)
        /\ \A r \in Passes : pc'[r] # "act"
    BY <1>2, <1>7, <2>1, FinishRunner
  <2> QED BY <1>7, <2>2, <2>3, SameRunners
<1>8. ASSUME q # <<>>, NEW f, f.child = First(p).child, Work(p, f),
             NEW l \in InDrain, At(p, l), l = "act" => f.child = None,
             UNCHANGED <<disk, lock, child, result, crashes, honest>>
      PROVE  Runners'
  <2>1. /\ RunnerOf(Queue) = First(p).child /\ RunnerOf(Queue)' = f.child
        /\ HeadOnly(Queue') /\ HeadOnly(disk'.pending) /\ First(p)' = f
        /\ \A r \in Passes : pc'[r] = "act" => r = p
    BY <1>2, <1>8, WorkRunner
  <2>2. pc'[p] = l
    BY <1>1, <1>3, <1>8 DEF At
  <2> QED BY <1>8, <2>1, <2>2, SameRunners
<1>9. ASSUME UNCHANGED <<disk, lock, mem, child, result, crashes, honest>>,
             NEW l \in InDrain, At(p, l), l # "act"
      PROVE  Runners'
  <2>1. Queue' = Queue
    BY <1>9 DEF Queue
  <2>2. \A r \in Passes : pc'[r] = "act" => pc[r] = "act" /\ First(r)' = First(r)
    BY <1>1, <1>3, <1>9 DEF At, First, Procs
  <2>3. \A r \in Passes : pc[r] = "act" => First(r).child = None
    BY DEF Runners
  <2> QED BY <1>3, <1>9, <2>1, <2>2, <2>3, SameRunners
<1>10. ASSUME q # <<>>, First(p).child # None, Collect(p),
              UNCHANGED <<disk, lock, child, result, crashes>>
       PROVE  Runners'
  <2>1. /\ result.ok \in BOOLEAN /\ result # None
        /\ Finish(p, [First(p) EXCEPT !.child = None], result.ok)
        /\ honest' = (honest /\ result.by = First(p).child)
    BY <1>10 DEF Collect, IInv, TypeOK
  <2> QED BY <1>2, <1>4, <1>10, <2>1, SettleRunner
<1>11. CASE Attempt(p)
  <2> DEFINE f == [First(p) EXCEPT !.attempts = @ + 1]
  <2>1. q # <<>> /\ First(p).child = None /\ First(p) \in Fire
    BY <1>4, <1>11 DEF Attempt, CanAttempt
  <2>2. f.child = First(p).child
    BY <2>1 DEF Fire
  <2>3. Work(p, f) /\ At(p, "act") /\ UNCHANGED <<disk, lock, child, result, crashes, honest>>
    BY <1>11 DEF Attempt, ghost, faults
  <2> HIDE DEF f
  <2> QED BY <1>8, <2>1, <2>2, <2>3 DEF InDrain
<1>12. CASE Send(p)
  <2>1. PICK ok \in BOOLEAN : Finish(p, First(p), ok)
    BY <1>12 DEF Send
  <2> QED BY <1>7, <1>12, <2>1 DEF Send, faults
<1>13. CASE Create(p)
  <2> DEFINE f == [First(p) EXCEPT !.item = TRUE]
  <2>1. pc[p] = "act" /\ q # <<>> /\ First(p).child = None /\ First(p) \in Fire
    BY <1>4, <1>5, <1>13 DEF Create
  <2>2. CASE Finish(p, First(p), FALSE)
    BY <1>7, <1>13, <2>1, <2>2 DEF Create, faults
  <2>3. CASE Work(p, f) /\ UNCHANGED <<pc, final, told>>
    <3>1. f.child = First(p).child
      BY <2>1 DEF Fire
    <3>2. Work(p, f) /\ At(p, "act") /\ UNCHANGED <<disk, lock, child, result, crashes, honest>>
      BY <1>1, <1>3, <1>13, <2>1, <2>3 DEF Create, faults, At
    <3> HIDE DEF f
    <3> QED BY <1>8, <2>1, <3>1, <3>2 DEF InDrain
  <2> QED BY <1>13, <2>2, <2>3 DEF Create
<1>14. CASE Go(p)
  <2>1. PICK ok \in BOOLEAN : Finish(p, First(p), ok)
    BY <1>14 DEF Go
  <2> QED BY <1>7, <1>14, <2>1 DEF Go, faults
<1>15. CASE Spawn(p)
  <2>1. /\ pc[p] = "act" /\ q # <<>> /\ First(p).child = None /\ First(p) \in Fire
        /\ result' = None
    BY <1>4, <1>5, <1>15 DEF Spawn
  <2>2. CASE Finish(p, First(p), FALSE) /\ UNCHANGED child
    BY <1>7, <1>15, <2>1, <2>2 DEF Spawn, faults
  <2>3. ASSUME NEW c \in Children, child[c] = "unused", child' = [child EXCEPT ![c] = "running"],
               Work(p, [First(p) EXCEPT !.child = c]), At(p, "write")
        PROVE  Runners'
    <3> DEFINE f == [First(p) EXCEPT !.child = c]
    <3>1. f.child = c /\ Work(p, f) /\ UNCHANGED <<disk, lock, crashes, honest>>
      BY <1>15, <2>1, <2>3 DEF Fire, Spawn, faults
    <3> HIDE DEF f
    <3>2. /\ RunnerOf(Queue) = None /\ RunnerOf(Queue)' = c
          /\ HeadOnly(Queue') /\ HeadOnly(disk'.pending)
          /\ \A r \in Passes : pc'[r] = "act" => r = p
      BY <1>2, <2>1, <2>3, <3>1, WorkRunner DEF InDrain
    <3>3. pc'[p] = "write"
      BY <1>1, <1>3, <2>3 DEF At
    <3>4. c \notin Live /\ None \notin Live /\ Live' = Live \union {c}
      BY <1>3, <2>3, JobsAssumption DEF Live, Statuses
    <3>5. Strays' = Live /\ Strays = Live
      BY <3>2, <3>4 DEF Strays
    <3>6. IsFiniteSet(Live')
      BY <3>4, FS_AddElement DEF Runners
    <3>7. \A r \in Passes : pc'[r] # "act"
      BY <3>2, <3>3
    <3> QED BY <2>1, <3>1, <3>2, <3>5, <3>6, <3>7 DEF Runners
  <2> QED BY <1>15, <2>2, <2>3 DEF Spawn
<1>16. CASE HarvestRead(p)
  <2>1. q # <<>> /\ First(p).child # None
    BY <1>16 DEF HarvestRead
  <2>2. CASE Collect(p)
    BY <1>10, <1>16, <2>1, <2>2 DEF HarvestRead, faults
  <2>3. CASE At(p, "look") /\ UNCHANGED <<mem, final, told, honest>>
    BY <1>9, <1>16, <2>3 DEF HarvestRead, faults, InDrain
  <2> QED BY <1>16, <2>2, <2>3 DEF HarvestRead
<1>17. CASE HarvestLook(p)
  <2>1. q # <<>> /\ First(p).child # None
    BY <1>6, <1>17 DEF HarvestLook
  <2>2. CASE Collect(p)
    BY <1>10, <1>17, <2>1, <2>2 DEF HarvestLook, faults
  <2>3. CASE At(p, "write") /\ UNCHANGED <<mem, final, told, honest>>
    BY <1>9, <1>17, <2>3 DEF HarvestLook, faults, InDrain
  <2>4. CASE /\ child[First(p).child] # "running"
             /\ Finish(p, [First(p) EXCEPT !.child = None], FALSE) /\ UNCHANGED honest
    <3>1. UNCHANGED <<disk, lock, child, result, crashes>>
      BY <1>17 DEF HarvestLook, faults
    <3> QED BY <1>2, <1>4, <2>1, <2>4, <3>1, SettleRunner
  <2> QED BY <1>17, <2>2, <2>3, <2>4 DEF HarvestLook
<1>18. CASE WriteBack(p)
  <2>1. /\ disk' = mem[p] /\ lock' = None /\ mem' = [mem EXCEPT ![p] = NoState]
        /\ pc' = [pc EXCEPT ![p] = "idle"] /\ UNCHANGED <<child, result, crashes, honest>>
    BY <1>18 DEF WriteBack, At, ghost, faults
  <2>2. Queue' = q
    BY <1>3, <2>1, JobsAssumption DEF Queue, Procs
  <2>3. \A r \in Passes : pc'[r] # "act"
    BY <1>1, <1>2, <1>3, <2>1 DEF IInv, Exclusive, Procs
  <2> QED BY <1>3, <2>1, <2>2, <2>3, SameRunners
<1> QED BY <1>11, <1>12, <1>13, <1>14, <1>15, <1>16, <1>17, <1>18 DEF Drain

\* A pass that begins appends firings that no runner was started for.
LEMMA EnqueueKeepsRunners ==
  ASSUME IInv, Runners, NEW p \in Passes, NEW s \in State, NEW keys \in Seq(Keys),
         s.pending = disk.pending, Enqueue(p, s, keys), crashes' = crashes
  PROVE  Runners'
<1> DEFINE new == [i \in DOMAIN keys |-> NewFire(keys[i])]
           q   == disk.pending \o new
<1>1. /\ disk.pending \in Seq(Fire) /\ p \in Procs /\ mem \in [Procs -> State]
      /\ pc \in [Procs -> Labels]
  BY DEF IInv, TypeOK, State, Procs
<1>2. /\ lock = None /\ lock' = p /\ disk' = [s EXCEPT !.pending = q]
      /\ mem' = [mem EXCEPT ![p] = disk'] /\ pc' = [pc EXCEPT ![p] = "drain"]
      /\ UNCHANGED <<child, result, honest>>
  BY DEF Enqueue
<1>3. new \in Seq(Fire) /\ \A i \in DOMAIN new : new[i].child = None
  <2>1. new \in Seq(Fire)
    BY <1>1, AppendAscends
  <2>2. \A i \in DOMAIN new : new[i].child = None
    BY DEF NewFire
  <2> QED BY <2>1, <2>2
<1> HIDE DEF new
<1>4. /\ q \in Seq(Fire) /\ Len(q) = Len(disk.pending) + Len(new)
      /\ \A i \in DOMAIN disk.pending : i \in DOMAIN q /\ q[i] = disk.pending[i]
      /\ \A i \in DOMAIN new : q[Len(disk.pending) + i] = new[i]
      /\ \A i \in DOMAIN q : \/ i \in DOMAIN disk.pending
                             \/ i \notin DOMAIN disk.pending /\ i - Len(disk.pending) \in DOMAIN new
  BY <1>1, <1>3, ConcatElements
<1>5. /\ Len(disk.pending) \in Nat /\ DOMAIN disk.pending = 1 .. Len(disk.pending)
      /\ Len(new) \in Nat /\ DOMAIN new = 1 .. Len(new)
      /\ Len(q) \in Nat /\ DOMAIN q = 1 .. Len(q)
  BY <1>1, <1>3, <1>4, LenProperties
<1> HIDE DEF q
<1>6. \A i \in DOMAIN q : i \in DOMAIN disk.pending \/ q[i].child = None
  <2> SUFFICES ASSUME NEW i \in DOMAIN q, i \notin DOMAIN disk.pending PROVE q[i].child = None
    OBVIOUS
  <2>1. i - Len(disk.pending) \in DOMAIN new /\ Len(disk.pending) + (i - Len(disk.pending)) = i
    BY <1>4, <1>5
  <2>2. q[i] = new[i - Len(disk.pending)]
    BY <1>4, <2>1
  <2> QED BY <1>3, <2>1, <2>2
<1>7. Queue = disk.pending /\ Queue' = q /\ disk'.pending = q
  BY <1>1, <1>2, JobsAssumption DEF Queue, Procs, State
<1>8. HeadOnly(q)
  BY <1>4, <1>6 DEF HeadOnly, Runners
<1>9. RunnerOf(q) = RunnerOf(disk.pending)
  <2>1. CASE disk.pending # <<>>
    <3>1. 1 \in DOMAIN disk.pending
      BY <1>1, <1>5, <2>1, EmptySeq
    <3>2. q[1] = disk.pending[1] /\ 1 \in DOMAIN q
      BY <1>4, <3>1
    <3>3. q # <<>>
      BY <3>2
    <3> QED BY <2>1, <3>2, <3>3 DEF RunnerOf
  <2>2. CASE disk.pending = <<>>
    <3>1. 1 \notin DOMAIN disk.pending
      BY <2>2
    <3>2. q # <<>> => 1 \in DOMAIN q
      BY <1>4, <1>5, EmptySeq
    <3> QED BY <1>6, <2>2, <3>1, <3>2 DEF RunnerOf
  <2> QED BY <2>1, <2>2
<1>10. \A r \in Passes : pc'[r] # "act"
  BY <1>1, <1>2, JobsAssumption DEF IInv, Exclusive, Procs
<1> QED BY <1>2, <1>7, <1>8, <1>9, <1>10, SameRunners

\* A step that changes neither queue nor place, and no runner.
LEMMA IdleKeepsRunners ==
  ASSUME IInv, Runners, disk'.pending = disk.pending, Queue' = Queue,
         \A p \in Passes : mem'[p] = mem[p] /\ pc'[p] = pc[p],
         UNCHANGED <<child, result, crashes, honest>>
  PROVE  Runners'
<1>1. \A p \in Passes : pc'[p] = "act" => First(p)'.child = None
  BY DEF Runners, First
<1>2. HeadOnly(disk'.pending) /\ HeadOnly(Queue') /\ RunnerOf(Queue)' = RunnerOf(Queue)
  BY DEF Runners
<1> QED BY <1>1, <1>2, SameRunners

\* Every step keeps the account of the runners.
LEMMA NextKeepsRunners == IInv /\ History /\ Runners /\ [Next]_vars => Runners'
<1> SUFFICES ASSUME IInv, History, Runners, [Next]_vars PROVE Runners'
  OBVIOUS
<1>0. /\ Operator \in Procs /\ Operator \notin Passes /\ None \notin Passes
      /\ disk \in State /\ now \in Time /\ mem \in [Procs -> State]
      /\ pc \in [Procs -> Labels] /\ child \in [Children -> Statuses]
      /\ crashes \in Nat
  BY JobsAssumption DEF IInv, TypeOK, Procs
<1>1. ASSUME NEW p \in Passes, Look(p) PROVE Runners'
  BY <1>1, LookMoves, EnqueueKeepsRunners
<1>2. ASSUME NEW p \in Passes, PollFails(p) PROVE Runners'
  <2>1. disk'.pending = disk.pending /\ lock = None
    BY <1>0, <1>2 DEF PollFails, Opened, State
  <2>2. Queue' = Queue
    BY <1>0, <1>2, <2>1 DEF PollFails, Queue
  <2> QED BY <1>2, <2>1, <2>2, IdleKeepsRunners DEF PollFails, ghost, faults
<1>3. CASE RunNow
  <2>1. /\ lock = None /\ lock' = Operator
        /\ \A p \in Passes : mem'[p] = mem[p] /\ pc'[p] = pc[p]
        /\ UNCHANGED <<disk, child, result, crashes, honest>>
    BY <1>0, <1>3 DEF RunNow, At, ghost, faults, Procs
  <2>2. Queue' = Queue
    BY <1>0, <2>1 DEF Queue
  <2> QED BY <2>1, <2>2, IdleKeepsRunners
<1>4. CASE RunNowRecords
  <2>1. lock = Operator
    BY <1>0, <1>4 DEF RunNowRecords, IInv, Exclusive
  <2>2. PICK ok \in BOOLEAN :
          disk' = [disk EXCEPT
                     !.lastSlot = IF @ = None THEN mem[Operator].lastSlot ELSE @,
                     !.lastDone = IF ok THEN now ELSE @]
    BY <1>4 DEF RunNowRecords
  <2>3. disk'.pending = disk.pending
    BY <1>0, <2>2 DEF State
  <2>4. /\ lock' = None /\ \A p \in Passes : mem'[p] = mem[p] /\ pc'[p] = pc[p]
        /\ UNCHANGED <<child, result, crashes, honest>>
    BY <1>0, <1>4 DEF RunNowRecords, At, ghost, faults, Procs
  <2>5. Queue' = Queue
    BY <1>0, <2>1, <2>3, <2>4 DEF Queue
  <2> QED BY <2>3, <2>4, <2>5, IdleKeepsRunners
<1>5. ASSUME UNCHANGED <<disk, lock, mem, pc, child, result, crashes, honest>> PROVE Runners'
  <2>1. Queue' = Queue
    BY <1>5 DEF Queue
  <2> QED BY <1>5, <2>1, IdleKeepsRunners
<1>6. ASSUME NEW p \in Procs, Crash(p) PROVE Runners'
  <2>1. /\ lock = p /\ crashes' = crashes + 1 /\ lock' = None
        /\ mem' = [mem EXCEPT ![p] = NoState]
        /\ UNCHANGED <<disk, result, child, honest>>
    BY <1>6 DEF Crash, ghost
  <2>2. \A r \in Passes : pc'[r] # "act"
    <3>1. \A r \in Passes : r # p => pc[r] = pc'[r] /\ pc[r] # "act"
      BY <1>0, <1>6, <2>1 DEF Crash, At, IInv, Exclusive, Procs
    <3>2. pc'[p] # "act"
      BY <1>0, <1>6 DEF Crash, At
    <3> QED BY <3>1, <3>2
  <2>3. Queue' = disk.pending /\ Live' = Live
    BY <1>0, <2>1 DEF Queue, Live
  <2>4. /\ Cardinality(Live) \in Nat /\ Cardinality(Live) <= crashes + 1
        /\ result # None => Cardinality(Live) <= crashes
    BY LiveRunners
  <2>5. /\ Strays' \subseteq Live /\ IsFiniteSet(Live) /\ IsFiniteSet(Strays')
        /\ Cardinality(Strays') <= Cardinality(Live) /\ Cardinality(Strays') \in Nat
    <3>1. Strays' \subseteq Live /\ IsFiniteSet(Live)
      BY <2>3 DEF Strays, Runners
    <3> QED BY <3>1, FS_Subset, FS_CardinalityType
  <2>6. /\ Cardinality(Strays') <= crashes' /\ crashes' # 0
        /\ result # None => Cardinality(Strays') < crashes'
    BY <1>0, <2>1, <2>4, <2>5
  <2> QED BY <2>1, <2>2, <2>3, <2>5, <2>6 DEF Runners
<1>7. ASSUME NEW c \in Children, ChildExits(c) \/ ChildDies(c) PROVE Runners'
  <2>1. /\ child[c] = "running" /\ UNCHANGED <<disk, lock, pc, mem, crashes, honest>>
        /\ Queue' = Queue
    BY <1>7 DEF ChildExits, ChildDies, ghost, faults, Queue
  <2>2. PICK status \in {"exited", "killed"} : child' = [child EXCEPT ![c] = status]
    BY <1>7 DEF ChildExits, ChildDies
  <2>3. /\ c \in Live /\ Live' = Live \ {c} /\ Strays' = Strays \ {c}
        /\ IsFiniteSet(Live) /\ IsFiniteSet(Strays)
        /\ child'[c] = status /\ \A d \in Children : d # c => child'[d] = child[d]
    <3>1. /\ child'[c] = status /\ \A d \in Children : d # c => child'[d] = child[d]
      BY <1>0, <2>2
    <3>2. c \in Live /\ Live' = Live \ {c}
      BY <2>1, <3>1 DEF Live
    <3>3. Strays' = Strays \ {c}
      BY <2>1, <3>2 DEF Strays
    <3>4. IsFiniteSet(Live) /\ IsFiniteSet(Strays)
      BY FS_RemoveElement DEF Runners, Strays
    <3> QED BY <3>1, <3>2, <3>3, <3>4
  <2>4. /\ IsFiniteSet(Live') /\ Cardinality(Strays) \in Nat /\ Cardinality(Strays') \in Nat
        /\ Cardinality(Strays') <= Cardinality(Strays)
        /\ c \in Strays => Cardinality(Strays') < Cardinality(Strays)
    <3>1. /\ IsFiniteSet(Live') /\ IsFiniteSet(Strays')
          /\ Cardinality(Strays') = IF c \in Strays THEN Cardinality(Strays) - 1
                                                  ELSE Cardinality(Strays)
      BY <2>3, FS_RemoveElement
    <3>2. Cardinality(Strays) \in Nat /\ Cardinality(Strays') \in Nat
      BY <2>3, <3>1, FS_CardinalityType
    <3> QED BY <3>1, <3>2
  <2>5. Cardinality(Strays') <= crashes'
    BY <1>0, <2>1, <2>4 DEF Runners
  <2>6. /\ HeadOnly(disk'.pending) /\ HeadOnly(Queue') /\ (crashes' = 0 => honest')
        /\ \A r \in Passes : pc'[r] = "act" => First(r)'.child = None
    BY <2>1 DEF Runners, First
  <2>7. /\ result' # None => child'[result'.by] = "exited"
        /\ result' # None /\ RunnerOf(Queue)' # None /\ result'.by # RunnerOf(Queue)'
             => Cardinality(Strays') < crashes'
    <3>1. CASE ChildExits(c)
      <4>1. result'.by = c /\ child'[c] = "exited"
        BY <1>0, <3>1 DEF ChildExits
      <4>2. c # RunnerOf(Queue) => Cardinality(Strays') < crashes
        <5>1. c # RunnerOf(Queue) => c \in Strays
          BY <2>3 DEF Strays
        <5>2. Cardinality(Strays) <= crashes
          BY DEF Runners
        <5> QED BY <1>0, <2>4, <5>1, <5>2
      <4> QED BY <2>1, <4>1, <4>2
    <3>2. CASE ChildDies(c)
      <4>1. result' = result
        BY <3>2 DEF ChildDies
      <4>2. result # None => result.by \in Children /\ result.by # c /\ child[result.by] = "exited"
        BY <2>1 DEF IInv, TypeOK, Runners
      <4>3. result # None /\ RunnerOf(Queue) # None /\ result.by # RunnerOf(Queue)
              => Cardinality(Strays) < crashes
        BY DEF Runners
      <4> QED BY <1>0, <2>1, <2>3, <2>4, <4>1, <4>2, <4>3
    <3> QED BY <1>7, <3>1, <3>2
  <2> QED BY <2>4, <2>5, <2>6, <2>7 DEF Runners
<1>8. CASE World
  <2>1. CASE ClockTicks \/ Arrives
    BY <1>5, <2>1 DEF ClockTicks, Arrives, ghost, faults
  <2>2. ASSUME NEW e \in Events, Closes(e) \/ Reopens(e) PROVE Runners'
    BY <1>5, <2>2 DEF Closes, Reopens, ghost, faults
  <2> QED BY <1>7, <1>8, <2>1, <2>2, JobsAssumption DEF World
<1>9. CASE UNCHANGED vars
  BY <1>5, <1>9 DEF vars, ghost, faults
<1>10. ASSUME NEW p \in Passes, Pass(p) PROVE Runners'
  <2>1. CASE Lists(p) \/ Skips(p)
    BY <1>5, <2>1 DEF Lists, Skips, ghost, faults
  <2> QED BY <1>1, <1>2, <1>10, <2>1, DrainKeepsRunners DEF Pass
<1> QED BY <1>3, <1>4, <1>6, <1>8, <1>9, <1>10 DEF Next

\* Without a crash there is one runner and its firing gets its own outcome;
\* every crash leaves at most one more running.
THEOREM RunnersAreAlone == Spec => []OneRunner
<1>1. Init => Runners
  <2> SUFFICES ASSUME Init PROVE Runners
    OBVIOUS
  <2>1. /\ Queue = <<>> /\ disk.pending = <<>> /\ Live = {} /\ crashes = 0 /\ result = None
        /\ honest /\ \A p \in Passes : pc[p] = "idle"
    BY JobsAssumption DEF Init, Queue, NoState, Procs, Live
  <2>2. Strays = {} /\ IsFiniteSet({}) /\ Cardinality({}) = 0
    BY <2>1, FS_EmptySet DEF Strays
  <2> QED BY <2>1, <2>2 DEF Runners, HeadOnly
<1>2. (IInv /\ History) /\ Runners /\ [Next]_vars => Runners'
  BY NextKeepsRunners
<1>3. (IInv /\ History) /\ Runners => OneRunner
  <2> SUFFICES ASSUME IInv, Runners PROVE OneRunner
    OBVIOUS
  <2>1. Cardinality(Live) <= 1 + crashes
    BY LiveRunners
  <2> QED BY <2>1 DEF OneRunner, Runners
<1> QED BY <1>1, <1>2, <1>3, HistoryInvariance, PTL DEF Spec

-----------------------------------------------------------------------------
(* Budget: what a key's firings in a queue are still worth.                 *)

\* A weight gives every firing a finite set of units: of being there, of chances
\* to be attempted, of an item it still has to make.
Weights(n)  == [Fire -> SUBSET (1 .. n)]
Present     == [f \in Fire |-> {1}]
Chances(n)  == [f \in Fire |-> f.attempts + 1 .. n]
Unmade      == [f \in Fire |-> IF f.item THEN {} ELSE {1}]

Units(q, k, w) == {x \in (DOMAIN q) \X Nat : q[x[1]].key = k /\ x[2] \in w[q[x[1]]]}
Worth(q, k, w) == Cardinality(Units(q, k, w))

\* The facts of arithmetic the budget rests on.
LEMMA Products ==
  /\ \A a, b \in Nat : a * b \in Nat
  /\ \A a, b, c \in Nat : a * (b + c) = a * b + a * c /\ (b + c) * a = b * a + c * a
  /\ \A a, b, c \in Nat : b <= c => a * b <= a * c
<1>1. \A a, b \in Nat : a * b \in Nat
  OBVIOUS
<1>2. \A a, b, c \in Nat : a * (b + c) = a * b + a * c /\ (b + c) * a = b * a + c * a
  OBVIOUS
<1>3. ASSUME NEW a \in Nat, NEW b \in Nat, NEW c \in Nat, b <= c PROVE a * b <= a * c
  <2>1. c - b \in Nat /\ c = b + (c - b)
    BY <1>3
  <2>2. a * c = a * b + a * (c - b)
    BY <1>2, <2>1
  <2>3. a * b \in Nat /\ a * (c - b) \in Nat
    BY <1>1, <2>1
  <2> QED BY <2>2, <2>3
<1> QED BY <1>1, <1>2, <1>3

\* A queue has finitely many units.
LEMMA UnitsAreFinite ==
  ASSUME NEW n \in Nat, NEW w \in Weights(n), NEW q \in Seq(Fire), NEW k
  PROVE  /\ IsFiniteSet(Units(q, k, w)) /\ Worth(q, k, w) \in Nat
         /\ Units(q, k, w) \subseteq (DOMAIN q) \X (1 .. n)
<1>1. Len(q) \in Nat /\ DOMAIN q = 1 .. Len(q) /\ \A i \in DOMAIN q : q[i] \in Fire
  BY LenProperties, ElementOfSeq
<1>2. IsFiniteSet(DOMAIN q) /\ IsFiniteSet(1 .. n)
  BY <1>1, FS_Interval
<1>3. IsFiniteSet((DOMAIN q) \X (1 .. n))
  BY <1>2, FS_Product
<1>4. Units(q, k, w) \subseteq (DOMAIN q) \X (1 .. n)
  <2> SUFFICES ASSUME NEW i \in DOMAIN q, NEW u \in Nat, u \in w[q[i]] PROVE u \in 1 .. n
    BY DEF Units
  <2> QED BY <1>1 DEF Weights
<1>5. IsFiniteSet(Units(q, k, w))
  BY <1>3, <1>4, FS_Subset
<1> QED BY <1>4, <1>5, FS_CardinalityType DEF Worth

\* What replacing the head by a firing of the same key does to the worth.
LEMMA ReplacedWorth ==
  ASSUME NEW n \in Nat, NEW w \in Weights(n), NEW q \in Seq(Fire), q # <<>>, NEW k,
         NEW f \in Fire, f.key = q[1].key
  PROVE  LET r == [q EXCEPT ![1] = f]
         IN /\ f.key # k \/ w[f] = w[q[1]] => Worth(r, k, w) = Worth(q, k, w)
            /\ \A u : (f.key = k /\ u \in w[q[1]] /\ w[f] = w[q[1]] \ {u})
                        => Worth(r, k, w) + 1 = Worth(q, k, w)
<1> DEFINE r == [q EXCEPT ![1] = f]
<1>1. /\ Len(q) \in Nat \ {0} /\ DOMAIN q = 1 .. Len(q) /\ DOMAIN r = DOMAIN q
      /\ q[1] \in Fire
  BY EmptySeq, LenProperties, ElementOfSeq
<1>2. r[1] = f /\ \A i \in DOMAIN q : i # 1 => r[i] = q[i]
  BY <1>1
<1> HIDE DEF r
<1>3. ASSUME f.key # k \/ w[f] = w[q[1]] PROVE Units(r, k, w) = Units(q, k, w)
  BY <1>1, <1>2, <1>3 DEF Units
<1>4. ASSUME NEW u, f.key = k, u \in w[q[1]], w[f] = w[q[1]] \ {u}
      PROVE  Worth(r, k, w) + 1 = Worth(q, k, w)
  <2>1. u \in Nat
    BY <1>1, <1>4 DEF Weights
  <2>2. <<1, u>> \in Units(q, k, w)
    <3>1. 1 \in DOMAIN q /\ q[1].key = k
      BY <1>1, <1>4
    <3> QED BY <1>4, <2>1, <3>1 DEF Units
  <2>3. Units(r, k, w) = Units(q, k, w) \ {<<1, u>>}
    <3>1. ASSUME NEW i \in DOMAIN q, NEW v \in Nat
          PROVE  <<i, v>> \in Units(r, k, w) <=> <<i, v>> \in Units(q, k, w) /\ <<i, v>> # <<1, u>>
      <4>1. /\ <<i, v>> \in Units(r, k, w) <=> r[i].key = k /\ v \in w[r[i]]
            /\ <<i, v>> \in Units(q, k, w) <=> q[i].key = k /\ v \in w[q[i]]
        BY <1>1 DEF Units
      <4>2. CASE i = 1
        BY <1>2, <1>4, <4>1, <4>2
      <4>3. CASE i # 1
        BY <1>2, <4>1, <4>3
      <4> QED BY <4>2, <4>3
    <3>2. /\ \A x \in Units(r, k, w) : \E i \in DOMAIN q, v \in Nat : x = <<i, v>>
          /\ \A x \in Units(q, k, w) : \E i \in DOMAIN q, v \in Nat : x = <<i, v>>
      BY <1>1 DEF Units
    <3> QED BY <3>1, <3>2
  <2>4. IsFiniteSet(Units(q, k, w)) /\ Cardinality(Units(q, k, w)) \in Nat
    BY UnitsAreFinite DEF Worth
  <2>5. Cardinality(Units(r, k, w)) = Cardinality(Units(q, k, w)) - 1
    BY <2>2, <2>3, <2>4, FS_RemoveElement
  <2> QED BY <2>4, <2>5 DEF Worth
<1> QED BY <1>3, <1>4 DEF Worth, r

\* Taking the head off a queue makes it worth no more.
LEMMA TailWorth ==
  ASSUME NEW n \in Nat, NEW w \in Weights(n), NEW q \in Seq(Fire), q # <<>>, NEW k
  PROVE  Worth(Tail(q), k, w) <= Worth(q, k, w)
<1> DEFINE t == Tail(q)
           f == [x \in Units(t, k, w) |-> <<x[1] + 1, x[2]>>]
<1>1. /\ t \in Seq(Fire) /\ Len(t) = Len(q) - 1
      /\ \A i \in 1 .. Len(t) : t[i] = q[i + 1]
  BY HeadTailProperties
<1>2. /\ Len(q) \in Nat /\ DOMAIN q = 1 .. Len(q)
      /\ Len(t) \in Nat /\ DOMAIN t = 1 .. Len(t)
  BY <1>1, LenProperties
<1> HIDE DEF t
<1>3. \A i \in DOMAIN t : i \in Nat /\ i + 1 \in DOMAIN q /\ t[i] = q[i + 1]
  BY <1>1, <1>2
<1>4. \A x \in Units(t, k, w) : \E i \in DOMAIN t, v \in Nat : x = <<i, v>>
  BY DEF Units
<1>5. ASSUME NEW x \in Units(t, k, w)
      PROVE  x[1] \in DOMAIN t /\ x[1] \in Nat /\ x[2] \in Nat /\ x = <<x[1], x[2]>>
             /\ <<x[1] + 1, x[2]>> \in Units(q, k, w)
  <2>1. PICK i \in DOMAIN t, v \in Nat : x = <<i, v>>
    BY <1>4
  <2>2. t[i].key = k /\ v \in w[t[i]]
    BY <2>1 DEF Units
  <2>3. <<i + 1, v>> \in Units(q, k, w)
    BY <1>3, <2>2 DEF Units
  <2> QED BY <1>3, <2>1, <2>3
<1>6. f \in [Units(t, k, w) -> Units(q, k, w)]
  BY <1>5
<1>7. ASSUME NEW x \in Units(t, k, w), NEW y \in Units(t, k, w), f[x] = f[y] PROVE x = y
  <2>1. x[1] + 1 = y[1] + 1 /\ x[2] = y[2]
    BY <1>7
  <2>2. x[1] = y[1]
    <3>1. x[1] \in Nat /\ y[1] \in Nat
      BY <1>5
    <3> QED BY <2>1, <3>1
  <2> QED BY <1>5, <2>1, <2>2
<1>8. f \in Injection(Units(t, k, w), Units(q, k, w))
  <2>1. \A x, y \in Units(t, k, w) : f[x] = f[y] => x = y
    BY <1>7
  <2> HIDE DEF f
  <2> QED BY <1>6, <2>1, Fun_IsInj
<1> HIDE DEF f
<1>9. IsFiniteSet(Units(q, k, w))
  BY UnitsAreFinite
<1> QED BY <1>8, <1>9, FS_Injection DEF Worth, t

\* Appending a new firing of key k makes the queue worth what the new firing is.
LEMMA AppendedWorth ==
  ASSUME NEW n \in Nat, NEW w \in Weights(n), NEW q \in Seq(Fire),
         NEW keys \in Seq(Keys), Rising(keys), NEW k \in Keys
  PROVE  LET r == q \o [i \in DOMAIN keys |-> NewFire(keys[i])]
         IN /\ k \notin Range(keys) => Worth(r, k, w) = Worth(q, k, w)
            /\ k \in Range(keys) =>
                 Worth(r, k, w) <= Worth(q, k, w) + Cardinality(w[NewFire(k)])
            /\ Cardinality(w[NewFire(k)]) \in Nat
<1> DEFINE new == [i \in DOMAIN keys |-> NewFire(keys[i])]
           r   == q \o new
<1>1. /\ new \in Seq(Fire) /\ r \in Seq(Fire) /\ DOMAIN new = DOMAIN keys
      /\ \A i \in DOMAIN keys : new[i] = NewFire(keys[i]) /\ new[i].key = keys[i]
  BY AppendAscends DEF NewFire
<1> HIDE DEF new
<1>2. /\ \A i \in DOMAIN q : i \in DOMAIN r /\ r[i] = q[i]
      /\ \A i \in DOMAIN new : r[Len(q) + i] = new[i]
      /\ \A i \in DOMAIN r : \/ i \in DOMAIN q
                             \/ i \notin DOMAIN q /\ i - Len(q) \in DOMAIN new
  BY <1>1, ConcatElements
<1>3. /\ Len(q) \in Nat /\ DOMAIN q = 1 .. Len(q)
      /\ Len(keys) \in Nat /\ DOMAIN keys = 1 .. Len(keys)
      /\ Len(r) \in Nat /\ DOMAIN r = 1 .. Len(r)
  BY <1>1, LenProperties
<1> HIDE DEF r
<1>4. ASSUME NEW i \in DOMAIN r, i \notin DOMAIN q
      PROVE  i - Len(q) \in DOMAIN keys /\ r[i] = NewFire(keys[i - Len(q)])
             /\ r[i].key = keys[i - Len(q)]
  <2>1. i - Len(q) \in DOMAIN keys /\ Len(q) + (i - Len(q)) = i
    BY <1>1, <1>2, <1>3, <1>4
  <2>2. r[i] = new[i - Len(q)]
    BY <1>1, <1>2, <2>1
  <2> QED BY <1>1, <2>1, <2>2
<1>5. ASSUME k \notin Range(keys) PROVE Units(r, k, w) = Units(q, k, w)
  <2>1. \A i \in DOMAIN r : r[i].key = k => i \in DOMAIN q
    BY <1>4, <1>5 DEF Range
  <2> QED BY <1>2, <2>1 DEF Units
<1>6. /\ NewFire(k) \in Fire /\ IsFiniteSet(w[NewFire(k)])
      /\ Cardinality(w[NewFire(k)]) \in Nat
  <2>1. NewFire(k) \in Fire
    BY DEF NewFire, Fire
  <2>2. w[NewFire(k)] \in SUBSET (1 .. n) /\ IsFiniteSet(1 .. n)
    BY <2>1, FS_Interval DEF Weights
  <2> QED BY <2>1, <2>2, FS_Subset, FS_CardinalityType
<1>7. ASSUME k \in Range(keys)
      PROVE  Worth(r, k, w) <= Worth(q, k, w) + Cardinality(w[NewFire(k)])
  <2>1. PICK j \in DOMAIN keys : keys[j] = k
    BY <1>7 DEF Range
  <2>2. ASSUME NEW i \in DOMAIN keys, keys[i] = k PROVE i = j
    <3>1. keys[j] \in Nat
      BY <1>3, ElementOfSeq DEF Keys
    <3>2. ~(i < j) /\ ~(j < i)
      BY <2>1, <2>2, <3>1 DEF Rising
    <3> QED BY <1>3, <3>2
  <2> DEFINE T == {Len(q) + j} \X w[NewFire(k)]
  <2>3. Units(r, k, w) \subseteq Units(q, k, w) \union T
    <3> SUFFICES ASSUME NEW i \in DOMAIN r, NEW v \in Nat, r[i].key = k, v \in w[r[i]]
                 PROVE  <<i, v>> \in Units(q, k, w) \union T
      BY DEF Units
    <3>1. CASE i \in DOMAIN q
      BY <1>2, <3>1 DEF Units
    <3>2. CASE i \notin DOMAIN q
      <4>1. i - Len(q) = j /\ r[i] = NewFire(k)
        BY <1>4, <2>1, <2>2, <3>2
      <4>2. i = Len(q) + j
        BY <1>3, <4>1
      <4> QED BY <4>1, <4>2
    <3> QED BY <3>1, <3>2
  <2>4. IsFiniteSet(T) /\ Cardinality(T) = Cardinality(w[NewFire(k)])
    <3>1. IsFiniteSet({Len(q) + j}) /\ Cardinality({Len(q) + j}) = 1
      BY FS_Singleton
    <3>2. IsFiniteSet(T) /\ Cardinality(T) = 1 * Cardinality(w[NewFire(k)])
      BY <1>6, <3>1, FS_Product
    <3> QED BY <1>6, <3>2
  <2>5. IsFiniteSet(Units(q, k, w)) /\ Cardinality(Units(q, k, w)) \in Nat
    BY UnitsAreFinite DEF Worth
  <2> HIDE DEF T
  <2>6. /\ IsFiniteSet(Units(q, k, w) \union T)
        /\ Cardinality(Units(q, k, w) \union T) =
             Cardinality(Units(q, k, w)) + Cardinality(T) - Cardinality(Units(q, k, w) \intersect T)
    BY <2>4, <2>5, FS_Union
  <2>7. Cardinality(Units(q, k, w) \intersect T) \in Nat
    BY <2>5, FS_Intersection, FS_CardinalityType
  <2>8. Cardinality(Units(r, k, w)) <= Cardinality(Units(q, k, w) \union T)
    BY <2>3, <2>6, FS_Subset
  <2>9. Worth(r, k, w) \in Nat /\ Cardinality(Units(q, k, w) \union T) \in Nat
    BY <1>1, <2>6, UnitsAreFinite, FS_CardinalityType
  <2> QED BY <1>6, <2>4, <2>5, <2>6, <2>7, <2>8, <2>9 DEF Worth
<1> QED BY <1>5, <1>6, <1>7 DEF Worth, r, new

\* The three weights, and what a new firing has of each.
LEMMA TheWeights ==
  ASSUME NEW n \in Nat, n >= 1
  PROVE  /\ Present \in Weights(1) /\ Unmade \in Weights(1) /\ Chances(n) \in Weights(n)
         /\ \A k \in Keys : /\ Cardinality(Present[NewFire(k)]) = 1
                            /\ Cardinality(Unmade[NewFire(k)]) = 1
                            /\ Cardinality(Chances(n)[NewFire(k)]) = n
<1>1. Present \in Weights(1) /\ Unmade \in Weights(1)
  BY DEF Present, Unmade, Weights
<1>2. Chances(n) \in Weights(n)
  <2> SUFFICES ASSUME NEW f \in Fire PROVE f.attempts + 1 .. n \subseteq 1 .. n
    BY DEF Chances, Weights
  <2> QED BY DEF Fire
<1>3. ASSUME NEW k \in Keys
      PROVE  /\ Cardinality(Present[NewFire(k)]) = 1
             /\ Cardinality(Unmade[NewFire(k)]) = 1
             /\ Cardinality(Chances(n)[NewFire(k)]) = n
  <2>1. NewFire(k) \in Fire /\ NewFire(k).attempts = 0 /\ NewFire(k).item = FALSE
    BY DEF NewFire, Fire
  <2>2. /\ Present[NewFire(k)] = {1} /\ Unmade[NewFire(k)] = {1}
        /\ Chances(n)[NewFire(k)] = 1 .. n
    BY <2>1 DEF Present, Unmade, Chances
  <2>3. Cardinality(1 .. n) = n
    BY FS_Interval
  <2> QED BY <2>2, <2>3, FS_Singleton
<1> QED BY <1>1, <1>2, <1>3

\* Firings are worth at most a full round of chances, and one item, each.
LEMMA FullRound ==
  ASSUME NEW n \in Nat, n >= 1, NEW q \in Seq(Fire), NEW k
  PROVE  /\ Worth(q, k, Chances(n)) <= n * Worth(q, k, Present)
         /\ Worth(q, k, Unmade) <= Worth(q, k, Present)
<1> DEFINE P == {i \in DOMAIN q : q[i].key = k}
<1>1. /\ Present \in Weights(1) /\ Unmade \in Weights(1) /\ Chances(n) \in Weights(n)
  BY TheWeights
<1>2. Len(q) \in Nat /\ DOMAIN q = 1 .. Len(q) /\ \A i \in DOMAIN q : q[i] \in Fire
  BY LenProperties, ElementOfSeq
<1>3. IsFiniteSet(P) /\ Cardinality(P) \in Nat
  <2>1. IsFiniteSet(DOMAIN q) /\ P \subseteq DOMAIN q
    BY <1>2, FS_Interval
  <2>2. IsFiniteSet(P)
    BY <2>1, FS_Subset
  <2> QED BY <2>2, FS_CardinalityType
<1>4. Units(q, k, Present) = P \X {1}
  <2>1. \A i \in DOMAIN q : Present[q[i]] = {1}
    BY <1>2 DEF Present
  <2> QED BY <2>1 DEF Units
<1>5. IsFiniteSet({1}) /\ Cardinality({1}) = 1
  BY FS_Singleton
<1>6. Worth(q, k, Present) = Cardinality(P)
  <2>1. Cardinality(P \X {1}) = Cardinality(P) * 1
    BY <1>3, <1>5, FS_Product
  <2> QED BY <1>3, <1>4, <2>1 DEF Worth
<1>7. Units(q, k, Chances(n)) \subseteq P \X (1 .. n)
  <2>1. Units(q, k, Chances(n)) \subseteq (DOMAIN q) \X (1 .. n)
    BY <1>1, UnitsAreFinite
  <2>2. ASSUME NEW x \in Units(q, k, Chances(n)) PROVE x \in P \X (1 .. n)
    <3>1. PICK i \in DOMAIN q, v \in Nat : x = <<i, v>> /\ q[i].key = k
      BY DEF Units
    <3>2. v \in 1 .. n
      BY <2>1, <3>1
    <3> QED BY <3>1, <3>2
  <2> QED BY <2>2
<1>8. IsFiniteSet(1 .. n) /\ Cardinality(1 .. n) = n
  BY FS_Interval
<1> HIDE DEF P
<1>9. IsFiniteSet(P \X (1 .. n)) /\ Cardinality(P \X (1 .. n)) = Cardinality(P) * n
  BY <1>3, <1>8, FS_Product
<1>10. Worth(q, k, Chances(n)) <= Cardinality(P) * n
  BY <1>7, <1>9, FS_Subset DEF Worth
<1>11. Cardinality(P) * n = n * Cardinality(P)
  BY <1>3
<1>12. Units(q, k, Unmade) \subseteq Units(q, k, Present)
  <2>1. \A i \in DOMAIN q : Unmade[q[i]] \subseteq Present[q[i]]
    BY <1>2 DEF Present, Unmade
  <2> QED BY <2>1 DEF Units
<1>13. Worth(q, k, Unmade) <= Worth(q, k, Present)
  BY <1>1, <1>12, UnitsAreFinite, FS_Subset DEF Worth
<1> QED BY <1>6, <1>10, <1>11, <1>13

-----------------------------------------------------------------------------
(* Budget: what was spent on a key and what is left to spend.               *)

\* The attempts a firing may have, and how many firings pay for a key: each of
\* them once, and once more for each crash.
Rounds       == job.retryMax + 1
Allowance(k) == Times(k) * (1 + crashes)

\* The holder of the lock has counted an attempt that it has still to make.
Acting  == \E p \in Passes : lock = p /\ pc[p] = "act"
Owed(k) == IF Acting /\ Queue[1].key = k THEN 1 ELSE 0

\* The firings of a queue that have no attempt left.
Exhausted(q, n) == {i \in DOMAIN q : q[i].child = None /\ q[i].attempts >= n}

Numbers(f) == \A k \in DOMAIN f : f[k] \in Nat

\* What is still in the queue was fired, and everything spent is covered.
Covered(k) ==
  /\ Worth(disk.pending, k, Present) <= Times(k)
  /\ Worth(Queue, k, Present) <= Times(k)
  /\ Count(tries, k) + Worth(Queue, k, Chances(Rounds)) + Owed(k) <= Rounds * Allowance(k)
  /\ Count(created, k) + Worth(Queue, k, Unmade) <= Allowance(k)

Budget ==
  /\ Numbers(tries) /\ Numbers(created)
  /\ \A k \in Keys : Covered(k)
  /\ Exhausted(disk.pending, Rounds) = {}
  /\ Exhausted(Queue, Rounds) \subseteq {1}
  /\ ~Acting => Exhausted(Queue, Rounds) = {}

\* A history counts in numbers, and one more is one more of that key only.
LEMMA CountsAdd ==
  ASSUME NEW f, Numbers(f), NEW k
  PROVE  /\ Numbers(AddOne(f, k))
         /\ \A x : /\ Count(f, x) \in Nat
                   /\ Count(AddOne(f, k), x) = IF x = k THEN Count(f, x) + 1 ELSE Count(f, x)
<1>1. \A x : Count(f, x) \in Nat
  BY DEF Count, Numbers
<1>2. /\ DOMAIN AddOne(f, k) = DOMAIN f \union {k}
      /\ \A x \in DOMAIN f \union {k} :
           AddOne(f, k)[x] = Count(f, x) + (IF x = k THEN 1 ELSE 0)
  BY DEF AddOne
<1>3. \A x \in DOMAIN f \union {k} :
        AddOne(f, k)[x] = IF x = k THEN Count(f, x) + 1 ELSE Count(f, x)
  BY <1>1, <1>2
<1>4. Numbers(AddOne(f, k))
  BY <1>1, <1>2, <1>3 DEF Numbers
<1>5. ASSUME NEW x
      PROVE  Count(AddOne(f, k), x) = IF x = k THEN Count(f, x) + 1 ELSE Count(f, x)
  <2>1. CASE x \in DOMAIN f \union {k}
    BY <1>2, <1>3, <2>1 DEF Count
  <2>2. CASE x \notin DOMAIN f \union {k}
    BY <1>2, <2>2 DEF Count
  <2> QED BY <2>1, <2>2
<1> QED BY <1>1, <1>4, <1>5

\* The numbers of the budget are numbers.
LEMMA BudgetNumbers ==
  ASSUME IInv
  PROVE  /\ Rounds \in Nat /\ Rounds >= 1 /\ job.retryMax \in Nat /\ crashes \in Nat
         /\ disk.pending \in Seq(Fire) /\ Queue \in Seq(Fire)
         /\ \A k : /\ Times(k) \in Nat /\ Allowance(k) \in Nat
                   /\ Rounds * Allowance(k) \in Nat /\ Owed(k) \in {0, 1}
<1>1. Rounds \in Nat /\ Rounds >= 1 /\ job.retryMax \in Nat /\ crashes \in Nat
  BY JobsAssumption DEF IInv, TypeOK, Job, Rounds
<1>2. disk.pending \in Seq(Fire) /\ Queue \in Seq(Fire)
  BY DEF Queue, IInv, TypeOK, State, Procs
<1>3. ASSUME NEW k PROVE Times(k) \in Nat
  <2>1. Times(k) = Cardinality(Hits(fired, k)) /\ fired \in Seq(Keys)
    BY DEF Times, Hits, IInv, TypeOK
  <2>2. <<>> \in Seq(Keys) /\ Rising(<<>>)
    BY EmptySeq DEF Rising
  <2> QED BY <2>1, <2>2, HitsAfter
<1>4. ASSUME NEW k PROVE Allowance(k) \in Nat
  BY <1>1, <1>3, Products DEF Allowance
<1>5. ASSUME NEW k PROVE Rounds * Allowance(k) \in Nat
  BY <1>1, <1>4, Products
<1>6. \A k : Owed(k) \in {0, 1}
  BY DEF Owed
<1> QED BY <1>1, <1>2, <1>3, <1>4, <1>5, <1>6

\* The worth of a queue by the three weights is a number.
LEMMA WorthNumbers ==
  ASSUME NEW n \in Nat, n >= 1, NEW q \in Seq(Fire), NEW k
  PROVE  /\ Worth(q, k, Present) \in Nat /\ Worth(q, k, Chances(n)) \in Nat
         /\ Worth(q, k, Unmade) \in Nat
<1>1. /\ Present \in Weights(1) /\ Unmade \in Weights(1) /\ Chances(n) \in Weights(n)
  BY TheWeights
<1>2. Worth(q, k, Chances(n)) \in Nat
  BY <1>1, UnitsAreFinite
<1>3. Worth(q, k, Present) \in Nat /\ Worth(q, k, Unmade) \in Nat
  BY <1>1, UnitsAreFinite
<1> QED BY <1>2, <1>3

\* A head that is replaced, taken off, or followed by new firings, and the
\* firings that have no attempt left.
LEMMA ExhaustedAfter ==
  ASSUME NEW n \in Nat, n >= 1, NEW q \in Seq(Fire), Exhausted(q, n) \subseteq {1}
  PROVE  /\ q # <<>> => Exhausted(Tail(q), n) = {}
         /\ q # <<>> => \A f \in Fire :
              /\ Exhausted([q EXCEPT ![1] = f], n) \subseteq {1}
              /\ f.child # None \/ f.attempts < n => Exhausted([q EXCEPT ![1] = f], n) = {}
         /\ \A keys \in Seq(Keys) : Exhausted(q, n) = {} =>
              Exhausted(q \o [i \in DOMAIN keys |-> NewFire(keys[i])], n) = {}
<1>1. Len(q) \in Nat /\ DOMAIN q = 1 .. Len(q)
  BY LenProperties
<1>2. ASSUME q # <<>> PROVE Exhausted(Tail(q), n) = {}
  <2>1. /\ Len(Tail(q)) = Len(q) - 1 /\ Tail(q) \in Seq(Fire)
        /\ \A i \in 1 .. Len(Tail(q)) : Tail(q)[i] = q[i + 1]
    BY <1>2, HeadTailProperties
  <2>2. DOMAIN Tail(q) = 1 .. Len(Tail(q)) /\ Len(Tail(q)) \in Nat
    BY <2>1, LenProperties
  <2>3. \A i \in DOMAIN Tail(q) : i + 1 \in DOMAIN q /\ i + 1 # 1 /\ Tail(q)[i] = q[i + 1]
    BY <1>1, <2>1, <2>2
  <2> QED BY <2>3 DEF Exhausted
<1>3. ASSUME q # <<>>, NEW f \in Fire
      PROVE  /\ Exhausted([q EXCEPT ![1] = f], n) \subseteq {1}
             /\ f.child # None \/ f.attempts < n => Exhausted([q EXCEPT ![1] = f], n) = {}
  <2> DEFINE r == [q EXCEPT ![1] = f]
  <2>1. 1 \in DOMAIN q /\ f.attempts \in Nat
    BY <1>1, <1>3, EmptySeq DEF Fire
  <2>2. DOMAIN r = DOMAIN q /\ r[1] = f /\ \A i \in DOMAIN q : i # 1 => r[i] = q[i]
    BY <2>1
  <2> HIDE DEF r
  <2>3. Exhausted(r, n) \subseteq {1}
    BY <2>2 DEF Exhausted
  <2>4. f.child # None \/ f.attempts < n => 1 \notin Exhausted(r, n)
    BY <2>1, <2>2 DEF Exhausted
  <2> QED BY <2>3, <2>4 DEF r
<1>4. ASSUME NEW keys \in Seq(Keys), Exhausted(q, n) = {}
      PROVE  Exhausted(q \o [i \in DOMAIN keys |-> NewFire(keys[i])], n) = {}
  <2> DEFINE new == [i \in DOMAIN keys |-> NewFire(keys[i])]
             r   == q \o new
  <2>1. new \in Seq(Fire) /\ DOMAIN new = DOMAIN keys
    BY AppendAscends
  <2>2. \A i \in DOMAIN new : new[i].attempts = 0
    BY DEF NewFire
  <2> HIDE DEF new
  <2>3. /\ \A i \in DOMAIN q : i \in DOMAIN r /\ r[i] = q[i]
        /\ \A i \in DOMAIN new : r[Len(q) + i] = new[i]
        /\ \A i \in DOMAIN r : \/ i \in DOMAIN q
                               \/ i \notin DOMAIN q /\ i - Len(q) \in DOMAIN new
        /\ r \in Seq(Fire)
    BY <2>1, ConcatElements
  <2>4. DOMAIN r = 1 .. Len(r) /\ Len(r) \in Nat
    BY <2>3, LenProperties
  <2> HIDE DEF r
  <2>5. ASSUME NEW i \in DOMAIN r, i \notin DOMAIN q PROVE r[i].attempts = 0
    <3>1. i - Len(q) \in DOMAIN new /\ Len(q) + (i - Len(q)) = i
      BY <1>1, <2>3, <2>4, <2>5
    <3> QED BY <2>2, <2>3, <3>1
  <2>6. \A i \in DOMAIN r : i \notin Exhausted(r, n)
    <3> SUFFICES ASSUME NEW i \in DOMAIN r, i \in Exhausted(r, n) PROVE FALSE
      OBVIOUS
    <3>1. CASE i \in DOMAIN q
      BY <1>4, <2>3, <3>1 DEF Exhausted
    <3>2. CASE i \notin DOMAIN q
      BY <2>5, <3>2 DEF Exhausted
    <3> QED BY <3>1, <3>2
  <2> QED BY <2>6 DEF Exhausted, r, new
<1> QED BY <1>2, <1>3, <1>4

\* A step of the lock's holder that makes the queue worth no more than it spends.
LEMMA HolderKeepsBudget ==
  ASSUME IInv, Budget, NEW p \in Passes, lock = p, NEW r \in Seq(Fire), Queue' = r,
         UNCHANGED <<job, disk, lock, fired, crashes>>,
         Numbers(tries'), Numbers(created'),
         \A k \in Keys :
           /\ Worth(r, k, Present) <= Worth(Queue, k, Present)
           /\ Count(tries', k) + Worth(r, k, Chances(Rounds)) + Owed(k)'
                <= Count(tries, k) + Worth(Queue, k, Chances(Rounds)) + Owed(k)
           /\ Count(created', k) + Worth(r, k, Unmade)
                <= Count(created, k) + Worth(Queue, k, Unmade),
         Exhausted(r, Rounds) \subseteq {1},
         ~Acting' => Exhausted(r, Rounds) = {}
  PROVE  Budget'
<1>1. /\ Rounds' = Rounds /\ \A k : Times(k)' = Times(k) /\ Allowance(k)' = Allowance(k)
  BY DEF Rounds, Times, Allowance
<1>2. /\ Rounds \in Nat /\ Rounds >= 1 /\ Queue \in Seq(Fire)
      /\ \A k : Times(k) \in Nat /\ Allowance(k) \in Nat /\ Rounds * Allowance(k) \in Nat
      /\ \A k : Owed(k) \in {0, 1}
  BY BudgetNumbers
<1>3. ASSUME NEW k \in Keys PROVE Covered(k)'
  <2>1. Covered(k)
    BY DEF Budget
  <2>2. /\ Worth(r, k, Present) \in Nat /\ Worth(r, k, Chances(Rounds)) \in Nat
        /\ Worth(r, k, Unmade) \in Nat
    BY <1>2, WorthNumbers
  <2>3. /\ Worth(Queue, k, Present) \in Nat /\ Worth(Queue, k, Chances(Rounds)) \in Nat
        /\ Worth(Queue, k, Unmade) \in Nat
    BY <1>2, WorthNumbers
  <2>4. /\ Count(tries, k) \in Nat /\ Count(created, k) \in Nat
        /\ Count(tries', k) \in Nat /\ Count(created', k) \in Nat
    BY CountsAdd DEF Budget
  <2>5. Owed(k)' \in {0, 1}
    BY DEF Owed
  <2>6. Worth(r, k, Present) <= Times(k)
    BY <1>2, <2>1, <2>2, <2>3 DEF Covered
  <2>7. Count(tries', k) + Worth(r, k, Chances(Rounds)) + Owed(k)' <= Rounds * Allowance(k)
    <3>1. \A a, b \in Int : \A m \in Nat : a <= b /\ b <= m => a <= m
      OBVIOUS
    <3>2. /\ Count(tries', k) + Worth(r, k, Chances(Rounds)) + Owed(k)' \in Int
          /\ Count(tries, k) + Worth(Queue, k, Chances(Rounds)) + Owed(k) \in Int
      <4>1. /\ Count(tries', k) \in Int /\ Worth(r, k, Chances(Rounds)) \in Int
            /\ Owed(k)' \in Int
        BY <2>2, <2>4, <2>5
      <4>2. /\ Count(tries, k) \in Int /\ Worth(Queue, k, Chances(Rounds)) \in Int
            /\ Owed(k) \in Int
        BY <1>2, <2>3, <2>4
      <4>3. \A a, b, c \in Int : a + b + c \in Int
        OBVIOUS
      <4> QED BY <4>1, <4>2, <4>3
    <3>3. Count(tries, k) + Worth(Queue, k, Chances(Rounds)) + Owed(k) <= Rounds * Allowance(k)
      BY <2>1 DEF Covered
    <3> QED BY <1>2, <3>1, <3>2, <3>3
  <2>8. Count(created', k) + Worth(r, k, Unmade) <= Allowance(k)
    <3>1. Count(created, k) + Worth(Queue, k, Unmade) <= Allowance(k)
      BY <2>1 DEF Covered
    <3>2. /\ Allowance(k) \in Nat
          /\ Count(created', k) + Worth(r, k, Unmade)
               <= Count(created, k) + Worth(Queue, k, Unmade)
      BY <1>2
    <3> QED BY <2>2, <2>3, <2>4, <3>1, <3>2
  <2>9. Worth(disk.pending, k, Present)' <= Times(k)
    BY <2>1 DEF Covered
  <2> QED BY <1>1, <2>6, <2>7, <2>8, <2>9 DEF Covered
<1>4. Exhausted(disk.pending, Rounds)' = {}
  BY <1>1 DEF Budget
<1> QED BY <1>1, <1>3, <1>4 DEF Budget

\* The head becomes another firing of its key that is worth as much.
LEMMA SameWorth ==
  ASSUME NEW n \in Nat, n >= 1, NEW q \in Seq(Fire), q # <<>>, NEW f \in Fire,
         f.key = q[1].key, f.attempts = q[1].attempts, f.item = q[1].item, NEW k
  PROVE  LET r == [q EXCEPT ![1] = f]
         IN /\ Worth(r, k, Present) = Worth(q, k, Present)
            /\ Worth(r, k, Chances(n)) = Worth(q, k, Chances(n))
            /\ Worth(r, k, Unmade) = Worth(q, k, Unmade)
<1>1. q[1] \in Fire
  BY HeadOfQueue
<1>2. /\ Present[f] = Present[q[1]] /\ Chances(n)[f] = Chances(n)[q[1]]
      /\ Unmade[f] = Unmade[q[1]]
  BY <1>1 DEF Present, Chances, Unmade
<1>3. Present \in Weights(1) /\ Unmade \in Weights(1) /\ Chances(n) \in Weights(n)
  BY TheWeights
<1>4. Worth([q EXCEPT ![1] = f], k, Chances(n)) = Worth(q, k, Chances(n))
  BY <1>2, <1>3, ReplacedWorth
<1>5. /\ Worth([q EXCEPT ![1] = f], k, Present) = Worth(q, k, Present)
      /\ Worth([q EXCEPT ![1] = f], k, Unmade) = Worth(q, k, Unmade)
  BY <1>2, <1>3, ReplacedWorth
<1> QED BY <1>4, <1>5

\* An attempt that is over, well or badly, was paid for when it was counted.
LEMMA FinishKeepsBudget ==
  ASSUME IInv, Budget, NEW p \in Passes, lock = p, mem[p].pending # <<>>,
         NEW f \in Fire, f.key = First(p).key, f.attempts = First(p).attempts,
         f.item = First(p).item, f.attempts >= 1,
         NEW ok \in BOOLEAN, Finish(p, f, ok),
         UNCHANGED <<job, now, disk, lock, fired, crashes, created>>,
         \/ tries' = tries
         \/ tries' = AddOne(tries, First(p).key) /\ pc[p] = "act"
  PROVE  Budget'
<1> DEFINE q == mem[p].pending
<1>1. /\ Queue = q /\ p \in Procs /\ mem \in [Procs -> State] /\ mem[p] \in State
      /\ q \in Seq(Fire) /\ First(p) = q[1] /\ pc \in [Procs -> Labels]
  BY HolderQueue DEF First, IInv, TypeOK
<1>2. /\ Rounds \in Nat /\ Rounds >= 1 /\ job.retryMax \in Nat
  BY BudgetNumbers
<1>3. ~Acting'
  BY <1>1 DEF Finish, Succeed, Retry, GiveUp, At, Acting
<1>4. Numbers(tries') /\ Numbers(created')
  BY CountsAdd DEF Budget
<1>5. ASSUME NEW k
      PROVE  /\ Owed(k)' = 0 /\ Owed(k) \in {0, 1}
             /\ Count(tries, k) \in Nat /\ Count(tries', k) \in Nat
             /\ Count(tries', k) <= Count(tries, k) + Owed(k)
             /\ Count(created, k) \in Nat
  <2>1. Owed(k)' = 0 /\ Owed(k) \in {0, 1}
    BY <1>3 DEF Owed
  <2>2. /\ Count(tries, k) \in Nat /\ Count(tries', k) \in Nat /\ Count(created, k) \in Nat
    BY <1>4, CountsAdd DEF Budget
  <2>3. CASE tries' = tries
    BY <2>1, <2>2, <2>3
  <2>4. CASE tries' = AddOne(tries, First(p).key) /\ pc[p] = "act"
    <3>1. k = First(p).key => Owed(k) = 1
      BY <1>1, <2>4 DEF Owed, Acting
    <3>2. Count(tries', k) = IF k = First(p).key THEN Count(tries, k) + 1 ELSE Count(tries, k)
      BY <2>4, CountsAdd DEF Budget
    <3> QED BY <2>1, <2>2, <3>1, <3>2
  <2> QED BY <2>1, <2>2, <2>3, <2>4
<1>6. ASSUME NEW r \in Seq(Fire), Queue' = r, Exhausted(r, Rounds) = {},
             \A k \in Keys :
               /\ Worth(r, k, Present) <= Worth(q, k, Present)
               /\ Worth(r, k, Chances(Rounds)) <= Worth(q, k, Chances(Rounds))
               /\ Worth(r, k, Unmade) <= Worth(q, k, Unmade)
      PROVE  Budget'
  <2>1. ASSUME NEW k \in Keys
        PROVE  /\ Count(tries', k) + Worth(r, k, Chances(Rounds)) + Owed(k)'
                    <= Count(tries, k) + Worth(Queue, k, Chances(Rounds)) + Owed(k)
               /\ Count(created', k) + Worth(r, k, Unmade)
                    <= Count(created, k) + Worth(Queue, k, Unmade)
    <3>1. Worth(r, k, Chances(Rounds)) \in Nat /\ Worth(r, k, Unmade) \in Nat
      BY <1>2, WorthNumbers
    <3>2. Worth(q, k, Chances(Rounds)) \in Nat /\ Worth(q, k, Unmade) \in Nat
      BY <1>1, <1>2, WorthNumbers
    <3>3. /\ Worth(r, k, Chances(Rounds)) <= Worth(q, k, Chances(Rounds))
          /\ Worth(r, k, Unmade) <= Worth(q, k, Unmade)
      BY <1>6
    <3>4. /\ Owed(k)' = 0 /\ Owed(k) \in {0, 1}
          /\ Count(tries, k) \in Nat /\ Count(tries', k) \in Nat
          /\ Count(tries', k) <= Count(tries, k) + Owed(k)
          /\ Count(created, k) \in Nat /\ created' = created /\ Queue = q
      BY <1>1, <1>5
    <3> HIDE DEF q
    <3> QED BY <3>1, <3>2, <3>3, <3>4
  <2> QED BY <1>1, <1>4, <1>6, <2>1, HolderKeepsBudget
<1>7. CASE Retry(p, f)
  <2> DEFINE g == [f EXCEPT !.retryAt = now + Backoff * 2 ^ (f.attempts - 1)]
  <2>1. now + Backoff * 2 ^ (f.attempts - 1) \in Nat
    <3>1. now \in Nat /\ job \in JobFiles /\ job.retryMax \in Nat
      BY JobsAssumption DEF IInv, TypeOK, Time, Job
    <3>2. f.attempts - 1 \in 0 .. job.retryMax
      BY <1>7, <3>1 DEF Retry, Fire
    <3>3. 2 ^ (f.attempts - 1) \in Nat
      BY <3>1, <3>2, DoublingAssumption
    <3>4. Backoff * 2 ^ (f.attempts - 1) \in Nat
      BY <3>3, Products, JobsAssumption
    <3> QED BY <3>1, <3>4
  <2>2. /\ g \in Fire /\ g.key = q[1].key /\ g.attempts = q[1].attempts /\ g.item = q[1].item
        /\ g.attempts < Rounds
    <3>1. f.attempts \in Nat /\ f.attempts <= job.retryMax
      BY <1>7 DEF Fire, Retry
    <3>2. f.attempts < Rounds
      BY <1>2, <3>1 DEF Rounds
    <3> QED BY <1>1, <2>1, <3>2 DEF Fire
  <2>3. Work(p, g)
    BY <1>7 DEF Retry
  <2> HIDE DEF g
  <2>4. Queue' = [q EXCEPT ![1] = g]
    BY <1>1, <2>3 DEF Work, Queue, State
  <2>5. [q EXCEPT ![1] = g] \in Seq(Fire)
    BY <1>1, <2>2, ReplaceAscends
  <2>6. Exhausted([q EXCEPT ![1] = g], Rounds) = {}
    BY <1>1, <1>2, <2>2, ExhaustedAfter DEF Budget
  <2>7. ASSUME NEW k \in Keys
        PROVE  /\ Worth([q EXCEPT ![1] = g], k, Present) <= Worth(q, k, Present)
               /\ Worth([q EXCEPT ![1] = g], k, Chances(Rounds)) <= Worth(q, k, Chances(Rounds))
               /\ Worth([q EXCEPT ![1] = g], k, Unmade) <= Worth(q, k, Unmade)
    <3>1. /\ Worth([q EXCEPT ![1] = g], k, Present) = Worth(q, k, Present)
          /\ Worth([q EXCEPT ![1] = g], k, Chances(Rounds)) = Worth(q, k, Chances(Rounds))
          /\ Worth([q EXCEPT ![1] = g], k, Unmade) = Worth(q, k, Unmade)
      BY <1>1, <1>2, <2>2, SameWorth
    <3>2. /\ Worth(q, k, Present) \in Nat /\ Worth(q, k, Chances(Rounds)) \in Nat
          /\ Worth(q, k, Unmade) \in Nat
      BY <1>1, <1>2, WorthNumbers
    <3> QED BY <3>1, <3>2
  <2> QED BY <1>6, <2>4, <2>5, <2>6, <2>7
<1>8. CASE Popped(p, f)
  <2>1. Queue' = Tail(q)
    BY <1>1, <1>8 DEF Popped, Queue, State
  <2>2. Tail(q) \in Seq(Fire)
    BY <1>1, TailAscends
  <2>3. Exhausted(Tail(q), Rounds) = {}
    BY <1>1, <1>2, ExhaustedAfter DEF Budget
  <2>4. /\ Present \in Weights(1) /\ Unmade \in Weights(1) /\ Chances(Rounds) \in Weights(Rounds)
    BY <1>2, TheWeights
  <2>5. ASSUME NEW k \in Keys
        PROVE  /\ Worth(Tail(q), k, Present) <= Worth(q, k, Present)
               /\ Worth(Tail(q), k, Chances(Rounds)) <= Worth(q, k, Chances(Rounds))
               /\ Worth(Tail(q), k, Unmade) <= Worth(q, k, Unmade)
    <3>1. Worth(Tail(q), k, Chances(Rounds)) <= Worth(q, k, Chances(Rounds))
      BY <1>1, <1>2, <2>4, TailWorth
    <3>2. /\ Worth(Tail(q), k, Present) <= Worth(q, k, Present)
          /\ Worth(Tail(q), k, Unmade) <= Worth(q, k, Unmade)
      BY <1>1, <2>4, TailWorth
    <3> QED BY <3>1, <3>2
  <2> QED BY <1>6, <2>1, <2>2, <2>3, <2>5
<1> QED BY <1>7, <1>8 DEF Finish, Succeed, GiveUp

\* A step that spends nothing and leaves the queue in force as it is.
LEMMA SameBudget ==
  ASSUME IInv, Budget, UNCHANGED <<job, fired, crashes, tries, created>>, Queue' = Queue,
         disk'.pending = disk.pending \/ (disk'.pending = Queue /\ ~Acting),
         Acting' <=> Acting
  PROVE  Budget'
<1>1. /\ Rounds' = Rounds
      /\ \A k : Times(k)' = Times(k) /\ Allowance(k)' = Allowance(k) /\ Owed(k)' = Owed(k)
  BY DEF Rounds, Times, Allowance, Owed
<1>2. ASSUME NEW k \in Keys PROVE Covered(k)'
  BY <1>1 DEF Budget, Covered
<1>3. Numbers(tries)' /\ Numbers(created)'
  BY DEF Budget
<1>4. /\ Exhausted(disk.pending, Rounds)' = {} /\ Exhausted(Queue, Rounds)' \subseteq {1}
      /\ ~Acting' => Exhausted(Queue, Rounds)' = {}
  BY <1>1 DEF Budget
<1> QED BY <1>2, <1>3, <1>4 DEF Budget

\* An attempt that is counted uses one chance and is owed.
LEMMA AttemptKeepsBudget ==
  ASSUME IInv, Budget, NEW p \in Passes, lock = p, Attempt(p)
  PROVE  Budget'
<1> DEFINE q == mem[p].pending
           f == [First(p) EXCEPT !.attempts = @ + 1]
           r == [q EXCEPT ![1] = f]
<1>1. /\ Queue = q /\ p \in Procs /\ mem \in [Procs -> State] /\ mem[p] \in State
      /\ q \in Seq(Fire) /\ First(p) = q[1] /\ pc \in [Procs -> Labels]
  BY HolderQueue DEF First, IInv, TypeOK
<1>2. /\ q # <<>> /\ First(p).child = None /\ pc[p] = "drain" /\ Work(p, f) /\ At(p, "act")
      /\ UNCHANGED <<job, disk, lock, fired, crashes, tries, created>>
  BY DEF Attempt, CanAttempt, ghost, faults
<1>3. Rounds \in Nat /\ Rounds >= 1 /\ 1 \in DOMAIN q /\ q[1] \in Fire /\ q[1].attempts \in Nat
  BY <1>1, <1>2, BudgetNumbers, HeadOfQueue
<1>4. q[1].attempts < Rounds
  <2>1. ~Acting
    BY <1>1, <1>2 DEF Acting
  <2>2. 1 \notin Exhausted(q, Rounds)
    BY <1>1, <2>1 DEF Budget
  <2> QED BY <1>1, <1>2, <1>3, <2>2 DEF Exhausted
<1>5. /\ f \in Fire /\ f.key = q[1].key /\ f.attempts = q[1].attempts + 1 /\ f.item = q[1].item
  <2>1. First(p) \in Fire /\ First(p).attempts + 1 \in Nat
    BY <1>1, <1>3
  <2>2. f \in Fire
    BY <2>1 DEF Fire
  <2>3. f.key = First(p).key /\ f.attempts = First(p).attempts + 1 /\ f.item = First(p).item
    BY <2>1 DEF Fire
  <2> QED BY <1>1, <2>2, <2>3
<1>6. Queue' = r
  BY <1>1, <1>2 DEF Work, Queue, State
<1> HIDE DEF f
<1>7. r \in Seq(Fire) /\ r[1] = f
  BY <1>1, <1>2, <1>5, ReplaceHead
<1>8. /\ Present[f] = Present[q[1]] /\ Unmade[f] = Unmade[q[1]]
      /\ q[1].attempts + 1 \in Chances(Rounds)[q[1]]
      /\ Chances(Rounds)[f] = Chances(Rounds)[q[1]] \ {q[1].attempts + 1}
  <2>1. Present[f] = Present[q[1]] /\ Unmade[f] = Unmade[q[1]]
    BY <1>3, <1>5 DEF Present, Unmade
  <2>2. /\ Chances(Rounds)[q[1]] = q[1].attempts + 1 .. Rounds
        /\ Chances(Rounds)[f] = q[1].attempts + 1 + 1 .. Rounds
    BY <1>3, <1>5 DEF Chances
  <2> QED BY <1>3, <1>4, <2>1, <2>2
<1>9. Present \in Weights(1) /\ Unmade \in Weights(1) /\ Chances(Rounds) \in Weights(Rounds)
  BY <1>3, TheWeights
<1>10. Acting' /\ ~Acting
  BY <1>1, <1>2 DEF Acting, At
<1>11. ASSUME NEW k \in Keys
       PROVE  /\ Worth(r, k, Present) <= Worth(Queue, k, Present)
              /\ Count(tries', k) + Worth(r, k, Chances(Rounds)) + Owed(k)'
                   <= Count(tries, k) + Worth(Queue, k, Chances(Rounds)) + Owed(k)
              /\ Count(created', k) + Worth(r, k, Unmade)
                   <= Count(created, k) + Worth(Queue, k, Unmade)
  <2>1. /\ Worth(r, k, Present) = Worth(q, k, Present) /\ Worth(r, k, Unmade) = Worth(q, k, Unmade)
    BY <1>1, <1>2, <1>5, <1>8, <1>9, ReplacedWorth
  <2>2. /\ Worth(q, k, Present) \in Nat /\ Worth(q, k, Chances(Rounds)) \in Nat
        /\ Worth(q, k, Unmade) \in Nat
    BY <1>1, <1>3, WorthNumbers
  <2>3. /\ Worth(r, k, Chances(Rounds)) \in Nat
    BY <1>3, <1>7, WorthNumbers
  <2>4. Count(tries, k) \in Nat /\ Count(created, k) \in Nat
    BY CountsAdd DEF Budget
  <2>5. Owed(k) = 0 /\ Owed(k)' = IF q[1].key = k THEN 1 ELSE 0
    BY <1>5, <1>6, <1>7, <1>10 DEF Owed
  <2>6. Worth(r, k, Chances(Rounds)) + Owed(k)' = Worth(q, k, Chances(Rounds)) + Owed(k)
    <3>1. CASE q[1].key = k
      <4>1. Worth(r, k, Chances(Rounds)) + 1 = Worth(q, k, Chances(Rounds))
        BY <1>1, <1>2, <1>3, <1>5, <1>8, <1>9, <3>1, ReplacedWorth
      <4> QED BY <2>2, <2>3, <2>5, <3>1, <4>1
    <3>2. CASE q[1].key # k
      <4>1. Worth(r, k, Chances(Rounds)) = Worth(q, k, Chances(Rounds))
        BY <1>1, <1>2, <1>3, <1>5, <1>9, <3>2, ReplacedWorth
      <4> QED BY <2>2, <2>3, <2>5, <3>2, <4>1
    <3> QED BY <3>1, <3>2
  <2>7. Count(tries', k) = Count(tries, k) /\ Count(created', k) = Count(created, k) /\ Queue = q
    BY <1>1, <1>2
  <2>8. Owed(k)' \in Nat /\ Owed(k) \in Nat
    BY <2>5
  <2> HIDE DEF q, r
  <2> QED BY <2>1, <2>2, <2>3, <2>4, <2>6, <2>7, <2>8
<1>12. Exhausted(r, Rounds) \subseteq {1}
  BY <1>1, <1>2, <1>3, <1>5, ExhaustedAfter DEF Budget
<1>13. Numbers(tries') /\ Numbers(created')
  BY <1>2 DEF Budget
<1> HIDE DEF r
<1> QED BY <1>2, <1>6, <1>7, <1>10, <1>11, <1>12, <1>13, HolderKeepsBudget

\* The item that is made was to be made.
LEMMA MakingKeepsBudget ==
  ASSUME IInv, Budget, NEW p \in Passes, lock = p, mem[p].pending # <<>>, ~First(p).item,
         created' = AddOne(created, First(p).key), Work(p, [First(p) EXCEPT !.item = TRUE]),
         UNCHANGED <<job, disk, lock, pc, fired, crashes, tries>>
  PROVE  Budget'
<1> DEFINE q == mem[p].pending
           f == [First(p) EXCEPT !.item = TRUE]
           r == [q EXCEPT ![1] = f]
<1>1. /\ Queue = q /\ p \in Procs /\ mem \in [Procs -> State] /\ mem[p] \in State
      /\ q \in Seq(Fire) /\ First(p) = q[1]
  BY HolderQueue DEF First, IInv, TypeOK
<1>2. Rounds \in Nat /\ Rounds >= 1 /\ 1 \in DOMAIN q /\ q[1] \in Fire
  BY <1>1, BudgetNumbers, HeadOfQueue
<1>3. /\ f \in Fire /\ f.key = q[1].key /\ f.attempts = q[1].attempts /\ f.child = q[1].child
      /\ f.item = TRUE
  BY <1>1, <1>2 DEF Fire
<1>4. Queue' = r
  BY <1>1 DEF Work, Queue, State
<1> HIDE DEF f
<1>5. r \in Seq(Fire) /\ r[1] = f
  BY <1>1, <1>3, ReplaceHead
<1>6. /\ Present[f] = Present[q[1]] /\ Chances(Rounds)[f] = Chances(Rounds)[q[1]]
      /\ 1 \in Unmade[q[1]] /\ Unmade[f] = Unmade[q[1]] \ {1}
  <2>1. Unmade[f] = {} /\ Unmade[q[1]] = {1}
    BY <1>1, <1>2, <1>3 DEF Unmade
  <2> QED BY <1>2, <1>3, <2>1 DEF Present, Chances
<1>7. Present \in Weights(1) /\ Unmade \in Weights(1) /\ Chances(Rounds) \in Weights(Rounds)
  BY <1>2, TheWeights
<1>8. Acting' <=> Acting
  BY DEF Acting
<1>9. ASSUME NEW k \in Keys
      PROVE  /\ Worth(r, k, Present) <= Worth(Queue, k, Present)
             /\ Count(tries', k) + Worth(r, k, Chances(Rounds)) + Owed(k)'
                  <= Count(tries, k) + Worth(Queue, k, Chances(Rounds)) + Owed(k)
             /\ Count(created', k) + Worth(r, k, Unmade)
                  <= Count(created, k) + Worth(Queue, k, Unmade)
  <2>1. Worth(r, k, Chances(Rounds)) = Worth(q, k, Chances(Rounds))
    BY <1>1, <1>2, <1>3, <1>6, <1>7, ReplacedWorth
  <2>2. Worth(r, k, Present) = Worth(q, k, Present)
    BY <1>1, <1>3, <1>6, <1>7, ReplacedWorth
  <2>3. /\ Worth(q, k, Present) \in Nat /\ Worth(q, k, Chances(Rounds)) \in Nat
        /\ Worth(q, k, Unmade) \in Nat
    BY <1>1, <1>2, WorthNumbers
  <2>4. /\ Worth(r, k, Unmade) \in Nat
    BY <1>2, <1>5, WorthNumbers
  <2>5. /\ Count(tries, k) \in Nat /\ Count(created, k) \in Nat
        /\ Count(created', k) = IF k = q[1].key THEN Count(created, k) + 1 ELSE Count(created, k)
    BY <1>1, CountsAdd DEF Budget
  <2>6. Owed(k)' = Owed(k) /\ Owed(k) \in Nat
    BY <1>1, <1>3, <1>4, <1>5, <1>8 DEF Owed
  <2>7. Count(created', k) + Worth(r, k, Unmade) = Count(created, k) + Worth(q, k, Unmade)
    <3>1. CASE q[1].key = k
      <4>1. Worth(r, k, Unmade) + 1 = Worth(q, k, Unmade)
        BY <1>1, <1>3, <1>6, <1>7, <3>1, ReplacedWorth
      <4> QED BY <2>3, <2>4, <2>5, <3>1, <4>1
    <3>2. CASE q[1].key # k
      <4>1. Worth(r, k, Unmade) = Worth(q, k, Unmade)
        BY <1>1, <1>3, <1>7, <3>2, ReplacedWorth
      <4> QED BY <2>3, <2>4, <2>5, <3>2, <4>1
    <3> QED BY <3>1, <3>2
  <2>8. Count(tries', k) = Count(tries, k) /\ Queue = q
    BY <1>1
  <2>9. Count(created, k) + Worth(q, k, Unmade) \in Nat
    BY <2>3, <2>5
  <2> HIDE DEF q, r
  <2> QED BY <2>1, <2>2, <2>3, <2>5, <2>6, <2>7, <2>8, <2>9
<1>10. /\ Exhausted(r, Rounds) \subseteq {1}
       /\ ~Acting' => Exhausted(r, Rounds) = {}
  <2>1. Exhausted(r, Rounds) \subseteq {1}
    BY <1>1, <1>2, <1>3, ExhaustedAfter DEF Budget
  <2>2. 1 \in Exhausted(r, Rounds) => 1 \in Exhausted(q, Rounds)
    BY <1>2, <1>3, <1>5 DEF Exhausted
  <2>3. ~Acting => 1 \notin Exhausted(q, Rounds)
    BY <1>1 DEF Budget
  <2> QED BY <1>8, <2>1, <2>2, <2>3
<1>11. Numbers(tries') /\ Numbers(created')
  BY CountsAdd DEF Budget
<1> HIDE DEF r
<1> QED BY <1>4, <1>5, <1>9, <1>10, <1>11, HolderKeepsBudget

\* The attempt that is made by starting a runner was owed.
LEMMA StartingKeepsBudget ==
  ASSUME IInv, Budget, NEW p \in Passes, lock = p, mem[p].pending # <<>>, pc[p] = "act",
         NEW c \in Children, tries' = AddOne(tries, First(p).key),
         Work(p, [First(p) EXCEPT !.child = c]), At(p, "write"),
         UNCHANGED <<job, disk, lock, fired, crashes, created>>
  PROVE  Budget'
<1> DEFINE q == mem[p].pending
           f == [First(p) EXCEPT !.child = c]
           r == [q EXCEPT ![1] = f]
<1>1. /\ Queue = q /\ p \in Procs /\ mem \in [Procs -> State] /\ mem[p] \in State
      /\ q \in Seq(Fire) /\ First(p) = q[1] /\ pc \in [Procs -> Labels]
  BY HolderQueue DEF First, IInv, TypeOK
<1>2. Rounds \in Nat /\ Rounds >= 1 /\ 1 \in DOMAIN q /\ q[1] \in Fire /\ c # None
  BY <1>1, BudgetNumbers, HeadOfQueue, JobsAssumption
<1>3. /\ f \in Fire /\ f.key = q[1].key /\ f.attempts = q[1].attempts /\ f.item = q[1].item
      /\ f.child # None
  BY <1>1, <1>2 DEF Fire
<1>4. Queue' = r
  BY <1>1 DEF Work, Queue, State
<1> HIDE DEF f
<1>5. r \in Seq(Fire)
  BY <1>1, <1>3, ReplaceHead
<1>6. ~Acting' /\ Acting
  BY <1>1 DEF Acting, At
<1>7. ASSUME NEW k \in Keys
      PROVE  /\ Worth(r, k, Present) <= Worth(Queue, k, Present)
             /\ Count(tries', k) + Worth(r, k, Chances(Rounds)) + Owed(k)'
                  <= Count(tries, k) + Worth(Queue, k, Chances(Rounds)) + Owed(k)
             /\ Count(created', k) + Worth(r, k, Unmade)
                  <= Count(created, k) + Worth(Queue, k, Unmade)
  <2>1. /\ Worth(r, k, Present) = Worth(q, k, Present)
        /\ Worth(r, k, Chances(Rounds)) = Worth(q, k, Chances(Rounds))
        /\ Worth(r, k, Unmade) = Worth(q, k, Unmade)
    BY <1>1, <1>2, <1>3, SameWorth
  <2>2. /\ Worth(q, k, Present) \in Nat /\ Worth(q, k, Chances(Rounds)) \in Nat
        /\ Worth(q, k, Unmade) \in Nat
    BY <1>1, <1>2, WorthNumbers
  <2>3. /\ Count(tries, k) \in Nat /\ Count(created, k) \in Nat
        /\ Count(tries', k) = IF k = q[1].key THEN Count(tries, k) + 1 ELSE Count(tries, k)
    BY <1>1, CountsAdd DEF Budget
  <2>4. Owed(k)' = 0 /\ Owed(k) = IF q[1].key = k THEN 1 ELSE 0
    BY <1>1, <1>6 DEF Owed
  <2>5. created' = created /\ Queue = q
    BY <1>1
  <2>6. Count(tries', k) + Owed(k)' = Count(tries, k) + Owed(k)
    BY <2>3, <2>4
  <2>7. Owed(k) \in Nat /\ Owed(k)' \in Nat /\ Count(tries', k) \in Nat
    BY <2>3, <2>4
  <2> HIDE DEF q, r
  <2> QED BY <2>1, <2>2, <2>3, <2>5, <2>6, <2>7
<1>8. Exhausted(r, Rounds) = {}
  BY <1>1, <1>2, <1>3, ExhaustedAfter DEF Budget
<1>9. Numbers(tries') /\ Numbers(created')
  BY CountsAdd DEF Budget
<1> HIDE DEF r
<1> QED BY <1>4, <1>5, <1>7, <1>8, <1>9, HolderKeepsBudget

\* A step of a pass over its queue keeps the budget.
LEMMA DrainKeepsBudget ==
  ASSUME IInv, Budget, NEW p \in Passes, Drain(p)
  PROVE  Budget'
<1> DEFINE q == mem[p].pending
<1>1. pc[p] \in InDrain /\ p \in Procs
  BY DEF Drain, Attempt, Send, Create, Go, Spawn, HarvestRead, HarvestLook,
         WriteBack, Stops, InDrain, Procs
<1>2. lock = p
  BY <1>1 DEF IInv, Exclusive, InDrain
<1>3. /\ Queue = q /\ mem \in [Procs -> State] /\ q \in Seq(Fire)
      /\ pc \in [Procs -> Labels]
  BY <1>2, HolderQueue DEF IInv, TypeOK
<1>4. ASSUME q # <<>>
      PROVE  /\ First(p) \in Fire /\ First(p).attempts \in Nat
             /\ First(p).child # None => First(p).attempts >= 1
  BY <1>1, <1>3, <1>4, HeadOfQueue DEF First, IInv, Attempted, Begun
<1>5. pc[p] = "act" => q # <<>> /\ First(p).attempts >= 1
  BY <1>1 DEF IInv, Attempted
<1>6. pc[p] = "look" => q # <<>> /\ First(p).child # None
  BY <1>1 DEF IInv, Attempted
<1>7. ASSUME q # <<>>, First(p).attempts >= 1,
             NEW f, f \in {First(p), [First(p) EXCEPT !.child = None]},
             NEW ok \in BOOLEAN, Finish(p, f, ok),
             UNCHANGED <<job, now, disk, lock, fired, crashes, created>>,
             tries' = tries \/ (tries' = AddOne(tries, First(p).key) /\ pc[p] = "act")
      PROVE  Budget'
  <2>1. /\ f \in Fire /\ f.key = First(p).key /\ f.attempts = First(p).attempts
        /\ f.item = First(p).item /\ f.attempts >= 1
    BY <1>4, <1>7 DEF Fire
  <2> QED BY <1>2, <1>7, <2>1, FinishKeepsBudget
<1>8. ASSUME UNCHANGED <<job, disk, lock, mem, fired, crashes, tries, created>>,
             pc[p] # "act", At(p, "look") \/ At(p, "write")
      PROVE  Budget'
  <2>1. Queue' = Queue
    BY <1>8 DEF Queue
  <2>2. ~Acting /\ ~Acting'
    BY <1>1, <1>2, <1>3, <1>8 DEF Acting, At
  <2> QED BY <1>8, <2>1, <2>2, SameBudget
<1>9. ASSUME q # <<>>, First(p).attempts >= 1, Collect(p),
             UNCHANGED <<job, now, disk, lock, fired, crashes, created, tries>>
      PROVE  Budget'
  <2>1. result.ok \in BOOLEAN /\ Finish(p, [First(p) EXCEPT !.child = None], result.ok)
    BY <1>9 DEF Collect, IInv, TypeOK
  <2> QED BY <1>7, <1>9, <2>1
<1>10. CASE Attempt(p)
  BY <1>2, <1>10, AttemptKeepsBudget
<1>11. CASE Send(p)
  <2>1. PICK ok \in BOOLEAN : Finish(p, First(p), ok)
    BY <1>11 DEF Send
  <2>2. pc[p] = "act" /\ tries' \in {tries, AddOne(tries, First(p).key)}
    BY <1>11 DEF Send
  <2>3. UNCHANGED <<job, now, disk, lock, fired, crashes, created>>
    BY <1>11 DEF Send, faults
  <2> QED BY <1>5, <1>7, <2>1, <2>2, <2>3
<1>12. CASE Create(p)
  <2>1. pc[p] = "act" /\ q # <<>> /\ First(p).attempts >= 1 /\ ~First(p).item
        /\ UNCHANGED <<job, now, disk, lock, fired, crashes, tries>>
    BY <1>5, <1>12 DEF Create, faults
  <2>2. CASE Finish(p, First(p), FALSE) /\ UNCHANGED created
    BY <1>7, <2>1, <2>2
  <2>3. CASE /\ created' = AddOne(created, First(p).key)
             /\ Work(p, [First(p) EXCEPT !.item = TRUE])
             /\ UNCHANGED <<pc, final, told>>
    BY <1>2, <2>1, <2>3, MakingKeepsBudget
  <2> QED BY <1>12, <2>2, <2>3 DEF Create
<1>13. CASE Go(p)
  <2>1. PICK ok \in BOOLEAN : Finish(p, First(p), ok)
    BY <1>13 DEF Go
  <2>2. /\ pc[p] = "act" /\ tries' = AddOne(tries, First(p).key)
        /\ UNCHANGED <<job, now, disk, lock, fired, crashes, created>>
    BY <1>13 DEF Go, faults
  <2> QED BY <1>5, <1>7, <2>1, <2>2
<1>14. CASE Spawn(p)
  <2>1. /\ pc[p] = "act" /\ q # <<>> /\ First(p).attempts >= 1
        /\ UNCHANGED <<job, now, disk, lock, fired, crashes, created>>
    BY <1>5, <1>14 DEF Spawn, faults
  <2>2. CASE Finish(p, First(p), FALSE) /\ UNCHANGED <<child, tries>>
    BY <1>7, <2>1, <2>2
  <2>3. ASSUME NEW c \in Children, Work(p, [First(p) EXCEPT !.child = c]), At(p, "write"),
               tries' = AddOne(tries, First(p).key)
        PROVE  Budget'
    BY <1>2, <2>1, <2>3, StartingKeepsBudget
  <2> QED BY <1>14, <2>2, <2>3 DEF Spawn
<1>15. CASE HarvestRead(p)
  <2>1. /\ q # <<>> /\ First(p).attempts >= 1 /\ pc[p] = "drain"
        /\ UNCHANGED <<job, now, disk, lock, fired, crashes, created, tries>>
    BY <1>4, <1>15 DEF HarvestRead, faults
  <2>2. CASE Collect(p)
    BY <1>9, <2>1, <2>2
  <2>3. CASE At(p, "look") /\ UNCHANGED mem
    BY <1>8, <2>1, <2>3
  <2> QED BY <1>15, <2>2, <2>3 DEF HarvestRead
<1>16. CASE HarvestLook(p)
  <2>1. /\ q # <<>> /\ First(p).attempts >= 1 /\ pc[p] = "look"
        /\ UNCHANGED <<job, now, disk, lock, fired, crashes, created, tries>>
    BY <1>4, <1>6, <1>16 DEF HarvestLook, faults
  <2>2. CASE Collect(p)
    BY <1>9, <2>1, <2>2
  <2>3. CASE At(p, "write") /\ UNCHANGED mem
    BY <1>8, <2>1, <2>3
  <2>4. CASE Finish(p, [First(p) EXCEPT !.child = None], FALSE)
    BY <1>7, <2>1, <2>4
  <2> QED BY <1>16, <2>2, <2>3, <2>4 DEF HarvestLook
<1>17. CASE WriteBack(p)
  <2>1. /\ disk' = mem[p] /\ lock' = None /\ mem' = [mem EXCEPT ![p] = NoState]
        /\ UNCHANGED <<job, fired, crashes, tries, created>>
    BY <1>17 DEF WriteBack, ghost, faults
  <2>2. None \notin Passes /\ Queue = q /\ Queue' = q
    BY <1>3, <2>1, JobsAssumption DEF Queue, Procs
  <2>3. ~Acting /\ ~Acting'
    BY <1>2, <1>17, <2>1, <2>2 DEF Acting, WriteBack, Stops
  <2> QED BY <2>1, <2>2, <2>3, SameBudget
<1> QED BY <1>10, <1>11, <1>12, <1>13, <1>14, <1>15, <1>16, <1>17 DEF Drain

\* A pass that begins appends firings, which pay for what they may spend.
LEMMA EnqueueKeepsBudget ==
  ASSUME IInv, Budget, NEW p \in Passes, NEW s \in State, NEW keys \in Seq(Keys),
         s.pending = disk.pending, Enqueue(p, s, keys), Moves(p, s, keys), crashes' = crashes
  PROVE  Budget'
<1> DEFINE q == disk.pending
           r == q \o [i \in DOMAIN keys |-> NewFire(keys[i])]
<1>1. /\ q \in Seq(Fire) /\ p \in Procs /\ mem \in [Procs -> State] /\ fired \in Seq(Keys)
      /\ pc \in [Procs -> Labels] /\ Rising(keys)
  BY DEF IInv, TypeOK, State, Procs, Moves
<1>2. /\ lock = None /\ lock' = p /\ disk' = [s EXCEPT !.pending = r]
      /\ mem' = [mem EXCEPT ![p] = disk'] /\ pc' = [pc EXCEPT ![p] = "drain"]
      /\ fired' = fired \o keys /\ UNCHANGED <<job, tries, created>>
  BY DEF Enqueue
<1>3. r \in Seq(Fire)
  BY <1>1, AppendAscends
<1> HIDE DEF r
<1>4. Queue = q /\ Queue' = r /\ disk'.pending = r
  BY <1>1, <1>2, JobsAssumption DEF Queue, Procs, State
<1>5. /\ Rounds \in Nat /\ Rounds >= 1 /\ crashes \in Nat /\ Rounds' = Rounds
      /\ \A k : /\ Times(k) \in Nat /\ Allowance(k) \in Nat
                /\ Rounds * Allowance(k) \in Nat
  BY <1>2, BudgetNumbers DEF Rounds
<1>6. ~Acting /\ ~Acting'
  BY <1>1, <1>2, JobsAssumption DEF Acting, Procs
<1>7. ASSUME NEW k \in Keys PROVE Covered(k)'
  <2>1. /\ Worth(q, k, Present) <= Times(k)
        /\ Count(tries, k) + Worth(q, k, Chances(Rounds)) + 0 <= Rounds * Allowance(k)
        /\ Count(created, k) + Worth(q, k, Unmade) <= Allowance(k)
        /\ Count(tries, k) \in Nat /\ Count(created, k) \in Nat
    BY <1>4, <1>6, CountsAdd DEF Budget, Covered, Owed
  <2>2. /\ Worth(q, k, Present) \in Nat /\ Worth(q, k, Chances(Rounds)) \in Nat
        /\ Worth(q, k, Unmade) \in Nat
    BY <1>1, <1>5, WorthNumbers
  <2>3. /\ Worth(r, k, Present) \in Nat /\ Worth(r, k, Chances(Rounds)) \in Nat
        /\ Worth(r, k, Unmade) \in Nat
    BY <1>3, <1>5, WorthNumbers
  <2>4. Owed(k)' = 0
    BY <1>6 DEF Owed
  <2>5. /\ Times(k) = Cardinality(Hits(fired, k))
        /\ Times(k)' = Cardinality(Hits(fired \o keys, k))
    BY <1>2 DEF Times, Hits
  <2>6. /\ Present \in Weights(1) /\ Unmade \in Weights(1) /\ Chances(Rounds) \in Weights(Rounds)
        /\ Cardinality(Present[NewFire(k)]) = 1 /\ Cardinality(Unmade[NewFire(k)]) = 1
        /\ Cardinality(Chances(Rounds)[NewFire(k)]) = Rounds
    BY <1>5, TheWeights
  <2>7. SUFFICES /\ Worth(r, k, Present) <= Times(k)'
                 /\ Count(tries, k) + Worth(r, k, Chances(Rounds)) <= Rounds * Allowance(k)'
                 /\ Count(created, k) + Worth(r, k, Unmade) <= Allowance(k)'
    BY <1>2, <1>4, <1>5, <2>1, <2>3, <2>4 DEF Covered
  <2>8. CASE k \notin Range(keys)
    <3>1. Times(k)' = Times(k)
      BY <1>1, <2>5, <2>8, HitsAfter
    <3>2. Allowance(k)' = Allowance(k)
      BY <3>1 DEF Allowance
    <3>3. Worth(r, k, Chances(Rounds)) = Worth(q, k, Chances(Rounds))
      BY <1>1, <1>5, <2>6, <2>8, AppendedWorth DEF r
    <3>4. Worth(r, k, Present) = Worth(q, k, Present) /\ Worth(r, k, Unmade) = Worth(q, k, Unmade)
      BY <1>1, <2>6, <2>8, AppendedWorth DEF r
    <3> QED BY <2>1, <2>2, <3>1, <3>2, <3>3, <3>4
  <2>9. CASE k \in Range(keys)
    <3>1. Times(k)' = Times(k) + 1
      BY <1>1, <2>5, <2>9, HitsAfter
    <3>2. Allowance(k)' = Allowance(k) + (1 + crashes)
      <4>1. Allowance(k)' = (Times(k) + 1) * (1 + crashes)
        BY <3>1 DEF Allowance
      <4>2. (Times(k) + 1) * (1 + crashes) = Times(k) * (1 + crashes) + 1 * (1 + crashes)
        <5>1. 1 + crashes \in Nat /\ Times(k) \in Nat /\ 1 \in Nat
          BY <1>5
        <5>2. \A a, b, c \in Nat : (b + c) * a = b * a + c * a
          BY Products
        <5> QED BY <5>1, <5>2
      <4>3. 1 * (1 + crashes) = 1 + crashes
        BY <1>5
      <4> QED BY <4>1, <4>2, <4>3 DEF Allowance
    <3>3. /\ Rounds * Allowance(k)' = Rounds * Allowance(k) + Rounds * (1 + crashes)
          /\ Rounds <= Rounds * (1 + crashes) /\ Rounds * (1 + crashes) \in Nat
      <4>1. 1 + crashes \in Nat /\ 1 <= 1 + crashes /\ 1 \in Nat
        BY <1>5
      <4>2. Rounds * (Allowance(k) + (1 + crashes)) = Rounds * Allowance(k) + Rounds * (1 + crashes)
        BY <1>5, <4>1, Products
      <4>3. Rounds * 1 <= Rounds * (1 + crashes) /\ Rounds * (1 + crashes) \in Nat
        BY <1>5, <4>1, Products
      <4>4. Rounds * 1 = Rounds
        BY <1>5
      <4> QED BY <3>2, <4>2, <4>3, <4>4
    <3>4. Worth(r, k, Chances(Rounds)) <= Worth(q, k, Chances(Rounds)) + Rounds
      BY <1>1, <1>5, <2>6, <2>9, AppendedWorth DEF r
    <3>5. /\ Worth(r, k, Present) <= Worth(q, k, Present) + 1
          /\ Worth(r, k, Unmade) <= Worth(q, k, Unmade) + 1
      BY <1>1, <2>6, <2>9, AppendedWorth DEF r
    <3>6. Worth(r, k, Present) <= Times(k)'
      BY <1>5, <2>1, <2>2, <2>3, <3>1, <3>5
    <3>7. Count(tries, k) + Worth(r, k, Chances(Rounds)) <= Rounds * Allowance(k)'
      <4> DEFINE A == Rounds * Allowance(k)
                 B == Rounds * (1 + crashes)
      <4>1. A \in Nat /\ B \in Nat /\ Rounds <= B /\ Rounds * Allowance(k)' = A + B
            /\ Count(tries, k) + Worth(q, k, Chances(Rounds)) <= A
        BY <1>5, <2>1, <2>2, <3>3
      <4> HIDE DEF A, B
      <4>2. Count(tries, k) + Worth(r, k, Chances(Rounds)) <= A + B
        <5>1. \A c, w, v, n, x, y \in Nat : c + w <= x /\ v <= w + n /\ n <= y => c + v <= x + y
          OBVIOUS
        <5> QED BY <1>5, <2>1, <2>2, <2>3, <3>4, <4>1, <5>1
      <4> QED BY <4>1, <4>2
    <3>8. Count(created, k) + Worth(r, k, Unmade) <= Allowance(k)'
      <4>1. /\ Worth(r, k, Unmade) <= Worth(q, k, Unmade) + 1
            /\ Count(created, k) + Worth(q, k, Unmade) <= Allowance(k)
            /\ Allowance(k) \in Nat /\ crashes \in Nat
        BY <1>5, <2>1, <3>5
      <4>2. Count(created, k) + Worth(r, k, Unmade) <= Allowance(k) + (1 + crashes)
        BY <2>1, <2>2, <2>3, <4>1
      <4> QED BY <3>2, <4>2
    <3> QED BY <3>6, <3>7, <3>8
  <2> QED BY <2>8, <2>9
<1>8. Exhausted(r, Rounds) = {}
  <2>1. Exhausted(q, Rounds) = {}
    BY DEF Budget
  <2>2. Exhausted(q, Rounds) \subseteq {1}
    BY <2>1
  <2> QED BY <1>1, <1>5, <2>1, <2>2, ExhaustedAfter DEF r
<1>9. Numbers(tries)' /\ Numbers(created)'
  BY <1>2 DEF Budget
<1> QED BY <1>4, <1>5, <1>7, <1>8, <1>9 DEF Budget

\* A crash brings the queue on disk back: at most one more round of every firing.
LEMMA CrashKeepsBudget ==
  ASSUME IInv, Budget, NEW p \in Procs, Crash(p)
  PROVE  Budget'
<1> DEFINE q == disk.pending
<1>1. /\ crashes' = crashes + 1 /\ lock' = None
      /\ UNCHANGED <<job, disk, fired, tries, created>>
  BY DEF Crash, ghost
<1>2. /\ Rounds \in Nat /\ Rounds >= 1 /\ crashes \in Nat /\ Rounds' = Rounds
      /\ q \in Seq(Fire) /\ Queue \in Seq(Fire)
      /\ \A k : /\ Times(k) \in Nat /\ Allowance(k) \in Nat
                /\ Rounds * Allowance(k) \in Nat /\ Owed(k) \in {0, 1}
  BY <1>1, BudgetNumbers DEF Rounds
<1>3. None \notin Passes /\ Queue' = q /\ ~Acting'
  BY <1>1, JobsAssumption DEF Queue, Acting, Procs
<1>4. ASSUME NEW k \in Keys PROVE Covered(k)'
  <2>1. /\ Worth(q, k, Present) <= Times(k)
        /\ Count(tries, k) + Worth(Queue, k, Chances(Rounds)) + Owed(k) <= Rounds * Allowance(k)
        /\ Count(created, k) + Worth(Queue, k, Unmade) <= Allowance(k)
        /\ Count(tries, k) \in Nat /\ Count(created, k) \in Nat
    BY CountsAdd DEF Budget, Covered
  <2>2. Worth(Queue, k, Chances(Rounds)) \in Nat /\ Worth(Queue, k, Unmade) \in Nat
    BY <1>2, WorthNumbers
  <2>3. /\ Worth(q, k, Present) \in Nat /\ Worth(q, k, Chances(Rounds)) \in Nat
        /\ Worth(q, k, Unmade) \in Nat
    BY <1>2, WorthNumbers
  <2>4. /\ Worth(q, k, Chances(Rounds)) <= Rounds * Worth(q, k, Present)
        /\ Worth(q, k, Unmade) <= Worth(q, k, Present)
    BY <1>2, FullRound
  <2>5. Times(k)' = Times(k) /\ Owed(k)' = 0
    BY <1>1, <1>3 DEF Times, Owed
  <2>6. Allowance(k)' = Allowance(k) + Times(k)
    <3>1. Allowance(k)' = Times(k) * (1 + (crashes + 1))
      BY <1>1, <2>5 DEF Allowance
    <3>2. Times(k) * ((1 + crashes) + 1) = Times(k) * (1 + crashes) + Times(k) * 1
      <4>1. 1 + crashes \in Nat /\ Times(k) \in Nat /\ 1 \in Nat
        BY <1>2
      <4>2. \A a, b, c \in Nat : a * (b + c) = a * b + a * c
        BY Products
      <4> QED BY <4>1, <4>2
    <3>3. 1 + (crashes + 1) = (1 + crashes) + 1 /\ Times(k) * 1 = Times(k)
      BY <1>2
    <3> QED BY <3>1, <3>2, <3>3 DEF Allowance
  <2>7. Rounds * Allowance(k)' = Rounds * Allowance(k) + Rounds * Times(k)
    BY <1>2, <2>6, Products
  <2>8. /\ Rounds * Worth(q, k, Present) <= Rounds * Times(k)
        /\ Rounds * Worth(q, k, Present) \in Nat /\ Rounds * Times(k) \in Nat
    BY <1>2, <2>1, <2>3, Products
  <2>9. Count(tries, k) + Worth(q, k, Chances(Rounds)) <= Rounds * Allowance(k)'
    <3> DEFINE A == Rounds * Allowance(k)
               B == Rounds * Worth(q, k, Present)
               C == Rounds * Times(k)
    <3>1. /\ A \in Nat /\ B \in Nat /\ C \in Nat /\ B <= C
          /\ Worth(q, k, Chances(Rounds)) <= B /\ Rounds * Allowance(k)' = A + C
          /\ Count(tries, k) + Worth(Queue, k, Chances(Rounds)) + Owed(k) <= A
      BY <1>2, <2>1, <2>4, <2>7, <2>8
    <3> HIDE DEF A, B, C
    <3>2. Owed(k) \in Nat
      BY <1>2
    <3>3. Count(tries, k) <= A
      BY <2>1, <2>2, <3>1, <3>2
    <3>4. Worth(q, k, Chances(Rounds)) <= C
      BY <2>3, <3>1
    <3>5. Count(tries, k) + Worth(q, k, Chances(Rounds)) <= A + C
      BY <2>1, <2>3, <3>1, <3>3, <3>4
    <3> QED BY <3>1, <3>5
  <2>10. Count(created, k) + Worth(q, k, Unmade) <= Allowance(k)'
    <3>1. Count(created, k) <= Allowance(k) /\ Worth(q, k, Unmade) <= Times(k)
      <4>1. Allowance(k) \in Nat /\ Times(k) \in Nat
        BY <1>2
      <4> QED BY <2>1, <2>2, <2>3, <2>4, <4>1
    <3>2. Allowance(k) \in Nat /\ Times(k) \in Nat
      BY <1>2
    <3>3. Count(created, k) + Worth(q, k, Unmade) <= Allowance(k) + Times(k)
      BY <2>1, <2>3, <3>1, <3>2
    <3> QED BY <2>6, <3>3
  <2>11. Count(tries, k) + Worth(q, k, Chances(Rounds)) + Owed(k)' <= Rounds * Allowance(k)'
    BY <2>1, <2>3, <2>5, <2>9
  <2> QED BY <1>1, <1>2, <1>3, <2>1, <2>5, <2>10, <2>11 DEF Covered
<1>5. Numbers(tries)' /\ Numbers(created)' /\ Exhausted(q, Rounds) = {}
  BY <1>1 DEF Budget
<1> QED BY <1>1, <1>2, <1>3, <1>4, <1>5 DEF Budget

\* Every step keeps the budget.
LEMMA NextKeepsBudget == IInv /\ History /\ Budget /\ [Next]_vars => Budget'
<1> SUFFICES ASSUME IInv, History, Budget, [Next]_vars PROVE Budget'
  OBVIOUS
<1>0. /\ Operator \in Procs /\ Operator \notin Passes /\ None \notin Passes
      /\ disk \in State /\ now \in Time /\ mem \in [Procs -> State] /\ pc \in [Procs -> Labels]
  BY JobsAssumption DEF IInv, TypeOK, Procs
<1>1. ASSUME NEW p \in Passes, Look(p) PROVE Budget'
  BY <1>1, LookMoves, EnqueueKeepsBudget
<1>2. ASSUME disk'.pending = disk.pending, lock \notin Passes, lock' \notin Passes,
             UNCHANGED <<job, fired, crashes, tries, created>>
      PROVE  Budget'
  <2>1. Queue' = Queue
    BY <1>2 DEF Queue
  <2>2. ~Acting /\ ~Acting'
    BY <1>2 DEF Acting
  <2> QED BY <1>2, <2>1, <2>2, SameBudget
<1>3. ASSUME NEW p \in Passes, PollFails(p) PROVE Budget'
  <2>1. disk'.pending = disk.pending /\ lock = None /\ lock' = None
    BY <1>0, <1>3 DEF PollFails, Opened, State
  <2> QED BY <1>0, <1>2, <1>3, <2>1 DEF PollFails, ghost, faults
<1>4. CASE RunNow
  BY <1>0, <1>2, <1>4 DEF RunNow, ghost, faults
<1>5. CASE RunNowRecords
  <2>1. lock = Operator
    BY <1>0, <1>5 DEF RunNowRecords, IInv, Exclusive
  <2>2. PICK ok \in BOOLEAN :
          disk' = [disk EXCEPT
                     !.lastSlot = IF @ = None THEN mem[Operator].lastSlot ELSE @,
                     !.lastDone = IF ok THEN now ELSE @]
    BY <1>5 DEF RunNowRecords
  <2>3. disk'.pending = disk.pending
    BY <1>0, <2>2 DEF State
  <2> QED BY <1>0, <1>2, <1>5, <2>1, <2>3 DEF RunNowRecords, ghost, faults
<1>6. ASSUME UNCHANGED <<job, disk, lock, mem, pc, ghost, crashes>> PROVE Budget'
  <2>1. Queue' = Queue /\ (Acting' <=> Acting)
    BY <1>6 DEF Queue, Acting
  <2> QED BY <1>6, <2>1, SameBudget DEF ghost
<1>7. CASE World
  <2>1. CASE ClockTicks \/ Arrives
    BY <1>6, <2>1 DEF ClockTicks, Arrives, faults
  <2>2. ASSUME NEW e \in Events, Closes(e) \/ Reopens(e) PROVE Budget'
    BY <1>6, <2>2 DEF Closes, Reopens, faults
  <2>3. ASSUME NEW c \in Children, ChildExits(c) \/ ChildDies(c) PROVE Budget'
    BY <1>6, <2>3 DEF ChildExits, ChildDies, faults
  <2> QED BY <1>7, <2>1, <2>2, <2>3, JobsAssumption DEF World
<1>8. CASE UNCHANGED vars
  BY <1>6, <1>8 DEF vars, faults
<1>9. ASSUME NEW p \in Passes, Pass(p) PROVE Budget'
  <2>1. CASE Lists(p) \/ Skips(p)
    BY <1>6, <2>1 DEF Lists, Skips, faults
  <2> QED BY <1>1, <1>3, <1>9, <2>1, DrainKeepsBudget DEF Pass
<1> QED BY <1>4, <1>5, <1>7, <1>8, <1>9, CrashKeepsBudget DEF Next

\* Nothing is spent at the start.
LEMMA InitBudget == Init => Budget
<1> SUFFICES ASSUME Init PROVE Budget
  OBVIOUS
<1>1. /\ lock = None /\ None \notin Passes /\ disk.pending = <<>> /\ Queue = <<>> /\ ~Acting
      /\ DOMAIN tries = {} /\ DOMAIN created = {}
  BY JobsAssumption DEF Init, Queue, NoState, Procs, Acting
<1>2. \A k, w : Worth(<<>>, k, w) = 0
  <2>1. \A k, w : Units(<<>>, k, w) = {}
    BY DEF Units
  <2> QED BY <2>1, FS_EmptySet DEF Worth
<1>3. ASSUME NEW k \in Keys PROVE Covered(k)
  <2>1. Count(tries, k) = 0 /\ Count(created, k) = 0 /\ Owed(k) = 0
    BY <1>1 DEF Count, Owed
  <2>2. Times(k) >= 0 /\ Allowance(k) >= 0 /\ Rounds * Allowance(k) >= 0
    BY InitEstablishes, BudgetNumbers
  <2> QED BY <1>1, <1>2, <2>1, <2>2 DEF Covered
<1>4. Numbers(tries) /\ Numbers(created)
  BY <1>1 DEF Numbers
<1>5. Exhausted(<<>>, Rounds) = {}
  BY DEF Exhausted
<1> QED BY <1>1, <1>3, <1>4, <1>5 DEF Budget

\* What a job spends stays within what its firings and the crashes pay for.
THEOREM BudgetInvariance == Spec => [](IInv /\ History /\ Budget)
<1>1. Init => IInv /\ History /\ Budget
  BY InitEstablishes, InitHistory, InitBudget
<1>2. (IInv /\ History /\ Budget) /\ [Next]_vars => (IInv /\ History /\ Budget)'
  BY NextKeeps, NextKeepsHistory, NextKeepsBudget
<1> QED BY <1>1, <1>2, PTL DEF Spec

\* What was fired is a key.
LEMMA FiredKeys == IInv /\ History => DOMAIN tries \union DOMAIN created \subseteq Keys
<1> SUFFICES ASSUME IInv, History PROVE Range(fired) \subseteq Keys
  BY DEF History, FromFired
<1>1. fired \in Seq(Keys)
  BY DEF IInv, TypeOK
<1> QED BY <1>1, ElementOfSeq, LenProperties DEF Range

\* A firing is attempted once and retry.max times more, and all of that once
\* more for each crash, whichever passes made the attempts.
THEOREM AttemptsAreBounded == Spec => []AttemptsBounded
<1>1. IInv /\ History /\ Budget => AttemptsBounded
  <2> SUFFICES ASSUME IInv, History, Budget, NEW k \in DOMAIN tries
               PROVE  tries[k] <= (job.retryMax + 1) * (Times(k) * (1 + crashes))
    BY DEF AttemptsBounded
  <2>1. k \in Keys
    BY FiredKeys
  <2>2. Count(tries, k) + Worth(Queue, k, Chances(Rounds)) + Owed(k) <= Rounds * Allowance(k)
    BY <2>1 DEF Budget, Covered
  <2>3. /\ Worth(Queue, k, Chances(Rounds)) \in Nat /\ Owed(k) \in Nat
        /\ Rounds * Allowance(k) \in Nat
    BY BudgetNumbers, WorthNumbers
  <2>4. Count(tries, k) = tries[k] /\ tries[k] \in Nat
    BY DEF Count, Budget, Numbers
  <2> DEFINE A == Rounds * Allowance(k)
  <2>5. A = (job.retryMax + 1) * (Times(k) * (1 + crashes)) /\ A \in Nat
    BY <2>3 DEF Rounds, Allowance
  <2>6. Count(tries, k) + Worth(Queue, k, Chances(Rounds)) + Owed(k) <= A
    BY <2>2
  <2> HIDE DEF A
  <2>7. tries[k] <= A
    BY <2>3, <2>4, <2>5, <2>6
  <2> QED BY <2>5, <2>7
<1> QED BY <1>1, BudgetInvariance, PTL

\* A retry hands over the item of the first attempt: one item for each firing,
\* and one more for each crash that lost the note of it.
THEOREM ItemsAreMadeOnce == Spec => []OneItem
<1>1. IInv /\ History /\ Budget => OneItem
  <2> SUFFICES ASSUME IInv, History, Budget, NEW k \in DOMAIN created
               PROVE  created[k] <= Allowance(k)
    BY DEF OneItem, Allowance
  <2>1. k \in Keys
    BY FiredKeys
  <2>2. Count(created, k) + Worth(Queue, k, Unmade) <= Allowance(k)
    BY <2>1 DEF Budget, Covered
  <2>3. Worth(Queue, k, Unmade) \in Nat /\ Allowance(k) \in Nat
    BY BudgetNumbers, WorthNumbers
  <2>4. Count(created, k) = created[k] /\ created[k] \in Nat
    BY DEF Count, Budget, Numbers
  <2> QED BY <2>2, <2>3, <2>4
<1> QED BY <1>1, BudgetInvariance, PTL

-----------------------------------------------------------------------------
(* Firings: every step of a job is a step of its queue, or none.            *)

\* What a runner was started for reached the outside world.
Ran(q) == \A i \in DOMAIN q : q[i].child # None => q[i].key \in DOMAIN tries

AllRan == Ran(disk.pending) /\ Ran(Queue)

\* The keys of a queue are a sequence as long, with the head's key at its head.
LEMMA KeysInOrder ==
  ASSUME NEW q \in Seq(Fire)
  PROVE  /\ KeySeq(q) \in Seq(Keys) /\ Len(KeySeq(q)) = Len(q)
         /\ \A i \in 1 .. Len(q) : KeySeq(q)[i] = q[i].key
         /\ q # <<>> => /\ KeySeq(q) # <<>> /\ Head(KeySeq(q)) = q[1].key
                        /\ KeySeq(Tail(q)) = Tail(KeySeq(q))
<1> DEFINE k == KeySeq(q)
           t == Tail(q)
<1>1. Len(q) \in Nat /\ DOMAIN q = 1 .. Len(q) /\ \A i \in 1 .. Len(q) : q[i] \in Fire
  BY LenProperties, ElementOfSeq
<1>2. k = [i \in 1 .. Len(q) |-> q[i].key]
  BY <1>1 DEF KeySeq
<1>3. \A i \in 1 .. Len(q) : k[i] = q[i].key /\ q[i].key \in Keys
  BY <1>1, <1>2 DEF Fire
<1>4. k \in Seq(Keys) /\ Len(k) = Len(q)
  BY <1>1, <1>2, <1>3
<1> HIDE DEF k, t
<1>5. ASSUME q # <<>>
      PROVE  k # <<>> /\ Head(k) = q[1].key /\ KeySeq(t) = Tail(k)
  <2>1. t \in Seq(Fire) /\ Len(t) = Len(q) - 1 /\ \A i \in 1 .. Len(t) : t[i] = q[i + 1]
    BY <1>5, HeadTailProperties DEF t
  <2>2. Len(q) # 0 /\ k # <<>>
    BY <1>1, <1>4, <1>5, EmptySeq
  <2>3. /\ Tail(k) \in Seq(Keys) /\ Len(Tail(k)) = Len(k) - 1
        /\ \A i \in 1 .. Len(Tail(k)) : Tail(k)[i] = k[i + 1]
        /\ Head(k) = k[1]
    BY <1>4, <2>2, HeadTailProperties
  <2>4. DOMAIN t = 1 .. Len(t)
    BY <2>1, LenProperties
  <2>5. KeySeq(t) = [i \in 1 .. Len(t) |-> t[i].key]
    BY <2>4 DEF KeySeq
  <2>6. \A i \in 1 .. Len(t) : t[i].key = Tail(k)[i]
    BY <1>1, <1>3, <1>4, <2>1, <2>3
  <2>7. Tail(k) = [i \in 1 .. Len(t) |-> Tail(k)[i]]
    BY <1>4, <2>1, <2>3, LenProperties
  <2>8. KeySeq(t) = Tail(k)
    BY <2>5, <2>6, <2>7
  <2> QED BY <1>1, <1>3, <2>2, <2>3, <2>8
<1> QED BY <1>3, <1>4, <1>5 DEF k, t

\* Replacing the head by a firing of its key leaves the keys as they are.
LEMMA SameKeys ==
  ASSUME NEW q \in Seq(Fire), q # <<>>, NEW f \in Fire, f.key = q[1].key
  PROVE  KeySeq([q EXCEPT ![1] = f]) = KeySeq(q)
<1>1. Len(q) \in Nat /\ DOMAIN q = 1 .. Len(q)
  BY LenProperties
<1> QED BY <1>1 DEF KeySeq

\* Appending firings of some keys appends the keys.
LEMMA MoreKeys ==
  ASSUME NEW q \in Seq(Fire), NEW keys \in Seq(Keys)
  PROVE  LET r == q \o [i \in DOMAIN keys |-> NewFire(keys[i])]
         IN /\ r \in Seq(Fire) /\ KeySeq(r) = KeySeq(q) \o keys
            /\ SubSeq(KeySeq(r), Len(KeySeq(q)) + 1, Len(KeySeq(r))) = keys
            /\ Ran(q) => Ran(r)
<1> DEFINE new == [i \in DOMAIN keys |-> NewFire(keys[i])]
           r   == q \o new
           k   == KeySeq(q)
<1>1. Len(keys) \in Nat /\ DOMAIN keys = 1 .. Len(keys) /\ Len(q) \in Nat /\ DOMAIN q = 1 .. Len(q)
  BY LenProperties
<1>2. r \in Seq(Fire)
  BY AppendFirings
<1>3. new \in Seq(Fire) /\ Len(new) = Len(keys)
  <2>1. \A i \in 1 .. Len(keys) : NewFire(keys[i]) \in Fire
    BY <1>1, ElementOfSeq DEF NewFire, Fire
  <2> QED BY <1>1, <2>1
<1>4. \A i \in 1 .. Len(keys) : new[i].key = keys[i] /\ new[i].child = None
  BY <1>1 DEF NewFire
<1> HIDE DEF new
<1>5. /\ r \in Seq(Fire) /\ Len(r) = Len(q) + Len(keys)
      /\ \A i \in 1 .. Len(q) + Len(keys) :
           r[i] = IF i <= Len(q) THEN q[i] ELSE new[i - Len(q)]
  <2>1. /\ q \o new \in Seq(Fire) /\ Len(q \o new) = Len(q) + Len(new)
        /\ \A i \in 1 .. Len(q) + Len(new) :
             (q \o new)[i] = IF i <= Len(q) THEN q[i] ELSE new[i - Len(q)]
    BY <1>3, ConcatProperties
  <2> QED BY <1>3, <2>1
<1>6. k \in Seq(Keys) /\ Len(k) = Len(q) /\ \A i \in 1 .. Len(q) : k[i] = q[i].key
  BY KeysInOrder
<1> HIDE DEF r, k
<1>7. /\ k \o keys \in Seq(Keys) /\ Len(k \o keys) = Len(q) + Len(keys)
      /\ \A i \in 1 .. Len(q) + Len(keys) :
           (k \o keys)[i] = IF i <= Len(q) THEN k[i] ELSE keys[i - Len(q)]
  BY <1>6, ConcatProperties
<1>8. KeySeq(r) \in Seq(Keys) /\ Len(KeySeq(r)) = Len(r) /\ \A i \in 1 .. Len(r) : KeySeq(r)[i] = r[i].key
  BY <1>2, KeysInOrder
<1>9. \A i \in 1 .. Len(r) : r[i].key = (k \o keys)[i]
  <2> TAKE i \in 1 .. Len(r)
  <2>1. CASE i <= Len(q)
    BY <2>1, <1>1, <1>5, <1>6, <1>7
  <2>2. CASE ~(i <= Len(q))
    <3>1. i - Len(q) \in 1 .. Len(keys)
      BY <2>2, <1>1, <1>5
    <3> QED BY <2>2, <3>1, <1>1, <1>5, <1>4, <1>7
  <2> QED BY <2>1, <2>2
<1>10. KeySeq(r) = k \o keys
  <2>1. \A i \in 1 .. Len(KeySeq(r)) : KeySeq(r)[i] = (k \o keys)[i]
    BY <1>8, <1>9
  <2>2. Len(KeySeq(r)) = Len(k \o keys)
    BY <1>5, <1>7, <1>8
  <2> QED BY <1>7, <1>8, <2>1, <2>2, SeqEqual
<1>11. SubSeq(k \o keys, Len(k) + 1, Len(k \o keys)) = keys
  <2> DEFINE s == SubSeq(k \o keys, Len(k) + 1, Len(k \o keys))
  <2>1. /\ s \in Seq(Keys) /\ Len(s) = Len(keys)
        /\ \A i \in 1 .. Len(keys) : s[i] = (k \o keys)[Len(k) + i]
    <3>1. \A i \in Len(k) + 1 .. Len(k \o keys) : (k \o keys)[i] \in Keys
      BY <1>1, <1>6, <1>7, ElementOfSeq
    <3> QED BY <1>1, <1>6, <1>7, <3>1, SubSeqProperties
  <2> HIDE DEF s
  <2>2. \A i \in 1 .. Len(keys) : s[i] = keys[i]
    BY <1>1, <1>6, <1>7, <2>1
  <2>3. s = keys
    BY <2>1, <2>2, SeqEqual
  <2> QED BY <2>3 DEF s
<1>12. ASSUME Ran(q) PROVE Ran(r)
  <2> SUFFICES ASSUME NEW i \in DOMAIN r, r[i].child # None PROVE r[i].key \in DOMAIN tries
    BY DEF Ran
  <2>1. i \in 1 .. Len(q) + Len(keys)
    BY <1>2, <1>5, LenProperties
  <2>2. CASE i <= Len(q)
    BY <2>1, <2>2, <1>1, <1>5, <1>12 DEF Ran
  <2>3. CASE ~(i <= Len(q))
    <3>1. i - Len(q) \in 1 .. Len(keys)
      BY <2>1, <2>3, <1>1
    <3> QED BY <2>1, <2>3, <3>1, <1>5, <1>4
  <2> QED BY <2>2, <2>3
<1> QED BY <1>2, <1>10, <1>11, <1>12 DEF r, new, k

\* A step of the lock's holder that replaces the head of its queue by a firing of
\* the same key attempts it, or does nothing to the queue.
LEMMA WorkMaps ==
  ASSUME IInv, AllRan, NEW p \in Passes, lock = p, mem[p].pending # <<>>,
         NEW f \in Fire, f.key = First(p).key, Work(p, f),
         UNCHANGED <<disk, lock, fired, final>>,
         tries' \in {tries, AddOne(tries, First(p).key)},
         f.child # None => f.key \in DOMAIN tries'
  PROVE  [Q!QNext]_Q!qvars /\ AllRan'
<1> DEFINE q == mem[p].pending
           k == First(p).key
<1>1. /\ Queue = q /\ p \in Procs /\ mem \in [Procs -> State] /\ mem[p] \in State
      /\ q \in Seq(Fire) /\ First(p) = q[1] /\ disk.pending \in Seq(Fire)
  BY HolderQueue DEF First, State
<1>2. PICK r \in Seq(Fire) : r = [q EXCEPT ![1] = f]
  BY <1>1, ReplaceAscends
<1>3. mem'[p].pending = r
  BY <1>1, <1>2 DEF Work, State
<1>4. Queue' = r
  BY <1>3 DEF Queue
<1>5. KeySeq(r) = KeySeq(q)
  BY <1>1, <1>2, SameKeys
<1>6. KeySeq(disk.pending)' = KeySeq(disk.pending) /\ KeySeq(Queue)' = KeySeq(Queue)
  BY <1>1, <1>4, <1>5 DEF KeySeq
<1>7. /\ DOMAIN tries \subseteq DOMAIN tries' /\ DOMAIN tries' \subseteq DOMAIN tries \union {k}
      /\ DOMAIN tries' = DOMAIN tries \/ DOMAIN tries' = DOMAIN tries \union {k}
  BY DEF AddOne
<1>8. AllRan'
  <2>1. Len(q) \in Nat /\ DOMAIN q = 1 .. Len(q) /\ DOMAIN r = DOMAIN q
    BY <1>1, <1>2, LenProperties
  <2>2. \A i \in DOMAIN r : i # 1 => r[i] = q[i]
    BY <1>2, <2>1
  <2>3. ASSUME NEW i \in DOMAIN r, r[i].child # None PROVE r[i].key \in DOMAIN tries'
    <3>1. CASE i = 1
      BY <1>2, <2>1, <2>3, <3>1
    <3>2. CASE i # 1
      BY <1>1, <1>7, <2>1, <2>2, <2>3, <3>2 DEF AllRan, Ran
    <3> QED BY <3>1, <3>2
  <2>4. \A i \in DOMAIN disk.pending :
          disk.pending[i].child # None => disk.pending[i].key \in DOMAIN tries'
    BY <1>7 DEF AllRan, Ran
  <2> QED BY <1>4, <2>3, <2>4 DEF AllRan, Ran
<1>9. CASE DOMAIN tries' = DOMAIN tries
  BY <1>6, <1>8, <1>9 DEF Q!qvars
<1>10. CASE DOMAIN tries' = DOMAIN tries \union {k}
  <2>1. KeySeq(Queue) # <<>> /\ Head(KeySeq(Queue)) = k
    BY <1>1, KeysInOrder
  <2>2. Q!Attempt
    BY <1>6, <1>10, <2>1 DEF Q!Attempt
  <2> QED BY <1>8, <2>2 DEF Q!QNext
<1> QED BY <1>7, <1>8, <1>9, <1>10

\* A step of the lock's holder that settles the attempt at the head.
LEMMA FinishMaps ==
  ASSUME IInv, AllRan, NEW p \in Passes, lock = p, mem[p].pending # <<>>,
         NEW f, f \in {First(p), [First(p) EXCEPT !.child = None]}, f.attempts >= 1,
         NEW ok \in BOOLEAN, Finish(p, f, ok),
         UNCHANGED <<job, now, disk, lock, fired>>,
         tries' \in {tries, AddOne(tries, First(p).key)},
         ok => First(p).key \in DOMAIN tries'
  PROVE  [Q!QNext]_Q!qvars /\ AllRan'
<1> DEFINE q == mem[p].pending
           k == First(p).key
<1>1. /\ Queue = q /\ p \in Procs /\ mem \in [Procs -> State] /\ mem[p] \in State
      /\ q \in Seq(Fire) /\ First(p) = q[1] /\ disk.pending \in Seq(Fire)
      /\ First(p) \in Fire /\ 1 \in DOMAIN q
  BY HolderQueue, HeadOfQueue DEF First, State
<1>2. f \in Fire /\ f.key = k /\ (f.child # None => k \in DOMAIN tries)
  BY <1>1 DEF Fire, AllRan, Ran
<1>3. /\ DOMAIN tries \subseteq DOMAIN tries'
      /\ DOMAIN tries' = DOMAIN tries \/ DOMAIN tries' = DOMAIN tries \union {k}
  BY DEF AddOne
<1>4. CASE Retry(p, f)
  <2> DEFINE g == [f EXCEPT !.retryAt = now + Backoff * 2 ^ (f.attempts - 1)]
  <2>1. now + Backoff * 2 ^ (f.attempts - 1) \in Nat
    <3>1. now \in Nat /\ job \in JobFiles /\ job.retryMax \in Nat
      BY JobsAssumption DEF IInv, TypeOK, Time, Job
    <3>2. f.attempts - 1 \in 0 .. job.retryMax
      BY <1>2, <1>4, <3>1 DEF Retry, Fire
    <3>3. 2 ^ (f.attempts - 1) \in Nat
      BY <3>1, <3>2, DoublingAssumption
    <3>4. \A a, b \in Nat : a * b \in Nat
      OBVIOUS
    <3>5. Backoff * 2 ^ (f.attempts - 1) \in Nat
      BY <3>3, <3>4, JobsAssumption
    <3> QED BY <3>1, <3>5
  <2>2. g \in Fire /\ g.key = k /\ g.child = f.child
    BY <1>2, <2>1 DEF Fire
  <2>3. Work(p, g) /\ final' = final
    BY <1>4 DEF Retry
  <2> HIDE DEF g
  <2> QED BY <1>2, <1>3, <2>2, <2>3, WorkMaps
<1>5. ASSUME NEW how \in {"ok", "gaveup"}, Popped(p, f), Record(f, how),
             how = "ok" => k \in DOMAIN tries'
      PROVE  [Q!QNext]_Q!qvars /\ AllRan'
  <2>1. PICK t \in Seq(Fire) : t = Tail(q)
    BY <1>1, TailAscends
  <2>2. mem'[p].pending = t
    BY <1>1, <1>5, <2>1 DEF Popped, State
  <2>3. Queue' = t
    BY <2>2 DEF Queue
  <2>4. /\ KeySeq(Queue) # <<>> /\ Head(KeySeq(Queue)) = k
        /\ KeySeq(t) = Tail(KeySeq(Queue))
    BY <1>1, <2>1, KeysInOrder
  <2>5. KeySeq(disk.pending)' = KeySeq(disk.pending) /\ KeySeq(Queue)' = Tail(KeySeq(Queue))
    BY <2>3, <2>4 DEF KeySeq
  <2>6. final' = [x \in DOMAIN final \union {k} |-> IF x = k THEN how ELSE final[x]]
    BY <1>2, <1>5 DEF Record
  <2>7. Q!Settle(how)
    BY <1>3, <1>5, <2>4, <2>5, <2>6 DEF Q!Settle
  <2>8. Q!QNext
    BY <2>7 DEF Q!QNext
  <2>9. AllRan'
    <3>1. Len(q) \in Nat /\ DOMAIN q = 1 .. Len(q) /\ DOMAIN t = 1 .. Len(t)
      BY <1>1, LenProperties
    <3>2. Len(t) = Len(q) - 1 /\ \A i \in 1 .. Len(t) : t[i] = q[i + 1]
      BY <1>1, <2>1, HeadTailProperties
    <3>3. \A i \in DOMAIN t : i + 1 \in DOMAIN q /\ t[i] = q[i + 1]
      BY <3>1, <3>2
    <3>4. \A i \in DOMAIN t : t[i].child # None => t[i].key \in DOMAIN tries'
      BY <1>1, <1>3, <3>3 DEF AllRan, Ran
    <3>5. \A i \in DOMAIN disk.pending :
            disk.pending[i].child # None => disk.pending[i].key \in DOMAIN tries'
      BY <1>3 DEF AllRan, Ran
    <3> QED BY <2>3, <3>4, <3>5 DEF AllRan, Ran
  <2> QED BY <2>8, <2>9
<1>6. CASE ok /\ Succeed(p, f)
  BY <1>5, <1>6 DEF Succeed
<1>7. CASE GiveUp(p, f)
  BY <1>5, <1>7 DEF GiveUp
<1> QED BY <1>4, <1>6, <1>7 DEF Finish

\* A step that leaves the queues alone is none of theirs, if tries only grow.
LEMMA StutterMaps ==
  ASSUME AllRan, UNCHANGED <<fired, final, tries>>, (lock' \in Passes) = (lock \in Passes),
         disk'.pending = disk.pending, Queue' = Queue
  PROVE  [Q!QNext]_Q!qvars /\ AllRan'
<1>1. KeySeq(disk.pending)' = KeySeq(disk.pending) /\ KeySeq(Queue)' = KeySeq(Queue)
  BY DEF KeySeq
<1>2. UNCHANGED Q!qvars
  BY <1>1 DEF Q!qvars
<1>3. AllRan'
  BY DEF AllRan, Ran
<1> QED BY <1>2, <1>3

\* A step of a pass over its queue: what it runs, collects, gives up and writes back.
LEMMA DrainMaps ==
  ASSUME IInv, AllRan, NEW p \in Passes, Drain(p)
  PROVE  [Q!QNext]_Q!qvars /\ AllRan'
<1> DEFINE q == mem[p].pending
<1>1. pc[p] \in InDrain /\ p \in Procs
  BY DEF Drain, Attempt, Send, Create, Go, Spawn, HarvestRead, HarvestLook,
         WriteBack, Stops, InDrain, Procs
<1>2. lock = p
  BY <1>1 DEF IInv, Exclusive, InDrain
<1>3. /\ Queue = q /\ mem \in [Procs -> State] /\ q \in Seq(Fire)
      /\ pc \in [Procs -> Labels]
  BY <1>2, HolderQueue DEF IInv, TypeOK
<1>4. ASSUME q # <<>>
      PROVE  /\ First(p) \in Fire /\ First(p).attempts \in Nat /\ First(p).key \in Keys
             /\ First(p).child # None => First(p).attempts >= 1 /\ First(p).key \in DOMAIN tries
  BY <1>1, <1>3, <1>4, HeadOfQueue DEF First, IInv, Attempted, Begun, AllRan, Ran
<1>5. pc[p] = "act" => q # <<>> /\ First(p).attempts >= 1
  BY <1>1 DEF IInv, Attempted
<1>6. pc[p] = "look" => q # <<>> /\ First(p).child # None
  BY <1>1 DEF IInv, Attempted
<1>7. \A k : k \in DOMAIN AddOne(tries, k) /\ DOMAIN tries \subseteq DOMAIN AddOne(tries, k)
  BY DEF AddOne
<1>8. ASSUME UNCHANGED <<disk, lock, mem, fired, final, tries>>
      PROVE  [Q!QNext]_Q!qvars /\ AllRan'
  <2>1. Queue' = Queue
    BY <1>8 DEF Queue
  <2> QED BY <1>8, <2>1, StutterMaps
<1>9. ASSUME q # <<>>, First(p).child # None, Collect(p),
             UNCHANGED <<job, now, disk, lock, fired, tries>>
      PROVE  [Q!QNext]_Q!qvars /\ AllRan'
  <2> DEFINE f == [First(p) EXCEPT !.child = None]
  <2>1. result.ok \in BOOLEAN /\ Finish(p, f, result.ok)
    BY <1>9 DEF Collect, IInv, TypeOK
  <2>2. f.attempts >= 1 /\ First(p).key \in DOMAIN tries'
    BY <1>4, <1>9 DEF Fire
  <2> QED BY <1>2, <1>9, <2>1, <2>2, FinishMaps
<1>10. CASE Attempt(p)
  <2> DEFINE f == [First(p) EXCEPT !.attempts = @ + 1]
  <2>1. q # <<>> /\ First(p).child = None
    BY <1>10 DEF Attempt, CanAttempt
  <2>2. f \in Fire /\ f.key = First(p).key /\ f.child = None
    BY <1>4, <2>1 DEF Fire
  <2>3. Work(p, f) /\ UNCHANGED <<disk, lock, fired, final, tries>>
    BY <1>10 DEF Attempt, ghost
  <2> HIDE DEF f
  <2> QED BY <1>2, <2>1, <2>2, <2>3, WorkMaps
<1>11. CASE Send(p)
  <2>1. PICK sent \in BOOLEAN, ok \in BOOLEAN :
          /\ ok => sent
          /\ tries' = IF sent THEN AddOne(tries, First(p).key) ELSE tries
          /\ Finish(p, First(p), ok)
    BY <1>11 DEF Send
  <2>2. UNCHANGED <<job, now, disk, lock, fired>> /\ pc[p] = "act"
    BY <1>11 DEF Send
  <2> QED BY <1>2, <1>5, <1>7, <2>1, <2>2, FinishMaps
<1>12. CASE Create(p)
  <2> DEFINE f == [First(p) EXCEPT !.item = TRUE]
  <2>1. q # <<>> /\ First(p).attempts >= 1 /\ UNCHANGED <<job, now, disk, lock, fired, tries>>
    BY <1>5, <1>12 DEF Create
  <2>2. CASE Finish(p, First(p), FALSE)
    BY <1>2, <2>1, <2>2, FinishMaps
  <2>3. CASE Work(p, f) /\ UNCHANGED final
    <3>1. f \in Fire /\ f.key = First(p).key /\ f.child = First(p).child
      BY <1>4, <2>1 DEF Fire
    <3>2. Work(p, f)
      BY <2>3
    <3> HIDE DEF f
    <3> QED BY <1>2, <1>4, <2>1, <2>3, <3>1, <3>2, WorkMaps
  <2> QED BY <1>12, <2>2, <2>3 DEF Create
<1>13. CASE Go(p)
  <2>1. PICK ok \in BOOLEAN : Finish(p, First(p), ok)
    BY <1>13 DEF Go
  <2>2. /\ UNCHANGED <<job, now, disk, lock, fired>> /\ pc[p] = "act"
        /\ tries' = AddOne(tries, First(p).key)
    BY <1>13 DEF Go
  <2> QED BY <1>2, <1>5, <1>7, <2>1, <2>2, FinishMaps
<1>14. CASE Spawn(p)
  <2>1. q # <<>> /\ First(p).attempts >= 1 /\ UNCHANGED <<job, now, disk, lock, fired>>
    BY <1>5, <1>14 DEF Spawn
  <2>2. CASE Finish(p, First(p), FALSE) /\ UNCHANGED tries
    BY <1>2, <2>1, <2>2, FinishMaps
  <2>3. ASSUME NEW c \in Children, Work(p, [First(p) EXCEPT !.child = c]),
               tries' = AddOne(tries, First(p).key), UNCHANGED final
        PROVE  [Q!QNext]_Q!qvars /\ AllRan'
    <3> DEFINE f == [First(p) EXCEPT !.child = c]
    <3>1. f \in Fire /\ f.key = First(p).key
      BY <1>4, <2>1 DEF Fire
    <3>2. Work(p, f)
      BY <2>3
    <3> HIDE DEF f
    <3> QED BY <1>2, <1>7, <2>1, <2>3, <3>1, <3>2, WorkMaps
  <2> QED BY <1>14, <2>2, <2>3 DEF Spawn
<1>15. CASE HarvestRead(p)
  <2>1. /\ q # <<>> /\ First(p).child # None
        /\ UNCHANGED <<job, now, disk, lock, fired, tries>>
    BY <1>15 DEF HarvestRead
  <2>2. Collect(p) \/ UNCHANGED <<mem, final>>
    BY <1>15 DEF HarvestRead
  <2> QED BY <1>8, <1>9, <2>1, <2>2
<1>16. CASE HarvestLook(p)
  <2>1. /\ q # <<>> /\ First(p).child # None
        /\ UNCHANGED <<job, now, disk, lock, fired, tries>>
    BY <1>6, <1>16 DEF HarvestLook
  <2>2. \/ Collect(p) \/ UNCHANGED <<mem, final>>
        \/ Finish(p, [First(p) EXCEPT !.child = None], FALSE)
    BY <1>16 DEF HarvestLook
  <2>3. CASE Finish(p, [First(p) EXCEPT !.child = None], FALSE)
    <3>1. [First(p) EXCEPT !.child = None].attempts >= 1
      BY <1>4, <2>1 DEF Fire
    <3> QED BY <1>2, <2>1, <2>3, <3>1, FinishMaps
  <2> QED BY <1>8, <1>9, <2>1, <2>2, <2>3
<1>17. CASE WriteBack(p)
  <2>1. /\ disk' = mem[p] /\ lock' = None /\ UNCHANGED <<fired, final, tries>>
    BY <1>17 DEF WriteBack, ghost
  <2>2. None \notin Passes /\ Queue' = q
    BY <1>3, <2>1, JobsAssumption DEF Queue, Procs
  <2>3. KeySeq(disk.pending)' = KeySeq(Queue) /\ KeySeq(Queue)' = KeySeq(Queue)
    BY <1>3, <2>1, <2>2 DEF KeySeq
  <2>4. Q!Close
    BY <1>2, <2>1, <2>2, <2>3 DEF Q!Close
  <2>5. AllRan'
    BY <1>3, <2>1, <2>2 DEF AllRan, Ran
  <2> QED BY <2>4, <2>5 DEF Q!QNext
<1> QED BY <1>10, <1>11, <1>12, <1>13, <1>14, <1>15, <1>16, <1>17 DEF Drain

\* A pass that looks opens the queue, behind what its trigger fired.
LEMMA LookMaps ==
  ASSUME IInv, History, AllRan, NEW p \in Passes, Look(p)
  PROVE  [Q!QNext]_Q!qvars /\ AllRan'
<1>1. PICK s \in State, keys \in Seq(Keys) : s.pending = disk.pending /\ Enqueue(p, s, keys)
  BY LookMoves
<1>2. PICK r : r = s.pending \o [i \in DOMAIN keys |-> NewFire(keys[i])]
  OBVIOUS
<1>3. /\ s.pending \in Seq(Fire) /\ p \in Procs /\ mem \in [Procs -> State]
  BY DEF State, IInv, TypeOK, Procs
<1>4. /\ r \in Seq(Fire) /\ KeySeq(r) = KeySeq(s.pending) \o keys
      /\ SubSeq(KeySeq(r), Len(KeySeq(s.pending)) + 1, Len(KeySeq(r))) = keys
      /\ Ran(s.pending) => Ran(r)
  BY <1>2, <1>3, MoreKeys
<1>5. /\ lock = None /\ lock' = p /\ fired' = fired \o keys
      /\ disk' = [s EXCEPT !.pending = r] /\ mem' = [mem EXCEPT ![p] = disk']
      /\ UNCHANGED <<tries, final>>
  BY <1>1, <1>2 DEF Enqueue
<1>6. disk'.pending = r /\ mem'[p].pending = r
  BY <1>3, <1>5 DEF State
<1>7. Queue' = r /\ Queue = s.pending /\ None \notin Passes
  BY <1>1, <1>5, <1>6, JobsAssumption DEF Queue, Procs
<1>8. /\ KeySeq(disk.pending)' = KeySeq(r) /\ KeySeq(Queue)' = KeySeq(r)
      /\ KeySeq(disk.pending) = KeySeq(s.pending)
  BY <1>1, <1>6, <1>7 DEF KeySeq
<1>9. Q!Open
  BY <1>4, <1>5, <1>7, <1>8 DEF Q!Open
<1>10. AllRan'
  BY <1>1, <1>4, <1>5, <1>6, <1>7 DEF AllRan, Ran
<1> QED BY <1>9, <1>10 DEF Q!QNext

\* Every step of a job is a step of its queue, or none.
LEMMA NextMaps == IInv /\ History /\ AllRan /\ [Next]_vars => [Q!QNext]_Q!qvars /\ AllRan'
<1> SUFFICES ASSUME IInv, History, AllRan, [Next]_vars PROVE [Q!QNext]_Q!qvars /\ AllRan'
  OBVIOUS
<1>0. /\ Operator \in Procs /\ Operator \notin Passes /\ None \notin Passes
      /\ disk \in State /\ mem \in [Procs -> State]
  BY JobsAssumption DEF IInv, TypeOK, Procs
<1>1. ASSUME lock \notin Passes, lock' \notin Passes, disk'.pending = disk.pending,
             UNCHANGED <<fired, final, tries>>
      PROVE  [Q!QNext]_Q!qvars /\ AllRan'
  <2>1. Queue' = Queue
    BY <1>1 DEF Queue
  <2> QED BY <1>1, <2>1, StutterMaps
<1>2. ASSUME UNCHANGED <<disk, lock, mem, fired, final, tries>>
      PROVE  [Q!QNext]_Q!qvars /\ AllRan'
  <2>1. Queue' = Queue
    BY <1>2 DEF Queue
  <2> QED BY <1>2, <2>1, StutterMaps
<1>3. ASSUME NEW p \in Passes, PollFails(p) PROVE [Q!QNext]_Q!qvars /\ AllRan'
  <2>1. disk' = Opened /\ lock = None /\ UNCHANGED <<lock, ghost>>
    BY <1>3 DEF PollFails
  <2>2. Opened.pending = disk.pending
    BY OpenedType
  <2> QED BY <1>0, <1>1, <2>1, <2>2 DEF ghost
<1>4. CASE RunNow
  BY <1>0, <1>1, <1>4 DEF RunNow, ghost
<1>5. CASE RunNowRecords
  <2>1. lock = Operator /\ lock' = None /\ UNCHANGED ghost
    BY <1>0, <1>5 DEF RunNowRecords, IInv, Exclusive
  <2>2. PICK a, b : disk' = [disk EXCEPT !.lastSlot = a, !.lastDone = b]
    BY <1>5 DEF RunNowRecords
  <2>3. disk'.pending = disk.pending
    BY <1>0, <2>2 DEF State
  <2> QED BY <1>0, <1>1, <2>1, <2>3 DEF ghost
<1>6. ASSUME NEW p \in Procs, Crash(p) PROVE [Q!QNext]_Q!qvars /\ AllRan'
  <2>1. lock = p /\ lock' = None /\ UNCHANGED <<disk, ghost>>
    BY <1>6 DEF Crash
  <2>2. CASE p \in Passes
    <3>1. Queue' = disk.pending
      BY <1>0, <2>1 DEF Queue
    <3>2. KeySeq(disk.pending)' = KeySeq(disk.pending) /\ KeySeq(Queue)' = KeySeq(disk.pending)
      BY <2>1, <3>1 DEF KeySeq
    <3>3. Q!Die
      BY <1>0, <2>1, <2>2, <3>2 DEF Q!Die, ghost
    <3>4. AllRan'
      BY <2>1, <3>1 DEF AllRan, Ran, ghost
    <3> QED BY <3>3, <3>4 DEF Q!QNext
  <2>3. CASE p \notin Passes
    BY <1>0, <1>1, <2>1, <2>3 DEF ghost
  <2> QED BY <2>2, <2>3
<1>7. CASE World
  <2>1. UNCHANGED <<disk, lock, mem, ghost>>
    BY <1>7 DEF World, ClockTicks, Arrives, Closes, Reopens, ChildExits, ChildDies
  <2> QED BY <1>2, <2>1 DEF ghost
<1>8. CASE UNCHANGED vars
  BY <1>2, <1>8 DEF vars, ghost
<1>9. ASSUME NEW p \in Passes, Pass(p) PROVE [Q!QNext]_Q!qvars /\ AllRan'
  <2>1. CASE Lists(p) \/ Skips(p)
    BY <1>2, <2>1 DEF Lists, Skips, ghost
  <2> QED BY <1>3, <1>9, <2>1, LookMaps, DrainMaps DEF Pass
<1> QED BY <1>4, <1>5, <1>6, <1>7, <1>8, <1>9 DEF Next

\* jobs.py refines the queue of module Firings: whatever passes overlap, die, fail or
\* leave runners behind, a firing is durable before it is attempted, is attempted at the
\* head only, and leaves from the head, with an outcome, ok only if it was carried out.
THEOREM FiringsAreServed == Spec => FiringsServed
<1>1. ASSUME Init PROVE Q!QInit /\ AllRan
  <2>1. lock = None /\ None \notin Passes /\ disk.pending = <<>> /\ Queue = <<>>
    BY <1>1, JobsAssumption DEF Init, Queue, NoState, Procs
  <2>2. KeySeq(<<>>) = <<>> /\ Ran(<<>>)
    BY DEF KeySeq, Ran
  <2>3. DOMAIN tries = {}
    BY <1>1 DEF Init
  <2> QED BY <1>1, <2>1, <2>2, <2>3 DEF Init, Q!QInit, AllRan
<1>2. Init => IInv /\ History
  BY InitEstablishes, InitHistory
<1>3. IInv /\ History /\ [Next]_vars => (IInv /\ History)'
  BY NextKeeps, NextKeepsHistory
<1> QED BY <1>1, <1>2, <1>3, NextMaps, PTL DEF Spec, FiringsServed, Q!QSpec
=============================================================================
