----------------------------- MODULE JobsProofs -----------------------------
(***************************************************************************)
(* Jobs, for every number of passes, runners, events and crashes: the      *)
(* state keeps its type, a job is worked on by the holder of its lock      *)
(* only, and no firing that was made durable is lost.                      *)
(*                                                                         *)
(* The last is not inductive by itself: WriteBack replaces the queue on    *)
(* disk by a pass's own copy, so the invariant also says that the copy of  *)
(* the pass that holds the lock still has every durable firing it did not  *)
(* finish (CopyKeeps), and typing a retry's time needs that a firing has   *)
(* been attempted when it is finished (Attempted).                         *)
(***************************************************************************)
EXTENDS Jobs, SequenceTheorems, FiniteSetTheorems, TLAPS

\* The labels of a pass that has enqueued and not yet written back.
InDrain == {"drain", "act", "look", "write"}

\* A firing that a runner was started for has been attempted.
Begun(q) == \A i \in DOMAIN q : q[i].child # None => q[i].attempts >= 1

\* So it is on disk and in every copy, and of the firing a pass is working on.
Attempted ==
  /\ Begun(disk.pending)
  /\ \A p \in Procs :
       /\ Begun(mem[p].pending)
       /\ pc[p] = "act"  => mem[p].pending # <<>> /\ First(p).attempts >= 1
       /\ pc[p] = "look" => mem[p].pending # <<>> /\ First(p).child # None

\* The copy of the lock's holder has every durable firing it did not finish.
CopyKeeps ==
  \A p \in Passes : lock = p =>
    KeysOf(disk.pending) \subseteq KeysOf(mem[p].pending) \union DOMAIN final

IInv == TypeOK /\ Exclusive /\ Attempted /\ CopyKeeps /\ NothingLost

-----------------------------------------------------------------------------
(* The queue: taking its head off, replacing the head, appending firings.   *)

\* Taking the head off a queue leaves a queue, without the head's key at most.
LEMMA TailOfQueue ==
  ASSUME NEW q \in Seq(Fire), q # <<>>
  PROVE  /\ Tail(q) \in Seq(Fire)
         /\ KeysOf(q) \subseteq KeysOf(Tail(q)) \union {q[1].key}
         /\ Begun(q) => Begun(Tail(q))
<1> DEFINE t == Tail(q)
<1>1. /\ t \in Seq(Fire) /\ Len(t) = Len(q) - 1
      /\ \A i \in 1 .. Len(t) : t[i] = q[i + 1]
  BY HeadTailProperties
<1>2. /\ Len(q) \in Nat /\ DOMAIN q = 1 .. Len(q)
      /\ Len(t) \in Nat /\ DOMAIN t = 1 .. Len(t)
  BY <1>1, LenProperties
<1> HIDE DEF t
<1>3. \A i \in DOMAIN q : i = 1 \/ (i - 1 \in DOMAIN t /\ q[i] = t[i - 1])
  BY <1>1, <1>2
<1>4. KeysOf(q) \subseteq KeysOf(t) \union {q[1].key}
  BY <1>3 DEF KeysOf
<1>5. Begun(q) => Begun(t)
  BY <1>1, <1>2 DEF Begun
<1> QED BY <1>1, <1>4, <1>5 DEF t

\* The head of a queue that is not empty is a firing.
LEMMA HeadOfQueue ==
  ASSUME NEW q \in Seq(Fire), q # <<>>
  PROVE  /\ q[1] \in Fire /\ 1 \in DOMAIN q
         /\ q[1].key \in Keys /\ q[1].attempts \in Nat
         /\ q[1].child \in Children \union {None}
<1>1. Len(q) \in Nat \ {0} /\ DOMAIN q = 1 .. Len(q)
  BY EmptySeq, LenProperties
<1>2. q[1] \in Fire
  BY <1>1, ElementOfSeq
<1> QED BY <1>1, <1>2 DEF Fire

\* Replacing the head by a firing of the same key keeps the queue and its keys.
LEMMA ReplaceHead ==
  ASSUME NEW q \in Seq(Fire), q # <<>>,
         NEW f \in Fire, f.key = q[1].key
  PROVE  LET r == [q EXCEPT ![1] = f]
         IN /\ r \in Seq(Fire) /\ r # <<>> /\ r[1] = f
            /\ KeysOf(r) = KeysOf(q)
            /\ (Begun(q) /\ (f.child # None => f.attempts >= 1)) => Begun(r)
<1> DEFINE r == [q EXCEPT ![1] = f]
<1>1. Len(q) \in Nat \ {0} /\ DOMAIN q = 1 .. Len(q)
  BY EmptySeq, LenProperties
<1>2. /\ r \in Seq(Fire) /\ Len(r) = Len(q)
      /\ \A j \in 1 .. Len(q) : r[j] = IF j = 1 THEN f ELSE q[j]
  BY <1>1, ExceptSeq
<1>3. DOMAIN r = DOMAIN q
  BY <1>1, <1>2
<1>4. r # <<>>
  BY <1>1, <1>2, EmptySeq
<1> HIDE DEF r
<1>5. r[1] = f
  BY <1>1, <1>2
<1>6. \A j \in DOMAIN q : r[j].key = q[j].key
  BY <1>1, <1>2
<1>7. KeysOf(r) = KeysOf(q)
  BY <1>3, <1>6 DEF KeysOf
<1>8. (Begun(q) /\ (f.child # None => f.attempts >= 1)) => Begun(r)
  BY <1>1, <1>2, <1>3 DEF Begun
<1> QED BY <1>2, <1>4, <1>5, <1>7, <1>8 DEF r

\* Appending new firings keeps those that are there; none of the new was attempted.
LEMMA AppendFirings ==
  ASSUME NEW q \in Seq(Fire), NEW keys \in Seq(Keys)
  PROVE  LET new == [i \in DOMAIN keys |-> NewFire(keys[i])]
         IN /\ q \o new \in Seq(Fire)
            /\ KeysOf(q \o new) = KeysOf(q) \union Range(keys)
            /\ Begun(q) => Begun(q \o new)
<1> DEFINE new == [i \in DOMAIN keys |-> NewFire(keys[i])]
           r   == q \o new
<1>1. Len(keys) \in Nat /\ DOMAIN keys = 1 .. Len(keys)
  BY LenProperties
<1>2. \A i \in DOMAIN keys : NewFire(keys[i]) \in Fire
  BY <1>1, ElementOfSeq DEF NewFire, Fire
<1>3. new \in Seq(Fire) /\ Len(new) = Len(keys) /\ DOMAIN new = 1 .. Len(keys)
  BY <1>1, <1>2
<1>4. Len(q) \in Nat /\ DOMAIN q = 1 .. Len(q)
  BY LenProperties
<1>5. /\ r \in Seq(Fire) /\ Len(r) = Len(q) + Len(keys)
      /\ \A i \in 1 .. Len(q) + Len(keys) :
           r[i] = IF i <= Len(q) THEN q[i] ELSE new[i - Len(q)]
  BY <1>3, ConcatProperties
<1>6. DOMAIN r = 1 .. Len(q) + Len(keys)
  BY <1>5, LenProperties
<1>7. \A i \in 1 .. Len(keys) : new[i] = NewFire(keys[i])
  BY <1>1
<1> HIDE DEF new, r
<1>8a. \A i \in DOMAIN q : i \in DOMAIN r /\ r[i] = q[i]
  BY <1>1, <1>4, <1>5, <1>6
<1>8b. \A i \in DOMAIN keys : /\ Len(q) + i \in DOMAIN r
                              /\ r[Len(q) + i] = NewFire(keys[i])
  <2> TAKE i \in DOMAIN keys
  <2>1. Len(q) + i \in DOMAIN r /\ ~(Len(q) + i <= Len(q)) /\ Len(q) + i - Len(q) = i
    BY <1>1, <1>4, <1>6
  <2> QED BY <2>1, <1>1, <1>5, <1>6, <1>7
<1>8c. \A i \in DOMAIN r : \/ i \in DOMAIN q /\ r[i] = q[i]
                           \/ i - Len(q) \in DOMAIN keys /\ r[i] = NewFire(keys[i - Len(q)])
  <2> TAKE i \in DOMAIN r
  <2>1. CASE i <= Len(q)
    BY <2>1, <1>4, <1>5, <1>6
  <2>2. CASE ~(i <= Len(q))
    <3>1. i - Len(q) \in 1 .. Len(keys)
      BY <2>2, <1>1, <1>4, <1>6
    <3> QED BY <3>1, <2>2, <1>1, <1>5, <1>6, <1>7
  <2> QED BY <2>1, <2>2
<1>8. \A i \in DOMAIN keys : NewFire(keys[i]).key = keys[i] /\ NewFire(keys[i]).child = None
  BY DEF NewFire
<1>9. KeysOf(r) \subseteq KeysOf(q) \union Range(keys)
  BY <1>8, <1>8c DEF KeysOf, Range
<1>10. KeysOf(q) \subseteq KeysOf(r)
  BY <1>8a DEF KeysOf
<1>11. Range(keys) \subseteq KeysOf(r)
  <2> SUFFICES ASSUME NEW i \in DOMAIN keys PROVE keys[i] \in KeysOf(r)
    BY DEF Range
  <2>1. Len(q) + i \in DOMAIN r /\ r[Len(q) + i].key = keys[i]
    BY <1>8, <1>8b
  <2> QED BY <2>1 DEF KeysOf
<1>12. Begun(q) => Begun(r)
  BY <1>8, <1>8a, <1>8c DEF Begun
<1> QED BY <1>5, <1>9, <1>10, <1>11, <1>12 DEF r, new

-----------------------------------------------------------------------------
(* What all steps of a kind have in common.                                 *)

\* A step of the pass p that holds the lock: only its copy, its place and what
\* lies outside the durable state change, and every firing that leaves the copy
\* has been finished.
CopyStep(p) ==
  /\ lock = p
  /\ UNCHANGED <<job, now, world, cache, disk, lock, fired, seed, faults>>
  /\ DOMAIN final \subseteq DOMAIN final'
  /\ child' \in [Children -> Statuses]
  /\ result' \in {None} \union [by : Children, ok : BOOLEAN]
  /\ honest' \in BOOLEAN
  /\ \E m \in State, l \in InDrain :
       /\ mem' = [mem EXCEPT ![p] = m] /\ pc' = [pc EXCEPT ![p] = l]
       /\ Begun(m.pending)
       /\ KeysOf(mem[p].pending) \subseteq KeysOf(m.pending) \union DOMAIN final'
       /\ l = "act"  => m.pending # <<>> /\ m.pending[1].attempts >= 1
       /\ l = "look" => m.pending # <<>> /\ m.pending[1].child # None

\* A step in which the lock's holder changes its own copy and finishes what it drops.
LEMMA CopyStepKeeps ==
  ASSUME IInv, NEW p \in Passes, CopyStep(p)
  PROVE  IInv'
<1> PICK m \in State, l \in InDrain :
      /\ mem' = [mem EXCEPT ![p] = m] /\ pc' = [pc EXCEPT ![p] = l]
      /\ Begun(m.pending)
      /\ KeysOf(mem[p].pending) \subseteq KeysOf(m.pending) \union DOMAIN final'
      /\ l = "act"  => m.pending # <<>> /\ m.pending[1].attempts >= 1
      /\ l = "look" => m.pending # <<>> /\ m.pending[1].child # None
  BY DEF CopyStep
<1>1. /\ p \in Procs /\ lock = p
      /\ UNCHANGED <<job, now, world, cache, disk, lock, fired, seed, faults>>
      /\ DOMAIN final \subseteq DOMAIN final'
  BY DEF CopyStep, Procs
<1>2. /\ mem \in [Procs -> State] /\ pc \in [Procs -> Labels]
  BY DEF IInv, TypeOK
<1>3. /\ mem' \in [Procs -> State] /\ pc' \in [Procs -> Labels]
      /\ mem'[p] = m /\ pc'[p] = l
      /\ \A q \in Procs : q # p => mem'[q] = mem[q] /\ pc'[q] = pc[q]
  BY <1>1, <1>2 DEF InDrain, Labels
<1>4. TypeOK'
  BY <1>1, <1>3 DEF IInv, TypeOK, CacheOK, cache, CopyStep, world, faults
<1>5. Exclusive'
  BY <1>1, <1>3 DEF IInv, Exclusive, InDrain
<1>6. Attempted'
  BY <1>1, <1>3 DEF IInv, Attempted, First
<1>7. CopyKeeps'
  BY <1>1, <1>3 DEF IInv, CopyKeeps
<1>8. NothingLost'
  BY <1>1 DEF IInv, NothingLost
<1> QED BY <1>4, <1>5, <1>6, <1>7, <1>8 DEF IInv

\* A pass begins: it takes the lock and makes what fired durable.
LEMMA EnqueueKeeps ==
  ASSUME IInv, NEW p \in Passes, NEW s \in State, NEW keys \in Seq(Keys),
         s.pending = disk.pending, Enqueue(p, s, keys),
         seed' \in Nat \union {None},
         crashes' \in 0 .. MaxCrashes, timeouts' \in 0 .. MaxTimeouts, CacheOK'
  PROVE  IInv'
<1> DEFINE q  == s.pending \o [i \in DOMAIN keys |-> NewFire(keys[i])]
           st == [s EXCEPT !.pending = q]
<1>1. /\ s.pending \in Seq(Fire) /\ fired \in Seq(Keys) /\ p \in Procs
      /\ mem \in [Procs -> State] /\ pc \in [Procs -> Labels]
  BY DEF IInv, TypeOK, State, Procs
<1>2. /\ q \in Seq(Fire) /\ KeysOf(q) = KeysOf(s.pending) \union Range(keys)
      /\ Begun(s.pending) => Begun(q)
  BY <1>1, AppendFirings
<1>3. /\ fired \o keys \in Seq(Keys)
      /\ Range(fired \o keys) \subseteq Range(fired) \union Range(keys)
  <2>1. /\ fired \o keys \in Seq(Keys) /\ Len(fired \o keys) = Len(fired) + Len(keys)
        /\ \A i \in 1 .. Len(fired) + Len(keys) : (fired \o keys)[i] =
             IF i <= Len(fired) THEN fired[i] ELSE keys[i - Len(fired)]
    BY <1>1, ConcatProperties
  <2>2. /\ DOMAIN (fired \o keys) = 1 .. Len(fired) + Len(keys)
        /\ Len(fired) \in Nat /\ DOMAIN fired = 1 .. Len(fired)
        /\ Len(keys) \in Nat /\ DOMAIN keys = 1 .. Len(keys)
    BY <1>1, <2>1, LenProperties
  <2>3. ASSUME NEW i \in DOMAIN (fired \o keys)
        PROVE  (fired \o keys)[i] \in Range(fired) \union Range(keys)
    <3>1. CASE i <= Len(fired)
      BY <3>1, <2>1, <2>2 DEF Range
    <3>2. CASE ~(i <= Len(fired))
      <4>1. i - Len(fired) \in DOMAIN keys
        BY <3>2, <2>2
      <4> QED BY <4>1, <3>2, <2>1, <2>2 DEF Range
    <3> QED BY <3>1, <3>2
  <2> QED BY <2>1, <2>3 DEF Range
<1> HIDE DEF q
<1>4. /\ st \in State /\ st.pending = q
  BY <1>2 DEF State
<1>5. /\ pc[p] = "idle" /\ lock = None /\ lock' = p /\ disk' = st
      /\ mem' = [mem EXCEPT ![p] = st] /\ pc' = [pc EXCEPT ![p] = "drain"]
      /\ fired' = fired \o keys
      /\ UNCHANGED <<job, now, world, result, child, final, honest>>
  BY DEF Enqueue, q
<1> HIDE DEF st
<1>6. /\ mem' \in [Procs -> State] /\ pc' \in [Procs -> Labels]
      /\ mem'[p] = st /\ pc'[p] = "drain"
      /\ \A r \in Procs : r # p => mem'[r] = mem[r] /\ pc'[r] = pc[r]
  BY <1>1, <1>4, <1>5 DEF Labels
<1>7. TypeOK'
  BY <1>1, <1>3, <1>4, <1>5, <1>6 DEF IInv, TypeOK, world
<1>8. Exclusive'
  BY <1>1, <1>5, <1>6, JobsAssumption DEF IInv, Exclusive
<1>9. Begun(q)
  BY <1>2 DEF IInv, Attempted
<1>10. Attempted'
  BY <1>4, <1>5, <1>6, <1>9 DEF IInv, Attempted, First
<1>11. CopyKeeps'
  BY <1>1, <1>4, <1>5, <1>6 DEF CopyKeeps
<1>12. NothingLost'
  BY <1>2, <1>3, <1>4, <1>5 DEF IInv, NothingLost
<1> QED BY <1>7, <1>8, <1>10, <1>11, <1>12 DEF IInv

\* The three ways an attempt is settled.
LEMMA FinishIsCopyStep ==
  ASSUME IInv, NEW p \in Passes, lock = p, mem[p].pending # <<>>,
         NEW f \in Fire, f.key = First(p).key, f.attempts >= 1,
         NEW ok \in BOOLEAN, Finish(p, f, ok),
         UNCHANGED <<job, now, world, cache, disk, lock, fired, seed, faults>>,
         child' \in [Children -> Statuses],
         result' \in {None} \union [by : Children, ok : BOOLEAN],
         honest' \in BOOLEAN
  PROVE  CopyStep(p)
<1> DEFINE q == mem[p].pending
<1>1. /\ p \in Procs /\ mem \in [Procs -> State] /\ mem[p] \in State
      /\ q \in Seq(Fire) /\ now \in Time /\ now \in Nat /\ Begun(q)
      /\ job \in JobFiles /\ job \in Job
  BY JobsAssumption DEF IInv, TypeOK, Attempted, State, Procs, Time
<1>2. f.attempts \in Nat /\ First(p) = q[1]
  BY DEF Fire, First
<1>3. CASE Retry(p, f)
  <2> DEFINE later == now + Backoff * 2 ^ (f.attempts - 1)
             g == [f EXCEPT !.retryAt = later]
             m == [mem[p] EXCEPT !.pending = [q EXCEPT ![1] = g]]
  <2>1. later \in Nat
    <3>1. f.attempts - 1 \in 0 .. job.retryMax
      BY <1>1, <1>2, <1>3 DEF Retry, Job
    <3>2. 2 ^ (f.attempts - 1) \in Nat
      BY <1>1, <3>1, DoublingAssumption
    <3>3. \A a, b \in Nat : a * b \in Nat
      OBVIOUS
    <3>4. Backoff * 2 ^ (f.attempts - 1) \in Nat
      BY <3>2, <3>3, JobsAssumption
    <3> QED BY <1>1, <3>4
  <2> HIDE DEF later
  <2>2. g \in Fire /\ g.key = q[1].key /\ g.attempts >= 1
    BY <1>2, <2>1 DEF Fire
  <2> HIDE DEF g
  <2>3. /\ [q EXCEPT ![1] = g] \in Seq(Fire)
        /\ KeysOf([q EXCEPT ![1] = g]) = KeysOf(q) /\ Begun([q EXCEPT ![1] = g])
    BY <1>1, <2>2, ReplaceHead
  <2>4. /\ m \in State /\ Begun(m.pending) /\ KeysOf(q) = KeysOf(m.pending)
    BY <1>1, <2>3 DEF State
  <2>5. /\ mem' = [mem EXCEPT ![p] = m] /\ pc' = [pc EXCEPT ![p] = "drain"]
        /\ final' = final
    BY <1>1, <1>3 DEF Retry, Work, At, later, g, State
  <2> HIDE DEF m
  <2> QED BY <2>4, <2>5 DEF CopyStep, InDrain
<1>4. ASSUME Popped(p, f), At(p, "drain"), NEW how, Record(f, how)
      PROVE  CopyStep(p)
  <2> DEFINE m == [mem[p] EXCEPT !.pending = Tail(q), !.lastDone = now]
  <2>1. /\ Tail(q) \in Seq(Fire) /\ Begun(Tail(q))
        /\ KeysOf(q) \subseteq KeysOf(Tail(q)) \union {f.key}
    BY <1>1, <1>2, TailOfQueue
  <2>2. m \in State /\ m.pending = Tail(q)
    BY <1>1, <2>1 DEF State
  <2>3. mem' = [mem EXCEPT ![p] = m] /\ pc' = [pc EXCEPT ![p] = "drain"]
    BY <1>1, <1>4 DEF Popped, At, State
  <2>4. DOMAIN final' = DOMAIN final \union {f.key}
    BY <1>4 DEF Record
  <2> HIDE DEF m
  <2> QED BY <2>1, <2>2, <2>3, <2>4 DEF CopyStep, InDrain
<1>5. CASE Succeed(p, f)
  BY <1>4, <1>5 DEF Succeed
<1>6. CASE GiveUp(p, f)
  BY <1>4, <1>6 DEF GiveUp
<1> QED BY <1>3, <1>5, <1>6 DEF Finish

\* A step that only replaces the head of the copy by f and moves on to label l.
LEMMA WorkIsCopyStep ==
  ASSUME IInv, NEW p \in Passes, lock = p, mem[p].pending # <<>>,
         NEW f \in Fire, f.key = First(p).key, f.attempts >= 1,
         NEW l \in InDrain, l = "look" => f.child # None,
         Work(p, f), At(p, l),
         UNCHANGED <<job, now, world, cache, disk, lock, fired, final, seed, faults>>,
         child' \in [Children -> Statuses],
         result' \in {None} \union [by : Children, ok : BOOLEAN],
         honest' \in BOOLEAN
  PROVE  CopyStep(p)
<1> DEFINE q == mem[p].pending
           m == [mem[p] EXCEPT !.pending = [q EXCEPT ![1] = f]]
<1>1. /\ p \in Procs /\ mem \in [Procs -> State] /\ mem[p] \in State
      /\ q \in Seq(Fire) /\ Begun(q)
  BY DEF IInv, TypeOK, Attempted, State, Procs
<1>2. /\ [q EXCEPT ![1] = f] \in Seq(Fire) /\ [q EXCEPT ![1] = f] # <<>>
      /\ [q EXCEPT ![1] = f][1] = f
      /\ KeysOf([q EXCEPT ![1] = f]) = KeysOf(q) /\ Begun([q EXCEPT ![1] = f])
  BY <1>1, ReplaceHead DEF First
<1>3. /\ m \in State /\ m.pending = [q EXCEPT ![1] = f]
  BY <1>1, <1>2 DEF State
<1>4. mem' = [mem EXCEPT ![p] = m] /\ pc' = [pc EXCEPT ![p] = l]
  BY <1>1 DEF Work, At, State
<1> HIDE DEF m
<1> QED BY <1>2, <1>3, <1>4 DEF CopyStep

\* A step that leaves the copy alone and moves on to label l.
LEMMA PlainCopyStep ==
  ASSUME IInv, NEW p \in Passes, lock = p, NEW l \in InDrain,
         At(p, l), l # "act",
         l = "look" => mem[p].pending # <<>> /\ First(p).child # None,
         UNCHANGED <<job, now, world, cache, disk, lock, mem, child, result, ghost, faults>>
  PROVE  CopyStep(p)
<1>1. /\ p \in Procs /\ mem \in [Procs -> State] /\ mem[p] \in State
      /\ Begun(mem[p].pending)
  BY DEF IInv, TypeOK, Attempted, Procs
<1>2. mem' = [mem EXCEPT ![p] = mem[p]] /\ pc' = [pc EXCEPT ![p] = l]
  BY <1>1 DEF At
<1>3. /\ child' \in [Children -> Statuses] /\ honest' \in BOOLEAN
      /\ result' \in {None} \union [by : Children, ok : BOOLEAN]
      /\ UNCHANGED <<job, now, world, cache, disk, lock, fired, final, seed, faults>>
  BY DEF IInv, TypeOK, CacheOK, cache, ghost
<1> QED BY <1>1, <1>2, <1>3 DEF CopyStep, First

-----------------------------------------------------------------------------
(* The steps of a pass.                                                     *)

\* The state of a job that has no file yet is a state, with nothing begun.
LEMMA EmptyState == NoState \in State /\ Begun(NoState.pending)
<1>1. <<>> \in Seq(Fire) /\ DOMAIN <<>> = {}
  BY EmptySeq
<1> QED BY <1>1 DEF NoState, State, Begun

\* Settling the attempt at the head, with or without its mark of a runner.
LEMMA UnmarkedFinish ==
  ASSUME IInv, NEW p \in Passes, lock = p, mem[p].pending # <<>>,
         First(p) \in Fire, First(p).attempts >= 1,
         NEW f, f \in {First(p), [First(p) EXCEPT !.child = None]},
         NEW ok \in BOOLEAN, Finish(p, f, ok),
         UNCHANGED <<job, now, world, cache, disk, lock, fired, seed, faults>>,
         child' \in [Children -> Statuses],
         result' \in {None} \union [by : Children, ok : BOOLEAN],
         honest' \in BOOLEAN
  PROVE  IInv'
<1>1. f \in Fire /\ f.key = First(p).key /\ f.attempts >= 1
  BY DEF Fire
<1>2. CopyStep(p)
  BY <1>1, FinishIsCopyStep
<1> QED BY <1>2, CopyStepKeeps

\* Collecting a runner's result keeps the invariant.
LEMMA CollectKeeps ==
  ASSUME IInv, NEW p \in Passes, lock = p, mem[p].pending # <<>>,
         First(p) \in Fire, First(p).attempts >= 1, Collect(p),
         UNCHANGED <<job, now, world, cache, disk, lock, fired, seed, faults, child, result>>
  PROVE  IInv'
<1>1. /\ child' \in [Children -> Statuses]
      /\ result' \in {None} \union [by : Children, ok : BOOLEAN]
      /\ result # None => result.ok \in BOOLEAN
  BY DEF IInv, TypeOK
<1>2. /\ result # None
      /\ Finish(p, [First(p) EXCEPT !.child = None], result.ok)
  BY DEF Collect
<1>3. honest' \in BOOLEAN
  BY Zenon DEF Collect
<1> QED BY <1>1, <1>2, <1>3, UnmarkedFinish

\* Every step of a pass over its queue keeps the invariant.
LEMMA DrainKeeps ==
  ASSUME IInv, NEW p \in Passes, Drain(p)
  PROVE  IInv'
<1> DEFINE q == mem[p].pending
<1>1. /\ p \in Procs /\ mem \in [Procs -> State] /\ mem[p] \in State
      /\ q \in Seq(Fire) /\ child \in [Children -> Statuses]
      /\ result \in {None} \union [by : Children, ok : BOOLEAN]
      /\ honest \in BOOLEAN /\ pc \in [Procs -> Labels]
  BY DEF IInv, TypeOK, State, Procs
<1>2. pc[p] \in InDrain
  BY DEF Drain, Attempt, Send, Create, Go, Spawn, HarvestRead, HarvestLook,
         WriteBack, Stops, InDrain
<1>3. lock = p
  BY <1>1, <1>2 DEF IInv, Exclusive, InDrain
<1>4. ASSUME q # <<>>
      PROVE  /\ First(p) \in Fire /\ First(p).attempts \in Nat
             /\ First(p).child \in Children \union {None}
             /\ First(p).child # None => First(p).attempts >= 1
  BY <1>1, <1>4, HeadOfQueue DEF First, IInv, Attempted, Begun
<1>5. pc[p] = "act" => q # <<>> /\ First(p).attempts >= 1
  BY <1>1 DEF IInv, Attempted
<1>6. pc[p] = "look" => q # <<>> /\ First(p).child # None
  BY <1>1 DEF IInv, Attempted
<1>7. CASE Attempt(p)
  <2> DEFINE f == [First(p) EXCEPT !.attempts = @ + 1]
  <2>1. q # <<>>
    BY <1>7 DEF Attempt, CanAttempt
  <2>2. f \in Fire /\ f.key = First(p).key /\ f.attempts >= 1
    BY <2>1, <1>4 DEF Fire
  <2>3. /\ Work(p, f) /\ At(p, "act")
        /\ UNCHANGED <<job, now, world, cache, disk, lock, fired, final, seed, faults,
                       child, result, honest>>
    BY <1>7 DEF Attempt, ghost
  <2> HIDE DEF f
  <2>4. CopyStep(p)
    BY <1>1, <1>3, <2>1, <2>2, <2>3, WorkIsCopyStep DEF InDrain
  <2> QED BY <2>4, CopyStepKeeps
<1>8. CASE Send(p)
  <2>1. PICK ok \in BOOLEAN : Finish(p, First(p), ok)
    BY <1>8 DEF Send
  <2> QED
    BY <1>1, <1>3, <1>4, <1>5, <1>8, <2>1, UnmarkedFinish DEF Send
<1>9. CASE Create(p)
  <2> DEFINE f == [First(p) EXCEPT !.item = TRUE]
  <2>1. pc[p] = "act" /\ q # <<>> /\ First(p).attempts >= 1
    BY <1>5, <1>9 DEF Create
  <2>2. CASE Finish(p, First(p), FALSE)
    BY <1>1, <1>3, <1>4, <1>9, <2>1, <2>2, UnmarkedFinish DEF Create
  <2>3. CASE Work(p, f) /\ UNCHANGED <<pc, final, told>>
    <3>1. f \in Fire /\ f.key = First(p).key /\ f.attempts >= 1
      BY <1>4, <2>1 DEF Fire
    <3>2. At(p, "act")
      BY <1>1, <2>1, <2>3 DEF At
    <3>3. UNCHANGED <<job, now, world, cache, disk, lock, fired, final, seed, faults,
                      child, result, honest>>
      BY <1>9, <2>3 DEF Create
    <3>4. Work(p, f)
      BY <2>3
    <3> HIDE DEF f
    <3>5. CopyStep(p)
      BY <1>1, <1>3, <2>1, <3>1, <3>2, <3>3, <3>4, WorkIsCopyStep DEF InDrain
    <3> QED BY <3>5, CopyStepKeeps
  <2> QED BY <1>9, <2>2, <2>3 DEF Create
<1>10. CASE Go(p)
  <2>1. PICK ok \in BOOLEAN : Finish(p, First(p), ok)
    BY <1>10 DEF Go
  <2> QED
    BY <1>1, <1>3, <1>4, <1>5, <1>10, <2>1, UnmarkedFinish DEF Go
<1>11. CASE Spawn(p)
  <2>1. pc[p] = "act" /\ q # <<>> /\ First(p).attempts >= 1 /\ result' = None
    BY <1>5, <1>11 DEF Spawn
  <2>2. CASE Finish(p, First(p), FALSE) /\ UNCHANGED <<child, tries>>
    BY <1>1, <1>3, <1>4, <1>11, <2>1, <2>2, UnmarkedFinish DEF Spawn
  <2>3. ASSUME NEW c \in Children, child' = [child EXCEPT ![c] = "running"],
               Work(p, [First(p) EXCEPT !.child = c]), At(p, "write"),
               UNCHANGED <<final, told>>
        PROVE  IInv'
    <3> DEFINE f == [First(p) EXCEPT !.child = c]
    <3>1. f \in Fire /\ f.key = First(p).key /\ f.attempts >= 1
      BY <1>4, <2>1 DEF Fire
    <3>2. child' \in [Children -> Statuses]
      BY <1>1, <2>3 DEF Statuses
    <3>3. UNCHANGED <<job, now, world, cache, disk, lock, fired, final, seed, faults,
                      honest>>
      BY <1>11, <2>3 DEF Spawn
    <3>4. Work(p, f)
      BY <2>3
    <3> HIDE DEF f
    <3>5. CopyStep(p)
      BY <1>1, <1>3, <2>1, <2>3, <3>1, <3>2, <3>3, <3>4, WorkIsCopyStep DEF InDrain
    <3> QED BY <3>5, CopyStepKeeps
  <2> QED BY <1>11, <2>2, <2>3 DEF Spawn
<1>12. CASE HarvestRead(p)
  <2>1. q # <<>> /\ First(p).child # None
    BY <1>12 DEF HarvestRead
  <2>2. CASE Collect(p)
    BY <1>1, <1>3, <1>4, <1>12, <2>1, <2>2, CollectKeeps DEF HarvestRead, ghost
  <2>3. CASE At(p, "look") /\ UNCHANGED <<mem, final, told, honest>>
    <3>1. UNCHANGED <<job, now, world, cache, disk, lock, mem, child, result, ghost, faults>>
      BY <1>12, <2>3 DEF HarvestRead, ghost
    <3>2. CopyStep(p)
      BY <1>3, <2>1, <2>3, <3>1, PlainCopyStep DEF InDrain
    <3> QED BY <3>2, CopyStepKeeps
  <2> QED BY <1>12, <2>2, <2>3 DEF HarvestRead
<1>13. CASE HarvestLook(p)
  <2>1. q # <<>> /\ First(p).child # None
    BY <1>6, <1>13 DEF HarvestLook
  <2>2. CASE Collect(p)
    BY <1>1, <1>3, <1>4, <1>13, <2>1, <2>2, CollectKeeps DEF HarvestLook, ghost
  <2>3. CASE At(p, "write") /\ UNCHANGED <<mem, final, told, honest>>
    <3>1. UNCHANGED <<job, now, world, cache, disk, lock, mem, child, result, ghost, faults>>
      BY <1>13, <2>3 DEF HarvestLook, ghost
    <3>2. CopyStep(p)
      BY <1>3, <2>1, <2>3, <3>1, PlainCopyStep DEF InDrain
    <3> QED BY <3>2, CopyStepKeeps
  <2>4. CASE Finish(p, [First(p) EXCEPT !.child = None], FALSE) /\ UNCHANGED honest
    BY <1>1, <1>3, <1>4, <1>13, <2>1, <2>4, UnmarkedFinish DEF HarvestLook
  <2> QED BY <1>13, <2>2, <2>3, <2>4 DEF HarvestLook
<1>14. CASE WriteBack(p)
  <2>1. /\ disk' = mem[p] /\ lock' = None
        /\ mem' = [mem EXCEPT ![p] = NoState] /\ pc' = [pc EXCEPT ![p] = "idle"]
        /\ UNCHANGED <<job, now, world, cache, result, child, ghost, faults>>
    BY <1>14 DEF WriteBack, At
  <2>2. NoState \in State /\ Begun(NoState.pending)
    BY EmptyState
  <2>3. /\ mem' \in [Procs -> State] /\ pc' \in [Procs -> Labels]
        /\ mem'[p] = NoState /\ pc'[p] = "idle"
        /\ \A r \in Procs : r # p => mem'[r] = mem[r] /\ pc'[r] = pc[r]
    BY <1>1, <2>1, <2>2 DEF Labels
  <2>4. TypeOK'
    BY <1>1, <2>1, <2>3 DEF IInv, TypeOK, CacheOK, cache, world, ghost, faults
  <2>5. Exclusive'
    BY <1>1, <1>3, <2>1, <2>3, JobsAssumption DEF IInv, Exclusive
  <2>6. Attempted'
    BY <1>1, <2>1, <2>2, <2>3 DEF IInv, Attempted, First
  <2>7. CopyKeeps'
    BY <2>1, JobsAssumption DEF CopyKeeps, Procs
  <2>8. NothingLost'
    BY <1>3, <2>1 DEF IInv, NothingLost, CopyKeeps, ghost
  <2> QED BY <2>4, <2>5, <2>6, <2>7, <2>8 DEF IInv
<1> QED BY <1>7, <1>8, <1>9, <1>10, <1>11, <1>12, <1>13, <1>14 DEF Drain

\* What a poll returns in ascending order is a sequence of keys.
LEMMA AscendingIsSeq ==
  ASSUME NEW S \in SUBSET Matching, NEW keys \in Ascending(S)
  PROVE  keys \in Seq(Keys)
<1>1. IsFiniteSet(S) /\ S \subseteq Nat
  <2>1. MaxEvent \in Nat /\ S \in SUBSET (1 .. MaxEvent)
    BY JobsAssumption DEF Events
  <2>2. IsFiniteSet(1 .. MaxEvent)
    BY <2>1, FS_Interval
  <2>3. IsFiniteSet(S)
    BY <2>1, <2>2, FS_Subset
  <2> QED BY <2>1, <2>3
<1>2. Cardinality(S) \in Nat
  BY <1>1, FS_CardinalityType
<1>3. keys \in [1 .. Cardinality(S) -> S]
  BY DEF Ascending
<1>4. keys \in [1 .. Cardinality(S) -> Nat]
  BY <1>1, <1>3
<1> QED BY <1>2, <1>4, SeqDef DEF Keys

\* The state a pass starts from, with the queue that is on disk.
LEMMA OpenedType ==
  ASSUME IInv
  PROVE  /\ Opened \in State /\ Opened.pending = disk.pending
         /\ disk \in State /\ now \in Time
BY DEF IInv, TypeOK, Opened, State

\* A pass that begins and fires a sequence of keys keeps the invariant.
LEMMA FiresKeeps ==
  ASSUME IInv, NEW p \in Passes, NEW s \in State, s.pending = disk.pending,
         NEW keys \in Seq(Keys), Fires(p, s, keys), CacheOK'
  PROVE  IInv'
<1>1. /\ seed' \in Nat \union {None}
      /\ crashes' \in 0 .. MaxCrashes /\ timeouts' \in 0 .. MaxTimeouts
  BY DEF IInv, TypeOK, Fires, faults
<1> QED BY <1>1, EnqueueKeeps DEF Fires

\* A pass that begins and fires nothing keeps the invariant.
LEMMA QuietKeeps ==
  ASSUME IInv, NEW p \in Passes, NEW s \in State, s.pending = disk.pending,
         Quiet(p, s), CacheOK'
  PROVE  IInv'
<1>1. <<>> \in Seq(Keys)
  BY EmptySeq
<1> QED BY <1>1, FiresKeeps DEF Fires, Quiet

\* Evaluating the trigger leaves the lists of items well typed.
LEMMA LookCaches ==
  ASSUME IInv, NEW p \in Passes, Look(p)
  PROVE  CacheOK'
<1>1. CacheOK
  BY DEF IInv, TypeOK
<1>2. CASE UNCHANGED cache
  BY <1>1, <1>2 DEF CacheOK, cache
<1>3. ASSUME NEW moves \in BOOLEAN, Polled(p, moves)
      PROVE  CacheOK'
  <2>1. list' \in [Passes -> (SUBSET Events) \union {None}]
    BY <1>1, <1>3 DEF CacheOK, Polled
  <2>2. overtaken' \subseteq Passes /\ listings' = listings
    BY <1>1, <1>3 DEF CacheOK, Polled
  <2>3. stale' \in Nat
    BY <1>1, <1>3 DEF CacheOK, Polled
  <2> QED BY <1>1, <2>1, <2>2, <2>3 DEF CacheOK
<1> QED BY <1>2, <1>3 DEF Look, PollClosed

\* Evaluating the trigger, of whichever kind, keeps the invariant.
LEMMA LookKeeps ==
  ASSUME IInv, NEW p \in Passes, Look(p)
  PROVE  IInv'
<1>1. /\ Opened \in State /\ Opened.pending = disk.pending /\ disk \in State
      /\ now \in Time /\ top \in Nat /\ fired \in Seq(Keys) /\ closed \subseteq Events
      /\ Slots \subseteq Time /\ Time \subseteq Nat
      /\ crashes \in 0 .. MaxCrashes /\ timeouts \in 0 .. MaxTimeouts
  <2>1. /\ top \in 0 .. MaxEvent /\ fired \in Seq(Keys) /\ closed \subseteq Events
        /\ crashes \in 0 .. MaxCrashes /\ timeouts \in 0 .. MaxTimeouts
    BY DEF IInv, TypeOK
  <2>2. top \in Nat /\ Time \subseteq Nat
    BY <2>1, JobsAssumption DEF Time
  <2>3. Slots \subseteq Time
    BY JobsAssumption
  <2> QED BY <2>1, <2>2, <2>3, OpenedType
<1> CacheOK'
  BY LookCaches
<1>2. Quiet(p, Opened) => IInv'
  BY <1>1, QuietKeeps
<1>3. NextKey \in Keys /\ <<NextKey>> \in Seq(Keys) /\ <<>> \in Seq(Keys)
  BY <1>1, LenProperties DEF NextKey, Keys
<1>4. CASE StillPending(p)
  BY <1>2, <1>4 DEF StillPending
<1>5. CASE CronTick(p)
  <2>1. SUFFICES ASSUME NEW slot \in Slots,
                        \/ Quiet(p, [Opened EXCEPT !.lastSlot = slot])
                        \/ Fires(p, [Opened EXCEPT !.lastSlot = slot], <<slot>>)
                 PROVE  IInv'
    BY <1>2, <1>5 DEF CronTick, GuardHolds
  <2> DEFINE s == [Opened EXCEPT !.lastSlot = slot]
  <2>2. s \in State /\ s.pending = disk.pending
    BY <1>1 DEF State
  <2>3. <<slot>> \in Seq(Keys)
    BY <1>1 DEF Keys
  <2> QED BY <2>1, <2>2, <2>3, QuietKeeps, FiresKeeps
<1>6. CASE EveryTick(p)
  BY <1>1, <1>2, <1>3, <1>6, FiresKeeps DEF EveryTick, GuardHolds
<1>7. CASE WhenTick(p)
  <2>1. \A b \in BOOLEAN : /\ [Opened EXCEPT !.whenLast = b] \in State
                           /\ [Opened EXCEPT !.whenLast = b].pending = disk.pending
    BY <1>1 DEF State
  <2>2. CASE Fires(p, [Opened EXCEPT !.whenLast = TRUE], <<NextKey>>)
    BY <1>3, <2>1, <2>2, FiresKeeps
  <2>3. CASE Quiet(p, [Opened EXCEPT !.whenLast = FALSE])
    BY <2>1, <2>3, QuietKeeps
  <2>4. CASE /\ timeouts < MaxTimeouts
             /\ Enqueue(p, [Opened EXCEPT !.whenLast = FALSE], <<>>)
             /\ timeouts' = timeouts + 1 /\ UNCHANGED <<seed, crashes>>
    <3>1. /\ timeouts' \in 0 .. MaxTimeouts /\ crashes' \in 0 .. MaxCrashes
          /\ seed' \in Nat \union {None}
      BY <1>1, <2>4, JobsAssumption DEF IInv, TypeOK
    <3> QED BY <1>3, <2>1, <2>4, <3>1, EnqueueKeeps
  <2> QED BY <1>2, <1>7, <2>2, <2>3, <2>4 DEF WhenTick
<1>8. CASE PollNumbered(p)
  <2>1. SUFFICES ASSUME NEW last \in Rows(Opened.cursor),
                        NEW keys \in Ascending(Rows(Opened.cursor) \intersect Matching),
                        Fires(p, [Opened EXCEPT !.cursor = last], keys)
                 PROVE  IInv'
    BY <1>2, <1>8 DEF PollNumbered, GuardHolds
  <2>2. last \in Nat
    BY <1>1 DEF Rows
  <2>3. /\ [Opened EXCEPT !.cursor = last] \in State
        /\ [Opened EXCEPT !.cursor = last].pending = disk.pending
    BY <1>1, <2>2 DEF State
  <2>4. keys \in Seq(Keys)
    BY AscendingIsSeq
  <2> QED BY <2>1, <2>3, <2>4, FiresKeeps
<1>9. CASE SeedNumbered(p)
  <2> DEFINE reach == Opened.cursor + SeedPages * Page
  <2>1. reach \in Nat
    <3>1. \A a, b \in Nat : a * b \in Nat
      OBVIOUS
    <3>2. SeedPages * Page \in Nat
      BY <3>1, JobsAssumption
    <3> QED BY <1>1, <3>2 DEF State
  <2> HIDE DEF reach
  <2>2. CASE /\ Enqueue(p, [Opened EXCEPT !.cursor = top, !.seeded = TRUE], <<>>)
             /\ seed' = top /\ UNCHANGED faults
    <3>1. /\ [Opened EXCEPT !.cursor = top, !.seeded = TRUE] \in State
          /\ [Opened EXCEPT !.cursor = top, !.seeded = TRUE].pending = disk.pending
      BY <1>1 DEF State
    <3> QED BY <1>1, <1>3, <2>2, <3>1, EnqueueKeeps DEF faults
  <2>3. CASE Quiet(p, [Opened EXCEPT !.cursor = reach])
    <3>1. /\ [Opened EXCEPT !.cursor = reach] \in State
          /\ [Opened EXCEPT !.cursor = reach].pending = disk.pending
      BY <1>1, <2>1 DEF State
    <3> QED BY <2>3, <3>1, QuietKeeps
  <2> QED BY <1>9, <2>2, <2>3 DEF SeedNumbered, reach
<1>10. CASE PollClosed(p)
  <2> DEFINE rows == Listed(p)
  <2>1. rows \subseteq Events
    <3>1. list \in [Passes -> (SUBSET Events) \union {None}]
      BY DEF IInv, TypeOK, CacheOK
    <3> QED BY <1>1, <3>1 DEF Listed
  <2> HIDE DEF rows
  <2>2. CASE /\ Enqueue(p, [Opened EXCEPT !.seen = rows, !.seeded = TRUE], <<>>)
             /\ seed' = 0 /\ UNCHANGED faults
    <3>1. /\ [Opened EXCEPT !.seen = rows, !.seeded = TRUE] \in State
          /\ [Opened EXCEPT !.seen = rows, !.seeded = TRUE].pending = disk.pending
      BY <1>1, <2>1 DEF State
    <3> QED BY <1>1, <1>3, <2>2, <3>1, EnqueueKeeps DEF faults
  <2>3. ASSUME NEW keys \in Ascending((rows \ Opened.seen) \intersect Matching),
               Fires(p, [Opened EXCEPT !.seen = rows], keys)
        PROVE  IInv'
    <3>1. /\ [Opened EXCEPT !.seen = rows] \in State
          /\ [Opened EXCEPT !.seen = rows].pending = disk.pending
      BY <1>1, <2>1 DEF State
    <3>2. keys \in Seq(Keys)
      BY AscendingIsSeq
    <3> QED BY <2>3, <3>1, <3>2, FiresKeeps
  <2> QED BY <1>2, <1>10, <2>2, <2>3 DEF PollClosed, GuardHolds, rows
<1> QED BY <1>4, <1>5, <1>6, <1>7, <1>8, <1>9, <1>10 DEF Look

\* A poll that fails keeps the invariant, for it leaves the file as it is.
LEMMA PollFailsKeeps ==
  ASSUME IInv, NEW p \in Passes, PollFails(p)
  PROVE  IInv'
<1>1. Opened \in State /\ Opened.pending = disk.pending
  BY OpenedType
<1>2. /\ disk' = Opened /\ lock = None
      /\ UNCHANGED <<job, now, world, cache, result, lock, pc, mem, child, ghost, faults>>
  BY DEF PollFails
<1>3. TypeOK'
  BY <1>1, <1>2 DEF IInv, TypeOK, CacheOK, cache, world, ghost, faults
<1>4. Exclusive' /\ Attempted'
  BY <1>1, <1>2 DEF IInv, Exclusive, Attempted, First
<1>5. CopyKeeps' /\ NothingLost'
  BY <1>1, <1>2 DEF IInv, CopyKeeps, NothingLost, ghost
<1> QED BY <1>3, <1>4, <1>5 DEF IInv

-----------------------------------------------------------------------------
(* The other steps.                                                         *)

\* A step that changes nothing the invariant speaks of but its types.
LEMMA WorldKeeps ==
  ASSUME IInv, TypeOK', UNCHANGED <<disk, lock, pc, mem, fired, final>>
  PROVE  IInv'
BY DEF IInv, Exclusive, Attempted, CopyKeeps, NothingLost, First

\* Reading the list of items, and letting go of it, keeps the invariant.
LEMMA ListingKeeps ==
  ASSUME IInv, NEW p \in Passes, Lists(p) \/ Skips(p)
  PROVE  IInv'
<1>1. CacheOK'
  <2>1. closed \subseteq Events /\ CacheOK
    BY DEF IInv, TypeOK
  <2>2. CASE Lists(p)
    <3>1. listings' \in 0 .. MaxListings
      BY <2>1, <2>2, JobsAssumption DEF CacheOK, Lists
    <3> QED BY <2>1, <2>2, <3>1 DEF CacheOK, Lists
  <2>3. CASE Skips(p)
    BY <2>1, <2>3 DEF CacheOK, Skips
  <2> QED BY <2>2, <2>3
<1>2. UNCHANGED <<job, now, world, disk, result, lock, pc, mem, child, ghost, faults>>
  BY DEF Lists, Skips
<1>3. TypeOK'
  BY <1>1, <1>2 DEF IInv, TypeOK, world, ghost, faults
<1> QED BY <1>2, <1>3, WorldKeeps DEF ghost

\* A process that dies loses its copy and the lock, and nothing that is durable.
LEMMA CrashKeeps ==
  ASSUME IInv, NEW p \in Procs, Crash(p)
  PROVE  IInv'
<1>1. /\ mem \in [Procs -> State] /\ pc \in [Procs -> Labels]
      /\ crashes \in 0 .. MaxCrashes /\ MaxCrashes \in Nat
  BY JobsAssumption DEF IInv, TypeOK
<1>2. PICK l \in {"done", "idle"} :
        /\ lock = p /\ crashes < MaxCrashes /\ crashes' = crashes + 1 /\ lock' = None
        /\ mem' = [mem EXCEPT ![p] = NoState] /\ pc' = [pc EXCEPT ![p] = l]
        /\ UNCHANGED <<job, now, world, cache, disk, result, child, ghost, timeouts>>
  BY DEF Crash, At
<1>3. /\ mem' \in [Procs -> State] /\ pc' \in [Procs -> Labels]
      /\ mem'[p] = NoState /\ pc'[p] = l /\ Begun(NoState.pending)
      /\ \A r \in Procs : r # p => mem'[r] = mem[r] /\ pc'[r] = pc[r]
  BY <1>1, <1>2, EmptyState DEF Labels
<1>4. TypeOK'
  BY <1>1, <1>2, <1>3 DEF IInv, TypeOK, CacheOK, cache, world, ghost
<1>5. Exclusive'
  BY <1>2, <1>3, JobsAssumption DEF IInv, Exclusive
<1>6. Attempted'
  BY <1>2, <1>3 DEF IInv, Attempted, First
<1>7. CopyKeeps' /\ NothingLost'
  BY <1>2, JobsAssumption DEF IInv, CopyKeeps, NothingLost, ghost, Procs
<1> QED BY <1>4, <1>5, <1>6, <1>7 DEF IInv

\* An operator's run that begins keeps the invariant.
LEMMA RunNowKeeps ==
  ASSUME IInv, RunNow
  PROVE  IInv'
<1>1. /\ Operator \in Procs /\ Operator \notin Passes
      /\ mem \in [Procs -> State] /\ pc \in [Procs -> Labels] /\ now \in Time
  BY JobsAssumption DEF IInv, TypeOK, Procs
<1> DEFINE m == [mem[Operator] EXCEPT !.lastSlot = now]
<1>2. /\ m \in State /\ m.pending = mem[Operator].pending
  BY <1>1 DEF State
<1>3. /\ pc[Operator] = "idle" /\ lock = None /\ lock' = Operator
      /\ mem' = [mem EXCEPT ![Operator] = m] /\ pc' = [pc EXCEPT ![Operator] = "run"]
      /\ UNCHANGED <<job, now, world, cache, disk, result, child, ghost, faults>>
  BY <1>1 DEF RunNow, At, State
<1> HIDE DEF m
<1>4. /\ mem' \in [Procs -> State] /\ pc' \in [Procs -> Labels]
      /\ mem'[Operator].pending = mem[Operator].pending /\ pc'[Operator] = "run"
      /\ \A r \in Procs : r # Operator => mem'[r] = mem[r] /\ pc'[r] = pc[r]
  BY <1>1, <1>2, <1>3 DEF Labels
<1>5. TypeOK'
  BY <1>1, <1>3, <1>4 DEF IInv, TypeOK, CacheOK, cache, world, ghost, faults
<1>6. Exclusive'
  BY <1>1, <1>3, <1>4, JobsAssumption DEF IInv, Exclusive
<1>7. Attempted'
  BY <1>3, <1>4 DEF IInv, Attempted, First
<1>8. CopyKeeps' /\ NothingLost'
  BY <1>1, <1>3 DEF IInv, CopyKeeps, NothingLost, ghost
<1> QED BY <1>5, <1>6, <1>7, <1>8 DEF IInv

\* An operator's run that records its outcome writes back what it finds on disk.
LEMMA RunNowRecordsKeeps ==
  ASSUME IInv, RunNowRecords
  PROVE  IInv'
<1>1. /\ Operator \in Procs /\ mem \in [Procs -> State] /\ mem[Operator] \in State
      /\ pc \in [Procs -> Labels] /\ now \in Time /\ disk \in State
  BY DEF IInv, TypeOK, Procs
<1>2. PICK ok \in BOOLEAN :
        disk' = [disk EXCEPT
                   !.lastSlot = IF @ = None THEN mem[Operator].lastSlot ELSE @,
                   !.lastDone = IF ok THEN now ELSE @]
  BY DEF RunNowRecords
<1>3. disk' \in State /\ disk'.pending = disk.pending
  BY <1>1, <1>2 DEF State
<1>4. /\ pc[Operator] = "run" /\ lock' = None
      /\ mem' = [mem EXCEPT ![Operator] = NoState]
      /\ pc' = [pc EXCEPT ![Operator] = "done"]
      /\ UNCHANGED <<job, now, world, cache, result, child, ghost, faults>>
  BY DEF RunNowRecords, At
<1>5. lock = Operator
  BY <1>1, <1>4 DEF IInv, Exclusive
<1>6. /\ mem' \in [Procs -> State] /\ pc' \in [Procs -> Labels]
      /\ mem'[Operator] = NoState /\ pc'[Operator] = "done" /\ Begun(NoState.pending)
      /\ \A r \in Procs : r # Operator => mem'[r] = mem[r] /\ pc'[r] = pc[r]
  BY <1>1, <1>4, EmptyState DEF Labels
<1>7. TypeOK'
  BY <1>3, <1>4, <1>6 DEF IInv, TypeOK, CacheOK, cache, world, ghost, faults
<1>8. Exclusive'
  BY <1>4, <1>5, <1>6, JobsAssumption DEF IInv, Exclusive
<1>9. Attempted'
  BY <1>3, <1>4, <1>6 DEF IInv, Attempted, First
<1>10. CopyKeeps' /\ NothingLost'
  BY <1>3, <1>4, JobsAssumption DEF IInv, CopyKeeps, NothingLost, ghost, Procs
<1> QED BY <1>7, <1>8, <1>9, <1>10 DEF IInv

-----------------------------------------------------------------------------
(* The theorems.                                                            *)

\* The invariant holds of a job that was never looked at.
LEMMA InitEstablishes == Init => IInv
<1> SUFFICES ASSUME Init PROVE IInv
  OBVIOUS
<1>1. NoState \in State /\ Begun(NoState.pending)
  BY EmptyState
<1>2. <<>> \in Seq(Keys) /\ Range(<<>>) = {}
  BY EmptySeq DEF Range
<1>3. TypeOK
  <2>1. CacheOK
    BY JobsAssumption DEF Init, CacheOK
  <2> QED BY <1>1, <1>2, <2>1, JobsAssumption DEF Init, TypeOK, Time, Labels, Statuses
<1>4. Exclusive /\ Attempted
  BY <1>1, JobsAssumption DEF Init, Exclusive, Attempted, First
<1>5. CopyKeeps /\ NothingLost
  BY <1>2, JobsAssumption DEF Init, CopyKeeps, NothingLost, Procs
<1> QED BY <1>3, <1>4, <1>5 DEF IInv

\* Every step keeps the invariant: of a pass, of an operator, of a runner, of the world.
LEMMA NextKeeps == IInv /\ [Next]_vars => IInv'
<1> SUFFICES ASSUME IInv, [Next]_vars PROVE IInv'
  OBVIOUS
<1>1. ASSUME NEW p \in Passes, Pass(p) PROVE IInv'
  BY <1>1, ListingKeeps, LookKeeps, PollFailsKeeps, DrainKeeps DEF Pass
<1>2. ASSUME World PROVE IInv'
  <2>1. CASE ClockTicks
    <3>1. now \in 0 .. MaxNow /\ now < MaxNow /\ now' = now + 1 /\ MaxNow \in Nat
      BY <2>1, JobsAssumption DEF IInv, TypeOK, ClockTicks, Time
    <3>2. now' \in Time
      BY <3>1 DEF Time
    <3>3. UNCHANGED <<job, world, cache, disk, result, lock, pc, mem, child, ghost, faults>>
      BY <2>1 DEF ClockTicks
    <3>4. TypeOK'
      BY <3>2, <3>3 DEF IInv, TypeOK, CacheOK, cache, world, ghost, faults
    <3> QED BY <3>3, <3>4, WorldKeeps DEF ghost
  <2>2. CASE Arrives
    <3>1. TypeOK' /\ UNCHANGED <<disk, lock, pc, mem, fired, final>>
      <4>1. CacheOK'
        BY <2>2 DEF IInv, TypeOK, CacheOK, cache, Arrives
      <4> QED BY <2>2, <4>1, JobsAssumption DEF IInv, TypeOK, Arrives, ghost, faults
    <3> QED BY <3>1, WorldKeeps
  <2>3. ASSUME NEW e \in Events, Closes(e) \/ Reopens(e) PROVE IInv'
    <3>1. TypeOK' /\ UNCHANGED <<disk, lock, pc, mem, fired, final>>
      <4>1. CacheOK'
        BY <2>3 DEF IInv, TypeOK, CacheOK, cache, Closes, Reopens
      <4> QED BY <2>3, <4>1 DEF IInv, TypeOK, Closes, Reopens, ghost, faults
    <3> QED BY <3>1, WorldKeeps
  <2>4. ASSUME NEW c \in Children, ChildExits(c) \/ ChildDies(c) PROVE IInv'
    <3>1. child \in [Children -> Statuses] /\ result \in {None} \union [by : Children, ok : BOOLEAN]
      BY DEF IInv, TypeOK
    <3>2. /\ child' \in [Children -> Statuses]
          /\ result' \in {None} \union [by : Children, ok : BOOLEAN]
      BY <2>4, <3>1 DEF ChildExits, ChildDies, Statuses
    <3>3. UNCHANGED <<job, now, world, cache, disk, lock, pc, mem, ghost, faults>>
      BY <2>4 DEF ChildExits, ChildDies
    <3>4. TypeOK'
      BY <3>2, <3>3 DEF IInv, TypeOK, CacheOK, cache, world, ghost, faults
    <3> QED BY <3>3, <3>4, WorldKeeps DEF ghost
  <2> QED BY <1>2, <2>1, <2>2, <2>3, <2>4, JobsAssumption DEF World
<1>3. CASE UNCHANGED vars
  <2>1. TypeOK' /\ UNCHANGED <<disk, lock, pc, mem, fired, final>>
    BY <1>3 DEF IInv, TypeOK, CacheOK, cache, vars, world, ghost, faults
  <2> QED BY <2>1, WorldKeeps
<1> QED BY <1>1, <1>2, <1>3, CrashKeeps, RunNowKeeps, RunNowRecordsKeeps DEF Next

\* The inductive invariant: types, the lock, and every durable firing either
\* queued on disk (and in the copy of the lock's holder) or finished.
THEOREM Invariance == Spec => []IInv
BY InitEstablishes, NextKeeps, PTL DEF Spec

\* The state file, the copies of it and every other variable keep their type.
THEOREM TypeCorrect == Spec => []TypeOK
<1>1. IInv => TypeOK
  BY DEF IInv
<1> QED BY <1>1, Invariance, PTL

\* At most one process is ever inside a pass over the job: jobs.py's _Lock.
THEOREM MutualExclusion == Spec => []Exclusive
<1>1. IInv => Exclusive
  BY DEF IInv
<1> QED BY <1>1, Invariance, PTL

\* A firing made durable stays in the queue until it has been finished,
\* whatever crashes, whoever reads and writes the state file.
THEOREM FiringsAreNotLost == Spec => []NothingLost
<1>1. IInv => NothingLost
  BY DEF IInv
<1> QED BY <1>1, Invariance, PTL

=============================================================================
