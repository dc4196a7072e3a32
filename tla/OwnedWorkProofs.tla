-------------------------- MODULE OwnedWorkProofs --------------------------
(***************************************************************************)
(* OwnedWork, for every number of agents, processes, launches, episodes,   *)
(* messages and crashes.                                                   *)
(*                                                                         *)
(* IInv     the variables keep their types, no record is ahead of what was *)
(*          minted, and a process has in hand what its label says; a       *)
(*          compare-and-swap on that record keeps it well formed.          *)
(* OneTurns what one step may make of the records: a receipt is final.     *)
(* NoticeInv  an episode is one agent's, and whoever is at the sending of  *)
(*          its notice is the only one: module Notices is refined.         *)
(* StopInv  whoever is about to end a lease was called to since its launch *)
(*          or holds an older token: no stop outlives a launch.            *)
(***************************************************************************)
EXTENDS OwnedWork, TLAPS

\* A lease that runs has neither a notice nor an episode; one that ended has both.
Formed(r) == /\ r.state \in {"live", "none"} <=> r.notice = "none"
             /\ r.state \in {"live", "none"} <=> r.episode = 0

\* The records are never ahead of what was minted.
Minted(a) == rec[a].rev <= counter /\ rec[a].gen <= gens /\ rec[a].episode <= episodes

\* What a process has in hand at each label.
Held(p) ==
  /\ pc[p] # "idle" => who[p] \in Agents
  /\ Formed(was[p]) /\ was[p].episode <= episodes /\ token[p] <= gens
  /\ pc[p] = "expire" => was[p].state = "live"
  /\ pc[p] \in {"read", "defer", "empty", "reserve"} => was[p].notice = "pending"
  /\ pc[p] \in {"receipt", "deliver", "finish"} => was[p].notice \in {"attempting", "unknown"}

\* TypeOK by groups of variables, each with what belongs to it.
FileOK == /\ rec \in [Agents -> Record \union {NoRecord}] /\ counter \in Nat
          /\ \A a \in Agents : Formed(rec[a]) /\ Minted(a)
WorldOK == /\ stopped \subseteq Agents /\ inbox \in [Episodes -> Nat]
           /\ mail \in [Agents -> SUBSET (1 .. MaxMail)]
BoundOK == /\ gens \in 0 .. MaxGens /\ episodes \in 0 .. MaxEpisodes
           /\ stamps \in 0 .. MaxStamps
           /\ sentMail \in 0 .. MaxMail /\ crashes \in 0 .. MaxCrashes
HistOK == /\ reserved \subseteq Episodes /\ confirmed \subseteq Episodes
          /\ ended \subseteq Agents /\ flagged \subseteq 1 .. MaxMail
ProcOK == /\ pc \in [Procs -> Labels] /\ who \in [Procs -> Agents \union {None}]
          /\ was \in [Procs -> Record \union {NoRecord}] /\ token \in [Procs -> 0 .. MaxGens]
          /\ flag \in [Procs -> {"no", "custody", "stopped"}] /\ got \in [Procs -> BOOLEAN]

IInv == /\ FileOK /\ WorldOK /\ BoundOK /\ HistOK /\ ProcOK
        /\ \A p \in Procs : Held(p)

\* The invariant has every conjunct of TypeOK.
LEMMA TypesHold == IInv => TypeOK
BY DEF IInv, TypeOK, FileOK, WorldOK, BoundOK, HistOK, ProcOK, Formed

\* The counter is never behind a record, so that the next revision is past it by one.
LEMMA RevisionIsNext ==
  ASSUME FileOK, NEW a \in Agents
  PROVE  NextRevision(a) = counter + 1
<1> DEFINE S == {counter} \union {rec[b].rev : b \in Agents}
<1>1. counter \in Nat /\ counter \in S
  BY DEF FileOK
<1>2. \A n \in S : n \in Nat /\ n <= counter
  BY DEF FileOK, Minted, Record, NoRecord
<1> DEFINE m == Max(S)
<1>3. NextRevision(a) = 1 + m
  BY DEF NextRevision
<1> HIDE DEF S
<1>4. m \in S /\ \A n \in S : m >= n
  BY <1>1, <1>2 DEF Max
<1> HIDE DEF m
<1>5. m = counter
  BY <1>1, <1>2, <1>4
<1> QED BY <1>1, <1>3, <1>5

\* One record is replaced by one that is formed and minted; nothing minted is unminted.
LEMMA RecordKeeps ==
  ASSUME IInv, BoundOK', NEW a \in Agents, NEW r \in Record \union {NoRecord}, Formed(r),
         rec' = [rec EXCEPT ![a] = r], counter' \in Nat, counter <= counter',
         gens <= gens', episodes <= episodes',
         r.rev <= counter', r.gen <= gens', r.episode <= episodes'
  PROVE  FileOK'
<1> USE OwnedWorkAssumption
<1>1. rec' \in [Agents -> Record \union {NoRecord}]
  BY DEF IInv, FileOK
<1>2. \A b \in Agents : rec'[b] = IF b = a THEN r ELSE rec[b]
  BY DEF IInv, FileOK
<1>3. \A b \in Agents : Formed(rec'[b])
  BY <1>2 DEF IInv, FileOK
<1>4. ASSUME NEW b \in Agents PROVE Minted(b)'
  <2>1. CASE b = a
    BY <1>2, <2>1 DEF Minted
  <2>2. CASE b # a
    <3>1. Minted(b) /\ rec'[b] = rec[b] /\ rec[b] \in Record \union {NoRecord}
      BY <1>2, <2>2 DEF IInv, FileOK
    <3>2. rec[b].rev \in Nat /\ rec[b].gen \in Nat /\ rec[b].episode \in Nat
      BY <3>1 DEF Record, NoRecord, Gens
    <3> QED BY <3>1, <3>2 DEF Minted, IInv, FileOK, BoundOK
  <2> QED BY <2>1, <2>2
<1> QED BY <1>1, <1>3, <1>4 DEF FileOK

\* The same when nothing is written to the file but, perhaps, its counter.
LEMMA FileKeeps ==
  ASSUME IInv, BoundOK', UNCHANGED rec, counter' \in Nat, counter <= counter',
         gens <= gens', episodes <= episodes'
  PROVE  FileOK'
<1> USE OwnedWorkAssumption
<1>1. ASSUME NEW b \in Agents PROVE Minted(b)'
  <2>1. Minted(b) /\ rec[b] \in Record \union {NoRecord}
    BY DEF IInv, FileOK
  <2>2. rec[b].rev \in Nat /\ rec[b].gen \in Nat /\ rec[b].episode \in Nat
    BY <2>1 DEF Record, NoRecord, Gens
  <2> QED BY <2>1, <2>2 DEF Minted, IInv, FileOK, BoundOK
<1> QED BY <1>1 DEF IInv, FileOK

\* A process's step is no matter to what the others have in hand.
LEMMA OthersKeep ==
  ASSUME IInv, BoundOK', ProcOK', NEW p \in Procs, Held(p)',
         gens <= gens', episodes <= episodes',
         \A q \in Procs : q # p => /\ pc'[q] = pc[q] /\ who'[q] = who[q] /\ was'[q] = was[q]
                                   /\ token'[q] = token[q]
  PROVE  \A q \in Procs : Held(q)'
<1> USE OwnedWorkAssumption
<1> SUFFICES ASSUME NEW q \in Procs, q # p PROVE Held(q)'
  OBVIOUS
<1>1. Held(q) /\ was[q] \in Record \union {NoRecord} /\ token[q] \in 0 .. MaxGens
  BY DEF IInv, ProcOK
<1>2. was[q].episode \in Nat
  BY <1>1 DEF Record, NoRecord
<1> QED BY <1>1, <1>2 DEF Held, IInv, BoundOK

\* A process that goes on has in hand what it had.
LEMMA GotoKeeps ==
  ASSUME IInv, BoundOK', NEW p \in Procs, NEW l \in Labels, Goto(p, l),
         UNCHANGED <<who, was, token>>, gens <= gens', episodes <= episodes',
         flag' \in [Procs -> {"no", "custody", "stopped"}], got' \in [Procs -> BOOLEAN],
         pc[p] # "idle",
         l = "expire" => was[p].state = "live",
         l \in {"read", "defer", "empty", "reserve"} => was[p].notice = "pending",
         l \in {"receipt", "deliver", "finish"} => was[p].notice \in {"attempting", "unknown"}
  PROVE  ProcOK' /\ \A q \in Procs : Held(q)'
<1> USE OwnedWorkAssumption
<1>1. pc' \in [Procs -> Labels] /\ pc'[p] = l /\ \A q \in Procs : q # p => pc'[q] = pc[q]
  BY DEF IInv, ProcOK, Goto
<1>2. ProcOK'
  BY <1>1 DEF IInv, ProcOK
<1>3. Held(p) /\ was[p] \in Record \union {NoRecord} /\ token[p] \in 0 .. MaxGens
  BY DEF IInv, ProcOK
<1>4. was[p].episode \in Nat
  BY <1>3 DEF Record, NoRecord
<1>5. Held(p)'
  BY <1>1, <1>3, <1>4 DEF Held, IInv, BoundOK
<1> QED BY <1>1, <1>2, <1>5, OthersKeep

\* A process that is done has nothing in hand.
LEMMA EndsKeep ==
  ASSUME IInv, BoundOK', NEW p \in Procs, Ends(p), gens <= gens', episodes <= episodes'
  PROVE  ProcOK' /\ \A q \in Procs : Held(q)'
<1> USE OwnedWorkAssumption
<1>1. ProcOK'
  BY DEF IInv, ProcOK, Ends, Goto, Labels
<1>2. Held(p)'
  BY DEF IInv, ProcOK, BoundOK, Ends, Goto, Held, Formed, NoRecord
<1>3. \A q \in Procs : q # p => /\ pc'[q] = pc[q] /\ who'[q] = who[q] /\ was'[q] = was[q]
                                /\ token'[q] = token[q]
  BY DEF IInv, ProcOK, Ends, Goto
<1> QED BY <1>1, <1>2, <1>3, OthersKeep

\* A process that begins with an agent has nothing else in hand.
LEMMA BeginsKeep ==
  ASSUME IInv, BoundOK', NEW p \in Procs, NEW a \in Agents, NEW l \in Labels, Begins(p, a, l),
         l \in {"launch", "stop", "tick", "mail", "stops"},
         UNCHANGED <<was, got>>, gens <= gens', episodes <= episodes',
         flag' \in [Procs -> {"no", "custody", "stopped"}],
         UNCHANGED token \/ token' = [token EXCEPT ![p] = rec[a].gen]
  PROVE  ProcOK' /\ \A q \in Procs : Held(q)'
<1> USE OwnedWorkAssumption
<1>1. /\ rec[a] \in Record \union {NoRecord} /\ rec[a].gen <= gens
      /\ rec[a].gen \in Nat
  BY DEF IInv, FileOK, Minted, Record, NoRecord, Gens
<1>2. token' \in [Procs -> 0 .. MaxGens] /\ token'[p] <= gens'
  BY <1>1 DEF IInv, ProcOK, Held, BoundOK
<1>3. ProcOK'
  BY <1>2 DEF IInv, ProcOK, Begins, Goto
<1>4. was'[p] = was[p] /\ pc'[p] = l /\ who'[p] = a
  BY DEF IInv, ProcOK, Begins, Goto
<1>5. Held(p) /\ was[p].episode \in Nat
  BY DEF IInv, ProcOK, Record, NoRecord
<1>6. Held(p)'
  BY <1>2, <1>4, <1>5 DEF Held, IInv, BoundOK
<1>7. \A q \in Procs : q # p => /\ pc'[q] = pc[q] /\ who'[q] = who[q] /\ was'[q] = was[q]
                                /\ token'[q] = token[q]
  BY DEF IInv, ProcOK, Begins, Goto
<1> QED BY <1>3, <1>6, <1>7, OthersKeep

\* The bounds are numbers.
LEMMA Bounds ==
  /\ MaxGens \in Nat /\ MaxEpisodes \in Nat /\ MaxStamps \in Nat /\ MaxMail \in Nat
  /\ MaxCrashes \in Nat
BY OwnedWorkAssumption

\* A record in its type: its fields.
LEMMA RecordFields ==
  ASSUME NEW r \in Record \union {NoRecord}
  PROVE  /\ r.gen \in Nat /\ r.episode \in Nat /\ r.rev \in Nat
         /\ r.gen = 0 <=> r = NoRecord
         /\ r.gen # 0 => r \in Record /\ r.gen \in Gens /\ r.episode \in 0 .. MaxEpisodes
BY OwnedWorkAssumption DEF Record, NoRecord, Gens

\* Publishing a record gives it the next revision.
LEMMA RevisedKeeps ==
  ASSUME IInv, BoundOK', NEW a \in Agents, NEW r \in Record, Formed(r), Revised(a, r),
         gens <= gens', episodes <= episodes', r.gen <= gens', r.episode <= episodes'
  PROVE  FileOK'
<1> DEFINE s == [r EXCEPT !.rev = counter + 1]
<1>1. NextRevision(a) = counter + 1 /\ counter \in Nat
  BY RevisionIsNext DEF IInv, FileOK
<1>2. rec' = [rec EXCEPT ![a] = s] /\ counter' = counter + 1
  BY <1>1 DEF Revised
<1>3. s \in Record /\ s.rev = counter + 1 /\ s.gen = r.gen /\ s.episode = r.episode
  BY <1>1 DEF Record
<1>4. Formed(s)
  BY DEF Formed, Record
<1> HIDE DEF s
<1>5. /\ s \in Record \union {NoRecord} /\ counter' \in Nat /\ counter <= counter'
      /\ s.rev <= counter' /\ s.gen <= gens' /\ s.episode <= episodes'
  BY <1>1, <1>2, <1>3
<1> QED BY <1>2, <1>4, <1>5, RecordKeeps

\* What a stop does to the file and the counts, whichever way it goes.
LEMMA StopsRecordKeeps ==
  ASSUME IInv, NEW a \in Agents, NEW state \in {"stopped", "ceiling"}, NEW wake \in BOOLEAN,
         NEW fence, StopsRecord(a, state, wake, fence), UNCHANGED <<stamps, sentMail, crashes>>
  PROVE  BoundOK' /\ FileOK' /\ gens <= gens' /\ episodes <= episodes'
<1> USE OwnedWorkAssumption
<1> DEFINE old == rec[a]
<1>1. /\ old \in Record \union {NoRecord} /\ Formed(old) /\ Minted(a)
      /\ gens \in Nat /\ episodes \in Nat
  BY DEF IInv, FileOK, BoundOK
<1>2. CASE UNCHANGED <<file, gens, episodes>>
  <2>1. BoundOK'
    BY <1>2 DEF IInv, BoundOK
  <2> QED BY <1>1, <1>2, <2>1, FileKeeps DEF file, IInv, FileOK
<1>3. CASE /\ Ended(old) /\ UNCHANGED <<counter, gens, episodes>>
           /\ rec' = [rec EXCEPT ![a].notice = IF wake /\ @ = "empty" THEN "pending" ELSE @]
  <2> DEFINE r == [old EXCEPT !.notice = IF wake /\ @ = "empty" THEN "pending" ELSE @]
  <2>1. BoundOK'
    BY <1>3 DEF IInv, BoundOK
  <2>2. old \in Record
    BY <1>1, <1>3 DEF Ended, NoRecord
  <2>3. /\ r \in Record /\ Formed(r)
        /\ r.gen = old.gen /\ r.rev = old.rev /\ r.episode = old.episode
    BY <1>1, <1>3, <2>2 DEF Record, Formed, Ended
  <2>4. rec' = [rec EXCEPT ![a] = r]
    BY <1>3
  <2> HIDE DEF r
  <2> QED BY <1>1, <1>3, <2>1, <2>3, <2>4, RecordKeeps DEF Minted, IInv, FileOK
<1>4. CASE /\ ~Ended(old) /\ episodes < MaxEpisodes /\ (old.gen = 0 => gens < MaxGens)
           /\ gens' = IF old.gen = 0 THEN gens + 1 ELSE gens
           /\ episodes' = episodes + 1
           /\ Revised(a, [old EXCEPT !.gen = IF @ = 0 THEN gens + 1 ELSE @, !.state = state,
                                     !.notice = "pending", !.episode = episodes + 1])
  <2> DEFINE r == [old EXCEPT !.gen = IF @ = 0 THEN gens + 1 ELSE @, !.state = state,
                              !.notice = "pending", !.episode = episodes + 1]
  <2>1. BoundOK' /\ gens <= gens' /\ episodes <= episodes'
    BY <1>1, <1>4 DEF IInv, BoundOK
  <2>2. old.gen \in Nat /\ old.gen <= gens /\ (old.gen # 0 => old \in Record)
    BY <1>1, RecordFields DEF Minted
  <2>3. r \in Record /\ r.gen <= gens' /\ r.episode <= episodes'
    <3>1. CASE old.gen = 0
      <4>1. old = NoRecord
        BY <1>1, <3>1, RecordFields
      <4>2. r = [NoRecord EXCEPT !.gen = gens + 1, !.state = state, !.notice = "pending",
                                 !.episode = episodes + 1]
        BY <4>1 DEF NoRecord
      <4>3. /\ gens + 1 \in Gens /\ episodes + 1 \in 0 .. MaxEpisodes /\ 0 \in 0 .. MaxStamps
            /\ gens' = gens + 1 /\ episodes' = episodes + 1
        BY <1>1, <1>4, <3>1, Bounds DEF Gens
      <4> HIDE DEF r
      <4>4. r \in Record /\ r.gen = gens + 1 /\ r.episode = episodes + 1
        BY <4>2, <4>3 DEF Record, NoRecord
      <4> QED BY <1>1, <4>2, <4>3, <4>4
    <3>2. CASE old.gen # 0
      <4>1. /\ old \in Record /\ episodes + 1 \in 0 .. MaxEpisodes
            /\ gens' = gens /\ episodes' = episodes + 1
        BY <1>1, <1>4, <2>2, <3>2, Bounds
      <4>2. r = [old EXCEPT !.state = state, !.notice = "pending", !.episode = episodes + 1]
        BY <3>2, <4>1 DEF Record
      <4> HIDE DEF r
      <4>3. r \in Record /\ r.gen = old.gen /\ r.episode = episodes + 1
        BY <4>1, <4>2 DEF Record
      <4> QED BY <1>1, <2>2, <4>1, <4>3
    <3> QED BY <3>1, <3>2
  <2>4. Formed(r)
    BY <1>1 DEF Formed, Record, NoRecord
  <2>5. Revised(a, r)
    BY <1>4
  <2> HIDE DEF r
  <2> QED BY <2>1, <2>3, <2>4, <2>5, RevisedKeeps
<1> QED BY <1>2, <1>3, <1>4 DEF StopsRecord

-----------------------------------------------------------------------------
(* Launches, heartbeats, stops, ceilings and messages.                      *)

\* The record of a lease that runs.
LEMMA LiveRecord ==
  ASSUME NEW g \in Gens
  PROVE  LET r == [NoRecord EXCEPT !.gen = g, !.state = "live"] IN
         r \in Record /\ Formed(r) /\ r.gen = g /\ r.episode = 0 /\ r.rev = 0
<1>1. 0 \in 0 .. MaxEpisodes /\ 0 \in 0 .. MaxStamps
  BY Bounds
<1> QED BY <1>1 DEF NoRecord, Record, Formed

\* Relaunch: the store of stops loses an agent, a process begins.
LEMMA RelaunchKeeps ==
  ASSUME IInv, NEW p \in Procs, NEW a \in Agents, Relaunch(p, a)
  PROVE  IInv'
<1> USE OwnedWorkAssumption
<1>1. BoundOK' /\ HistOK' /\ WorldOK' /\ gens <= gens' /\ episodes <= episodes'
  BY DEF IInv, BoundOK, HistOK, WorldOK, Relaunch, bound, hist
<1>2. FileOK'
  BY <1>1, FileKeeps DEF Relaunch, file, IInv, FileOK
<1>3. ProcOK' /\ \A q \in Procs : Held(q)'
  BY <1>1, BeginsKeep DEF Relaunch, IInv, ProcOK, Labels
<1> QED BY <1>1, <1>2, <1>3 DEF IInv

\* Launch: the record of a new generation, one past those minted.
LEMMA LaunchKeeps ==
  ASSUME IInv, NEW p \in Procs, Launch(p)
  PROVE  IInv'
<1> USE OwnedWorkAssumption
<1> DEFINE r == [NoRecord EXCEPT !.gen = gens + 1, !.state = "live"]
<1>1. BoundOK' /\ HistOK' /\ WorldOK' /\ gens <= gens' /\ episodes <= episodes'
  BY DEF IInv, BoundOK, HistOK, WorldOK, Launch, world
<1>2. gens + 1 \in Gens
  BY DEF IInv, BoundOK, Launch, Gens
<1>3. who[p] \in Agents
  BY DEF IInv, Held, Launch
<1>4. r \in Record /\ Formed(r) /\ r.gen = gens' /\ r.episode = 0 /\ Revised(who[p], r)
  BY <1>2, LiveRecord DEF Launch
<1> HIDE DEF r
<1>5. FileOK'
  BY <1>1, <1>3, <1>4, RevisedKeeps DEF IInv, BoundOK
<1>6. ProcOK' /\ \A q \in Procs : Held(q)'
  BY <1>1, EndsKeep DEF Launch
<1> QED BY <1>1, <1>5, <1>6 DEF IInv

\* Heartbeat: the lease runs on, or is the first of its agent.
LEMMA HeartbeatKeeps ==
  ASSUME IInv, NEW a \in Agents, Heartbeat(a)
  PROVE  IInv'
<1> USE OwnedWorkAssumption
<1> DEFINE old == rec[a]
           new == [NoRecord EXCEPT !.gen = old.gen, !.state = "live",
                                   !.rev = old.rev, !.stamp = stamps + 1]
           first == [NoRecord EXCEPT !.gen = gens + 1, !.state = "live"]
<1>1. BoundOK' /\ HistOK' /\ WorldOK' /\ gens <= gens' /\ episodes <= episodes'
  BY DEF IInv, BoundOK, HistOK, WorldOK, Heartbeat, world, hist
<1>2. old \in Record \union {NoRecord} /\ Minted(a)
  BY DEF IInv, FileOK
<1>3. FileOK'
  <2>1. CASE /\ old.gen = 0 /\ gens < MaxGens /\ gens' = gens + 1 /\ UNCHANGED counter
             /\ rec' = [rec EXCEPT ![a] = first]
    <3>1. gens + 1 \in Gens
      BY <2>1 DEF IInv, BoundOK, Gens
    <3>2. first \in Record /\ Formed(first) /\ first.gen = gens' /\ first.episode = 0 /\ first.rev = 0
      BY <2>1, <3>1, LiveRecord
    <3> HIDE DEF first
    <3>3. /\ counter' \in Nat /\ counter <= counter' /\ first.rev <= counter'
          /\ first.gen <= gens' /\ first.episode <= episodes'
      BY <1>1, <2>1, <3>2 DEF IInv, FileOK, BoundOK
    <3> QED BY <1>1, <2>1, <3>2, <3>3, RecordKeeps
  <2>2. CASE old.gen # 0
    <3>1. /\ new \in Record /\ Formed(new)
          /\ new.gen = old.gen /\ new.episode = 0 /\ new.rev = old.rev
      <4>1. old.gen \in Gens /\ old.rev \in Nat
        BY <1>2, <2>2, RecordFields
      <4>2. 0 \in 0 .. MaxEpisodes /\ stamps + 1 \in 0 .. MaxStamps
        BY Bounds DEF Heartbeat, IInv, BoundOK
      <4> QED BY <4>1, <4>2 DEF NoRecord, Record, Formed
    <3>2. UNCHANGED gens
      BY <2>2 DEF Heartbeat
    <3>3. \/ Revised(a, new)
          \/ UNCHANGED counter /\ rec' = [rec EXCEPT ![a] = new]
      BY <2>2 DEF Heartbeat
    <3> HIDE DEF new
    <3> QED BY <1>1, <1>2, <3>1, <3>2, <3>3, RecordKeeps, RevisedKeeps
            DEF Minted, IInv, BoundOK, FileOK
  <2> QED BY <2>1, <2>2 DEF Heartbeat
<1>4. ProcOK' /\ \A q \in Procs : Held(q)'
  BY DEF Heartbeat, proc, IInv, ProcOK, Held, BoundOK
<1> QED BY <1>1, <1>3, <1>4 DEF IInv

\* StopAgent: the store of stops gains an agent, a process begins.
LEMMA StopAgentKeeps ==
  ASSUME IInv, NEW p \in Procs, NEW a \in Agents, StopAgent(p, a)
  PROVE  IInv'
<1> USE OwnedWorkAssumption
<1>1. BoundOK' /\ HistOK' /\ WorldOK' /\ gens <= gens' /\ episodes <= episodes'
  BY DEF IInv, BoundOK, HistOK, WorldOK, StopAgent, bound
<1>2. FileOK'
  BY <1>1, FileKeeps DEF StopAgent, file, IInv, FileOK
<1>3. ProcOK' /\ \A q \in Procs : Held(q)'
  BY <1>1, BeginsKeep DEF StopAgent, IInv, ProcOK, Labels
<1> QED BY <1>1, <1>2, <1>3 DEF IInv

\* Stop: a locked update, then the process goes on.
LEMMA StopKeeps ==
  ASSUME IInv, NEW p \in Procs, Stop(p)
  PROVE  IInv'
<1>1. who[p] \in Agents /\ pc[p] = "stop"
  BY DEF IInv, Held, Stop
<1>2. BoundOK' /\ FileOK' /\ gens <= gens' /\ episodes <= episodes'
  BY <1>1, StopsRecordKeeps DEF Stop
<1>3. HistOK' /\ WorldOK'
  BY DEF IInv, HistOK, WorldOK, Stop, world, hist
<1>4. ProcOK' /\ \A q \in Procs : Held(q)'
  BY <1>1, <1>2, GotoKeeps DEF Stop, IInv, ProcOK, Labels
<1> QED BY <1>2, <1>3, <1>4 DEF IInv

\* Ceiling: a locked update by a process that begins.
LEMMA CeilingKeeps ==
  ASSUME IInv, NEW p \in Procs, NEW a \in Agents, Ceiling(p, a)
  PROVE  IInv'
<1>1. BoundOK' /\ FileOK' /\ gens <= gens' /\ episodes <= episodes'
  BY StopsRecordKeeps DEF Ceiling
<1>2. HistOK' /\ WorldOK'
  BY DEF IInv, HistOK, WorldOK, Ceiling, world
<1>3. ProcOK' /\ \A q \in Procs : Held(q)'
  BY <1>1, BeginsKeep DEF Ceiling, IInv, ProcOK, Labels
<1> QED BY <1>1, <1>2, <1>3 DEF IInv

\* Look: a process begins with what it saw of the owner.
LEMMA LookKeeps ==
  ASSUME IInv, NEW p \in Procs, NEW a \in Agents, Look(p, a)
  PROVE  IInv'
<1>1. BoundOK' /\ HistOK' /\ WorldOK' /\ gens <= gens' /\ episodes <= episodes'
  BY DEF IInv, BoundOK, HistOK, WorldOK, Look, world, bound, hist
<1>2. FileOK'
  BY <1>1, FileKeeps DEF Look, file, IInv, FileOK
<1>3. flag' \in [Procs -> {"no", "custody", "stopped"}]
  BY DEF Look, IInv, ProcOK
<1>4. ProcOK' /\ \A q \in Procs : Held(q)'
  BY <1>1, <1>3, BeginsKeep DEF Look, Labels
<1> QED BY <1>1, <1>2, <1>4 DEF IInv

\* Mail: one message more, within its bound.
LEMMA MailKeeps ==
  ASSUME IInv, NEW p \in Procs, Mail(p)
  PROVE  IInv'
<1> USE OwnedWorkAssumption
<1>1. BoundOK' /\ HistOK' /\ gens <= gens' /\ episodes <= episodes'
  BY DEF IInv, BoundOK, HistOK, Mail
<1>2. sentMail + 1 \in 1 .. MaxMail /\ pc[p] = "mail" /\ who[p] \in Agents
  BY DEF IInv, BoundOK, Mail, Held
<1>3. WorldOK'
  BY <1>2 DEF IInv, WorldOK, Mail
<1>4. FileOK'
  BY <1>1, FileKeeps DEF Mail, file, IInv, FileOK
<1>5. ProcOK' /\ \A q \in Procs : Held(q)'
  BY <1>1, <1>2, EndsKeep, GotoKeeps DEF Mail, IInv, ProcOK, Labels
<1> QED BY <1>1, <1>3, <1>4, <1>5 DEF IInv

\* Wake: only a notice that found nothing is taken back to pending.
LEMMA WakeKeeps ==
  ASSUME IInv, NEW p \in Procs, Wake(p)
  PROVE  IInv'
<1>1. BoundOK' /\ HistOK' /\ WorldOK' /\ gens <= gens' /\ episodes <= episodes'
  BY DEF IInv, BoundOK, HistOK, WorldOK, Wake, world, bound, hist
<1>2. who[p] \in Agents /\ pc[p] = "wake"
  BY DEF IInv, Held, Wake
<1> DEFINE old == rec[who[p]]
           r == Woken(old)
<1>3. old \in Record \union {NoRecord} /\ Formed(old) /\ Minted(who[p])
  BY <1>2 DEF IInv, FileOK
<1>4. /\ r \in Record \union {NoRecord} /\ Formed(r)
      /\ r.gen = old.gen /\ r.rev = old.rev /\ r.episode = old.episode
  BY <1>3 DEF Woken, Record, NoRecord, Formed
<1>5. rec' = [rec EXCEPT ![who[p]] = r] /\ UNCHANGED <<counter, gens, episodes>>
  BY DEF Wake, bound
<1> HIDE DEF r
<1>6. FileOK'
  BY <1>1, <1>2, <1>3, <1>4, <1>5, RecordKeeps DEF Minted, IInv, FileOK
<1>7. flag' \in [Procs -> {"no", "custody", "stopped"}]
  BY DEF Wake, IInv, ProcOK
<1>8. ProcOK' /\ \A q \in Procs : Held(q)'
  BY <1>1, <1>2, <1>7, GotoKeeps DEF Wake, IInv, ProcOK, Labels
<1> QED BY <1>1, <1>6, <1>8 DEF IInv

-----------------------------------------------------------------------------
(* The supervisor's pass.                                                   *)

\* Observe: the token is a generation that was minted.
LEMMA ObserveKeeps ==
  ASSUME IInv, NEW p \in Procs, NEW a \in Agents, Observe(p, a)
  PROVE  IInv'
<1>1. BoundOK' /\ HistOK' /\ WorldOK' /\ gens <= gens' /\ episodes <= episodes'
  BY DEF IInv, BoundOK, HistOK, WorldOK, Observe, world, bound, hist
<1>2. FileOK'
  BY <1>1, FileKeeps DEF Observe, file, IInv, FileOK
<1>3. ProcOK' /\ \A q \in Procs : Held(q)'
  BY <1>1, BeginsKeep DEF Observe, IInv, ProcOK, Labels
<1> QED BY <1>1, <1>2, <1>3 DEF IInv

\* A process that forgets the generation it observed, or keeps it, and goes on.
LEMMA TokenKeeps ==
  ASSUME IInv, BoundOK', NEW p \in Procs, NEW l \in {"replay", "due"}, Goto(p, l),
         UNCHANGED <<who, was, flag, got>>, UNCHANGED token \/ token' = [token EXCEPT ![p] = 0],
         pc[p] # "idle", gens <= gens', episodes <= episodes'
  PROVE  ProcOK' /\ \A q \in Procs : Held(q)'
<1>1. token' \in [Procs -> 0 .. MaxGens] /\ token'[p] <= gens'
  BY Bounds DEF IInv, ProcOK, Held, BoundOK
<1>2. ProcOK'
  BY <1>1 DEF IInv, ProcOK, Goto, Labels
<1>3. pc'[p] = l /\ \A q \in Procs : q # p => pc'[q] = pc[q] /\ token'[q] = token[q]
  BY DEF IInv, ProcOK, Goto
<1>4. Held(p) /\ was[p].episode \in Nat
  BY RecordFields DEF IInv, ProcOK
<1>5. Held(p)'
  BY <1>1, <1>3, <1>4 DEF Held, IInv, BoundOK
<1> QED BY <1>2, <1>3, <1>5, OthersKeep

\* ReadStops: the token is kept for a replay, or dropped.
LEMMA ReadStopsKeeps ==
  ASSUME IInv, NEW p \in Procs, ReadStops(p)
  PROVE  IInv'
<1>1. BoundOK' /\ HistOK' /\ WorldOK' /\ gens <= gens' /\ episodes <= episodes'
  BY DEF IInv, BoundOK, HistOK, WorldOK, ReadStops, world, bound, hist
<1>2. FileOK'
  BY <1>1, FileKeeps DEF ReadStops, file, IInv, FileOK
<1>3. ProcOK' /\ \A q \in Procs : Held(q)'
  BY <1>1, TokenKeeps DEF ReadStops
<1> QED BY <1>1, <1>2, <1>3 DEF IInv

\* ReplayStop: a locked update, or nothing when the fence has moved.
LEMMA ReplayStopKeeps ==
  ASSUME IInv, NEW p \in Procs, ReplayStop(p)
  PROVE  IInv'
<1>1. who[p] \in Agents /\ pc[p] = "replay"
  BY DEF IInv, Held, ReplayStop
<1>2. BoundOK' /\ FileOK' /\ gens <= gens' /\ episodes <= episodes'
  BY <1>1, StopsRecordKeeps DEF ReplayStop, Replay
<1>3. HistOK' /\ WorldOK'
  BY DEF IInv, HistOK, WorldOK, ReplayStop, world, hist
<1>4. ProcOK' /\ \A q \in Procs : Held(q)'
  BY <1>1, <1>2, TokenKeeps DEF ReplayStop
<1> QED BY <1>2, <1>3, <1>4 DEF IInv

\* A stamp, or a notice that is still one, changes nothing else of a record.
LEMMA StampedRecord ==
  ASSUME NEW r \in Record \union {NoRecord}, r # NoRecord \/ r.notice # "none",
         NEW n \in 0 .. MaxStamps
  PROVE  LET s == [r EXCEPT !.stamp = n] IN
         /\ s \in Record /\ (Formed(r) => Formed(s))
         /\ s.gen = r.gen /\ s.rev = r.rev /\ s.episode = r.episode
BY DEF Record, NoRecord, Formed

\* A record whose notice changes among those of an ended lease stays formed.
LEMMA NoticedRecord ==
  ASSUME NEW r \in Record \union {NoRecord}, Formed(r), r.notice # "none",
         NEW n \in {"pending", "attempting", "unknown", "delivered", "empty"}
  PROVE  LET s == [r EXCEPT !.notice = n] IN
         /\ s \in Record /\ Formed(s) /\ s.notice = n
         /\ s.gen = r.gen /\ s.rev = r.rev /\ s.episode = r.episode
BY DEF Record, NoRecord, Formed

\* Due: a record is stamped.
LEMMA DueKeeps ==
  ASSUME IInv, NEW p \in Procs, Due(p)
  PROVE  IInv'
<1>1. BoundOK' /\ HistOK' /\ WorldOK' /\ gens <= gens' /\ episodes <= episodes'
  BY Bounds DEF IInv, BoundOK, HistOK, WorldOK, Due, world, hist
<1>2. who[p] \in Agents /\ pc[p] = "due"
  BY DEF IInv, Held, Due
<1> DEFINE r == rec[who[p]]
           s == [r EXCEPT !.stamp = stamps + 1]
<1>3. r \in Record \union {NoRecord} /\ Formed(r) /\ Minted(who[p])
  BY <1>2 DEF IInv, FileOK
<1>4. CASE /\ r.state = "live" \/ r.notice \in {"pending", "attempting", "unknown"}
           /\ stamps < MaxStamps /\ rec' = [rec EXCEPT ![who[p]].stamp = stamps + 1]
           /\ Goto(p, "tick") /\ UNCHANGED <<who, was, token, flag, got>>
  <2>1. stamps + 1 \in 0 .. MaxStamps
    BY <1>4, Bounds DEF IInv, BoundOK
  <2>2. r # NoRecord
    BY <1>4 DEF NoRecord
  <2>3. /\ s \in Record /\ Formed(s)
        /\ s.gen = r.gen /\ s.rev = r.rev /\ s.episode = r.episode
    BY <1>3, <2>1, <2>2, StampedRecord
  <2>4. rec' = [rec EXCEPT ![who[p]] = s]
    BY <1>4
  <2> HIDE DEF s
  <2>5. FileOK'
    BY <1>1, <1>2, <1>3, <2>3, <2>4, RecordKeeps DEF Minted, Due, IInv, FileOK
  <2>6. ProcOK' /\ \A q \in Procs : Held(q)'
    BY <1>1, <1>2, <1>4, GotoKeeps DEF IInv, ProcOK, Labels
  <2> QED BY <1>1, <2>5, <2>6 DEF IInv
<1>5. CASE Ends(p) /\ UNCHANGED rec
  <2>1. FileOK'
    BY <1>1, <1>5, FileKeeps DEF Due, IInv, FileOK
  <2> QED BY <1>1, <1>5, <2>1, EndsKeep DEF IInv
<1> QED BY <1>4, <1>5 DEF Due

-----------------------------------------------------------------------------
(* tick, for one owner.                                                     *)

\* A process that goes on with another record in hand.
LEMMA HandKeeps ==
  ASSUME IInv, BoundOK', NEW p \in Procs, NEW l \in Labels, Goto(p, l), pc[p] # "idle",
         NEW r \in Record \union {NoRecord}, Formed(r), r.episode <= episodes',
         was' = [was EXCEPT ![p] = r], UNCHANGED <<who, token, flag, got>>,
         gens <= gens', episodes <= episodes',
         l = "expire" => r.state = "live",
         l \in {"read", "defer", "empty", "reserve"} => r.notice = "pending",
         l \in {"receipt", "deliver", "finish"} => r.notice \in {"attempting", "unknown"}
  PROVE  ProcOK' /\ \A q \in Procs : Held(q)'
<1>1. ProcOK'
  BY DEF IInv, ProcOK, Goto
<1>2. /\ pc'[p] = l /\ was'[p] = r
      /\ \A q \in Procs : q # p => pc'[q] = pc[q] /\ was'[q] = was[q]
  BY DEF IInv, ProcOK, Goto
<1>3. Held(p) /\ token[p] \in Nat
  BY Bounds DEF IInv, ProcOK
<1>4. Held(p)'
  BY <1>2, <1>3 DEF Held, IInv, BoundOK
<1> QED BY <1>1, <1>2, <1>4, OthersKeep

\* Tick: what a process takes in hand is what its next label expects.
LEMMA TickKeeps ==
  ASSUME IInv, NEW p \in Procs, Tick(p)
  PROVE  IInv'
<1>1. BoundOK' /\ HistOK' /\ WorldOK' /\ gens <= gens' /\ episodes <= episodes'
  BY DEF IInv, BoundOK, HistOK, WorldOK, Tick, world, bound, hist
<1>2. FileOK'
  BY <1>1, FileKeeps DEF Tick, file, IInv, FileOK
<1>3. who[p] \in Agents /\ pc[p] = "tick"
  BY DEF IInv, Held, Tick
<1> DEFINE r == rec[who[p]]
<1>4. r \in Record \union {NoRecord} /\ Formed(r) /\ r.episode <= episodes'
  BY <1>3 DEF IInv, FileOK, Minted, Tick, bound
<1>5. ProcOK' /\ \A q \in Procs : Held(q)'
  <2>1. CASE Ends(p)
    BY <1>1, <2>1, EndsKeep
  <2>2. CASE /\ \/ r.state = "live" /\ Goto(p, "expire")
                \/ r.notice = "pending" /\ Goto(p, "read")
                \/ r.notice \in {"attempting", "unknown"} /\ Goto(p, "receipt")
             /\ was' = [was EXCEPT ![p] = r] /\ UNCHANGED <<who, token, flag, got>>
    <3>1. PICK l \in {"expire", "read", "receipt"} :
            /\ Goto(p, l) /\ l \in Labels
            /\ l = "expire" => r.state = "live"
            /\ l \in {"read", "defer", "empty", "reserve"} => r.notice = "pending"
            /\ l \in {"receipt", "deliver", "finish"} => r.notice \in {"attempting", "unknown"}
      BY <2>2 DEF Labels
    <3> QED BY <1>1, <1>3, <1>4, <2>2, <3>1, HandKeeps
  <2> QED BY <2>1, <2>2 DEF Tick
<1> QED BY <1>1, <1>2, <1>5 DEF IInv

\* Expire: a lease that ran ends with the next episode.
LEMMA ExpireKeeps ==
  ASSUME IInv, NEW p \in Procs, Expire(p)
  PROVE  IInv'
<1>1. BoundOK' /\ HistOK' /\ WorldOK' /\ gens <= gens' /\ episodes <= episodes'
  BY Bounds DEF IInv, BoundOK, HistOK, WorldOK, Expire, world, hist, file
<1>2. who[p] \in Agents /\ pc[p] = "expire" /\ was[p].state = "live" /\ Formed(was[p])
  BY DEF IInv, Held, Expire
<1>3. CASE ~Unmoved(p) /\ Ends(p) /\ UNCHANGED <<file, episodes>>
  <2>1. FileOK'
    BY <1>1, <1>3, FileKeeps DEF file, IInv, FileOK
  <2> QED BY <1>1, <1>3, <2>1, EndsKeep DEF IInv
<1>4. CASE Unmoved(p) /\ Goto(p, "read") /\ UNCHANGED <<who, token, flag, got>>
  <2> DEFINE new == [was[p] EXCEPT !.state = "expired", !.notice = "pending",
                                   !.episode = episodes + 1, !.rev = NextRevision(who[p])]
  <2>1. was[p] \in Record /\ was[p] = rec[who[p]] /\ Minted(who[p])
    BY <1>2, <1>4 DEF Unmoved, IInv, FileOK, ProcOK, NoRecord
  <2>2. NextRevision(who[p]) = counter + 1 /\ counter \in Nat
    BY <1>2, RevisionIsNext DEF IInv, FileOK
  <2>3. /\ episodes' = episodes + 1 /\ episodes + 1 \in 0 .. MaxEpisodes /\ UNCHANGED gens
        /\ Revised(who[p], new) /\ was' = [was EXCEPT ![p] = new]
    BY <1>2, <1>4, Bounds DEF Expire, Unmoved, IInv, BoundOK
  <2>4. /\ new \in Record /\ Formed(new) /\ new.gen = was[p].gen
        /\ new.episode = episodes + 1 /\ new.notice = "pending"
    <3> DEFINE next == NextRevision(who[p])
    <3>1. next \in Nat /\ episodes + 1 \in 0 .. MaxEpisodes /\ episodes + 1 # 0
      BY <2>2, <2>3, Bounds DEF IInv, BoundOK
    <3>2. new = [was[p] EXCEPT !.state = "expired", !.notice = "pending",
                               !.episode = episodes + 1, !.rev = next]
      OBVIOUS
    <3> HIDE DEF next, new
    <3> QED BY <2>1, <3>1, <3>2 DEF Record, Formed
  <2> HIDE DEF new
  <2>5. FileOK'
    BY <1>1, <1>2, <2>1, <2>3, <2>4, RevisedKeeps DEF Minted, IInv, BoundOK
  <2>6. ProcOK' /\ \A q \in Procs : Held(q)'
    <3>1. new \in Record \union {NoRecord} /\ new.episode <= episodes' /\ "read" \in Labels
      BY <2>3, <2>4, Bounds DEF Labels, IInv, BoundOK
    <3> QED BY <1>1, <1>2, <1>4, <2>3, <2>4, <3>1, HandKeeps
  <2> QED BY <1>1, <2>5, <2>6 DEF IInv
<1> QED BY <1>3, <1>4 DEF Expire

\* ReadWork: the record in hand is still one that is pending.
LEMMA ReadWorkKeeps ==
  ASSUME IInv, NEW p \in Procs, ReadWork(p)
  PROVE  IInv'
<1>1. BoundOK' /\ HistOK' /\ WorldOK' /\ gens <= gens' /\ episodes <= episodes'
  BY DEF IInv, BoundOK, HistOK, WorldOK, ReadWork, world, bound, hist
<1>2. FileOK'
  BY <1>1, FileKeeps DEF ReadWork, file, IInv, FileOK
<1>3. pc[p] = "read" /\ was[p].notice = "pending"
  BY DEF IInv, Held, ReadWork
<1>4. ProcOK' /\ \A q \in Procs : Held(q)'
  BY <1>1, <1>3, EndsKeep, GotoKeeps DEF ReadWork, IInv, ProcOK, Labels
<1> QED BY <1>1, <1>2, <1>4 DEF IInv

\* Defer: the record in hand is stamped, or nothing written.
LEMMA DeferKeeps ==
  ASSUME IInv, NEW p \in Procs, Defer(p)
  PROVE  IInv'
<1>1. BoundOK' /\ HistOK' /\ WorldOK' /\ gens <= gens' /\ episodes <= episodes'
  BY Bounds DEF IInv, BoundOK, HistOK, WorldOK, Defer, world, hist
<1>2. who[p] \in Agents /\ was[p].notice = "pending"
  BY DEF IInv, Held, Defer
<1>3. FileOK'
  <2>1. CASE UNCHANGED rec
    BY <1>1, <2>1, FileKeeps DEF Defer, IInv, FileOK
  <2>2. CASE Unmoved(p) /\ stamps < MaxStamps
    <3> DEFINE r == rec[who[p]]
               s == [r EXCEPT !.stamp = stamps + 1]
    <3>1. r \in Record \union {NoRecord} /\ Formed(r) /\ Minted(who[p]) /\ r = was[p]
      BY <1>2, <2>2 DEF Unmoved, IInv, FileOK
    <3>2. stamps + 1 \in 0 .. MaxStamps
      BY <2>2, Bounds DEF IInv, BoundOK
    <3>3. /\ s \in Record /\ Formed(s)
          /\ s.gen = r.gen /\ s.rev = r.rev /\ s.episode = r.episode
      BY <1>2, <3>1, <3>2, StampedRecord DEF NoRecord
    <3>4. rec' = [rec EXCEPT ![who[p]] = s]
      BY <2>2, <3>1 DEF Defer
    <3> HIDE DEF s
    <3> QED BY <1>1, <1>2, <3>1, <3>3, <3>4, RecordKeeps DEF Minted, Defer, IInv, FileOK
  <2> QED BY <2>1, <2>2 DEF Defer
<1>4. ProcOK' /\ \A q \in Procs : Held(q)'
  BY <1>1, EndsKeep DEF Defer
<1> QED BY <1>1, <1>3, <1>4 DEF IInv

\* A process replaces a record that has not moved by the same with another notice.
LEMMA ReplaceKeeps ==
  ASSUME IInv, BoundOK', NEW p \in Procs, who[p] \in Agents, was[p].notice # "none",
         NEW n \in {"pending", "attempting", "unknown", "delivered", "empty"},
         rec' = [rec EXCEPT ![who[p]] = [was[p] EXCEPT !.notice = n]], Unmoved(p),
         UNCHANGED <<counter, gens, episodes>>
  PROVE  /\ FileOK'
         /\ LET s == [was[p] EXCEPT !.notice = n] IN
            s \in Record /\ Formed(s) /\ s.notice = n /\ s.episode <= episodes'
<1> DEFINE r == rec[who[p]]
           s == [r EXCEPT !.notice = n]
<1>1. r \in Record \union {NoRecord} /\ Formed(r) /\ Minted(who[p]) /\ r = was[p]
  BY DEF Unmoved, IInv, FileOK
<1>2. /\ s \in Record /\ Formed(s) /\ s.notice = n
      /\ s.gen = r.gen /\ s.rev = r.rev /\ s.episode = r.episode
  BY <1>1, NoticedRecord
<1>3. rec' = [rec EXCEPT ![who[p]] = s] /\ s = [was[p] EXCEPT !.notice = n]
  BY <1>1
<1> HIDE DEF s
<1>4. /\ counter' \in Nat /\ counter <= counter' /\ gens <= gens' /\ episodes <= episodes'
      /\ s.rev <= counter' /\ s.gen <= gens' /\ s.episode <= episodes'
  BY <1>1, <1>2 DEF Minted, IInv, FileOK, BoundOK
<1>5. FileOK'
  BY <1>2, <1>3, <1>4, RecordKeeps
<1> QED BY <1>2, <1>3, <1>4, <1>5

\* Empty: the record in hand says that nothing is left, or nothing is written.
LEMMA EmptyKeeps ==
  ASSUME IInv, NEW p \in Procs, Empty(p)
  PROVE  IInv'
<1>1. BoundOK' /\ HistOK' /\ WorldOK' /\ gens <= gens' /\ episodes <= episodes'
  BY DEF IInv, BoundOK, HistOK, WorldOK, Empty, world, bound, hist
<1>2. who[p] \in Agents /\ was[p].notice = "pending"
  BY DEF IInv, Held, Empty
<1>3. FileOK'
  <2>1. CASE Unmoved(p)
    BY <1>1, <1>2, <2>1, ReplaceKeeps DEF Empty, bound
  <2>2. CASE ~Unmoved(p)
    BY <1>1, <2>2, FileKeeps DEF Empty, IInv, FileOK
  <2> QED BY <2>1, <2>2
<1>4. ProcOK' /\ \A q \in Procs : Held(q)'
  BY <1>1, EndsKeep DEF Empty
<1> QED BY <1>1, <1>3, <1>4 DEF IInv

\* Reserve: the record in hand becomes the attempt, or nothing is written.
LEMMA ReserveKeeps ==
  ASSUME IInv, NEW p \in Procs, Reserve(p)
  PROVE  IInv'
<1>1. BoundOK' /\ WorldOK' /\ gens <= gens' /\ episodes <= episodes'
  BY DEF IInv, BoundOK, WorldOK, Reserve, world, bound
<1>2. who[p] \in Agents /\ pc[p] = "reserve" /\ was[p].notice = "pending" /\ Formed(was[p])
  BY DEF IInv, Held, Reserve
<1>3. was[p].episode \in Episodes
  BY <1>2, RecordFields DEF Formed, IInv, ProcOK, NoRecord, Record, Episodes
<1>4. HistOK'
  BY <1>3 DEF IInv, HistOK, Reserve
<1>5. CASE ~Unmoved(p) /\ Ends(p) /\ UNCHANGED rec
  <2>1. FileOK'
    BY <1>1, <1>5, FileKeeps DEF Reserve, IInv, FileOK
  <2> QED BY <1>1, <1>4, <1>5, <2>1, EndsKeep DEF IInv
<1>6. CASE Unmoved(p) /\ Goto(p, "deliver") /\ UNCHANGED <<who, token, flag, got>>
  <2> DEFINE attempt == [was[p] EXCEPT !.notice = "attempting"]
  <2>1. rec' = [rec EXCEPT ![who[p]] = attempt] /\ was' = [was EXCEPT ![p] = attempt]
    BY <1>6 DEF Reserve
  <2>2. /\ FileOK' /\ attempt \in Record /\ Formed(attempt) /\ attempt.notice = "attempting"
        /\ attempt.episode <= episodes'
    BY <1>1, <1>2, <1>6, <2>1, ReplaceKeeps DEF Reserve, bound
  <2> HIDE DEF attempt
  <2>3. ProcOK' /\ \A q \in Procs : Held(q)'
    BY <1>1, <1>2, <1>6, <2>1, <2>2, HandKeeps DEF Labels
  <2> QED BY <1>1, <1>4, <2>2, <2>3 DEF IInv
<1> QED BY <1>5, <1>6 DEF Reserve

\* Whoever has a notice in hand has its episode.
LEMMA EpisodeInHand ==
  ASSUME IInv, NEW p \in Procs, was[p].notice # "none"
  PROVE  was[p].episode \in Episodes /\ was[p].episode <= episodes
<1>1. Formed(was[p]) /\ was[p] \in Record /\ was[p].episode <= episodes
  BY DEF IInv, ProcOK, Held, NoRecord
<1> QED BY <1>1, Bounds DEF Formed, Record, Episodes

\* Deliver: the inbox of an episode that exists.
LEMMA DeliverKeeps ==
  ASSUME IInv, NEW p \in Procs, Deliver(p)
  PROVE  IInv'
<1>1. BoundOK' /\ HistOK' /\ gens <= gens' /\ episodes <= episodes'
  BY DEF IInv, BoundOK, HistOK, Deliver, bound, hist
<1>2. FileOK'
  BY <1>1, FileKeeps DEF Deliver, file, IInv, FileOK
<1>3. pc[p] = "deliver" /\ was[p].notice \in {"attempting", "unknown"}
  BY DEF IInv, Held, Deliver
<1>4. WorldOK'
  <2>1. \/ UNCHANGED inbox
        \/ inbox' = [inbox EXCEPT ![was[p].episode] = @ + 1]
    BY DEF Deliver
  <2>2. inbox \in [Episodes -> Nat]
    BY DEF IInv, WorldOK
  <2>3. inbox' \in [Episodes -> Nat]
    BY <2>1, <2>2
  <2> QED BY <2>3 DEF Deliver, IInv, WorldOK
<1>5. got' \in [Procs -> BOOLEAN]
  BY DEF Deliver, IInv, ProcOK
<1>6. ProcOK' /\ \A q \in Procs : Held(q)'
  BY <1>1, <1>3, <1>5, GotoKeeps DEF Deliver, IInv, ProcOK, Labels
<1> QED BY <1>1, <1>2, <1>4, <1>6 DEF IInv

\* Receipt: what was read is a Boolean.
LEMMA ReceiptKeeps ==
  ASSUME IInv, NEW p \in Procs, Receipt(p)
  PROVE  IInv'
<1>1. BoundOK' /\ HistOK' /\ WorldOK' /\ gens <= gens' /\ episodes <= episodes'
  BY DEF IInv, BoundOK, HistOK, WorldOK, Receipt, world, bound, hist
<1>2. FileOK'
  BY <1>1, FileKeeps DEF Receipt, file, IInv, FileOK
<1>3. pc[p] = "receipt" /\ was[p].notice \in {"attempting", "unknown"}
  BY DEF IInv, Held, Receipt
<1>4. CASE Ends(p)
  BY <1>1, <1>2, <1>4, EndsKeep DEF IInv
<1>5. CASE /\ got' = [got EXCEPT ![p] = inbox[was[p].episode] > 0]
           /\ Goto(p, "finish") /\ UNCHANGED <<who, was, token, flag>>
  <2>1. got' \in [Procs -> BOOLEAN]
    <3>1. (inbox[was[p].episode] > 0) \in BOOLEAN /\ got \in [Procs -> BOOLEAN]
      BY DEF IInv, ProcOK
    <3> QED BY <1>5, <3>1, Zenon
  <2>2. ProcOK' /\ \A q \in Procs : Held(q)'
    BY <1>1, <1>3, <1>5, <2>1, GotoKeeps DEF IInv, ProcOK, Labels
  <2> QED BY <1>1, <1>2, <2>2 DEF IInv
<1> QED BY <1>4, <1>5 DEF Receipt

\* Finish: a verdict is written only on an attempt of the same episode.
LEMMA FinishKeeps ==
  ASSUME IInv, NEW p \in Procs, Finish(p)
  PROVE  IInv'
<1> DEFINE a == who[p]
           verdict == IF got[p] THEN "delivered" ELSE "unknown"
           r == rec[a]
           s == [r EXCEPT !.notice = verdict]
<1>1. BoundOK' /\ WorldOK' /\ gens <= gens' /\ episodes <= episodes'
  BY DEF IInv, BoundOK, WorldOK, Finish, world, bound
<1>2. a \in Agents /\ was[p].notice \in {"attempting", "unknown"}
  BY DEF IInv, Held, Finish
<1>3. r \in Record \union {NoRecord} /\ Formed(r) /\ Minted(a)
  BY <1>2 DEF IInv, FileOK
<1>4. was[p].episode \in Episodes
  BY <1>2, EpisodeInHand
<1>5. HistOK'
  BY <1>4 DEF Finish, Current, IInv, HistOK
<1>6. FileOK'
  <2>1. CASE Current(p)
    <3>1. rec' = [rec EXCEPT ![a] = s]
      BY <2>1 DEF Finish
    <3>2. /\ s \in Record /\ Formed(s)
          /\ s.gen = r.gen /\ s.rev = r.rev /\ s.episode = r.episode
      <4>1. r.notice # "none"
        BY <2>1 DEF Current
      <4>2. /\ verdict \in {"pending", "attempting", "unknown", "delivered", "empty"}
            /\ s = [r EXCEPT !.notice = verdict]
        OBVIOUS
      <4> HIDE DEF verdict, s, r
      <4> QED BY <1>3, <4>1, <4>2, NoticedRecord
    <3> HIDE DEF s
    <3> QED BY <1>1, <1>2, <1>3, <3>1, <3>2, RecordKeeps DEF Minted, Finish, bound, IInv, FileOK
  <2>2. CASE ~Current(p)
    BY <1>1, <2>2, FileKeeps DEF Finish, IInv, FileOK
  <2> QED BY <2>1, <2>2
<1>7. ProcOK' /\ \A q \in Procs : Held(q)'
  BY <1>1, EndsKeep DEF Finish
<1> QED BY <1>1, <1>5, <1>6, <1>7 DEF IInv

\* Crash: the counter may be ahead of the file, never behind it.
LEMMA CrashKeeps ==
  ASSUME IInv, NEW p \in Procs, Crash(p)
  PROVE  IInv'
<1>1. BoundOK' /\ HistOK' /\ WorldOK' /\ gens <= gens' /\ episodes <= episodes'
  BY Bounds DEF IInv, BoundOK, HistOK, WorldOK, Crash, world, hist
<1>2. who[p] \in Agents
  BY DEF IInv, Held, Crash
<1>3. NextRevision(who[p]) = counter + 1 /\ counter \in Nat
  BY <1>2, RevisionIsNext DEF IInv, FileOK
<1>4. counter' \in Nat /\ counter <= counter' /\ UNCHANGED rec
  BY <1>3 DEF Crash
<1>5. FileOK'
  BY <1>1, <1>4, FileKeeps
<1>6. ProcOK' /\ \A q \in Procs : Held(q)'
  BY <1>1, EndsKeep DEF Crash
<1> QED BY <1>1, <1>5, <1>6 DEF IInv

-----------------------------------------------------------------------------
(* The invariant holds.                                                     *)

\* No record, and nobody under way.
LEMMA InitHolds == Init => IInv
<1> SUFFICES ASSUME Init PROVE IInv
  OBVIOUS
<1>1. FileOK
  BY DEF Init, FileOK, Formed, Minted, NoRecord
<1>2. WorldOK /\ HistOK
  BY DEF Init, WorldOK, HistOK
<1>3. BoundOK
  BY Bounds DEF Init, BoundOK
<1>4. ProcOK /\ \A p \in Procs : Held(p)
  BY Bounds DEF Init, ProcOK, Held, Formed, NoRecord, Labels
<1> QED BY <1>1, <1>2, <1>3, <1>4 DEF IInv

\* Every step keeps the invariant: one lemma per action.
LEMMA StepHolds == IInv /\ [Next]_vars => IInv'
<1> SUFFICES ASSUME IInv, [Next]_vars PROVE IInv'
  OBVIOUS
<1>1. ASSUME NEW p \in Procs, Step(p) PROVE IInv'
  BY <1>1, LaunchKeeps, StopKeeps, MailKeeps, WakeKeeps, ReadStopsKeeps, ReplayStopKeeps,
     DueKeeps, TickKeeps, ExpireKeeps, ReadWorkKeeps, DeferKeeps, EmptyKeeps, ReserveKeeps,
     DeliverKeeps, ReceiptKeeps, FinishKeeps DEF Step
<1>2. ASSUME NEW p \in Procs, NEW a \in Agents,
             Relaunch(p, a) \/ StopAgent(p, a) \/ Ceiling(p, a) \/ Look(p, a) \/ Observe(p, a)
      PROVE  IInv'
  BY <1>2, RelaunchKeeps, StopAgentKeeps, CeilingKeeps, LookKeeps, ObserveKeeps
<1>3. CASE UNCHANGED vars
  <2>1. BoundOK' /\ HistOK' /\ WorldOK' /\ ProcOK'
    BY <1>3 DEF IInv, BoundOK, HistOK, WorldOK, ProcOK, vars, bound, hist, world, proc
  <2>2. FileOK'
    BY <1>3 DEF IInv, FileOK, Minted, Formed, vars, file, bound
  <2>3. \A q \in Procs : Held(q)'
    BY <1>3 DEF IInv, Held, Formed, vars, proc, bound
  <2> QED BY <2>1, <2>2, <2>3 DEF IInv
<1> QED BY <1>1, <1>2, <1>3, CrashKeeps, HeartbeatKeeps DEF Next

\* The invariant holds throughout.
LEMMA Invariance == Spec => []IInv
BY InitHolds, StepHolds, PTL DEF Spec

\* Every variable keeps its type, and a lease has a notice exactly once it has ended.
THEOREM TypeCorrect == Spec => []TypeOK
BY Invariance, TypesHold, PTL

-----------------------------------------------------------------------------
(* What any step may make of the records.                                   *)

\* A record becomes a running lease, or ends one with a new episode, or its notice
\* takes one of the steps a notice takes while the episode lasts.
Turns(a) ==
  LET old == rec[a]
      new == rec'[a]
  IN \/ new.notice = "none" /\ new.episode = 0 /\ new.state = "live"
     \/ new.notice = "pending" /\ new.episode = episodes + 1 /\ episodes' = episodes + 1
     \/ /\ new.episode = old.episode /\ new.state = old.state /\ new.gen = old.gen
        /\ \/ new.notice = old.notice
           \/ old.notice = "empty" /\ new.notice = "pending"
           \/ old.notice = "pending" /\ new.notice \in {"empty", "attempting"}
           \/ old.notice \in {"attempting", "unknown"} /\ new.notice \in {"delivered", "unknown"}

\* At most one record is written in a step.
OneTurns == \/ UNCHANGED rec
            \/ \E a \in Agents : Turns(a) /\ \A b \in Agents : b # a => rec'[b] = rec[b]

\* Replacing a record.
LEMMA Replaced ==
  ASSUME IInv, NEW a \in Agents, NEW r, rec' = [rec EXCEPT ![a] = r]
  PROVE  rec'[a] = r /\ \A b \in Agents : b # a => rec'[b] = rec[b]
BY DEF IInv, FileOK

\* Publishing a record changes its revision, and no other record.
LEMMA RevisedTurns ==
  ASSUME IInv, NEW a \in Agents, NEW r \in Record, Revised(a, r)
  PROVE  /\ rec'[a].gen = r.gen /\ rec'[a].state = r.state
         /\ rec'[a].notice = r.notice /\ rec'[a].episode = r.episode
         /\ \A b \in Agents : b # a => rec'[b] = rec[b]
<1> DEFINE n == NextRevision(a)
           s == [r EXCEPT !.rev = n]
<1>1. rec' = [rec EXCEPT ![a] = s]
  BY DEF Revised
<1> HIDE DEF n
<1>2. s.gen = r.gen /\ s.state = r.state /\ s.notice = r.notice /\ s.episode = r.episode
  BY DEF Record
<1> HIDE DEF s
<1> QED BY <1>1, <1>2, Replaced

\* A locked stop does nothing, wakes an empty notice or mints an episode.
LEMMA StopTurns ==
  ASSUME IInv, NEW a \in Agents, NEW state \in {"stopped", "ceiling"}, NEW wake \in BOOLEAN,
         NEW fence, StopsRecord(a, state, wake, fence)
  PROVE  OneTurns
<1> USE OwnedWorkAssumption
<1> DEFINE old == rec[a]
<1>1. old \in Record \union {NoRecord}
  BY DEF IInv, FileOK
<1>2. CASE UNCHANGED <<file, gens, episodes>>
  BY <1>2 DEF file, OneTurns
<1>3. CASE /\ Ended(old)
           /\ rec' = [rec EXCEPT ![a].notice = IF wake /\ @ = "empty" THEN "pending" ELSE @]
  <2> DEFINE r == [old EXCEPT !.notice = IF wake /\ @ = "empty" THEN "pending" ELSE @]
  <2>1. /\ r.gen = old.gen /\ r.state = old.state /\ r.episode = old.episode
        /\ r.notice = old.notice \/ (old.notice = "empty" /\ r.notice = "pending")
    BY <1>1 DEF Record, NoRecord
  <2>2. rec' = [rec EXCEPT ![a] = r]
    BY <1>3
  <2> HIDE DEF r
  <2>3. rec'[a] = r /\ \A b \in Agents : b # a => rec'[b] = rec[b]
    BY <2>2, Replaced
  <2> QED BY <2>1, <2>3 DEF OneTurns, Turns
<1>4. CASE /\ ~Ended(old) /\ episodes' = episodes + 1 /\ (old.gen = 0 => gens < MaxGens)
           /\ episodes < MaxEpisodes
           /\ Revised(a, [old EXCEPT !.gen = IF @ = 0 THEN gens + 1 ELSE @, !.state = state,
                                     !.notice = "pending", !.episode = episodes + 1])
  <2> DEFINE r == [old EXCEPT !.gen = IF @ = 0 THEN gens + 1 ELSE @, !.state = state,
                              !.notice = "pending", !.episode = episodes + 1]
             n == NextRevision(a)
             s == [r EXCEPT !.rev = n]
  <2>1. rec' = [rec EXCEPT ![a] = s]
    BY <1>4 DEF Revised
  <2> HIDE DEF n
  <2>2. s.notice = "pending" /\ s.episode = episodes + 1
    BY <1>1 DEF Record, NoRecord
  <2> HIDE DEF s
  <2>3. rec'[a] = s /\ \A b \in Agents : b # a => rec'[b] = rec[b]
    BY <2>1, Replaced
  <2> QED BY <1>4, <2>2, <2>3 DEF OneTurns, Turns
<1> QED BY <1>2, <1>3, <1>4 DEF StopsRecord

\* Launch: a running lease.
LEMMA LaunchTurns ==
  ASSUME IInv, NEW p \in Procs, Launch(p)
  PROVE  OneTurns
<1> DEFINE r == [NoRecord EXCEPT !.gen = gens + 1, !.state = "live"]
<1>1. gens + 1 \in Gens /\ who[p] \in Agents /\ Revised(who[p], r)
  BY Bounds DEF IInv, BoundOK, Held, Launch, Gens
<1>2. r \in Record /\ r.state = "live" /\ r.notice = "none" /\ r.episode = 0
  BY <1>1, LiveRecord DEF NoRecord
<1> HIDE DEF r
<1> QED BY <1>1, <1>2, RevisedTurns DEF OneTurns, Turns

\* Heartbeat: a running lease.
LEMMA HeartbeatTurns ==
  ASSUME IInv, NEW a \in Agents, Heartbeat(a)
  PROVE  OneTurns
<1> DEFINE old == rec[a]
           new == [NoRecord EXCEPT !.gen = old.gen, !.state = "live",
                                   !.rev = old.rev, !.stamp = stamps + 1]
           first == [NoRecord EXCEPT !.gen = gens + 1, !.state = "live"]
           next == NextRevision(a)
           over == [new EXCEPT !.rev = next]
<1>1. \/ rec' = [rec EXCEPT ![a] = first]
      \/ rec' = [rec EXCEPT ![a] = new]
      \/ rec' = [rec EXCEPT ![a] = over]
  BY DEF Heartbeat, Revised
<1> HIDE DEF next
<1>2. \A r \in {first, new, over} : r.state = "live" /\ r.notice = "none" /\ r.episode = 0
  BY DEF NoRecord
<1> HIDE DEF first, new, over
<1> QED BY <1>1, <1>2, Replaced DEF OneTurns, Turns

\* Wake: from empty back to pending.
LEMMA WakeTurns ==
  ASSUME IInv, NEW p \in Procs, Wake(p)
  PROVE  OneTurns
<1> DEFINE a == who[p]
           r == Woken(rec[a])
<1>1. a \in Agents /\ rec' = [rec EXCEPT ![a] = r] /\ rec[a] \in Record \union {NoRecord}
  BY DEF Wake, IInv, Held, FileOK
<1>2. /\ r.gen = rec[a].gen /\ r.state = rec[a].state /\ r.episode = rec[a].episode
      /\ r.notice = rec[a].notice \/ (rec[a].notice = "empty" /\ r.notice = "pending")
  BY <1>1 DEF Woken, Record, NoRecord
<1> HIDE DEF r
<1> QED BY <1>1, <1>2, Replaced DEF OneTurns, Turns

\* Due: the notice is not touched.
LEMMA DueTurns ==
  ASSUME IInv, NEW p \in Procs, Due(p)
  PROVE  OneTurns
<1> DEFINE a == who[p]
           r == [rec[a] EXCEPT !.stamp = stamps + 1]
<1>1. a \in Agents /\ rec[a] \in Record \union {NoRecord}
  BY DEF Due, IInv, Held, FileOK
<1>2. UNCHANGED rec \/ rec' = [rec EXCEPT ![a] = r]
  BY DEF Due
<1>3. /\ r.gen = rec[a].gen /\ r.state = rec[a].state /\ r.episode = rec[a].episode
      /\ r.notice = rec[a].notice
  BY <1>1 DEF Record, NoRecord
<1> HIDE DEF r
<1> QED BY <1>1, <1>2, <1>3, Replaced DEF OneTurns, Turns

\* Expire: the next episode, pending.
LEMMA ExpireTurns ==
  ASSUME IInv, NEW p \in Procs, Expire(p)
  PROVE  OneTurns
<1> DEFINE a == who[p]
           n == NextRevision(a)
           r == [[was[p] EXCEPT !.state = "expired", !.notice = "pending",
                                !.episode = episodes + 1, !.rev = n] EXCEPT !.rev = n]
<1>1. a \in Agents /\ was[p] \in Record \union {NoRecord}
  BY DEF Expire, IInv, Held, ProcOK
<1>2. UNCHANGED rec \/ (rec' = [rec EXCEPT ![a] = r] /\ episodes' = episodes + 1)
  BY DEF Expire, Revised, file
<1> HIDE DEF n
<1>3. r.notice = "pending" /\ r.episode = episodes + 1
  BY <1>1 DEF Record, NoRecord
<1> HIDE DEF r
<1> QED BY <1>1, <1>2, <1>3, Replaced DEF OneTurns, Turns

\* Defer: the notice is not touched.
LEMMA DeferTurns ==
  ASSUME IInv, NEW p \in Procs, Defer(p)
  PROVE  OneTurns
<1> DEFINE a == who[p]
           r == [rec[a] EXCEPT !.stamp = stamps + 1]
<1>1. a \in Agents /\ rec[a] \in Record \union {NoRecord}
  BY DEF Defer, IInv, Held, FileOK
<1>2. UNCHANGED rec \/ rec' = [rec EXCEPT ![a] = r]
  BY DEF Defer, Unmoved
<1>3. /\ r.gen = rec[a].gen /\ r.state = rec[a].state /\ r.episode = rec[a].episode
      /\ r.notice = rec[a].notice
  BY <1>1 DEF Record, NoRecord
<1> HIDE DEF r
<1> QED BY <1>1, <1>2, <1>3, Replaced DEF OneTurns, Turns

\* A record that has not moved is replaced by itself with another notice.
LEMMA NoticeTurns ==
  ASSUME IInv, NEW a \in Agents, NEW n,
         rec' = [rec EXCEPT ![a] = [rec[a] EXCEPT !.notice = n]],
         \/ rec[a].notice = "pending" /\ n \in {"empty", "attempting"}
         \/ rec[a].notice \in {"attempting", "unknown"} /\ n \in {"delivered", "unknown"}
  PROVE  OneTurns
<1> DEFINE r == [rec[a] EXCEPT !.notice = n]
<1>1. rec[a] \in Record \union {NoRecord}
  BY DEF IInv, FileOK
<1>2. /\ r.gen = rec[a].gen /\ r.state = rec[a].state /\ r.episode = rec[a].episode
      /\ r.notice = n
  BY <1>1 DEF Record, NoRecord
<1> HIDE DEF r
<1>3. rec'[a] = r /\ \A b \in Agents : b # a => rec'[b] = rec[b]
  BY Replaced DEF r
<1> QED BY <1>2, <1>3 DEF OneTurns, Turns

\* Empty: from pending.
LEMMA EmptyTurns ==
  ASSUME IInv, NEW p \in Procs, Empty(p)
  PROVE  OneTurns
<1>1. who[p] \in Agents /\ was[p].notice = "pending"
  BY DEF Empty, IInv, Held
<1> QED BY <1>1, NoticeTurns DEF Empty, Unmoved, OneTurns

\* Reserve: from pending.
LEMMA ReserveTurns ==
  ASSUME IInv, NEW p \in Procs, Reserve(p)
  PROVE  OneTurns
<1>1. who[p] \in Agents /\ was[p].notice = "pending"
  BY DEF Reserve, IInv, Held
<1> QED BY <1>1, NoticeTurns DEF Reserve, Unmoved, OneTurns

\* Finish: from an attempt of the same episode, never from a receipt.
LEMMA FinishTurns ==
  ASSUME IInv, NEW p \in Procs, Finish(p)
  PROVE  OneTurns
<1> DEFINE verdict == IF got[p] THEN "delivered" ELSE "unknown"
<1>1. who[p] \in Agents /\ verdict \in {"delivered", "unknown"}
  BY DEF Finish, IInv, Held
<1>2. CASE ~Current(p)
  BY <1>2 DEF Finish, OneTurns
<1>3. CASE Current(p)
  <2>1. rec' = [rec EXCEPT ![who[p]] = [rec[who[p]] EXCEPT !.notice = verdict]]
    BY <1>3 DEF Finish
  <2>2. rec[who[p]].notice \in {"attempting", "unknown"}
    BY <1>3 DEF Current
  <2> HIDE DEF verdict
  <2> QED BY <1>1, <2>1, <2>2, NoticeTurns
<1> QED BY <1>2, <1>3

\* Every step of the system takes at most one record one turn further.
LEMMA StepTurns ==
  ASSUME IInv, [Next]_vars
  PROVE  OneTurns
<1>1. ASSUME NEW p \in Procs, Step(p) PROVE OneTurns
  <2>1. CASE Stop(p)
    BY <2>1, StopTurns DEF Stop, IInv, Held
  <2>2. CASE ReplayStop(p)
    BY <2>2, StopTurns DEF ReplayStop, Replay, IInv, Held
  <2>3. CASE Mail(p) \/ ReadStops(p) \/ Tick(p) \/ ReadWork(p) \/ Deliver(p) \/ Receipt(p)
    BY <2>3 DEF Mail, ReadStops, Tick, ReadWork, Deliver, Receipt, file, OneTurns
  <2> QED BY <1>1, <2>1, <2>2, <2>3, LaunchTurns, WakeTurns, DueTurns, ExpireTurns, DeferTurns,
             EmptyTurns, ReserveTurns, FinishTurns DEF Step
<1>2. ASSUME NEW p \in Procs, NEW a \in Agents,
             Relaunch(p, a) \/ StopAgent(p, a) \/ Ceiling(p, a) \/ Look(p, a) \/ Observe(p, a)
      PROVE  OneTurns
  <2>1. CASE Ceiling(p, a)
    BY <2>1, StopTurns DEF Ceiling
  <2> QED BY <1>2, <2>1 DEF Relaunch, StopAgent, Look, Observe, file, OneTurns
<1>3. CASE UNCHANGED vars
  BY <1>3 DEF vars, file, OneTurns
<1>4. ASSUME NEW p \in Procs, Crash(p) PROVE OneTurns
  BY <1>4 DEF Crash, OneTurns
<1> QED BY <1>1, <1>2, <1>3, <1>4, HeartbeatTurns DEF Next

\* An episode's receipt is final: while the episode lasts nothing, be it a late
\* verdict or new mail, takes "delivered" back.
THEOREM ReceiptIsFinal == Spec => ReceiptStays
<1>1. ASSUME IInv, [Next]_vars, NEW a \in Agents,
             rec[a].notice = "delivered", rec'[a].episode = rec[a].episode
      PROVE  rec'[a].notice = "delivered"
  <2>1. /\ rec[a].episode # 0 /\ rec[a].episode <= episodes
        /\ rec[a].episode \in Nat /\ episodes \in Nat
    BY <1>1, RecordFields DEF IInv, FileOK, BoundOK, Formed, Minted
  <2>2. UNCHANGED rec \/ rec'[a] = rec[a] \/ Turns(a)
    BY <1>1, StepTurns DEF OneTurns
  <2> QED BY <1>1, <2>1, <2>2 DEF Turns
<1>2. IInv /\ [Next]_vars =>
        \A a \in Agents : rec[a].notice = "delivered" /\ rec'[a].episode = rec[a].episode
          => rec'[a].notice = "delivered"
  BY <1>1
<1> QED BY <1>2, Invariance, PTL DEF Spec, ReceiptStays

-----------------------------------------------------------------------------
(* Notices: an episode is one agent's, its sending is reserved before it is *)
(* made, and whoever makes it is the only one to.                           *)

\* An owner with a notice left to decide on has an episode of its own, not yet reserved.
Reservable(a) ==
  /\ rec[a].notice \in {"pending", "empty"} => rec[a].episode \notin reserved
  /\ \A b \in Agents : rec[a].episode = rec[b].episode => a = b \/ rec[a].episode = 0

\* Whoever is at the sending of a notice is the only one, and it was not sent yet.
Sender(p) ==
  /\ pc[p] = "deliver" =>
       /\ was[p].episode \in reserved /\ inbox[was[p].episode] = 0
       /\ \A q \in Procs : pc[q] = "deliver" /\ was[q].episode = was[p].episode => q = p
  /\ pc[p] = "finish" /\ got[p] => inbox[was[p].episode] = 1

NoticeInv ==
  /\ reserved \subseteq 1 .. episodes
  /\ \A e \in Episodes : inbox[e] \in {0, 1} /\ (inbox[e] = 1 => e \in reserved)
  /\ \A a \in Agents : Reservable(a)
  /\ \A p \in Procs : Sender(p)

\* The episodes are numbers that were minted.
LEMMA EpisodesOf ==
  ASSUME IInv
  PROVE  /\ episodes \in Nat /\ MaxEpisodes \in Nat /\ episodes <= MaxEpisodes
         /\ \A a \in Agents : rec[a].episode \in Nat /\ rec[a].episode <= episodes
<1>1. ASSUME NEW a \in Agents PROVE rec[a].episode \in Nat /\ rec[a].episode <= episodes
  BY RecordFields DEF IInv, FileOK, Minted
<1> QED BY <1>1, Bounds DEF IInv, BoundOK

\* A step that reserves nothing leaves what may be reserved.
LEMMA ReservableKeeps ==
  ASSUME IInv, NoticeInv, OneTurns, UNCHANGED reserved
  PROVE  \A a \in Agents : Reservable(a)'
<1> SUFFICES ASSUME NEW a \in Agents PROVE Reservable(a)'
  OBVIOUS
<1>1. CASE UNCHANGED rec
  BY <1>1 DEF NoticeInv, Reservable
<1>2. CASE \E c \in Agents : Turns(c) /\ \A b \in Agents : b # c => rec'[b] = rec[b]
  <2> PICK c \in Agents : Turns(c) /\ \A b \in Agents : b # c => rec'[b] = rec[b]
    BY <1>2
  <2>1. Reservable(a) /\ Reservable(c)
    BY DEF NoticeInv
  <2>2. episodes + 1 \notin reserved /\ \A b \in Agents : rec[b].episode # episodes + 1
    BY EpisodesOf DEF NoticeInv
  <2>3. rec'[a].notice \in {"pending", "empty"} => rec'[a].episode \notin reserved
    BY <2>1, <2>2 DEF Turns, Reservable
  <2>4. ASSUME NEW b \in Agents, rec'[a].episode = rec'[b].episode, a # b
        PROVE  rec'[a].episode = 0
    <3>1. \/ rec'[c].episode = 0
          \/ rec'[c].episode = episodes + 1
          \/ rec'[c].episode = rec[c].episode
      BY DEF Turns
    <3>2. CASE a = c
      BY <2>1, <2>2, <2>4, <3>1, <3>2 DEF Reservable
    <3>3. CASE b = c
      BY <2>1, <2>2, <2>4, <3>1, <3>3 DEF Reservable
    <3>4. CASE a # c /\ b # c
      BY <2>1, <2>4, <3>4 DEF Reservable
    <3> QED BY <3>2, <3>3, <3>4
  <2> QED BY <2>3, <2>4 DEF Reservable
<1> QED BY <1>1, <1>2 DEF OneTurns

\* A step by which nobody comes to a sending, and nothing is reserved or sent.
LEMMA QuietNotices ==
  ASSUME IInv, NoticeInv, OneTurns, UNCHANGED <<inbox, reserved>>, episodes <= episodes',
         episodes' \in Nat,
         \A q \in Procs : pc'[q] = "deliver" => pc[q] = "deliver" /\ was'[q] = was[q],
         \A q \in Procs : pc'[q] = "finish" /\ got'[q] =>
           \/ pc[q] = "finish" /\ got[q] /\ was'[q] = was[q]
           \/ inbox[was'[q].episode] = 1
  PROVE  NoticeInv'
<1>1. reserved' \subseteq 1 .. episodes'
  BY EpisodesOf DEF NoticeInv
<1>2. \A e \in Episodes : inbox'[e] \in {0, 1} /\ (inbox'[e] = 1 => e \in reserved')
  BY DEF NoticeInv
<1>3. \A a \in Agents : Reservable(a)'
  BY ReservableKeeps
<1>4. \A p \in Procs : Sender(p)'
  BY DEF NoticeInv, Sender
<1> QED BY <1>1, <1>2, <1>3, <1>4 DEF NoticeInv

\* The same for a step that leaves all processes but p alone, and p not at a sending.
LEMMA QuietStep ==
  ASSUME IInv, IInv', NoticeInv, OneTurns, UNCHANGED <<inbox, reserved>>, episodes <= episodes',
         NEW p \in Procs, NEW l, l \notin {"deliver", "finish"}, Goto(p, l),
         \A q \in Procs : q # p => was'[q] = was[q] /\ got'[q] = got[q]
  PROVE  NoticeInv'
<1>1. pc'[p] = l /\ \A q \in Procs : q # p => pc'[q] = pc[q]
  BY DEF Goto, IInv, ProcOK
<1>2. episodes' \in Nat
  BY Bounds DEF IInv, BoundOK
<1> QED BY <1>1, <1>2, QuietNotices

\* A process that is done is at no sending.
LEMMA EndsQuiet ==
  ASSUME IInv, IInv', NoticeInv, OneTurns, UNCHANGED <<inbox, reserved>>, episodes <= episodes',
         NEW p \in Procs, Ends(p)
  PROVE  NoticeInv'
BY QuietStep DEF Ends, IInv, ProcOK

\* The steps that neither reserve nor send, nor look a receipt up.
LEMMA OtherNotices ==
  ASSUME IInv, IInv', NoticeInv, OneTurns, NEW p \in Procs,
         \/ Launch(p) \/ Stop(p) \/ Mail(p) \/ Wake(p) \/ ReadStops(p) \/ ReplayStop(p)
         \/ Due(p) \/ Tick(p) \/ Expire(p) \/ ReadWork(p) \/ Defer(p) \/ Empty(p)
         \/ Finish(p) \/ Crash(p)
  PROVE  NoticeInv'
<1> USE DEF IInv, ProcOK
<1>0. episodes \in Nat /\ episodes' \in Nat
  BY Bounds DEF BoundOK
<1>1. CASE Launch(p) \/ Defer(p) \/ Empty(p) \/ Finish(p) \/ Crash(p)
  <2>1. UNCHANGED <<inbox, reserved, episodes>> /\ Ends(p)
    BY <1>1 DEF Launch, Defer, Empty, Finish, Crash, world, bound, hist
  <2> QED BY <1>0, <2>1, EndsQuiet
<1>2. CASE Stop(p)
  <2>1. /\ UNCHANGED <<inbox, reserved, was, got>> /\ episodes <= episodes'
        /\ Goto(p, IF flag[p] = "stopped" THEN "wake" ELSE "tick")
    BY <1>0, <1>2 DEF Stop, StopsRecord, world, hist
  <2> QED BY <2>1, QuietStep
<1>3. CASE Mail(p)
  BY <1>0, <1>3, EndsQuiet, QuietStep DEF Mail
<1>4. CASE Wake(p)
  BY <1>0, <1>4, QuietStep DEF Wake, world, bound, hist
<1>5. CASE ReadStops(p)
  BY <1>0, <1>5, QuietStep DEF ReadStops, world, bound, hist
<1>6. CASE ReplayStop(p)
  <2>1. /\ UNCHANGED <<inbox, reserved, was, got>> /\ episodes <= episodes' /\ Goto(p, "due")
    BY <1>0, <1>6 DEF ReplayStop, Replay, StopsRecord, world, hist
  <2> QED BY <2>1, QuietStep
<1>7. CASE Due(p)
  BY <1>0, <1>7, EndsQuiet, QuietStep DEF Due, world, hist
<1>8. CASE Tick(p)
  <2>1. UNCHANGED <<inbox, reserved, episodes>>
    BY <1>8 DEF Tick, world, bound, hist
  <2>2. CASE Ends(p)
    BY <1>0, <2>1, <2>2, EndsQuiet
  <2>3. CASE /\ Goto(p, "expire") \/ Goto(p, "read")
             /\ was' = [was EXCEPT ![p] = rec[who[p]]] /\ UNCHANGED got
    BY <1>0, <2>1, <2>3, QuietStep
  <2>4. CASE Goto(p, "receipt") /\ was' = [was EXCEPT ![p] = rec[who[p]]] /\ UNCHANGED got
    BY <1>0, <2>1, <2>4, QuietStep
  <2> QED BY <1>8, <2>2, <2>3, <2>4 DEF Tick
<1>9. CASE Expire(p)
  <2>1. UNCHANGED <<inbox, reserved>> /\ episodes <= episodes'
    BY <1>0, <1>9 DEF Expire, world, hist
  <2>2. CASE Ends(p)
    BY <2>1, <2>2, EndsQuiet
  <2>3. CASE /\ Goto(p, "read") /\ UNCHANGED got
             /\ \A q \in Procs : q # p => was'[q] = was[q]
    BY <2>1, <2>3, QuietStep
  <2> QED BY <1>9, <2>2, <2>3 DEF Expire
<1>10. CASE ReadWork(p)
  BY <1>0, <1>10, EndsQuiet, QuietStep DEF ReadWork, world, bound, hist
<1> QED BY <1>1, <1>2, <1>3, <1>4, <1>5, <1>6, <1>7, <1>8, <1>9, <1>10

\* Receipt: what is confirmed is in the inbox.
LEMMA ReceiptNotices ==
  ASSUME IInv, IInv', NoticeInv, OneTurns, NEW p \in Procs, Receipt(p)
  PROVE  NoticeInv'
<1>1. UNCHANGED <<inbox, reserved, episodes>> /\ episodes \in Nat
  BY Bounds DEF Receipt, world, bound, hist, IInv, BoundOK
<1>2. CASE Ends(p)
  BY <1>1, <1>2, EndsQuiet
<1>3. CASE /\ got' = [got EXCEPT ![p] = inbox[was[p].episode] > 0]
           /\ Goto(p, "finish") /\ UNCHANGED was
  <2>1. was[p].episode \in Episodes
    BY EpisodeInHand DEF Receipt, IInv, Held
  <2>2. inbox[was[p].episode] > 0 => inbox[was[p].episode] = 1
    BY <2>1 DEF NoticeInv
  <2>3. /\ pc'[p] = "finish" /\ got'[p] = (inbox[was[p].episode] > 0)
        /\ \A q \in Procs : q # p => pc'[q] = pc[q] /\ got'[q] = got[q]
    BY <1>3 DEF Goto, IInv, ProcOK
  <2>4. \A q \in Procs : pc'[q] # "deliver" \/ (pc[q] = "deliver" /\ was'[q] = was[q])
    BY <1>3, <2>3
  <2>5. \A q \in Procs : pc'[q] = "finish" /\ got'[q] =>
          \/ inbox[was'[q].episode] = 1
          \/ pc[q] = "finish" /\ got[q] /\ was'[q] = was[q]
    BY <1>3, <2>2, <2>3
  <2> QED BY <1>1, <2>4, <2>5, QuietNotices
<1> QED BY <1>2, <1>3 DEF Receipt

\* Reserve: an episode that was reserved before is of no record that is still pending.
LEMMA ReserveNotices ==
  ASSUME IInv, IInv', NoticeInv, OneTurns, NEW p \in Procs, Reserve(p)
  PROVE  NoticeInv'
<1>1. UNCHANGED <<inbox, episodes>> /\ episodes \in Nat
  BY Bounds DEF Reserve, world, bound, IInv, BoundOK
<1>2. CASE ~Unmoved(p)
  BY <1>1, <1>2, EndsQuiet DEF Reserve
<1>3. CASE Unmoved(p)
  <2> DEFINE a == who[p]
             e == was[p].episode
             attempt == [was[p] EXCEPT !.notice = "attempting"]
  <2>1. /\ a \in Agents /\ was[p].notice = "pending" /\ rec[a] = was[p]
        /\ was[p] \in Record \union {NoRecord}
    BY <1>3 DEF Reserve, Unmoved, IInv, Held, ProcOK
  <2>2. e \in Episodes /\ e \in 1 .. episodes
    BY <1>1, <2>1, EpisodeInHand, Bounds DEF Episodes
  <2>3. e \notin reserved /\ inbox[e] = 0
    BY <2>1, <2>2 DEF NoticeInv, Reservable
  <2>4. /\ reserved' = reserved \union {e} /\ UNCHANGED got
        /\ was' = [was EXCEPT ![p] = attempt] /\ rec' = [rec EXCEPT ![a] = attempt]
        /\ Goto(p, "deliver")
    BY <1>3 DEF Reserve
  <2>5. attempt.notice = "attempting" /\ attempt.episode = e
    BY <2>1 DEF Record, NoRecord
  <2> HIDE DEF attempt
  <2>6. rec'[a] = attempt /\ \A b \in Agents : b # a => rec'[b] = rec[b]
    BY <2>1, <2>4, Replaced
  <2>7. /\ pc'[p] = "deliver" /\ was'[p] = attempt
        /\ \A q \in Procs : q # p => pc'[q] = pc[q] /\ was'[q] = was[q]
    BY <2>4 DEF Goto, IInv, ProcOK
  <2>8. ASSUME NEW b \in Agents PROVE Reservable(b)'
    <3>1. Reservable(a) /\ Reservable(b) /\ e # 0
      BY <2>1, <2>2, <1>1 DEF NoticeInv
    <3> QED BY <2>1, <2>4, <2>5, <2>6, <3>1 DEF Reservable
  <2>9. ASSUME NEW q \in Procs PROVE Sender(q)'
    <3>1. \A i \in Procs : pc[i] = "deliver" => was[i].episode # e
      BY <2>3 DEF NoticeInv, Sender
    <3>2. CASE q = p
      BY <1>1, <2>3, <2>4, <2>5, <2>7, <3>1, <3>2 DEF Sender
    <3>3. CASE q # p
      BY <1>1, <2>4, <2>5, <2>7, <3>1, <3>3 DEF Sender, NoticeInv
    <3> QED BY <3>2, <3>3
  <2>10. /\ reserved' \subseteq 1 .. episodes'
         /\ \A i \in Episodes : inbox'[i] \in {0, 1} /\ (inbox'[i] = 1 => i \in reserved')
    BY <1>1, <2>2, <2>4 DEF NoticeInv
  <2> QED BY <2>8, <2>9, <2>10 DEF NoticeInv
<1> QED BY <1>2, <1>3

\* Deliver: nobody else is at the sending of this notice.
LEMMA DeliverNotices ==
  ASSUME IInv, IInv', NoticeInv, OneTurns, NEW p \in Procs, Deliver(p)
  PROVE  NoticeInv'
<1> DEFINE e == was[p].episode
<1>1. UNCHANGED <<reserved, episodes, was>> /\ pc[p] = "deliver"
  BY DEF Deliver, bound, hist
<1>2. e \in Episodes
  BY EpisodeInHand DEF Deliver, IInv, Held
<1>3. e \in reserved /\ inbox[e] = 0
  BY <1>1 DEF NoticeInv, Sender
<1>4. /\ pc'[p] = "finish" /\ \A q \in Procs : q # p => pc'[q] = pc[q] /\ got'[q] = got[q]
      /\ inbox \in [Episodes -> Nat]
  BY DEF Deliver, Goto, IInv, ProcOK, WorldOK
<1>5. PICK stored \in BOOLEAN :
        /\ inbox' = IF stored THEN [inbox EXCEPT ![e] = @ + 1] ELSE inbox
        /\ got'[p] => stored
  BY DEF Deliver, IInv, ProcOK
<1>6. /\ stored => inbox'[e] = 1
      /\ \A i \in Episodes : i # e => inbox'[i] = inbox[i]
      /\ ~stored => inbox' = inbox
  BY <1>2, <1>3, <1>4, <1>5
<1>7. \A i \in Episodes : inbox'[i] \in {0, 1} /\ (inbox'[i] = 1 => i \in reserved')
  BY <1>1, <1>2, <1>3, <1>6 DEF NoticeInv
<1>8. ASSUME NEW q \in Procs PROVE Sender(q)'
  <2>1. CASE q = p
    BY <1>1, <1>4, <1>5, <1>6, <2>1 DEF Sender
  <2>2. CASE q # p
    <3>1. pc[q] = "deliver" => was[q].episode \in Episodes /\ was[q].episode # e
      BY <1>1, <2>2, EpisodeInHand DEF NoticeInv, Sender, IInv, Held
    <3>2. pc[q] = "finish" => was[q].episode \in Episodes
      BY EpisodeInHand DEF IInv, Held
    <3>3. pc[q] = "finish" /\ got[q] => was[q].episode # e
      BY <1>3 DEF NoticeInv, Sender
    <3> QED BY <1>1, <1>4, <1>6, <2>2, <3>1, <3>2, <3>3 DEF NoticeInv, Sender
  <2> QED BY <2>1, <2>2
<1>9. \A a \in Agents : Reservable(a)'
  BY <1>1, ReservableKeeps
<1> QED BY <1>1, <1>7, <1>8, <1>9 DEF NoticeInv

\* Every step keeps what is said of the notices.
LEMMA NoticeStep == IInv /\ IInv' /\ NoticeInv /\ [Next]_vars => NoticeInv'
<1> SUFFICES ASSUME IInv, IInv', NoticeInv, [Next]_vars PROVE NoticeInv'
  OBVIOUS
<1>0. OneTurns /\ episodes \in Nat /\ episodes' \in Nat
  BY StepTurns, Bounds DEF IInv, BoundOK
<1>1. ASSUME NEW p \in Procs, Step(p) \/ Crash(p) PROVE NoticeInv'
  BY <1>0, <1>1, OtherNotices, ReceiptNotices, ReserveNotices, DeliverNotices DEF Step
<1>2. ASSUME NEW p \in Procs, NEW a \in Agents,
             Relaunch(p, a) \/ StopAgent(p, a) \/ Ceiling(p, a) \/ Look(p, a) \/ Observe(p, a)
      PROVE  NoticeInv'
  <2>1. UNCHANGED <<inbox, reserved, was, got>>
    BY <1>2 DEF Relaunch, StopAgent, Ceiling, Look, Observe, world, hist
  <2>2. episodes <= episodes'
    BY <1>0, <1>2 DEF Relaunch, StopAgent, Ceiling, StopsRecord, Look, Observe, bound
  <2>3. \E l \in {"launch", "stop", "tick", "mail", "stops"} : Goto(p, l)
    BY <1>2 DEF Relaunch, StopAgent, Ceiling, Look, Observe, Begins
  <2> QED BY <1>0, <2>1, <2>2, <2>3, QuietStep
<1>3. ASSUME NEW a \in Agents, Heartbeat(a) PROVE NoticeInv'
  BY <1>0, <1>3, QuietNotices DEF Heartbeat, world, proc, hist
<1>4. CASE UNCHANGED vars
  BY <1>0, <1>4, QuietNotices DEF vars, world, proc, bound, hist
<1> QED BY <1>1, <1>2, <1>3, <1>4 DEF Next

\* Nothing is reserved or sent at first.
LEMMA NoticeInit == Init => NoticeInv
<1> SUFFICES ASSUME Init PROVE NoticeInv
  OBVIOUS
<1>1. \A a \in Agents : Reservable(a)
  BY DEF Init, Reservable, NoRecord
<1>2. \A p \in Procs : Sender(p)
  BY DEF Init, Sender
<1> QED BY <1>1, <1>2 DEF Init, NoticeInv

\* What is said of the notices holds throughout.
LEMMA NoticeInvariance == Spec => [](IInv /\ NoticeInv)
BY InitHolds, StepHolds, NoticeInit, NoticeStep, PTL DEF Spec


-----------------------------------------------------------------------------
(* The promise about the notices is kept, step by step.                     *)

\* The steps that the promise does not see.
LEMMA OtherStutters ==
  ASSUME NEW p \in Procs,
         \/ Launch(p) \/ Stop(p) \/ Mail(p) \/ Wake(p) \/ ReadStops(p) \/ ReplayStop(p)
         \/ Due(p) \/ Tick(p) \/ Expire(p) \/ ReadWork(p) \/ Defer(p) \/ Empty(p)
         \/ Receipt(p) \/ Crash(p)
  PROVE  UNCHANGED <<reserved, inbox, confirmed>>
BY DEF Launch, Stop, Mail, Wake, ReadStops, ReplayStop, Due, Tick, Expire, ReadWork, Defer,
       Empty, Receipt, Crash, world, hist

\* Reserving: an episode that the promise has not seen reserved.
LEMMA ReserveMaps ==
  ASSUME IInv, NoticeInv, NEW p \in Procs, Reserve(p)
  PROVE  [Promise!NNext]_Promise!nvars
<1>1. UNCHANGED <<inbox, confirmed>>
  BY DEF Reserve, world
<1>2. CASE ~Unmoved(p)
  BY <1>1, <1>2 DEF Reserve, Promise!nvars
<1>3. CASE Unmoved(p)
  <2>1. who[p] \in Agents /\ was[p].notice = "pending" /\ rec[who[p]] = was[p]
    BY <1>3 DEF Reserve, Unmoved, IInv, Held
  <2>2. was[p].episode \in Episodes
    BY <2>1, EpisodeInHand
  <2>3. was[p].episode \notin reserved
    BY <2>1 DEF NoticeInv, Reservable
  <2>4. reserved' = reserved \union {was[p].episode}
    BY <1>3 DEF Reserve
  <2>5. Promise!Reserve(was[p].episode)
    BY <1>1, <2>3, <2>4 DEF Promise!Reserve
  <2> QED BY <2>2, <2>5 DEF Promise!NNext
<1> QED BY <1>2, <1>3

\* Sending: once, of an episode that was reserved.
LEMMA DeliverMaps ==
  ASSUME IInv, NoticeInv, NEW p \in Procs, Deliver(p)
  PROVE  [Promise!NNext]_Promise!nvars
<1> DEFINE e == was[p].episode
<1>1. UNCHANGED <<reserved, confirmed>> /\ inbox \in [Episodes -> Nat]
  BY DEF Deliver, hist, IInv, WorldOK
<1>2. e \in Episodes /\ e \in reserved /\ inbox[e] = 0
  BY EpisodeInHand DEF Deliver, IInv, Held, NoticeInv, Sender
<1>3. inbox' = [inbox EXCEPT ![e] = @ + 1] \/ inbox' = inbox
  BY DEF Deliver
<1>4. CASE inbox' = inbox
  BY <1>1, <1>4 DEF Promise!nvars
<1>5. CASE inbox' = [inbox EXCEPT ![e] = @ + 1]
  <2>1. inbox' = [inbox EXCEPT ![e] = 1]
    BY <1>1, <1>2, <1>5
  <2>2. Promise!Send(e)
    BY <1>1, <1>2, <2>1 DEF Promise!Send
  <2> QED BY <1>2, <2>2 DEF Promise!NNext
<1> QED BY <1>3, <1>4, <1>5

\* Confirming: whoever has read the receipt read that of the record's episode.
LEMMA FinishMaps ==
  ASSUME IInv, NoticeInv, NEW p \in Procs, Finish(p)
  PROVE  [Promise!NNext]_Promise!nvars
<1>1. UNCHANGED <<inbox, reserved>> /\ pc[p] = "finish"
  BY DEF Finish, world
<1>2. CASE ~(Current(p) /\ got[p])
  BY <1>1, <1>2 DEF Finish, Promise!nvars
<1>3. CASE Current(p) /\ got[p]
  <2>1. was[p].episode \in Episodes /\ inbox[was[p].episode] = 1
    BY <1>1, <1>3, EpisodeInHand DEF IInv, Held, NoticeInv, Sender
  <2>2. confirmed' = confirmed \union {was[p].episode}
    BY <1>3 DEF Finish, Current
  <2>3. Promise!Confirm(was[p].episode)
    BY <1>1, <2>1, <2>2 DEF Promise!Confirm
  <2> QED BY <2>1, <2>3 DEF Promise!NNext
<1> QED BY <1>2, <1>3

\* Every step is a step of the promise, or none.
LEMMA StepMaps ==
  IInv /\ NoticeInv /\ [Next]_vars => [Promise!NNext]_Promise!nvars
<1> SUFFICES ASSUME IInv, NoticeInv, [Next]_vars PROVE [Promise!NNext]_Promise!nvars
  OBVIOUS
<1>1. ASSUME NEW p \in Procs, Step(p) \/ Crash(p) PROVE [Promise!NNext]_Promise!nvars
  <2>1. CASE UNCHANGED <<reserved, inbox, confirmed>>
    BY <2>1 DEF Promise!nvars
  <2> QED BY <1>1, <2>1, OtherStutters, ReserveMaps, DeliverMaps, FinishMaps DEF Step
<1>2. ASSUME NEW p \in Procs, NEW a \in Agents,
             Relaunch(p, a) \/ StopAgent(p, a) \/ Ceiling(p, a) \/ Look(p, a) \/ Observe(p, a)
      PROVE  UNCHANGED <<reserved, inbox, confirmed>>
  BY <1>2 DEF Relaunch, StopAgent, Ceiling, Look, Observe, world, hist
<1>3. ASSUME NEW a \in Agents, Heartbeat(a) PROVE UNCHANGED <<reserved, inbox, confirmed>>
  BY <1>3 DEF Heartbeat, world, hist
<1>4. CASE UNCHANGED vars
  BY <1>4 DEF vars, world, hist, Promise!nvars
<1> QED BY <1>1, <1>2, <1>3, <1>4 DEF Next, Promise!nvars

\* Of every episode the notice is reserved before it is sent, is sent once at most and
\* is confirmed only if it was sent, whatever crashes, loses its answer or comes late:
\* owned_work.py refines the promise of module Notices.
THEOREM NoticesOnce == Spec => SendsOnce
<1>1. Init => Promise!NInit
  BY DEF Init, Promise!NInit
<1> QED BY <1>1, StepMaps, NoticeInvariance, PTL DEF Spec, SendsOnce, Promise!NSpec


-----------------------------------------------------------------------------
(* No stop outlives its launch, while launches and stops take turns.        *)

\* A launch under way has dropped the stop, and nobody else stops or mails the agent.
Launching(p) ==
  pc[p] = "launch" =>
    /\ who[p] \notin stopped
    /\ \A q \in Procs : who[q] = who[p] /\ pc[q] \in {"stop", "mail", "launch"} => q = p

\* Whoever is about to end a lease was called to, or holds the token of an older one.
Stopping(p) ==
  /\ pc[p] = "stop" \/ (pc[p] = "mail" /\ flag[p] = "stopped") => who[p] \in ended
  /\ pc[p] = "replay" => who[p] \in ended \/ rec[who[p]].gen # token[p]

StopInv == /\ NoStaleStop /\ stopped \subseteq ended
           /\ \A p \in Procs : Launching(p) /\ Stopping(p)

\* The others are where they were, with what they had.
OthersStay(p) == \A q \in Procs : q # p => /\ pc'[q] = pc[q] /\ who'[q] = who[q]
                                           /\ flag'[q] = flag[q] /\ token'[q] = token[q]

\* The records keep their generations, and none ends.
NoneEnds == \A a \in Agents : /\ rec'[a].gen = rec[a].gen
                              /\ Ended(rec'[a]) => Ended(rec[a])

\* A step that neither launches nor stops, of a process that comes to neither.
LEMMA QuietStops ==
  ASSUME IInv, StopInv, NEW p \in Procs, OthersStay(p), NoneEnds, UNCHANGED <<stopped, ended>>,
         pc'[p] \notin {"launch", "stop", "mail", "replay"}
  PROVE  StopInv'
<1>1. NoStaleStop'
  BY DEF StopInv, NoStaleStop, NoneEnds
<1>2. ASSUME NEW q \in Procs PROVE Launching(q)'
  BY DEF StopInv, Launching, OthersStay
<1>3. ASSUME NEW q \in Procs PROVE Stopping(q)'
  <2>1. CASE q = p
    BY <2>1 DEF Stopping
  <2>2. CASE q # p
    <3>1. Stopping(q) /\ Held(q)
      BY DEF StopInv, IInv
    <3> QED BY <2>2, <3>1 DEF Stopping, OthersStay, NoneEnds, Held
  <2> QED BY <2>1, <2>2
<1> QED BY <1>1, <1>2, <1>3 DEF StopInv

\* A step from an idle process, or by which one goes on or ends, is nobody else's.
LEMMA OthersDo ==
  ASSUME IInv, NEW p \in Procs,
         \/ Ends(p)
         \/ /\ \E l : Goto(p, l)
            /\ UNCHANGED who \/ \E a \in Agents : who' = [who EXCEPT ![p] = a]
            /\ UNCHANGED flag \/ \E f : flag' = [flag EXCEPT ![p] = f]
            /\ UNCHANGED token \/ \E t : token' = [token EXCEPT ![p] = t]
  PROVE  OthersStay(p)
BY DEF OthersStay, Ends, Goto, IInv, ProcOK

\* Replacing a record by one of the same generation and no more ended.
LEMMA NoneEndsBy ==
  ASSUME IInv, NEW a \in Agents, NEW r, rec' = [rec EXCEPT ![a] = r],
         r.gen = rec[a].gen, r.state = rec[a].state \/ ~Ended(r)
  PROVE  NoneEnds
BY Replaced DEF NoneEnds, Ended

\* The steps that neither launch, stop, mail nor replay.
LEMMA OtherStops ==
  ASSUME IInv, StopInv, NEW p \in Procs,
         \/ Wake(p) \/ Due(p) \/ Tick(p) \/ ReadWork(p) \/ Deliver(p) \/ Receipt(p)
         \/ Finish(p) \/ Crash(p)
  PROVE  StopInv'
<1> USE DEF IInv, ProcOK
<1> DEFINE a == who[p]
<1>0. a \in Agents /\ rec[a] \in Record \union {NoRecord}
  BY DEF Wake, Due, Tick, ReadWork, Deliver, Receipt, Finish, Crash, Held, FileOK
<1>1. UNCHANGED <<stopped, ended>>
  BY DEF Wake, Due, Tick, ReadWork, Deliver, Receipt, Finish, Crash, world, hist
<1>2. NoneEnds
  <2>1. CASE UNCHANGED rec
    BY <2>1 DEF NoneEnds
  <2>2. CASE Wake(p)
    BY <1>0, <2>2, NoneEndsBy DEF Wake, Woken, Record, NoRecord
  <2>3. CASE Due(p)
    BY <1>0, <2>1, <2>3, NoneEndsBy DEF Due, Record, NoRecord
  <2>4. CASE Finish(p)
    BY <1>0, <2>1, <2>4, NoneEndsBy DEF Finish, Record, NoRecord
  <2> QED BY <2>1, <2>2, <2>3, <2>4 DEF Tick, ReadWork, Deliver, Receipt, Crash, file
<1>3. OthersStay(p)
  BY OthersDo DEF Wake, Due, Tick, ReadWork, Deliver, Receipt, Finish, Crash
<1>4. pc'[p] \notin {"launch", "stop", "mail", "replay"}
  BY DEF Wake, Due, Tick, ReadWork, Deliver, Receipt, Finish, Crash, Ends, Goto
<1> QED BY <1>1, <1>2, <1>3, <1>4, QuietStops

\* The steps that compare and swap.
LEMMA SwapStops ==
  ASSUME IInv, StopInv, NEW p \in Procs, Expire(p) \/ Defer(p) \/ Empty(p) \/ Reserve(p)
  PROVE  StopInv'
<1> USE DEF IInv, ProcOK
<1> DEFINE a == who[p]
<1>0. a \in Agents /\ was[p] \in Record \union {NoRecord}
  BY DEF Expire, Defer, Empty, Reserve, Held
<1>1. UNCHANGED <<stopped, ended>>
  BY DEF Expire, Defer, Empty, Reserve, world, hist
<1>2. NoneEnds
  <2>1. CASE UNCHANGED rec
    BY <2>1 DEF NoneEnds
  <2>2. CASE Unmoved(p) /\ Expire(p)
    <3> DEFINE r == [was[p] EXCEPT !.state = "expired", !.notice = "pending",
                                   !.episode = episodes + 1, !.rev = NextRevision(a)]
               s == [r EXCEPT !.rev = NextRevision(a)]
    <3>1. rec' = [rec EXCEPT ![a] = s] /\ was[p] = rec[a]
      BY <2>2 DEF Expire, Unmoved, Revised
    <3>2. s.gen = was[p].gen /\ s.state = "expired"
      BY <1>0 DEF Record, NoRecord
    <3> HIDE DEF s
    <3> QED BY <1>0, <3>1, <3>2, NoneEndsBy DEF Ended
  <2>3. CASE Unmoved(p) /\ Defer(p)
    BY <1>0, <2>1, <2>3, NoneEndsBy DEF Defer, Unmoved, Record, NoRecord
  <2>4. CASE Unmoved(p) /\ Empty(p)
    BY <1>0, <2>4, NoneEndsBy DEF Empty, Unmoved, Record, NoRecord
  <2>5. CASE Unmoved(p) /\ Reserve(p)
    <3> DEFINE r == [was[p] EXCEPT !.notice = "attempting"]
    <3>1. rec' = [rec EXCEPT ![a] = r] /\ was[p] = rec[a]
      BY <2>5 DEF Reserve, Unmoved
    <3>2. r.gen = was[p].gen /\ r.state = was[p].state
      BY <1>0 DEF Record, NoRecord
    <3> HIDE DEF r
    <3> QED BY <1>0, <3>1, <3>2, NoneEndsBy
  <2> QED BY <2>1, <2>2, <2>3, <2>4, <2>5 DEF Expire, Defer, Empty, Reserve, file
<1>3. OthersStay(p)
  BY OthersDo DEF Expire, Defer, Empty, Reserve
<1>4. pc'[p] \notin {"launch", "stop", "mail", "replay"}
  BY DEF Expire, Defer, Empty, Reserve, Ends, Goto
<1> QED BY <1>1, <1>2, <1>3, <1>4, QuietStops

\* A relaunch begins when nobody stops or mails the agent.
LEMMA RelaunchStops ==
  ASSUME Orderly, IInv, StopInv, NEW p \in Procs, NEW a \in Agents, Relaunch(p, a)
  PROVE  StopInv'
<1> USE DEF IInv, ProcOK
<1>1. /\ OthersStay(p) /\ pc'[p] = "launch" /\ who'[p] = a
      /\ UNCHANGED <<rec, ended, flag, token>> /\ stopped' = stopped \ {a}
  BY OthersDo DEF Relaunch, Begins, Goto, file, hist
<1>2. \A q \in Procs : who[q] = a => pc[q] \notin {"stop", "mail", "launch"}
  BY DEF Relaunch, Busy
<1>3. NoStaleStop' /\ (stopped \subseteq ended)'
  BY <1>1 DEF StopInv, NoStaleStop
<1>4. ASSUME NEW q \in Procs PROVE Launching(q)'
  BY <1>1, <1>2 DEF StopInv, Launching, OthersStay
<1>5. ASSUME NEW q \in Procs PROVE Stopping(q)'
  BY <1>1 DEF StopInv, Stopping, OthersStay
<1> QED BY <1>3, <1>4, <1>5 DEF StopInv

\* The launch's generation is newer than every token that was taken.
LEMMA LaunchStops ==
  ASSUME IInv, StopInv, NEW p \in Procs, Launch(p)
  PROVE  StopInv'
<1> USE DEF IInv, ProcOK
<1> DEFINE a == who[p]
           r == [[NoRecord EXCEPT !.gen = gens + 1, !.state = "live"]
                   EXCEPT !.rev = NextRevision(a)]
<1>1. /\ OthersStay(p) /\ pc'[p] = "idle" /\ a \in Agents /\ pc[p] = "launch"
      /\ UNCHANGED stopped /\ ended' = ended \ {a} /\ rec' = [rec EXCEPT ![a] = r]
  BY OthersDo DEF Launch, Ends, Goto, Held, world, Revised
<1>2. r.gen = gens + 1 /\ r.state = "live"
  BY DEF NoRecord
<1> HIDE DEF r
<1>3. rec'[a] = r /\ \A b \in Agents : b # a => rec'[b] = rec[b]
  BY <1>1, Replaced
<1>4. NoStaleStop'
  BY <1>1, <1>2, <1>3 DEF StopInv, NoStaleStop, Ended
<1>5. /\ a \notin stopped
      /\ \A q \in Procs : who[q] = a /\ pc[q] \in {"stop", "mail", "launch"} => q = p
  BY <1>1 DEF StopInv, Launching
<1>6. (stopped \subseteq ended)'
  BY <1>1, <1>5 DEF StopInv
<1>7. ASSUME NEW q \in Procs PROVE Launching(q)'
  BY <1>1 DEF StopInv, Launching, OthersStay
<1>8. ASSUME NEW q \in Procs PROVE Stopping(q)'
  <2>1. CASE q = p
    BY <1>1, <2>1 DEF Stopping
  <2>2. CASE q # p
    <3>1. Stopping(q) /\ Held(q) /\ token[q] \in Nat /\ gens \in Nat
      BY Bounds DEF StopInv, BoundOK
    <3>2. token[q] <= gens /\ (pc[q] # "idle" => who[q] \in Agents)
      BY <3>1 DEF Held
    <3> QED BY <1>1, <1>2, <1>3, <1>5, <2>2, <3>1, <3>2 DEF Stopping, OthersStay
  <2> QED BY <2>1, <2>2
<1> QED BY <1>4, <1>6, <1>7, <1>8 DEF StopInv

\* A heartbeat ends nothing; a generation that it mints is newer than every token.
LEMMA HeartbeatStops ==
  ASSUME IInv, StopInv, NEW a \in Agents, Heartbeat(a)
  PROVE  StopInv'
<1> USE DEF IInv, ProcOK
<1>1. UNCHANGED <<stopped, ended, pc, who, flag, token>>
  BY DEF Heartbeat, world, proc, hist
<1>2. \E r : /\ rec' = [rec EXCEPT ![a] = r] /\ r.state = "live"
             /\ r.gen = rec[a].gen \/ r.gen = gens + 1
  <2>1. CASE rec[a].gen = 0
    <3> DEFINE new == [NoRecord EXCEPT !.gen = gens + 1, !.state = "live"]
    <3>1. rec' = [rec EXCEPT ![a] = new]
      BY <2>1 DEF Heartbeat
    <3>2. new.gen = gens + 1 /\ new.state = "live"
      BY DEF NoRecord
    <3> HIDE DEF new
    <3> QED BY <3>1, <3>2
  <2>2. CASE rec[a].gen # 0
    <3> DEFINE new == [NoRecord EXCEPT !.gen = rec[a].gen, !.state = "live",
                                       !.rev = rec[a].rev, !.stamp = stamps + 1]
               n == NextRevision(a)
               s == [new EXCEPT !.rev = n]
    <3>1. rec' = [rec EXCEPT ![a] = s] \/ rec' = [rec EXCEPT ![a] = new]
      BY <2>2 DEF Heartbeat, Revised
    <3> HIDE DEF n
    <3>2. s.gen = rec[a].gen /\ s.state = "live" /\ new.gen = rec[a].gen /\ new.state = "live"
      BY DEF NoRecord
    <3> HIDE DEF s, new
    <3> QED BY <3>1, <3>2
  <2> QED BY <2>1, <2>2
<1>3. PICK r : /\ rec' = [rec EXCEPT ![a] = r] /\ r.state = "live"
               /\ r.gen = rec[a].gen \/ r.gen = gens + 1
  BY <1>2
<1>4. rec'[a] = r /\ \A b \in Agents : b # a => rec'[b] = rec[b]
  BY <1>3, Replaced
<1>5. NoStaleStop' /\ (stopped \subseteq ended)'
  BY <1>1, <1>3, <1>4 DEF StopInv, NoStaleStop, Ended
<1>6. ASSUME NEW q \in Procs PROVE Launching(q)'
  BY <1>1 DEF StopInv, Launching
<1>7. ASSUME NEW q \in Procs PROVE Stopping(q)'
  <2>1. Stopping(q) /\ Held(q) /\ token[q] \in Nat /\ gens \in Nat
    BY Bounds DEF StopInv, BoundOK
  <2>2. token[q] <= gens /\ (pc[q] # "idle" => who[q] \in Agents)
    BY <2>1 DEF Held
  <2> QED BY <1>1, <1>3, <1>4, <2>1, <2>2 DEF Stopping
<1> QED BY <1>5, <1>6, <1>7 DEF StopInv

\* A stop that is recorded ends the lease of an agent that was to end.
LEMMA RecordStops ==
  ASSUME IInv, StopInv, NEW a \in Agents, NEW state, NEW wake, NEW fence,
         StopsRecord(a, state, wake, fence),
         a \in ended' \/ fence \notin {None, rec[a].gen}, ended \subseteq ended'
  PROVE  /\ NoStaleStop'
         /\ \A b \in Agents : b \in ended' \/ rec'[b].gen = rec[b].gen
<1> USE DEF IInv
<1>1. CASE UNCHANGED rec
  BY <1>1 DEF StopInv, NoStaleStop
<1>2. CASE fence \in {None, rec[a].gen}
  <2>1. \E r : rec' = [rec EXCEPT ![a] = r]
    BY <1>2 DEF StopsRecord, Revised
  <2>2. \A b \in Agents : b # a => rec'[b] = rec[b]
    BY <2>1, Replaced
  <2> QED BY <1>2, <2>2 DEF StopInv, NoStaleStop
<1> QED BY <1>1, <1>2 DEF StopsRecord, file

\* The steps that record a stop, a ceiling or a replay.
LEMMA StopStops ==
  ASSUME IInv, StopInv, NEW p \in Procs,
         Stop(p) \/ ReplayStop(p) \/ \E a \in Agents : Ceiling(p, a)
  PROVE  StopInv'
<1> USE DEF IInv, ProcOK
<1>1. OthersStay(p) /\ pc'[p] \in {"wake", "tick", "due"} /\ UNCHANGED stopped
  BY OthersDo DEF Stop, ReplayStop, Ceiling, Begins, Goto, world
<1>2. /\ NoStaleStop' /\ ended \subseteq ended'
      /\ \A b \in Agents : b \in ended' \/ rec'[b].gen = rec[b].gen
  <2>1. CASE Stop(p)
    <3>1. who[p] \in Agents /\ who[p] \in ended /\ ended' = ended
      BY <2>1 DEF Stop, Held, StopInv, Stopping, hist
    <3> QED BY <2>1, <3>1, RecordStops DEF Stop
  <2>2. CASE ReplayStop(p)
    <3>1. /\ who[p] \in Agents /\ ended' = ended
          /\ who[p] \in ended \/ rec[who[p]].gen # token[p]
      BY <2>2 DEF ReplayStop, Held, StopInv, Stopping, hist
    <3>2. token[p] # None
      BY Bounds, OwnedWorkAssumption
    <3> QED BY <2>2, <3>1, <3>2, RecordStops DEF ReplayStop, Replay
  <2>3. CASE \E a \in Agents : Ceiling(p, a)
    BY <2>3, RecordStops DEF Ceiling
  <2> QED BY <2>1, <2>2, <2>3
<1>3. ASSUME NEW q \in Procs PROVE Launching(q)'
  BY <1>1 DEF StopInv, Launching, OthersStay
<1>4. ASSUME NEW q \in Procs PROVE Stopping(q)'
  <2>1. CASE q = p
    BY <1>1, <2>1 DEF Stopping
  <2>2. CASE q # p
    <3>1. Stopping(q) /\ Held(q)
      BY DEF StopInv
    <3> QED BY <1>1, <1>2, <2>2, <3>1 DEF Stopping, OthersStay, Held
  <2> QED BY <2>1, <2>2
<1> QED BY <1>1, <1>2, <1>3, <1>4 DEF StopInv

\* Whoever comes to stop or to mail an agent does so while nobody launches it.
LEMMA CallStops ==
  ASSUME Orderly, IInv, StopInv, NEW p \in Procs, NEW a \in Agents,
         StopAgent(p, a) \/ Look(p, a) \/ Observe(p, a)
  PROVE  StopInv'
<1> USE DEF IInv, ProcOK
<1>1. /\ OthersStay(p) /\ who'[p] = a /\ UNCHANGED rec /\ NoneEnds
      /\ pc'[p] \in {"stop", "mail", "stops"} /\ ended \subseteq ended'
      /\ stopped' \subseteq ended'
      /\ \A b \in stopped' : b \in stopped \/ b = a
  BY OthersDo DEF StopAgent, Look, Observe, Begins, Goto, file, world, hist, NoneEnds, StopInv
<1>2. CASE Observe(p, a)
  BY <1>1, <1>2, QuietStops DEF Observe, world, hist, Begins, Goto
<1>3. CASE StopAgent(p, a) \/ Look(p, a)
  <2>1. \A q \in Procs : pc[q] = "launch" => who[q] # a
    BY <1>3 DEF StopAgent, Look, Busy
  <2>2. /\ pc'[p] \in {"stop", "mail"}
        /\ pc'[p] = "stop" => a \in ended'
        /\ flag'[p] = "stopped" /\ pc'[p] = "mail" => a \in ended'
    BY <1>3 DEF StopAgent, Look, Begins, Goto, StopInv, hist
  <2>3. NoStaleStop'
    BY <1>1 DEF StopInv, NoStaleStop
  <2>4. ASSUME NEW q \in Procs PROVE Launching(q)'
    BY <1>1, <2>1, <2>2 DEF StopInv, Launching, OthersStay
  <2>5. ASSUME NEW q \in Procs PROVE Stopping(q)'
    BY <1>1, <2>2 DEF StopInv, Stopping, OthersStay
  <2> QED BY <1>1, <2>3, <2>4, <2>5 DEF StopInv
<1> QED BY <1>2, <1>3

\* A sender goes on to stop only an owner that it had seen stopped, and a pass replays
\* only a stop that is on record.
LEMMA PassStops ==
  ASSUME IInv, StopInv, NEW p \in Procs, Mail(p) \/ ReadStops(p)
  PROVE  StopInv'
<1> USE DEF IInv, ProcOK
<1>1. /\ OthersStay(p) /\ UNCHANGED <<rec, stopped, ended>> /\ who[p] \in Agents
      /\ pc[p] \in {"mail", "stops"}
  BY OthersDo DEF Mail, ReadStops, file, world, hist, Held
<1>2. /\ pc'[p] \in {"idle", "stop", "wake", "replay", "due"}
      /\ pc'[p] = "stop" => /\ who'[p] = who[p] /\ who[p] \in ended /\ pc[p] = "mail"
      /\ pc'[p] = "replay" => who'[p] = who[p] /\ who[p] \in ended
  BY DEF Mail, ReadStops, Ends, Goto, StopInv, Stopping
<1>3. NoStaleStop'
  BY <1>1 DEF StopInv, NoStaleStop
<1>4. ASSUME NEW q \in Procs PROVE Launching(q)'
  BY <1>1, <1>2 DEF StopInv, Launching, OthersStay
<1>5. ASSUME NEW q \in Procs PROVE Stopping(q)'
  BY <1>1, <1>2 DEF StopInv, Stopping, OthersStay
<1> QED BY <1>1, <1>3, <1>4, <1>5 DEF StopInv

\* Every step keeps the stops in their place.
LEMMA StopStep == Orderly /\ IInv /\ StopInv /\ [Next]_vars => StopInv'
<1> SUFFICES ASSUME Orderly, IInv, StopInv, [Next]_vars PROVE StopInv'
  OBVIOUS
<1>1. ASSUME NEW p \in Procs, Step(p) \/ Crash(p) PROVE StopInv'
  BY <1>1, OtherStops, SwapStops, LaunchStops, StopStops, PassStops DEF Step
<1>2. ASSUME NEW p \in Procs, NEW a \in Agents,
             Relaunch(p, a) \/ StopAgent(p, a) \/ Ceiling(p, a) \/ Look(p, a) \/ Observe(p, a)
      PROVE  StopInv'
  BY <1>2, RelaunchStops, StopStops, CallStops
<1>3. ASSUME NEW a \in Agents, Heartbeat(a) PROVE StopInv'
  BY <1>3, HeartbeatStops
<1>4. CASE UNCHANGED vars
  BY <1>4 DEF vars, file, world, proc, hist, StopInv, NoStaleStop, Launching, Stopping
<1> QED BY <1>1, <1>2, <1>3, <1>4 DEF Next

\* Where an agent's launches wait for its stops and its messages, and those for its
\* launches, no lease stands as ended but by a stop or a ceiling called for since the
\* launch: the supervisor's replay of recorded stops is fenced by the generation.
THEOREM StopsAreCurrent == Orderly => (Spec => []NoStaleStop)
<1> SUFFICES ASSUME Orderly PROVE Spec => []NoStaleStop
  OBVIOUS
<1>1. Init => StopInv
  BY DEF Init, StopInv, NoStaleStop, Launching, Stopping, Ended, NoRecord
<1>2. IInv /\ StopInv /\ [Next]_vars => StopInv'
  BY StopStep
<1>3. StopInv => NoStaleStop
  BY DEF StopInv
<1> QED BY <1>1, <1>2, <1>3, Invariance, PTL DEF Spec
=============================================================================
