----------------------------- MODULE OwnedWork -----------------------------
(***************************************************************************)
(* Stopped-owner escalation, shantytown/owned_work.py with its callers in  *)
(* cli.py: a lease per agent in owned-work/state.json, renewed by hooks,   *)
(* ended by a stop, a session ceiling or missing heartbeats; each end is   *)
(* an episode for which the lead is told, once, what work and mail is left *)
(* behind.  Every update of the file is a read-modify-write under a lock   *)
(* and one step here; the looks at it, at the board and at the inboxes are *)
(* not under the lock and are steps of their own.  Time is abstracted: a   *)
(* lease may have expired whenever it is looked at, and a deadline may or  *)
(* may not have been reached.                                              *)
(***************************************************************************)
EXTENDS Naturals, FiniteSets, FiniteSetsExt

CONSTANTS
  Agents,
  Procs,        \* hooks, commands and supervisor passes
  Orderly,      \* TRUE: no launch while a stop or a message to the agent is under way
  MaxGens,      \* bound on the generations (launches) minted
  MaxEpisodes,  \* bound on the episodes minted
  MaxStamps,    \* bound on the heartbeats, attempts and deferrals recorded
  MaxMail,      \* bound on the messages persisted
  MaxCrashes,
  None

ASSUME OwnedWorkAssumption ==
  /\ Orderly \in BOOLEAN
  /\ {MaxGens, MaxEpisodes, MaxStamps, MaxMail, MaxCrashes} \subseteq Nat
  /\ None \notin Agents /\ None \notin Nat

Episodes == 1 .. MaxEpisodes
Gens     == 1 .. MaxGens
\* `stamp` stands for observed_at, attempted_at and next_at: what else of a
\* record an update changes, and a compare-and-swap compares.
Record == [gen : Gens, state : {"live", "expired", "stopped", "ceiling"},
           notice : {"none", "pending", "attempting", "unknown", "delivered", "empty"},
           episode : 0 .. MaxEpisodes, rev : Nat, stamp : 0 .. MaxStamps]
NoRecord == [gen |-> 0, state |-> "none", notice |-> "none",
             episode |-> 0, rev |-> 0, stamp |-> 0]

VARIABLES
  rec,        \* state.json
  counter,    \* graph-revision
  stopped,    \* the agents with a record in the store of deliberate stops
  mail,       \* the unread messages of each agent
  inbox,      \* how often the recipient's inbox got each episode's notice
  pc, who,
  was,        \* the record a process works on: its `before`, then its attempt
  token,      \* the generation a supervisor pass observed first
  flag,       \* a sender's look: "no", "custody" (owned_work) or "stopped"
  got,        \* what a process read: of the work left, or of the receipt
  gens, episodes, stamps, sentMail, crashes,
  reserved,   \* history: the episodes some process reserved the sending of
  confirmed,  \* history: the episodes recorded as delivered
  ended,      \* history: the agents a stop or a ceiling was called for since their launch
  flagged     \* history: the messages whose sender woke the owner's record

file  == <<rec, counter>>
world == <<stopped, mail, inbox>>
proc  == <<pc, who, was, token, flag, got>>
bound == <<gens, episodes, stamps, sentMail, crashes>>
hist  == <<reserved, confirmed, ended, flagged>>
vars  == <<file, world, proc, bound, hist>>

Init ==
  /\ rec = [a \in Agents |-> NoRecord] /\ counter = 0
  /\ stopped = {}
  /\ mail = [a \in Agents |-> {}] /\ inbox = [e \in Episodes |-> 0]
  /\ pc = [p \in Procs |-> "idle"] /\ who = [p \in Procs |-> None]
  /\ was = [p \in Procs |-> NoRecord] /\ token = [p \in Procs |-> 0]
  /\ flag = [p \in Procs |-> "no"] /\ got = [p \in Procs |-> FALSE]
  /\ gens = 0 /\ episodes = 0 /\ stamps = 0 /\ sentMail = 0 /\ crashes = 0
  /\ reserved = {} /\ confirmed = {} /\ ended = {} /\ flagged = {}

Goto(p, label) == pc' = [pc EXCEPT ![p] = label]
Ends(p) == /\ Goto(p, "idle")
           /\ who' = [who EXCEPT ![p] = None] /\ was' = [was EXCEPT ![p] = NoRecord]
           /\ token' = [token EXCEPT ![p] = 0] /\ flag' = [flag EXCEPT ![p] = "no"]
           /\ got' = [got EXCEPT ![p] = FALSE]
Begins(p, a, label) == /\ pc[p] = "idle" /\ Goto(p, label)
                       /\ who' = [who EXCEPT ![p] = a]

Busy(a, labels) == \E p \in Procs : who[p] = a /\ pc[p] \in labels

-----------------------------------------------------------------------------
(* The locked updates of a record.                                          *)

\* _graph_revision: past the counter, which is written first, and every state's.
NextRevision(a) == 1 + Max({counter} \union {rec[b].rev : b \in Agents})

Revised(a, r) == /\ rec' = [rec EXCEPT ![a] = [r EXCEPT !.rev = NextRevision(a)]]
                 /\ counter' = NextRevision(a)

Ended(r) == r.state \in {"stopped", "ceiling"}

\* stop: repeated, it mints no second episode; it may only wake an empty one.
\* `fence` holds the generation of a supervisor's replay.
StopsRecord(a, state, wake, fence) ==
  LET old == rec[a] IN
  \/ /\ fence \notin {None, old.gen}
     /\ UNCHANGED <<file, gens, episodes>>
  \/ /\ fence \in {None, old.gen} /\ Ended(old)
     /\ rec' = [rec EXCEPT ![a].notice = IF wake /\ @ = "empty" THEN "pending" ELSE @]
     /\ UNCHANGED <<counter, gens, episodes>>
  \/ /\ fence \in {None, old.gen} /\ ~Ended(old)
     /\ episodes < MaxEpisodes /\ (old.gen = 0 => gens < MaxGens)
     /\ gens' = IF old.gen = 0 THEN gens + 1 ELSE gens
     /\ episodes' = episodes + 1
     /\ Revised(a, [old EXCEPT !.gen = IF @ = 0 THEN gens + 1 ELSE @, !.state = state,
                               !.notice = "pending", !.episode = episodes + 1])

\* Mutant: a replay of a stop is not fenced.
ReplayUnfenced(a, fence) == StopsRecord(a, "stopped", FALSE, None)
Replay(a, fence) == StopsRecord(a, "stopped", FALSE, fence)

\* Mutant: a receipt, too, is invalidated by new input.
WokenAlways(r) == [r EXCEPT !.notice = "pending"]
Woken(r) == IF r.notice = "empty" THEN [r EXCEPT !.notice = "pending"] ELSE r

-----------------------------------------------------------------------------
(* Launches, heartbeats, stops, ceilings and messages.                      *)

\* _launched_now drops the deliberate stop first, then mints the generation.
Relaunch(p, a) ==
  /\ Orderly => ~Busy(a, {"stop", "mail", "wake", "launch"})
  /\ gens < MaxGens
  /\ Begins(p, a, "launch")
  /\ stopped' = stopped \ {a}
  /\ UNCHANGED <<file, mail, inbox, was, token, flag, got, bound, hist>>

Launch(p) ==
  /\ pc[p] = "launch" /\ gens < MaxGens
  /\ gens' = gens + 1
  /\ Revised(who[p], [NoRecord EXCEPT !.gen = gens + 1, !.state = "live"])
  /\ ended' = ended \ {who[p]}
  /\ Ends(p)
  /\ UNCHANGED <<world, episodes, stamps, sentMail, crashes, reserved, confirmed, flagged>>

\* A tool hook; a late one does not undo a stop.  The revision is published
\* again once in a while, and always from an expired lease, which is older.
Heartbeat(a) ==
  LET old == rec[a] IN
  /\ ~Ended(old) /\ stamps < MaxStamps /\ stamps' = stamps + 1
  /\ \/ /\ old.gen = 0 /\ gens < MaxGens /\ gens' = gens + 1
        /\ rec' = [rec EXCEPT ![a] = [NoRecord EXCEPT !.gen = gens + 1, !.state = "live"]]
        /\ UNCHANGED counter
     \/ /\ old.gen # 0 /\ UNCHANGED gens
        /\ LET new == [NoRecord EXCEPT !.gen = old.gen, !.state = "live",
                                       !.rev = old.rev, !.stamp = stamps + 1]
           IN \/ Revised(a, new)
              \/ /\ old.state = "live" /\ UNCHANGED counter
                 /\ rec' = [rec EXCEPT ![a] = new]
  /\ UNCHANGED <<world, proc, episodes, sentMail, crashes, hist>>

\* `st agent stop`: the pane is gone, the intent is recorded ...
StopAgent(p, a) ==
  /\ Orderly => ~Busy(a, {"launch"})
  /\ Begins(p, a, "stop")
  /\ stopped' = stopped \union {a} /\ ended' = ended \union {a}
  /\ UNCHANGED <<file, mail, inbox, was, token, flag, got, bound,
                 reserved, confirmed, flagged>>

\* ... and the lease is ended; the ceiling of a session does that alone.
Stop(p) ==
  /\ pc[p] = "stop"
  /\ StopsRecord(who[p], "stopped", TRUE, None)
  /\ Goto(p, IF flag[p] = "stopped" THEN "wake" ELSE "tick")
  /\ UNCHANGED <<world, who, was, token, flag, got, stamps, sentMail, crashes, hist>>

Ceiling(p, a) ==
  /\ Begins(p, a, "tick")
  /\ StopsRecord(a, "ceiling", TRUE, None)
  /\ ended' = ended \union {a}
  /\ UNCHANGED <<world, was, token, flag, got, stamps, sentMail, crashes,
                 reserved, confirmed, flagged>>

\* `st inbox` looks whether the owner is stopped, persists the message ...
Look(p, a) ==
  /\ sentMail < MaxMail
  /\ Orderly => ~Busy(a, {"launch"})
  /\ Begins(p, a, "mail")
  /\ flag' = [flag EXCEPT ![p] =
       IF a \in stopped THEN "stopped"
       ELSE IF rec[a].state \in {"stopped", "ceiling", "expired"} THEN "custody" ELSE "no"]
  /\ UNCHANGED <<file, world, was, token, got, bound, hist>>

Mail(p) ==
  /\ pc[p] = "mail" /\ sentMail < MaxMail
  /\ sentMail' = sentMail + 1
  /\ mail' = [mail EXCEPT ![who[p]] = @ \union {sentMail + 1}]
  /\ flagged' = IF flag[p] = "no" THEN flagged ELSE flagged \union {sentMail + 1}
  /\ \/ flag[p] = "no" /\ Ends(p)
     \/ /\ flag[p] # "no" /\ Goto(p, IF flag[p] = "stopped" THEN "stop" ELSE "wake")
        /\ UNCHANGED <<who, was, token, flag, got>>
  /\ UNCHANGED <<file, stopped, inbox, gens, episodes, stamps, crashes,
                 reserved, confirmed, ended>>

\* ... and wakes an owner whose queue was found empty.
Wake(p) ==
  /\ pc[p] = "wake"
  /\ rec' = [rec EXCEPT ![who[p]] = Woken(@)]
  /\ Goto(p, "tick") /\ flag' = [flag EXCEPT ![p] = "no"]
  /\ UNCHANGED <<counter, world, who, was, token, got, bound, hist>>

-----------------------------------------------------------------------------
(* The supervisor's pass: generations first, then the records of deliberate *)
(* stops, each replayed under its fence, then the owners that are due.      *)

Observe(p, a) ==
  /\ Begins(p, a, "stops")
  /\ token' = [token EXCEPT ![p] = rec[a].gen]
  /\ UNCHANGED <<file, world, was, flag, got, bound, hist>>

ReadStops(p) ==
  /\ pc[p] = "stops"
  /\ \/ who[p] \in stopped /\ Goto(p, "replay") /\ UNCHANGED token
     \/ /\ who[p] \notin stopped /\ Goto(p, "due")
        /\ token' = [token EXCEPT ![p] = 0]
  /\ UNCHANGED <<file, world, who, was, flag, got, bound, hist>>

ReplayStop(p) ==
  /\ pc[p] = "replay"
  /\ Replay(who[p], token[p])
  /\ Goto(p, "due") /\ token' = [token EXCEPT ![p] = 0]
  /\ UNCHANGED <<world, who, was, flag, got, stamps, sentMail, crashes, hist>>

\* pending and attempted: what is due may also not be, whatever the record says.
Due(p) ==
  /\ pc[p] = "due"
  /\ LET r == rec[who[p]] IN
     \/ /\ r.state = "live" \/ r.notice \in {"pending", "attempting", "unknown"}
        /\ stamps < MaxStamps /\ stamps' = stamps + 1
        /\ rec' = [rec EXCEPT ![who[p]].stamp = stamps + 1]
        /\ Goto(p, "tick") /\ UNCHANGED <<who, was, token, flag, got>>
     \/ Ends(p) /\ UNCHANGED <<rec, stamps>>
  /\ UNCHANGED <<counter, world, gens, episodes, sentMail, crashes, hist>>

-----------------------------------------------------------------------------
(* tick, for one owner.                                                     *)

Tick(p) ==
  /\ pc[p] = "tick"
  /\ LET r == rec[who[p]] IN
     \/ /\ \/ r.state = "live" /\ Goto(p, "expire")
           \/ r.notice = "pending" /\ Goto(p, "read")
           \/ r.notice \in {"attempting", "unknown"} /\ Goto(p, "receipt")
        /\ was' = [was EXCEPT ![p] = r] /\ UNCHANGED <<who, token, flag, got>>
     \/ Ends(p)
  /\ UNCHANGED <<file, world, bound, hist>>

\* Mutant: the record is replaced without being compared.
UnmovedAlways(p) == TRUE

\* The comparison of _replace.
Unmoved(p) == rec[who[p]] = was[p]

\* _replace by an expired lease.
Expire(p) ==
  /\ pc[p] = "expire"
  /\ \/ /\ Unmoved(p) /\ episodes < MaxEpisodes
        /\ episodes' = episodes + 1
        /\ LET new == [was[p] EXCEPT !.state = "expired", !.notice = "pending",
                                     !.episode = episodes + 1, !.rev = NextRevision(who[p])]
           IN /\ Revised(who[p], new)
              /\ was' = [was EXCEPT ![p] = new]
        /\ Goto(p, "read") /\ UNCHANGED <<who, token, flag, got>>
     \/ ~Unmoved(p) /\ Ends(p) /\ UNCHANGED <<file, episodes>>
  /\ UNCHANGED <<world, gens, stamps, sentMail, crashes, hist>>

\* The registry, the board and the owner's inbox are read; each may fail.
ReadWork(p) ==
  /\ pc[p] = "read"
  /\ \/ /\ \/ Goto(p, "reserve")    \* work on the board, or mail
           \/ Goto(p, "empty") /\ mail[who[p]] = {}
           \/ Goto(p, "defer")      \* before its deadline, and nothing urgent
        /\ UNCHANGED <<who, was, token, flag, got>>
     \/ Ends(p)
  /\ UNCHANGED <<file, world, bound, hist>>

Defer(p) ==
  /\ pc[p] = "defer"
  /\ \/ /\ Unmoved(p) /\ stamps < MaxStamps
        /\ stamps' = stamps + 1
        /\ rec' = [rec EXCEPT ![who[p]] = [was[p] EXCEPT !.stamp = stamps + 1]]
     \/ ~Unmoved(p) /\ UNCHANGED <<rec, stamps>>
  /\ Ends(p)
  /\ UNCHANGED <<counter, world, gens, episodes, sentMail, crashes, hist>>

Empty(p) ==
  /\ pc[p] = "empty"
  /\ rec' = IF Unmoved(p) THEN [rec EXCEPT ![who[p]] = [was[p] EXCEPT !.notice = "empty"]]
            ELSE rec
  /\ Ends(p)
  /\ UNCHANGED <<counter, world, bound, hist>>

\* The sending is reserved before it is made.
Reserve(p) ==
  /\ pc[p] = "reserve"
  /\ \/ /\ Unmoved(p)
        /\ LET attempt == [was[p] EXCEPT !.notice = "attempting"]
           IN /\ rec' = [rec EXCEPT ![who[p]] = attempt]
              /\ was' = [was EXCEPT ![p] = attempt]
        /\ reserved' = reserved \union {was[p].episode}
        /\ Goto(p, "deliver") /\ UNCHANGED <<who, token, flag, got>>
     \/ ~Unmoved(p) /\ Ends(p) /\ UNCHANGED <<rec, reserved>>
  /\ UNCHANGED <<counter, world, bound, confirmed, ended, flagged>>

\* The message may be stored and the answer lost; it is read back if it comes.
Deliver(p) ==
  /\ pc[p] = "deliver"
  /\ \E stored, answered \in BOOLEAN :
       /\ answered => stored
       /\ inbox' = IF stored THEN [inbox EXCEPT ![was[p].episode] = @ + 1] ELSE inbox
       /\ got' = [got EXCEPT ![p] = answered]
  /\ Goto(p, "finish")
  /\ UNCHANGED <<file, stopped, mail, who, was, token, flag, bound, hist>>

\* Mutant: what was not found is sent again.
ReceiptResends(p) ==
  /\ pc[p] = "receipt"
  /\ \/ /\ inbox[was[p].episode] = 0 /\ Goto(p, "deliver") /\ UNCHANGED got
     \/ /\ inbox[was[p].episode] # 0 /\ Goto(p, "finish")
        /\ got' = [got EXCEPT ![p] = TRUE]
  /\ UNCHANGED <<file, world, who, was, token, flag, bound, hist>>

\* A sending that was reserved before is looked up, and not made again.
Receipt(p) ==
  /\ pc[p] = "receipt"
  /\ \/ /\ got' = [got EXCEPT ![p] = inbox[was[p].episode] > 0]
        /\ Goto(p, "finish") /\ UNCHANGED <<who, was, token, flag>>
     \/ Ends(p)                    \* the lookup fails
  /\ UNCHANGED <<file, world, bound, hist>>

\* Mutant: the verdict is written on whatever the record has become.
CurrentAlways(p) == TRUE

Current(p) == LET now == rec[who[p]] IN
  /\ now.episode = was[p].episode /\ now.gen = was[p].gen
  /\ now.notice \in {"attempting", "unknown"}

\* _finish
Finish(p) ==
  /\ pc[p] = "finish"
  /\ LET verdict == IF got[p] THEN "delivered" ELSE "unknown" IN
     /\ rec' = IF Current(p) THEN [rec EXCEPT ![who[p]].notice = verdict] ELSE rec
     /\ confirmed' = IF Current(p) /\ got[p] THEN confirmed \union {rec[who[p]].episode}
                     ELSE confirmed
  /\ Ends(p)
  /\ UNCHANGED <<counter, world, bound, reserved, ended, flagged>>

-----------------------------------------------------------------------------
\* A process dies; inside a locked update, the counter may have been written.
Crash(p) ==
  /\ pc[p] # "idle" /\ crashes < MaxCrashes
  /\ crashes' = crashes + 1
  /\ counter' \in IF pc[p] \in {"launch", "stop", "replay", "expire"}
                  THEN {counter, NextRevision(who[p])} ELSE {counter}
  /\ Ends(p)
  /\ UNCHANGED <<rec, world, gens, episodes, stamps, sentMail, hist>>

Step(p) ==
  \/ Launch(p) \/ Stop(p) \/ Mail(p) \/ Wake(p) \/ ReadStops(p) \/ ReplayStop(p)
  \/ Due(p) \/ Tick(p) \/ Expire(p) \/ ReadWork(p) \/ Defer(p) \/ Empty(p)
  \/ Reserve(p) \/ Deliver(p) \/ Receipt(p) \/ Finish(p)

Next == \/ \E p \in Procs : \/ Step(p) \/ Crash(p)
                            \/ \E a \in Agents : \/ Relaunch(p, a) \/ StopAgent(p, a)
                                                 \/ Ceiling(p, a) \/ Look(p, a)
                                                 \/ Observe(p, a)
        \/ \E a \in Agents : Heartbeat(a)

Spec == Init /\ [][Next]_vars

-----------------------------------------------------------------------------
(* What is promised.                                                        *)

Labels == {"idle", "launch", "stop", "mail", "wake", "stops", "replay", "due", "tick",
           "expire", "read", "defer", "empty", "reserve", "deliver", "receipt", "finish"}

\* Every variable keeps its type; a lease has a notice exactly once it has ended.
TypeOK ==
  /\ \A a \in Agents : rec[a].state \in {"live", "none"} <=> rec[a].notice = "none"
  /\ rec \in [Agents -> Record \union {NoRecord}] /\ counter \in Nat
  /\ stopped \subseteq Agents
  /\ mail \in [Agents -> SUBSET (1 .. MaxMail)] /\ inbox \in [Episodes -> Nat]
  /\ pc \in [Procs -> Labels] /\ who \in [Procs -> Agents \union {None}]
  /\ was \in [Procs -> Record \union {NoRecord}] /\ token \in [Procs -> 0 .. MaxGens]
  /\ flag \in [Procs -> {"no", "custody", "stopped"}] /\ got \in [Procs -> BOOLEAN]
  /\ gens \in 0 .. MaxGens /\ episodes \in 0 .. MaxEpisodes /\ stamps \in 0 .. MaxStamps
  /\ sentMail \in 0 .. MaxMail /\ crashes \in 0 .. MaxCrashes
  /\ reserved \subseteq Episodes /\ confirmed \subseteq Episodes
  /\ ended \subseteq Agents /\ flagged \subseteq 1 .. MaxMail

\* The notices of every episode are what module Notices promises: reserved, then
\* sent once at most, then confirmed only if they were sent.
Promise == INSTANCE Notices WITH sent <- inbox
SendsOnce == Promise!NSpec

\* An episode's receipt is final: while the episode lasts nothing, be it a late
\* verdict or new mail, takes "delivered" back.
ReceiptStays ==
  [][\A a \in Agents : rec[a].notice = "delivered" /\ rec'[a].episode = rec[a].episode
       => rec'[a].notice = "delivered"]_vars

\* No stop is replayed on a launch that came after it: a lease that is ended was
\* ended by a stop or a ceiling called for since the agent's last launch.
NoStaleStop == \A a \in Agents : Ended(rec[a]) => a \in ended

\* "A new input can invalidate an earlier empty queue": when nothing is under way
\* no owner stands as having nothing left while there is mail for it whose sender
\* had seen it stopped.
NoMailBuried ==
  (\A p \in Procs : pc[p] = "idle") =>
    \A a \in Agents : rec[a].notice = "empty" => mail[a] \intersect flagged = {}
=============================================================================
