--------------------------- MODULE LedgersProofs ---------------------------
(***************************************************************************)
(* The types of all nine components of MCLedgers, for every size of its    *)
(* constants.  Most of each type, the holders of the locks included, is in *)
(* the invariant of its component; what is left are the counters, and a    *)
(* few sets that no other property speaks of (Counted).                    *)
(***************************************************************************)
EXTENDS HoldingsProofs, StoresProofs, SweepsProofs

-----------------------------------------------------------------------------
(* Counters.                                                                *)

\* A hook drains nothing.
EventsCount    == \A h \in Hooks : left[h] = {}
RemindersCount == day \in 0 .. MaxDay /\ packets \in 0 .. MaxPackets
PlatesCount    == ops \in 0 .. MaxOps
CyclesCount    == jolts \in 0 .. MaxUpsets
DeferralsCount == /\ dmoves \in 0 .. MaxMoves /\ dfalls \in 0 .. MaxFalls
                  /\ summary \subseteq D!Things \X D!Findings
UnblockedCount == /\ umoves \in 0 .. MaxUpsets /\ ufalls \in 0 .. MaxFalls
                  /\ heard \in [1 .. MaxFirings -> Nat]
                  /\ \A f \in DOMAIN log : log[f].at \in 1 .. MaxFirings

Counted ==
  /\ subject = "events" => EventsCount
  /\ subject = "reminders" => RemindersCount
  /\ subject = "plates" => PlatesCount
  /\ subject = "cycles" => CyclesCount
  /\ subject = "deferrals" => DeferralsCount
  /\ subject = "unblocked" => UnblockedCount

\* A counter that is below its bound may go up by one.
LEMMA OneMore == \A n, max \in Nat : \A i \in 0 .. max : i < max => i + 1 \in 0 .. max
OBVIOUS

\* Only a reader has anything left to mark.
LEMMA EventsCounts == EventsInv /\ EventsCount /\ [E!Next]_E!vars => EventsCount'
<1> SUFFICES ASSUME EventsInv, EventsCount, [E!Next]_E!vars, NEW h \in Hooks PROVE left'[h] = {}
  BY DEF EventsCount
<1>1. /\ left \in [E!Procs -> SUBSET E!Slots] /\ h \in E!Procs /\ h \notin Readers
      /\ left[h] = {} /\ pc[h] \in {"idle", "open", "write", "replace"}
  BY EventNames DEF EventsInv, HandsTyped, Saving, EventsCount
<1>2. CASE UNCHANGED E!vars
  BY <1>1, <1>2 DEF E!vars, E!proc
<1>3. ASSUME NEW g \in Hooks, E!Persist(g) \/ E!Step(g) \/ \E k \in Keys : E!PersistKeyed(g, k)
      PROVE  left'[h] = {}
  BY <1>1, <1>3 DEF E!Persist, E!PersistKeyed, E!Step, E!Open, E!Write, E!Replace, E!Crash, E!Ends, E!proc
<1>4. ASSUME NEW r \in Readers, \/ E!Peek(r) \/ E!Prepare(r) \/ E!Claim(r) \/ E!Mark(r)
                                \/ E!Drop(r) \/ E!Tell(r) \/ E!Step(r)
      PROVE  left'[h] = {}
  BY <1>1, <1>4 DEF E!Peek, E!Prepare, E!Claim, E!Mark, E!Drop, E!Tell, E!Step, E!Open, E!Write,
                    E!Replace, E!Crash, E!Ends, E!Saves
<1> QED BY <1>2, <1>3, <1>4 DEF E!Next

\* A packet is made while there is room for one, and so is a day.
LEMMA RemindersCounts == RemindersCount /\ [R!RNext]_R!rvars => RemindersCount'
<1> SUFFICES ASSUME RemindersCount, [R!RNext]_R!rvars PROVE RemindersCount'
  OBVIOUS
<1>1. MaxDay \in Nat /\ MaxPackets \in Nat
  BY BoundsAssumption
<1>2. CASE R!Tomorrow
  BY <1>1, <1>2 DEF R!Tomorrow, RemindersCount
<1>3. ASSUME NEW r \in Recipients, R!Pack(r) PROVE RemindersCount'
  BY <1>1, <1>3 DEF R!Pack, R!Outside, RemindersCount
<1>4. ASSUME \/ R!Board \/ R!Dies \/ R!Start \/ R!Read \/ R!Deliver \/ R!Acks \/ R!Prune
             \/ \E r \in Recipients : R!Settle(r)
             \/ \E u \in Unlocks : R!Ack(u)
             \/ UNCHANGED R!rvars
      PROVE  RemindersCount'
  <2>1. UNCHANGED <<day, packets>>
    BY <1>4 DEF R!Board, R!Dies, R!Start, R!Read, R!Deliver, R!Acks, R!Prune, R!Settle, R!Ack, R!Outside, R!rvars
  <2> QED BY <2>1 DEF RemindersCount
<1> QED BY <1>2, <1>3, <1>4 DEF R!RNext

\* An operation is begun while there is room for one.
LEMMA PlatesCounts == PlatesCount /\ [P!PNext]_P!pvars => PlatesCount'
<1> SUFFICES ASSUME PlatesCount, [P!PNext]_P!pvars PROVE PlatesCount'
  OBVIOUS
<1>1. MaxOps \in Nat
  BY LedgersAssumption
<1>2. ops' = ops \/ (ops < MaxOps /\ ops' = ops + 1)
  <2>1. ASSUME NEW w \in Writers, \/ P!Acquire(w) \/ P!Admit(w) \/ P!Write(w) \/ P!Plan(w)
                                  \/ P!Send(w) \/ P!Track(w)
        PROVE  ops' = ops
    BY <2>1 DEF P!Acquire, P!Admit, P!Write, P!Plan, P!Send, P!Track
  <2>2. ASSUME NEW w, NEW what, NEW i, NEW says, NEW plate, P!Starts(w, what, i, says, plate)
        PROVE  ops < MaxOps /\ ops' = ops + 1
    BY <2>2 DEF P!Starts
  <2>3. CASE \E w \in Writers :
          \/ \E i \in Items, x \in P!Records : P!Create(w, i, x)
          \/ \E i \in Items, to \in Owners \union {None, P!Same}, st \in {"open", "closed", P!Same},
                defer \in {"none", "later", P!Same} : P!Update(w, i, to, st, defer)
          \/ \E i \in Items, a \in Owners : P!Go(w, i, a)
    BY <2>2, <2>3 DEF P!Create, P!Update, P!Go
  <2>4. CASE UNCHANGED P!pvars
    BY <2>4 DEF P!pvars
  <2>5. ASSUME NEW i, P!Lapse(i) \/ P!Rerank(i) PROVE ops' = ops
    BY <2>5 DEF P!Lapse, P!Rerank
  <2> QED BY <2>1, <2>3, <2>4, <2>5 DEF P!PNext
<1> QED BY <1>1, <1>2 DEF PlatesCount

\* Nobody upsets an agent more often than is allowed.
LEMMA CyclesCounts == CyclesCount /\ [C!CNext]_C!cvars => CyclesCount'
<1> SUFFICES ASSUME CyclesCount, [C!CNext]_C!cvars PROVE CyclesCount'
  OBVIOUS
<1>1. MaxUpsets \in Nat
  BY BoundsAssumption
<1>2. CASE C!Dies \/ C!ClearByHand \/ C!New \/ \E p \in C!Procs : C!Killed(p)
  <2>1. C!Upset
    BY <1>2 DEF C!Dies, C!ClearByHand, C!New, C!Killed
  <2> QED BY <1>1, <2>1 DEF C!Upset, CyclesCount
<1>3. ASSUME \/ C!Turn \/ C!Ask
             \/ \E p \in Servers : \/ C!Revive(p) \/ C!Raise(p) \/ C!Sweep(p)
                                   \/ C!Decide(p) \/ C!Serve(p)
             \/ \E p \in Humans : C!Order(p) \/ C!Stop(p)
             \/ \E p \in C!Procs :
                  \/ C!Enter(p) \/ C!Type(p) \/ C!Settle(p) \/ C!Respawn(p) \/ C!Down(p)
                  \/ C!Record(p) \/ C!Launch(p) \/ C!Verify(p) \/ C!Tidy(p)
             \/ UNCHANGED C!cvars
      PROVE  CyclesCount'
  <2>1. jolts' = jolts
    BY <1>3 DEF C!Turn, C!Ask, C!Revive, C!Raise, C!Sweep, C!Decide, C!Serve, C!Order, C!Stop, C!Enter,
                C!Type, C!Settle, C!Respawn, C!Down, C!Record, C!Launch, C!Verify, C!Tidy,
                C!Kept, C!cvars
  <2> QED BY <2>1 DEF CyclesCount
<1> QED BY <1>2, <1>3 DEF C!CNext

\* Nobody moves, nor dies, more often than is allowed, and what was said is of findings.
LEMMA DeferralsCounts == DeferralsInv /\ DeferralsCount /\ [D!DNext]_D!dvars => DeferralsCount'
<1> SUFFICES ASSUME DeferralsInv, DeferralsCount, [D!DNext]_D!dvars PROVE DeferralsCount'
  OBVIOUS
<1>1. MaxMoves \in Nat /\ MaxFalls \in Nat
  BY BoundsAssumption
<1>2. dmoves' = dmoves \/ (dmoves < MaxMoves /\ dmoves' = dmoves + 1)
  BY DEF D!DNext, D!Move, D!Judge, D!Begin, D!Release, D!Save, D!Push, D!Suppress, D!Silent,
         D!Summarise, D!Record, D!Falls, D!Moves, D!Smooth, D!dvars
<1>3. dfalls' = dfalls \/ (dfalls < MaxFalls /\ dfalls' = dfalls + 1)
  BY DEF D!DNext, D!Move, D!Judge, D!Begin, D!Release, D!Save, D!Push, D!Suppress, D!Silent,
         D!Summarise, D!Record, D!Falls, D!dvars
<1>4. summary' = summary \/ summary' = {} \/ (sweep # None /\ summary' = D!Message)
  BY DEF D!DNext, D!Move, D!Judge, D!Begin, D!Release, D!Save, D!Push, D!Suppress, D!Silent,
         D!Summarise, D!Record, D!Falls, D!At, D!Ledgers, D!dvars
<1>5. ASSUME sweep # None PROVE D!Message \subseteq D!Things \X D!Findings
  <2>1. sweep.reports \in [D!Things -> D!Findings \union {None}]
    BY <1>5 DEF DeferralsInv, DeferralsTyped, D!Pass
  <2>2. \A t \in D!News : t \in D!Things /\ sweep.reports[t] \in D!Findings
    BY <2>1 DEF D!News, D!Reported
  <2> QED BY <2>2 DEF D!Message
<1>6. summary' \subseteq D!Things \X D!Findings
  BY <1>4, <1>5 DEF DeferralsCount
<1>7. dmoves' \in 0 .. MaxMoves /\ dfalls' \in 0 .. MaxFalls
  BY <1>1, <1>2, <1>3 DEF DeferralsCount
<1> QED BY <1>6, <1>7 DEF DeferralsCount

\* Nobody moves, nor dies, more often than is allowed, and no second is past the last.
LEMMA UnblockedCounts == UnblockedInv /\ UnblockedCount /\ [U!UNext]_U!uvars => UnblockedCount'
<1> SUFFICES ASSUME UnblockedInv, UnblockedCount, [U!UNext]_U!uvars PROVE UnblockedCount'
  OBVIOUS
<1>1. MaxUpsets \in Nat /\ MaxFalls \in Nat /\ MaxFirings \in Nat
  BY BoundsAssumption, LedgersAssumption
<1>2. umoves' = umoves \/ (umoves < MaxUpsets /\ umoves' = umoves + 1)
  BY DEF U!UNext, U!Move, U!Fire, U!Load, U!Show, U!Reopen, U!Tell, U!Save, U!Falls, U!Moves,
         U!Smooth, U!uvars
<1>3. ufalls' = ufalls \/ (ufalls < MaxFalls /\ ufalls' = ufalls + 1)
  BY DEF U!UNext, U!Move, U!Fire, U!Load, U!Show, U!Reopen, U!Tell, U!Save, U!Falls, U!uvars
<1>4. umoves' \in 0 .. MaxUpsets /\ ufalls' \in 0 .. MaxFalls
  BY <1>1, <1>2, <1>3 DEF UnblockedCount
<1>5. heard' = heard \/ \E f : heard' = [heard EXCEPT ![f] = @ + 1]
  BY DEF U!UNext, U!Move, U!Fire, U!Load, U!Show, U!Reopen, U!Tell, U!Save, U!Falls, U!Heard, U!uvars
<1>6. heard' \in [1 .. MaxFirings -> Nat]
  BY <1>5 DEF UnblockedCount
<1>7. log' = log \/ \E b \in Blocked : U!Fire(b)
  BY DEF U!UNext, U!Move, U!Load, U!Show, U!Reopen, U!Tell, U!Save, U!Falls, U!Outside, U!uvars
<1>8. ASSUME NEW b \in Blocked, U!Fire(b), NEW f \in DOMAIN log' PROVE log'[f].at \in 1 .. MaxFirings
  <2> DEFINE last == IF log = <<>> THEN 1 ELSE log[Len(log)].at
  <2>1. PICK second \in {last, last + 1} :
          second <= MaxFirings /\ log' = Append(log, [bead |-> b, at |-> second])
    BY <1>8 DEF U!Fire
  <2>2. log \in Seq([bead : Blocked, at : Nat]) /\ Len(log) \in Nat /\ DOMAIN log = 1 .. Len(log)
    BY LenProperties DEF UnblockedInv, UnblockedTyped, Logged
  <2>3. log # <<>> => Len(log) \in DOMAIN log
    BY <2>2, EmptySeq
  <2>4. last \in 1 .. MaxFirings \/ last = 1
    BY <2>3 DEF UnblockedCount
  <2>5. second \in 1 .. MaxFirings
    BY <1>1, <2>1, <2>4
  <2>6. [bead |-> b, at |-> second] \in [bead : Blocked, at : Nat]
    BY <2>5
  <2> HIDE DEF last
  <2>7. /\ Len(log') = Len(log) + 1 /\ DOMAIN log' = 1 .. Len(log) + 1
        /\ \A i \in 1 .. Len(log) : log'[i] = log[i]
        /\ log'[Len(log) + 1] = [bead |-> b, at |-> second]
    BY <2>1, <2>2, <2>6, AppendProperties, LenProperties
  <2>8. CASE f \in 1 .. Len(log)
    BY <2>2, <2>7, <2>8 DEF UnblockedCount
  <2>9. CASE f = Len(log) + 1
    BY <2>5, <2>7, <2>9
  <2> QED BY <1>8, <2>2, <2>7, <2>8, <2>9
<1>9. \A f \in DOMAIN log' : log'[f].at \in 1 .. MaxFirings
  BY <1>7, <1>8 DEF UnblockedCount
<1> QED BY <1>4, <1>6, <1>9 DEF UnblockedCount

-----------------------------------------------------------------------------
(* The types.                                                               *)

\* What each component has beyond its counters.
AllInvs ==
  /\ subject \in Components
  /\ WindowInv
  /\ subject = "events" => EventsInv
  /\ subject = "reminders" => RemindersInv
  /\ subject = "plates" => PlatesInv
  /\ subject = "pulls" => PullsInv
  /\ subject = "memory" => WholeInv
  /\ subject = "cycles" => CyclesInv
  /\ subject = "deferrals" => DeferralsInv
  /\ subject = "unblocked" => UnblockedInv

\* Nothing was counted yet.
LEMMA CountsBegin == LInit => Counted
<1> SUFFICES ASSUME LInit PROVE Counted
  OBVIOUS
<1>1. /\ E!Init /\ R!RInit /\ P!PInit /\ C!CInit /\ D!DInit /\ U!UInit
  BY DEF LInit
<1>2. /\ {MaxUpsets, MaxMoves, MaxFalls, MaxDay, MaxPackets, MaxOps} \subseteq Nat
  BY BoundsAssumption, LedgersAssumption
<1>3. EventsCount
  BY <1>1, EventNames DEF E!Init, EventsCount
<1>4. RemindersCount /\ PlatesCount /\ CyclesCount
  BY <1>1, <1>2 DEF R!RInit, P!PInit, C!CInit, RemindersCount, PlatesCount, CyclesCount
<1>5. DeferralsCount
  BY <1>1, <1>2 DEF D!DInit, DeferralsCount
<1>6. UnblockedCount
  BY <1>1, <1>2 DEF U!UInit, UnblockedCount
<1> QED BY <1>3, <1>4, <1>5, <1>6 DEF Counted

\* The counters keep, whichever component is the subject.
LEMMA CountsKeep == AllInvs /\ Counted /\ [LNext]_all => Counted'
<1> SUFFICES ASSUME AllInvs, Counted, [LNext]_all PROVE Counted'
  OBVIOUS
<1>1. subject' = subject
  BY EventsOnly
<1>2. subject = "events" => EventsCount'
  BY EventsOnly, EventsCounts DEF AllInvs, Counted
<1>3. subject = "reminders" => RemindersCount'
  BY RemindersOnly, RemindersCounts DEF Counted
<1>4. subject = "plates" => PlatesCount'
  BY PlatesOnly, PlatesCounts DEF Counted
<1>5. subject = "cycles" => CyclesCount'
  BY CyclesOnly, CyclesCounts DEF Counted
<1>6. subject = "deferrals" => DeferralsCount'
  BY DeferralsOnly, DeferralsCounts DEF AllInvs, Counted
<1>7. subject = "unblocked" => UnblockedCount'
  BY UnblockedOnly, UnblockedCounts DEF AllInvs, Counted
<1> QED BY <1>1, <1>2, <1>3, <1>4, <1>5, <1>6, <1>7 DEF Counted

\* Each invariant, with its counters, has the types of its component.
LEMMA InvsAreTyped == AllInvs /\ Counted => AllTypesOK
<1> SUFFICES ASSUME AllInvs, Counted PROVE AllTypesOK
  OBVIOUS
<1>1. ASSUME EventsInv, EventsCount PROVE E!TypeOK
  <2>1. ASSUME NEW p \in E!Procs
        PROVE  /\ DOMAIN batch[p] \subseteq E!Slots /\ left[p] \subseteq DOMAIN batch[p]
               /\ \A s \in DOMAIN batch[p] : batch[p][s] \in E!Calls
    <3>1. batch[p] \in UNION {[S -> E!Calls] : S \in SUBSET E!Slots}
      BY <1>1 DEF EventsInv, HandsTyped
    <3>2. left[p] \subseteq DOMAIN batch[p]
      BY <1>1, EventNames DEF EventsInv, Draining, EventsCount
    <3> QED BY <3>1, <3>2
  <2> QED BY <1>1, <2>1 DEF E!TypeOK, EventsInv, FilesTyped, HandsTyped, BooksTyped
<1>2. ASSUME RemindersInv, RemindersCount PROVE R!RTypeOK
  <2>1. \A u \in Unlocks : acked[u] # None => acked[u] \in 0 .. MaxPackets
    <3> SUFFICES ASSUME NEW u \in Unlocks, acked[u] # None PROVE acked[u] \in 0 .. MaxPackets
      OBVIOUS
    <3>1. PICK m \in mail : m.n = acked[u]
      BY <1>2 DEF RemindersInv, Vouched, Receipted
    <3>2. m.n \in Nat /\ m.n < packets /\ packets \in 0 .. MaxPackets
      BY <1>2 DEF RemindersInv, RemindersTyped, Letters, NumberedOnce, RemindersCount
    <3> QED BY <3>1, <3>2, BoundsAssumption
  <2> QED BY <1>2, <2>1 DEF R!RTypeOK, RemindersInv, RemindersTyped, RemindersCount
<1>3. ASSUME PlatesInv, PlatesCount PROVE P!PTypeOK
  BY <1>3 DEF P!PTypeOK, PlatesInv, PlatesTyped, Locked, PlatesCount
<1>4. ASSUME CyclesInv, CyclesCount PROVE C!CTypeOK
  BY <1>4 DEF C!CTypeOK, CyclesInv, CyclesTyped, CyclesCount, Locks, Behind, C!Labels, C!Unlocked
<1>5. ASSUME DeferralsInv, DeferralsCount PROVE D!DTypeOK
  BY <1>5 DEF D!DTypeOK, DeferralsInv, DeferralsTyped, DeferralsCount
<1>6. ASSUME UnblockedInv, UnblockedCount PROVE U!UTypeOK
  <2>1. \A f \in DOMAIN log : log[f] \in [bead : Blocked, at : 1 .. MaxFirings]
    <3>1. \A f \in DOMAIN log : log[f] \in [bead : Blocked, at : Nat]
      <4>1. log \in Seq([bead : Blocked, at : Nat])
        BY <1>6 DEF UnblockedInv, UnblockedTyped, Logged
      <4>2. DOMAIN log = 1 .. Len(log)
        BY <4>1, LenProperties
      <4> QED BY <4>1, <4>2, ElementOfSeq
    <3> QED BY <1>6, <3>1 DEF UnblockedCount
  <2>2. DOMAIN log = 1 .. Len(log) /\ Len(log) \in Nat /\ Len(log) <= MaxFirings /\ MaxFirings \in Nat
    BY <1>6, LenProperties, LedgersAssumption DEF UnblockedInv, UnblockedTyped, Logged
  <2>3. DOMAIN log = U!Firings /\ DOMAIN log \subseteq 1 .. MaxFirings
    BY <2>2 DEF U!Firings
  <2>4. cursor \in U!Ledger
    <3>1. cursor \in [since : Nat, done : SUBSET Nat] /\ cursor.done \subseteq dealt
      BY <1>6 DEF UnblockedInv, UnblockedTyped, Reaches
    <3>2. cursor.since \in 0 .. MaxFirings
      BY <1>6, <2>2 DEF UnblockedInv, Reaches, UnblockedCount
    <3>3. cursor.done \subseteq 1 .. MaxFirings
      BY <1>6, <2>3, <3>1 DEF UnblockedInv, UnblockedTyped
    <3> QED BY <3>1, <3>2, <3>3 DEF U!Ledger
  <2>5. ASSUME NEW p \in Passes
        PROVE  /\ pass[p].left \subseteq U!Firings /\ pass[p].done \subseteq U!Firings
               /\ pass[p].pc \in {"idle", "next", "reopen", "tell"}
    BY <1>6, <2>3, <2>5 DEF UnblockedInv, UnblockedTyped, Complete, Reaches, Reading
  <2> QED BY <1>6, <2>1, <2>3, <2>4, <2>5 DEF U!UTypeOK, UnblockedInv, UnblockedTyped, UnblockedCount
<1>7. WindowInv => W!TypeOK
  BY DEF WindowInv
<1>8. PullsInv => FTypeOK
  BY DEF PullsInv
<1>9. WholeInv => M!MTypeOK
  BY DEF WholeInv
<1> QED BY <1>1, <1>2, <1>3, <1>4, <1>5, <1>6, <1>7, <1>8, <1>9
        DEF AllInvs, Counted, Components, AllTypesOK

\* Every variable of every component keeps its type: a lock is held by whom the labels say,
\* a batch is of events that exist, no counter passes its bound.
THEOREM TypesAreKept == Serial /\ (\A r, s \in Readers : r = s) => (LSpec => []AllTypesOK)
<1> SUFFICES ASSUME Serial, \A r, s \in Readers : r = s PROVE LSpec => []AllTypesOK
  OBVIOUS
<1>1. LSpec => []AllInvs
  <2>1. LInit => subject \in Components
    BY BoundsAssumption DEF LInit
  <2>2. [LNext]_all /\ subject \in Components => (subject \in Components)'
    BY EventsOnly
  <2>3. LInit => (subject = "pulls" => PullsInv)
    BY PullsBegin DEF LInit
  <2>4. (subject = "pulls" => PullsInv) /\ [LNext]_all => (subject = "pulls" => PullsInv)'
    <3>1. [LNext]_all /\ subject = "pulls" => [FNext]_fvars
      BY DEF LNext, all
    <3> QED BY <3>1, EventsOnly, PullsStep
  <2>5. LInit => (subject = "memory" => WholeInv)
    BY MemoryOnly, MemoryBegins
  <2>6. (subject = "memory" => WholeInv) /\ [LNext]_all => (subject = "memory" => WholeInv)'
    BY MemoryOnly, MemoryStep, MemoryRests
  <2> QED BY <2>1, <2>2, <2>3, <2>4, <2>5, <2>6, WindowInvariance, EventsInvariance,
             RemindersInvariance, PlatesInvariance, CyclesInvariance, DeferralsInvariance,
             UnblockedInvariance, PTL DEF LSpec, AllInvs
<1> QED BY <1>1, CountsBegin, CountsKeep, InvsAreTyped, PTL DEF LSpec
=============================================================================
