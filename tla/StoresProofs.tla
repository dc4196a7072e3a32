---------------------------- MODULE StoresProofs ----------------------------
(***************************************************************************)
(* File memory and the stop events, as MCLedgers runs them, for every      *)
(* number of processes, files, edits, events and crashes.                  *)
(*                                                                         *)
(* A head is accepted whole because a process at the batch holds the sync  *)
(* lock and what it froze is a capture (WholeInv).  That nothing older     *)
(* comes back is about four heads at once: what is uploaded is ahead of    *)
(* the accepted head, what the generation in force holds is ahead of both, *)
(* a capture under comparison is one the session has only moved past, and  *)
(* a generation is staged only while nobody uploads (OrderInv); it needs a *)
(* launch to be alone at the project (Serial).                             *)
(*                                                                         *)
(* A stop event survives because a temporary file has one writer and is    *)
(* behind one name (Saving, OneName), whose writer has a number and an     *)
(* event that nobody has (Numbered, Published).  It is told once because   *)
(* a batch holds pending events only, which nobody was given (Draining),   *)
(* and what was given is marked (Given).  Both need that one hook at a     *)
(* time takes a number (Serial), and one reader of a destination.          *)
(***************************************************************************)
EXTENDS MCLedgers, Sequences, SequenceTheorems, FiniteSetTheorems, WellFoundedInduction, TLAPS

-----------------------------------------------------------------------------
(* File memory: what is written down of the heads, and who has what in hand. *)

\* A generation with files.
Real(g) == g \in M!Gens /\ roots[g] # None

\* Every generation that is named anywhere has files.
Rooted ==
  /\ Real(native.gen) /\ \A g \in live \union handed : Real(g)
  /\ native.pending # None => Real(native.pending.gen)
  /\ \A p \in Runners : runner[p].src # None => Real(runner[p].src)

\* What a process has in hand at each label, and that nobody else is at the batch.
AtBatch(p) ==
  /\ runner[p].pc = "idle" => runner[p] = M!Idle
  /\ runner[p].pc \notin {"idle", "begin"} => runner[p].src # None
  /\ runner[p].pc = "select" => runner[p].prep
  /\ runner[p].pc \in {"capture", "freeze", "deliver", "delivered"} => syncLock = p
  /\ runner[p].pc \in {"capture", "freeze"} => upload = None
  /\ runner[p].pc \in {"deliver", "delivered"} => upload # None
  /\ runner[p].pc = "freeze" => /\ runner[p].files \in captured /\ runner[p].files # None
                                /\ runner[p].base # None

\* What is accepted, or on the way to it, was captured whole.
WholeInv ==
  /\ M!MTypeOK /\ Rooted /\ M!AcceptedWhole
  /\ upload # None => M!Files(upload) \in captured
  /\ \A p \in Runners : AtBatch(p)

\* The texts of a head ascend for each file, and no text is ahead of the edits.
Ordered(h) == \A i, j \in DOMAIN h : i < j /\ h[i].path = h[j].path => h[i].text < h[j].text
Upto(h, n) == \A i \in DOMAIN h : h[i].text <= n

\* A text is newer than all a head has of a file.
Newer(t, h, f) == \A i \in DOMAIN h : h[i].path = f => h[i].text < t

\* A file of a generation is the one of the head, or is newer than all of it.
Ahead(files, h) == \A f \in Paths : files[f] = M!Files(h)[f] \/ Newer(files[f], h, f)

\* Sessions run on one generation: the one that was staged last, or else the one in force.
Current == IF native.pending = None THEN native.gen ELSE native.pending.gen
OneSession == live \union handed \subseteq {Current}

\* Who prepares a launch is alone, and every process works on the generation in force.
Launches(p) ==
  /\ runner[p].prep => /\ live = {} /\ handed = {}
                       /\ \A q \in Runners \ {p} : runner[q].pc = "idle"
  /\ runner[p].src # None => runner[p].src = native.gen

\* While a generation is staged nothing is uploaded: the one in force is the accepted head.
Staged ==
  native.pending # None =>
    /\ upload = None /\ native.pending.head = accepted /\ native.pending.gen # native.gen
    /\ roots[native.gen] = M!Files(accepted) /\ Ahead(roots[native.pending.gen], accepted)
    /\ \A p \in Runners : runner[p].pc # "idle" => runner[p].prep /\ runner[p].pc # "freeze"

\* What was captured is ahead of the head it was compared with, and the generation in
\* force has it, or something newer.
Compared(p) ==
  runner[p].pc = "freeze" =>
    /\ runner[p].base = accepted /\ Ahead(runner[p].files, accepted)
    /\ \A f \in Paths :
         \/ roots[native.gen][f] = runner[p].files[f]
         \/ /\ runner[p].files[f] < roots[native.gen][f]
            /\ Newer(roots[native.gen][f], accepted, f)

OrderInv ==
  /\ \A h \in {remote, accepted} \union commits : Ordered(h) /\ Upto(h, edits)
  /\ upload # None => Ordered(upload) /\ Upto(upload, edits)
  /\ Ahead(roots[native.gen], IF upload = None THEN accepted ELSE upload)
  /\ \A g \in M!Gens : roots[g] # None => \A f \in Paths : roots[g][f] <= edits
  /\ OneSession /\ Staged
  /\ \A p \in Runners : Launches(p) /\ Compared(p)

-----------------------------------------------------------------------------
(* Heads and the files they hold.                                           *)

\* A set of numbers up to a bound that is not empty has a greatest one.
LEMMA GreatestIsThere ==
  ASSUME NEW n \in Nat, NEW S, S \subseteq 1 .. n, S # {}
  PROVE  \E m \in S : \A j \in S : j <= m
<1> DEFINE T == {n - i : i \in S}
<1>1. T \subseteq Nat /\ T # {}
  <2>1. \A i \in S : n - i \in Nat
    OBVIOUS
  <2> QED BY <2>1
<1>2. PICK x \in T : \A y \in T : ~ (<<y, x>> \in OpToRel(<, Nat))
  BY <1>1, NatLessThanWellFounded, WFMin
<1>3. PICK m \in S : x = n - m
  BY <1>2
<1>4. \A j \in S : j <= m
  <2> TAKE j \in S
  <2>1. n - j \in T /\ n - j \in Nat /\ x \in Nat
    BY <1>1, <1>2
  <2>2. ~(n - j < x)
    BY <1>2, <2>1 DEF OpToRel
  <2> QED BY <1>3, <2>2
<1> QED BY <1>3, <1>4

\* The elements of a head are commits of a file.
LEMMA ChainFacts ==
  ASSUME NEW h \in M!Chain
  PROVE  /\ Len(h) \in Nat /\ DOMAIN h = 1 .. Len(h)
         /\ \A i \in 1 .. Len(h) : h[i].path \in Paths /\ h[i].text \in Nat
<1>1. h \in Seq([path : Paths, text : Nat])
  BY DEF M!Chain
<1>2. Len(h) \in Nat /\ DOMAIN h = 1 .. Len(h)
  BY <1>1, LenProperties
<1>3. \A i \in 1 .. Len(h) : h[i] \in [path : Paths, text : Nat]
  BY <1>1, ElementOfSeq
<1> QED BY <1>2, <1>3

\* The file of a head is none if no commit is of it, and else that of the last of them.
LEMMA LastOf ==
  ASSUME NEW h \in M!Chain, NEW f \in Paths
  PROVE  \/ (\A i \in DOMAIN h : h[i].path # f) /\ M!Files(h)[f] = None
         \/ \E m \in DOMAIN h : /\ h[m].path = f /\ M!Files(h)[f] = h[m].text
                                /\ \A j \in DOMAIN h : h[j].path = f => j <= m
<1> DEFINE S == {i \in DOMAIN h : h[i].path = f}
<1>1. M!Files(h)[f] = IF S = {} THEN None ELSE h[CHOOSE i \in S : \A j \in S : j <= i].text
  BY DEF M!Files
<1>2. S \subseteq 1 .. Len(h) /\ Len(h) \in Nat
  BY ChainFacts
<1>3. CASE S = {}
  BY <1>1, <1>3
<1>4. CASE S # {}
  <2>1. \E i \in S : \A j \in S : j <= i
    BY <1>2, <1>4, GreatestIsThere
  <2>2. PICK m \in S : m = CHOOSE i \in S : \A j \in S : j <= i
    BY <2>1
  <2>3. \A j \in S : j <= m
    BY <2>1, <2>2
  <2> QED BY <1>1, <1>4, <2>2, <2>3
<1> QED BY <1>3, <1>4

\* The last commit of a file says what the file is.
LEMMA FileIs ==
  ASSUME NEW h \in M!Chain, NEW f \in Paths, NEW m \in DOMAIN h, h[m].path = f,
         \A j \in DOMAIN h : h[j].path = f => j <= m
  PROVE  M!Files(h)[f] = h[m].text
<1>1. PICK k \in DOMAIN h : /\ h[k].path = f /\ M!Files(h)[f] = h[k].text
                            /\ \A j \in DOMAIN h : h[j].path = f => j <= k
  BY LastOf
<1>2. k <= m /\ m <= k /\ k \in Nat /\ m \in Nat
  BY <1>1, ChainFacts
<1> QED BY <1>1, <1>2

\* The instance of FileMemory counts as this module does.
LEMMA CountsAlike == \A S : M!Cardinality(S) = Cardinality(S)
BY DEF M!Cardinality, Cardinality

\* Counting on from a number.
LEMMA Within ==
  \A a, n \in Nat : \A k \in 1 .. n : a + k \in a + 1 .. a + n /\ (a + k) - a = k
OBVIOUS

\* More commits after a head make a longer one.
LEMMA LongerChain ==
  ASSUME NEW h \in M!Chain, NEW n \in Nat, NEW t \in [1 .. n -> [path : Paths, text : Nat]]
  PROVE  /\ h \o t \in M!Chain /\ Len(h \o t) = Len(h) + n
         /\ \A i \in 1 .. Len(h) : (h \o t)[i] = h[i]
         /\ \A i \in Len(h) + 1 .. Len(h \o t) :
              i - Len(h) \in 1 .. n /\ (h \o t)[i] = t[i - Len(h)]
<1> DEFINE Commits == [path : Paths, text : Nat]
<1> HIDE DEF Commits
<1>1. t \in Seq(Commits) /\ h \in Seq(Commits) /\ t \in [1 .. n -> Commits]
  <2>1. t \in [1 .. n -> Commits] /\ h \in Seq(Commits)
    BY DEF Commits, M!Chain
  <2> QED BY <2>1, SeqDef
<1>2. Len(t) = n /\ Len(h) \in Nat
  <2>1. Len(t) \in Nat /\ 1 .. Len(t) = 1 .. n
    BY <1>1, LenProperties
  <2> QED BY <1>1, <2>1, LenProperties
<1>3. /\ h \o t \in Seq(Commits) /\ Len(h \o t) = Len(h) + n
      /\ \A i \in 1 .. Len(h) + n : (h \o t)[i] = IF i <= Len(h) THEN h[i] ELSE t[i - Len(h)]
  BY <1>1, <1>2, ConcatProperties
<1> QED BY <1>2, <1>3 DEF Commits, M!Chain

\* The beginning of a sequence.
LEMMA Prefix ==
  ASSUME NEW S, NEW s \in Seq(S), NEW n \in Nat, n <= Len(s)
  PROVE  /\ SubSeq(s, 1, n) \in Seq(S) /\ Len(SubSeq(s, 1, n)) = n
         /\ \A i \in 1 .. n : SubSeq(s, 1, n)[i] = s[i]
<1>1. Len(s) \in Nat
  BY LenProperties
<1>2. \A i \in 1 .. n : s[i] \in S
  <2> TAKE i \in 1 .. n
  <2>1. i \in 1 .. Len(s)
    BY <1>1
  <2> QED BY <2>1, ElementOfSeq
<1>3. /\ SubSeq(s, 1, n) \in Seq(S)
      /\ Len(SubSeq(s, 1, n)) = (IF 1 <= n THEN n - 1 + 1 ELSE 0)
      /\ \A i \in 1 .. n - 1 + 1 : SubSeq(s, 1, n)[i] = s[1 + i - 1]
  BY <1>2, SubSeqProperties
<1>4. n - 1 + 1 = n /\ \A i \in 1 .. n : 1 + i - 1 = i
  OBVIOUS
<1> QED BY <1>3, <1>4

\* A batch: from the baseline on, one commit for each file that differs.
Differs(files, base) == {f \in Paths : files[f] # M!Files(base)[f]}
IsBatch(b, files, base) ==
  \E order \in [1 .. M!Cardinality(Differs(files, base)) -> Differs(files, base)] :
    /\ \A f \in Differs(files, base) : \E i \in DOMAIN order : order[i] = f
    /\ b = base \o [i \in DOMAIN order |-> [path |-> order[i], text |-> files[order[i]]]]

\* None of them comes twice.
LEMMA BatchFacts ==
  ASSUME NEW base \in M!Chain, NEW files \in M!Content, NEW b, IsBatch(b, files, base)
  PROVE  /\ b \in M!Chain /\ Len(b) >= Len(base)
         /\ \A i \in 1 .. Len(base) : b[i] = base[i]
         /\ \A i \in Len(base) + 1 .. Len(b) :
              /\ files[b[i].path] # M!Files(base)[b[i].path] /\ b[i].text = files[b[i].path]
              /\ \A j \in Len(base) + 1 .. Len(b) : b[i].path = b[j].path => i = j
         /\ \A f \in Paths : files[f] # M!Files(base)[f] =>
              \E i \in Len(base) + 1 .. Len(b) : b[i].path = f
<1> DEFINE changed == Differs(files, base)
<1>9. PICK order \in [1 .. M!Cardinality(changed) -> changed] :
       /\ \A f \in changed : \E i \in DOMAIN order : order[i] = f
       /\ b = base \o [i \in DOMAIN order |-> [path |-> order[i], text |-> files[order[i]]]]
  BY DEF IsBatch
<1> DEFINE tail == [i \in DOMAIN order |-> [path |-> order[i], text |-> files[order[i]]]]
<1>0. IsFiniteSet(changed) /\ Cardinality(changed) \in Nat
  BY LedgersAssumption, FS_Subset, FS_CardinalityType DEF Differs
<1>1. PICK n \in Nat : n = Cardinality(changed)
  BY <1>0
<1>2. /\ order \in [1 .. n -> changed] /\ DOMAIN order = 1 .. n
      /\ \A f \in changed : \E i \in 1 .. n : order[i] = f
  BY <1>1, <1>9, CountsAlike
<1>3. \A i, j \in 1 .. n : order[i] = order[j] => i = j
  <2>1. order \in Surjection(1 .. n, changed)
    BY <1>2 DEF Surjection
  <2>2. IsFiniteSet(1 .. n) /\ Cardinality(1 .. n) = n
    BY <1>1, FS_Interval
  <2>3. order \in Injection(1 .. n, changed)
    BY <1>0, <1>1, <2>1, <2>2, FS_SurjSameCardinalityImpliesInj
  <2> QED BY <2>3 DEF Injection, IsInjective
<1>4. /\ tail \in [1 .. n -> [path : Paths, text : Nat]]
      /\ \A i \in 1 .. n : tail[i].path = order[i] /\ tail[i].text = files[order[i]]
  BY <1>2 DEF M!Content, Differs
<1> HIDE DEF tail, changed
<1>7. /\ b \in M!Chain /\ Len(b) = Len(base) + n
      /\ \A i \in 1 .. Len(base) : b[i] = base[i]
      /\ \A i \in Len(base) + 1 .. Len(b) :
           i - Len(base) \in 1 .. n /\ b[i] = tail[i - Len(base)]
  <2>1. b = base \o tail
    BY <1>9 DEF tail
  <2>2. n \in Nat /\ tail \in [1 .. n -> [path : Paths, text : Nat]]
    BY <1>1, <1>4
  <2> HIDE DEF tail
  <2>3. /\ base \o tail \in M!Chain /\ Len(base \o tail) = Len(base) + n
        /\ \A i \in 1 .. Len(base) : (base \o tail)[i] = base[i]
        /\ \A i \in Len(base) + 1 .. Len(base \o tail) :
             i - Len(base) \in 1 .. n /\ (base \o tail)[i] = tail[i - Len(base)]
    BY <2>2, LongerChain
  <2> QED BY <2>1, <2>3
<1>8. Len(base) \in Nat
  BY ChainFacts
<1>10. \A i \in Len(base) + 1 .. Len(b) :
         /\ b[i].path \in changed /\ b[i].text = files[b[i].path]
         /\ \A j \in Len(base) + 1 .. Len(b) : b[i].path = b[j].path => i = j
  <2> TAKE i \in Len(base) + 1 .. Len(b)
  <2>1. b[i].path = order[i - Len(base)] /\ b[i].text = files[order[i - Len(base)]]
    BY <1>4, <1>7
  <2>2. ASSUME NEW j \in Len(base) + 1 .. Len(b), b[i].path = b[j].path PROVE i = j
    <3>1. order[i - Len(base)] = order[j - Len(base)]
      BY <1>4, <1>7, <2>1, <2>2
    <3>2. i - Len(base) = j - Len(base)
      BY <1>3, <1>7, <3>1
    <3> QED BY <1>7, <1>8, <3>2
  <2> QED BY <1>2, <1>7, <2>1, <2>2
<1>11. ASSUME NEW f \in changed PROVE \E i \in Len(base) + 1 .. Len(b) : b[i].path = f
  <2>1. PICK k \in 1 .. n : order[k] = f
    BY <1>2
  <2>2. Len(base) + k \in Len(base) + 1 .. Len(b) /\ (Len(base) + k) - Len(base) = k
    <3>1. k \in 1 .. n /\ n \in Nat /\ Len(base) \in Nat /\ Len(b) = Len(base) + n
      BY <1>1, <1>7, <1>8, <2>1
    <3> QED BY <3>1, Within
  <2>3. b[Len(base) + k].path = f
    BY <1>1, <1>4, <1>7, <2>1, <2>2
  <2> QED BY <2>2, <2>3
<1>12. Len(b) >= Len(base)
  BY <1>1, <1>7, <1>8
<1> QED BY <1>7, <1>10, <1>11, <1>12 DEF changed, Differs

\* The files of a batch are what was captured.
LEMMA BatchIsWhole ==
  ASSUME NEW base \in M!Chain, NEW files \in M!Content, NEW b \in M!Chain,
         Len(b) >= Len(base),
         \A i \in 1 .. Len(base) : b[i] = base[i],
         \A i \in Len(base) + 1 .. Len(b) :
           files[b[i].path] # M!Files(base)[b[i].path] /\ b[i].text = files[b[i].path],
         \A f \in Paths : files[f] # M!Files(base)[f] =>
           \E i \in Len(base) + 1 .. Len(b) : b[i].path = f
  PROVE  M!Files(b) = files
<1>1. /\ Len(b) \in Nat /\ DOMAIN b = 1 .. Len(b) /\ Len(base) \in Nat
      /\ DOMAIN base = 1 .. Len(base)
  BY ChainFacts
<1>2. ASSUME NEW f \in Paths PROVE M!Files(b)[f] = files[f]
  <2>1. CASE files[f] # M!Files(base)[f]
    <3>1. PICK i \in Len(base) + 1 .. Len(b) : b[i].path = f
      BY <2>1
    <3>2. PICK m \in DOMAIN b : /\ b[m].path = f /\ M!Files(b)[f] = b[m].text
                                /\ \A j \in DOMAIN b : b[j].path = f => j <= m
      BY <1>1, <3>1, LastOf
    <3>3. m \in Len(base) + 1 .. Len(b)
      BY <1>1, <3>1, <3>2
    <3> QED BY <3>2, <3>3
  <2>2. CASE files[f] = M!Files(base)[f]
    <3>1. PICK m \in DOMAIN base : /\ base[m].path = f /\ M!Files(base)[f] = base[m].text
                                   /\ \A j \in DOMAIN base : base[j].path = f => j <= m
      <4>1. files[f] # None
        BY LedgersAssumption DEF M!Content
      <4> QED BY <2>2, <4>1, LastOf
    <3>2. m \in DOMAIN b /\ b[m] = base[m]
      BY <1>1, <3>1
    <3>3. \A j \in DOMAIN b : b[j].path = f => j \in DOMAIN base /\ base[j] = b[j]
      <4> SUFFICES ASSUME NEW j \in DOMAIN b, b[j].path = f PROVE j \in 1 .. Len(base)
        BY <1>1
      <4>1. j \notin Len(base) + 1 .. Len(b)
        BY <2>2
      <4> QED BY <1>1, <4>1
    <3>4. \A j \in DOMAIN b : b[j].path = f => j <= m
      BY <3>1, <3>3
    <3> QED BY <2>2, <3>1, <3>2, <3>4, FileIs
  <2> QED BY <2>1, <2>2
<1>3. M!Files(b) = [f \in Paths |-> M!Files(b)[f]] /\ files = [f \in Paths |-> files[f]]
  BY DEF M!Files, M!Content
<1> QED BY <1>2, <1>3

-----------------------------------------------------------------------------
(* What is accepted was captured whole, with no assumption about who launches. *)

\* The names that are none of the things they stand beside.
LEMMA StoreNames ==
  /\ None \notin Runners /\ None \notin M!Content /\ None \notin M!Chain
  /\ None \notin M!Staging /\ None \notin M!Gens /\ None \notin Nat
  /\ 0 \in M!Gens /\ M!Gens \subseteq Nat /\ MaxEdits \in Nat
BY LedgersAssumption, RecordsAssumption DEF M!Gens

\* A process goes on, or ends; the others stay.
LEMMA GoesOn ==
  ASSUME runner \in [Runners -> M!Hand], NEW p \in Runners, NEW l,
         l \in {"idle", "begin", "step", "capture", "freeze", "deliver", "delivered", "select"},
         M!Goto(p, l)
  PROVE  /\ runner' \in [Runners -> M!Hand] /\ runner'[p].pc = l
         /\ runner'[p].prep = runner[p].prep /\ runner'[p].src = runner[p].src
         /\ runner'[p].files = runner[p].files /\ runner'[p].base = runner[p].base
         /\ \A q \in Runners \ {p} : runner'[q] = runner[q]
<1>1. runner' = [runner EXCEPT ![p].pc = l]
  BY DEF M!Goto
<1>2. runner[p] \in M!Hand /\ [runner[p] EXCEPT !.pc = l] \in M!Hand
  BY DEF M!Hand
<1> QED BY <1>1, <1>2 DEF M!Hand

\* The end of a process.
LEMMA Stops ==
  ASSUME runner \in [Runners -> M!Hand], NEW p \in Runners, M!Ends(p)
  PROVE  /\ runner' \in [Runners -> M!Hand] /\ runner'[p] = M!Idle
         /\ \A q \in Runners \ {p} : runner'[q] = runner[q]
<1>1. M!Idle \in M!Hand
  BY DEF M!Idle, M!Hand
<1> QED BY <1>1 DEF M!Ends

\* What an idle process has: nothing.
LEMMA IdleIs ==
  M!Idle.pc = "idle" /\ M!Idle.src = None /\ M!Idle.prep = FALSE
BY DEF M!Idle

\* What the sweep of one process leaves the others.
LEMMA WholeKeeps ==
  ASSUME WholeInv, NEW p \in Runners, M!MTypeOK', M!AcceptedWhole',
         \A q \in Runners \ {p} : runner'[q] = runner[q],
         syncLock' = syncLock \/ {syncLock, syncLock'} \subseteq {p, None},
         upload' = upload \/ syncLock = p,
         captured \subseteq captured',
         upload' # None => M!Files(upload)' \in captured',
         \A g \in M!Gens : roots[g] # None => roots'[g] # None,
         Real(native.gen)', native'.pending # None => Real(native.pending.gen)',
         \A g \in (live \union handed)' : Real(g)',
         runner'[p].src # None => Real(runner[p].src)', AtBatch(p)'
  PROVE  WholeInv'
<1>1. None \notin Runners
  BY StoreNames
<1>2. ASSUME NEW q \in Runners \ {p} PROVE AtBatch(q)' /\ (runner'[q].src # None => Real(runner[q].src)')
  <2>1. AtBatch(q) /\ (runner[q].src # None => Real(runner[q].src)) /\ runner'[q] = runner[q]
    BY DEF WholeInv, Rooted
  <2>2. runner[q].src # None => Real(runner[q].src)'
    BY <2>1 DEF Real
  <2>3. syncLock = q => syncLock' = q /\ upload' = upload
    BY <1>1
  <2> QED BY <2>1, <2>2, <2>3 DEF AtBatch
<1>3. Rooted'
  BY <1>2 DEF Rooted
<1> QED BY <1>2, <1>3 DEF WholeInv

\* A step that is not about the roots, nor about which is in force.
SameRoots == UNCHANGED <<roots, native, live, handed>>

\* Such a step of a process that keeps its source.
LEMMA WholeRuns ==
  ASSUME WholeInv, NEW p \in Runners, SameRoots, M!MTypeOK', M!AcceptedWhole',
         \A q \in Runners \ {p} : runner'[q] = runner[q],
         syncLock' = syncLock \/ {syncLock, syncLock'} \subseteq {p, None},
         upload' = upload \/ syncLock = p,
         captured \subseteq captured',
         upload' # None => M!Files(upload)' \in captured',
         runner'[p].src \in {None, runner[p].src, native.gen}, AtBatch(p)'
  PROVE  WholeInv'
<1>1. \A g : Real(g) => Real(g)'
  BY DEF SameRoots, Real
<1>2. runner'[p].src # None => Real(runner[p].src)'
  BY <1>1 DEF WholeInv, Rooted, Real, SameRoots
<1> QED BY <1>1, <1>2, WholeKeeps DEF WholeInv, Rooted, SameRoots

\* What is accepted and what is on the way stay what they are.
LEMMA SameHeads ==
  ASSUME WholeInv, UNCHANGED <<accepted, upload>>, captured \subseteq captured'
  PROVE  M!AcceptedWhole' /\ (upload' # None => M!Files(upload)' \in captured')
BY DEF WholeInv, M!AcceptedWhole, M!Files

\* An edit of a root, or of the remote head by another host.
LEMMA EditWhole ==
  ASSUME WholeInv, M!Edit
  PROVE  WholeInv'
<1>1. /\ edits < MaxEdits /\ edits' = edits + 1
      /\ UNCHANGED <<live, handed, accepted, upload, receipts, native, syncLock, runner,
                     commits, captured>>
  BY DEF M!Edit, M!disk
<1>2. /\ roots' \in [M!Gens -> M!Content \union {None}] /\ remote' \in M!Chain
      /\ \A g \in M!Gens : roots[g] # None => roots'[g] # None
  <2>0. edits \in Nat /\ remote \in M!Chain
    BY DEF WholeInv, M!MTypeOK
  <2>1. ASSUME NEW g \in live, NEW f \in Paths, roots' = [roots EXCEPT ![g][f] = edits + 1],
               remote' = remote
        PROVE  /\ roots' \in [M!Gens -> M!Content \union {None}] /\ remote' \in M!Chain
               /\ \A x \in M!Gens : roots[x] # None => roots'[x] # None
    <3>1. g \in M!Gens /\ roots[g] \in M!Content /\ roots \in [M!Gens -> M!Content \union {None}]
      BY DEF WholeInv, M!MTypeOK, Rooted, Real
    <3>2. [roots[g] EXCEPT ![f] = edits + 1] \in M!Content
      BY <2>0, <3>1 DEF M!Content
    <3> QED BY <2>0, <2>1, <3>1, <3>2, StoreNames
  <2>2. ASSUME NEW f \in Paths, remote' = Append(remote, [path |-> f, text |-> edits + 1]),
               roots' = roots
        PROVE  /\ roots' \in [M!Gens -> M!Content \union {None}] /\ remote' \in M!Chain
               /\ \A x \in M!Gens : roots[x] # None => roots'[x] # None
    <3>1. [path |-> f, text |-> edits + 1] \in [path : Paths, text : Nat]
      BY <2>0
    <3>2. remote' \in M!Chain
      BY <2>0, <2>2, <3>1, AppendProperties DEF M!Chain
    <3> QED BY <2>2, <3>2 DEF WholeInv, M!MTypeOK
  <2> QED BY <2>1, <2>2 DEF M!Edit
<1>3. M!MTypeOK'
  <2>1. edits' \in 0 .. MaxEdits
    BY <1>1, StoreNames DEF WholeInv, M!MTypeOK
  <2>2. roots'[native'.gen] # None
    BY <1>1, <1>2 DEF WholeInv, Rooted, Real
  <2> QED BY <1>1, <1>2, <2>1, <2>2 DEF WholeInv, M!MTypeOK
<1>4. \A g : Real(g) => Real(g)'
  BY <1>2 DEF Real
<1>5. Rooted'
  BY <1>1, <1>4 DEF Rooted, WholeInv
<1>6. \A p \in Runners : AtBatch(p)'
  BY <1>1 DEF WholeInv, AtBatch
<1> QED BY <1>1, <1>3, <1>5, <1>6 DEF WholeInv, M!AcceptedWhole, M!Files

\* A session starts on what was handed to it, or ends.
LEMMA SessionWhole ==
  ASSUME WholeInv, M!Session
  PROVE  WholeInv'
<1>1. UNCHANGED <<roots, remote, accepted, upload, receipts, native, syncLock, runner, commits,
                  edits, captured>>
  BY DEF M!Session, M!disk
<1>2. (live \union handed)' \subseteq live \union handed
  BY DEF M!Session
<1>3. M!MTypeOK'
  BY <1>1, <1>2 DEF WholeInv, M!MTypeOK
<1>4. Rooted'
  BY <1>1, <1>2 DEF WholeInv, Rooted, Real
<1>5. \A p \in Runners : AtBatch(p)'
  BY <1>1 DEF WholeInv, AtBatch
<1> QED BY <1>1, <1>3, <1>4, <1>5 DEF WholeInv, M!AcceptedWhole, M!Files

\* A commit lands late.
LEMMA LandWhole ==
  ASSUME WholeInv, NEW c \in commits, M!Land(c)
  PROVE  WholeInv'
<1>1. /\ remote' = c /\ commits' = commits \ {c}
      /\ UNCHANGED <<roots, live, handed, accepted, upload, receipts, native, syncLock, runner,
                     edits, captured>>
  BY DEF M!Land, M!Take, M!disk
<1>2. M!MTypeOK'
  BY <1>1 DEF WholeInv, M!MTypeOK
<1>3. Rooted'
  BY <1>1 DEF WholeInv, Rooted, Real
<1>4. \A p \in Runners : AtBatch(p)'
  BY <1>1 DEF WholeInv, AtBatch
<1> QED BY <1>1, <1>2, <1>3, <1>4 DEF WholeInv, M!AcceptedWhole, M!Files

\* A launch begins, or a process takes the generation in force for its source.
LEMMA BeginWhole ==
  ASSUME WholeInv, NEW p \in Runners, M!Launch(p) \/ M!Begin(p)
  PROVE  WholeInv'
<1>1. /\ UNCHANGED <<roots, live, handed, remote, accepted, upload, receipts, native, syncLock,
                     commits, edits, captured>>
  BY DEF M!Launch, M!Begin, M!disk, M!Outside
<1>2. runner \in [Runners -> M!Hand] /\ runner[p] \in M!Hand /\ native.gen \in M!Gens
  BY DEF WholeInv, M!MTypeOK
<1>3. CASE M!Launch(p)
  <2>1. runner' = [runner EXCEPT ![p] = [runner[p] EXCEPT !.pc = "begin", !.prep = TRUE]]
    BY <1>2, <1>3 DEF M!Launch
  <2>2. [runner[p] EXCEPT !.pc = "begin", !.prep = TRUE] \in M!Hand
    BY <1>2 DEF M!Hand
  <2>3. /\ \A q \in Runners \ {p} : runner'[q] = runner[q]
        /\ runner' \in [Runners -> M!Hand] /\ runner'[p].pc = "begin" /\ runner'[p].src = runner[p].src
    BY <1>2, <2>1, <2>2 DEF M!Hand
  <2>4. M!MTypeOK'
    BY <1>1, <2>3 DEF WholeInv, M!MTypeOK
  <2>5. AtBatch(p)'
    BY <2>3 DEF AtBatch
  <2> QED BY <1>1, <2>3, <2>4, <2>5, WholeRuns, SameHeads DEF SameRoots
<1>4. CASE M!Begin(p)
  <2>1. runner' = [runner EXCEPT ![p] = [runner[p] EXCEPT !.pc = "step", !.src = native.gen]]
    BY <1>2, <1>4 DEF M!Begin
  <2>2. [runner[p] EXCEPT !.pc = "step", !.src = native.gen] \in M!Hand
    BY <1>2 DEF M!Hand
  <2>3. /\ \A q \in Runners \ {p} : runner'[q] = runner[q]
        /\ runner' \in [Runners -> M!Hand] /\ runner'[p].pc = "step" /\ runner'[p].src = native.gen
    BY <1>2, <2>1, <2>2 DEF M!Hand
  <2>4. M!MTypeOK'
    BY <1>1, <2>3 DEF WholeInv, M!MTypeOK
  <2>5. AtBatch(p)'
    BY <1>2, <2>3, StoreNames DEF AtBatch
  <2> QED BY <1>1, <2>3, <2>4, <2>5, WholeRuns, SameHeads DEF SameRoots
<1> QED BY <1>3, <1>4

\* A process takes the lock, and captures or goes on with the batch there is.
LEMMA StepWhole ==
  ASSUME WholeInv, NEW p \in Runners, M!Step(p)
  PROVE  WholeInv'
<1>1. /\ UNCHANGED <<roots, live, handed, remote, accepted, upload, receipts, native, commits,
                     edits, captured>>
      /\ runner[p].pc = "step" /\ syncLock = None /\ syncLock' = p
      /\ M!Goto(p, IF upload = None THEN "capture" ELSE "deliver")
  BY DEF M!Step, M!At, M!disk, M!Outside
<1>2. runner \in [Runners -> M!Hand]
  BY DEF WholeInv, M!MTypeOK
<1>3. /\ runner' \in [Runners -> M!Hand]
      /\ runner'[p].pc = (IF upload = None THEN "capture" ELSE "deliver")
      /\ runner'[p].src = runner[p].src /\ \A q \in Runners \ {p} : runner'[q] = runner[q]
  BY <1>1, <1>2, GoesOn
<1>4. M!MTypeOK'
  BY <1>1, <1>3 DEF WholeInv, M!MTypeOK
<1>5. runner[p].src # None
  BY <1>1 DEF WholeInv, AtBatch
<1>6. AtBatch(p)'
  BY <1>1, <1>3, <1>5 DEF AtBatch
<1> QED BY <1>1, <1>3, <1>4, <1>6, WholeRuns, SameHeads DEF SameRoots

\* A process that lets the lock go, to select a root or to end.
LEMMA SyncedFacts ==
  ASSUME WholeInv, NEW p \in Runners, M!Synced(p), runner[p].pc \in {"capture", "deliver", "delivered"}
  PROVE  /\ runner' \in [Runners -> M!Hand] /\ syncLock' = None
         /\ \A q \in Runners \ {p} : runner'[q] = runner[q]
         /\ runner'[p].src \in {None, runner[p].src} /\ AtBatch(p)'
         /\ \/ runner[p].prep /\ runner'[p].prep /\ runner'[p].src = runner[p].src
               /\ runner'[p].pc = "select"
            \/ runner'[p] = M!Idle
<1>1. runner \in [Runners -> M!Hand] /\ runner[p].src # None
  BY DEF WholeInv, M!MTypeOK, AtBatch
<1>2. CASE runner[p].prep
  <2>1. M!Goto(p, "select") /\ syncLock' = None
    BY <1>2 DEF M!Synced
  <2>2. /\ runner' \in [Runners -> M!Hand] /\ runner'[p].pc = "select"
        /\ runner'[p].prep = runner[p].prep /\ runner'[p].src = runner[p].src
        /\ \A q \in Runners \ {p} : runner'[q] = runner[q]
    BY <1>1, <2>1, GoesOn
  <2> QED BY <1>1, <1>2, <2>1, <2>2 DEF AtBatch
<1>3. CASE ~runner[p].prep
  <2>1. M!Ends(p) /\ syncLock' = None
    BY <1>3 DEF M!Synced
  <2>2. /\ runner' \in [Runners -> M!Hand] /\ runner'[p] = M!Idle
        /\ \A q \in Runners \ {p} : runner'[q] = runner[q]
    BY <1>1, <2>1, Stops
  <2> QED BY <2>1, <2>2, IdleIs DEF AtBatch
<1> QED BY <1>2, <1>3

\* The source is read: the whole of it is what may be accepted.
LEMMA CaptureWhole ==
  ASSUME WholeInv, NEW p \in Runners, M!Capture(p)
  PROVE  WholeInv'
<1> DEFINE files == roots[runner[p].src]
<1>1. /\ UNCHANGED <<roots, live, handed, remote, accepted, upload, receipts, native, commits,
                     edits>>
      /\ runner[p].pc = "capture" /\ captured' = captured \union {files}
      /\ IF files = M!Files(remote)
         THEN M!Synced(p)
         ELSE /\ runner' = [runner EXCEPT ![p].pc = "freeze", ![p].files = files,
                                          ![p].base = remote]
              /\ UNCHANGED syncLock
  BY DEF M!Capture, M!At, M!disk, M!Outside
<1>2. /\ runner \in [Runners -> M!Hand] /\ runner[p] \in M!Hand /\ remote \in M!Chain
      /\ syncLock = p /\ upload = None /\ runner[p].src # None
  BY <1>1 DEF WholeInv, M!MTypeOK, AtBatch
<1>3. files \in M!Content
  BY <1>2 DEF WholeInv, M!MTypeOK, Rooted, Real
<1>4. CASE files = M!Files(remote)
  <2>1. M!Synced(p)
    BY <1>1, <1>4
  <2>2. /\ runner' \in [Runners -> M!Hand] /\ syncLock' = None
        /\ \A q \in Runners \ {p} : runner'[q] = runner[q]
        /\ runner'[p].src \in {None, runner[p].src} /\ AtBatch(p)'
    BY <1>1, <2>1, SyncedFacts
  <2>3. M!MTypeOK'
    BY <1>1, <2>2 DEF WholeInv, M!MTypeOK
  <2> QED BY <1>1, <1>2, <2>2, <2>3, WholeRuns, SameHeads DEF SameRoots
<1>5. CASE files # M!Files(remote)
  <2> DEFINE r == [runner[p] EXCEPT !.pc = "freeze", !.files = files, !.base = remote]
  <2>1. runner' = [runner EXCEPT ![p] = r] /\ syncLock' = syncLock
    BY <1>1, <1>2, <1>5
  <2>2. /\ r \in M!Hand /\ r.pc = "freeze" /\ r.files = files /\ r.base = remote
        /\ r.src = runner[p].src
    BY <1>2, <1>3 DEF M!Hand
  <2> HIDE DEF r
  <2>3. runner' \in [Runners -> M!Hand] /\ runner'[p] = r
    BY <1>2, <2>1, <2>2
  <2>4. M!MTypeOK'
    BY <1>1, <2>1, <2>3 DEF WholeInv, M!MTypeOK
  <2>5. AtBatch(p)'
    BY <1>1, <1>2, <1>3, <2>1, <2>2, <2>3, StoreNames DEF AtBatch
  <2> QED BY <1>1, <1>2, <2>1, <2>2, <2>3, <2>4, <2>5, WholeRuns
         , SameHeads DEF SameRoots
<1> QED BY <1>4, <1>5

\* The batch is frozen: it leads from the baseline to what was captured.
LEMMA FreezeFacts ==
  ASSUME WholeInv, NEW p \in Runners, M!Freeze(p)
  PROVE  /\ UNCHANGED <<roots, live, handed, remote, accepted, native, syncLock, commits,
                        edits, captured>>
         /\ runner[p].pc = "freeze" /\ syncLock = p /\ upload = None
         /\ runner' \in [Runners -> M!Hand] /\ runner'[p].pc = "deliver"
         /\ runner'[p].src = runner[p].src /\ runner'[p].prep = runner[p].prep
         /\ \A q \in Runners \ {p} : runner'[q] = runner[q]
         /\ runner[p].files \in M!Content /\ runner[p].base \in M!Chain
         /\ receipts' = Len(runner[p].base)
         /\ upload' \in M!Chain /\ Len(upload') >= Len(runner[p].base)
         /\ \A i \in 1 .. Len(runner[p].base) : upload'[i] = runner[p].base[i]
         /\ \A i \in Len(runner[p].base) + 1 .. Len(upload') :
              /\ runner[p].files[upload'[i].path] # M!Files(runner[p].base)[upload'[i].path]
              /\ upload'[i].text = runner[p].files[upload'[i].path]
              /\ \A j \in Len(runner[p].base) + 1 .. Len(upload') :
                   upload'[i].path = upload'[j].path => i = j
         /\ M!Files(upload') = runner[p].files
<1> DEFINE files == runner[p].files
           base == runner[p].base
<1>1. /\ UNCHANGED <<roots, live, handed, remote, accepted, native, syncLock, commits, edits,
                     captured>>
      /\ runner[p].pc = "freeze" /\ receipts' = Len(base) /\ M!Goto(p, "deliver")
  BY DEF M!Freeze, M!At, M!disk, M!Outside
<1>2. /\ runner \in [Runners -> M!Hand] /\ runner[p] \in M!Hand /\ syncLock = p /\ upload = None
      /\ files # None /\ base # None
  BY <1>1 DEF WholeInv, M!MTypeOK, AtBatch
<1>3. files \in M!Content /\ base \in M!Chain
  BY <1>2 DEF M!Hand
<1>4. /\ runner' \in [Runners -> M!Hand] /\ runner'[p].pc = "deliver"
      /\ runner'[p].src = runner[p].src /\ runner'[p].prep = runner[p].prep
      /\ \A q \in Runners \ {p} : runner'[q] = runner[q]
  BY <1>1, <1>2, GoesOn
<1>5. IsBatch(upload', files, base)
  BY DEF M!Freeze, IsBatch, Differs
<1> HIDE DEF files, base
<1>6. /\ upload' \in M!Chain /\ Len(upload') >= Len(base)
      /\ \A i \in 1 .. Len(base) : upload'[i] = base[i]
      /\ \A i \in Len(base) + 1 .. Len(upload') :
           /\ files[upload'[i].path] # M!Files(base)[upload'[i].path]
           /\ upload'[i].text = files[upload'[i].path]
           /\ \A j \in Len(base) + 1 .. Len(upload') : upload'[i].path = upload'[j].path => i = j
      /\ \A f \in Paths : files[f] # M!Files(base)[f] =>
           \E i \in Len(base) + 1 .. Len(upload') : upload'[i].path = f
  BY <1>3, <1>5, BatchFacts
<1>8. M!Files(upload') = files
  BY <1>3, <1>6, BatchIsWhole
<1> QED BY <1>1, <1>2, <1>3, <1>4, <1>6, <1>8 DEF files, base

\* So the batch is one whole capture.
LEMMA FreezeWhole ==
  ASSUME WholeInv, NEW p \in Runners, M!Freeze(p)
  PROVE  WholeInv'
<1>1. /\ UNCHANGED <<roots, live, handed, remote, accepted, native, syncLock, commits, edits,
                     captured>>
      /\ runner[p].pc = "freeze" /\ syncLock = p
      /\ runner' \in [Runners -> M!Hand] /\ runner'[p].pc = "deliver"
      /\ runner'[p].src = runner[p].src /\ \A q \in Runners \ {p} : runner'[q] = runner[q]
      /\ receipts' = Len(runner[p].base) /\ runner[p].base \in M!Chain
      /\ upload' \in M!Chain /\ Len(upload') >= Len(runner[p].base)
      /\ M!Files(upload') = runner[p].files
  BY FreezeFacts
<1>2. runner[p].files \in captured /\ runner[p].src # None
  BY <1>1 DEF WholeInv, AtBatch
<1>3. M!Files(upload)' = M!Files(upload')
  BY DEF M!Files
<1>4. receipts' \in Nat /\ upload' # None
  BY <1>1, ChainFacts, StoreNames
<1>5. M!MTypeOK'
  BY <1>1, <1>4 DEF WholeInv, M!MTypeOK
<1>6. AtBatch(p)'
  BY <1>1, <1>2, <1>4 DEF AtBatch
<1>7. M!AcceptedWhole'
  BY <1>1 DEF WholeInv, M!AcceptedWhole, M!Files
<1> QED BY <1>1, <1>2, <1>3, <1>5, <1>6, <1>7, WholeRuns DEF SameRoots

\* The next commit is the batch up to one beyond what has receipts.
LEMMA CommitFacts ==
  ASSUME WholeInv, upload # None, M!Left > 0
  PROVE  /\ M!Commit \in M!Chain /\ Len(M!Commit) = receipts + 1 /\ receipts + 1 <= Len(upload)
         /\ \A i \in 1 .. receipts + 1 : i \in DOMAIN upload /\ M!Commit[i] = upload[i]
<1>1. /\ upload \in Seq([path : Paths, text : Nat]) /\ receipts \in Nat
      /\ Len(upload) \in Nat /\ DOMAIN upload = 1 .. Len(upload)
  BY ChainFacts DEF WholeInv, M!MTypeOK, M!Chain
<1>2. receipts + 1 <= Len(upload) /\ receipts + 1 \in Nat
  BY <1>1 DEF M!Left
<1>3. \A i \in 1 .. receipts + 1 : i \in 1 .. Len(upload)
  BY <1>1, <1>2
<1> QED BY <1>1, <1>2, <1>3, Prefix DEF M!Chain, M!Commit

\* What the delivery of one commit does.
LEMMA DeliverFacts ==
  ASSUME WholeInv, NEW p \in Runners, M!Deliver(p)
  PROVE  /\ UNCHANGED <<roots, live, handed, accepted, upload, native, edits, captured>>
         /\ syncLock = p /\ upload # None /\ M!Left > 0 /\ M!Commit \in M!Chain
         /\ runner[p].pc = "deliver" /\ runner' \in [Runners -> M!Hand] /\ AtBatch(p)'
         /\ \A q \in Runners \ {p} : runner'[q] = runner[q]
         /\ runner'[p].src \in {None, runner[p].src} /\ remote' \in {remote, M!Commit}
         /\ \/ /\ receipts' = receipts + 1 /\ commits' = commits /\ syncLock' = syncLock
               /\ runner'[p].prep = runner[p].prep /\ runner'[p].src = runner[p].src
               /\ runner'[p].pc = "delivered"
            \/ /\ receipts' = receipts /\ commits' = commits \union {M!Commit}
               /\ syncLock' = None /\ runner'[p] = M!Idle
<1>1. /\ UNCHANGED <<roots, live, handed, accepted, upload, native, edits, captured>>
      /\ runner[p].pc = "deliver" /\ M!Left > 0
  BY DEF M!Deliver, M!At
<1>2. /\ runner \in [Runners -> M!Hand] /\ syncLock = p /\ upload # None /\ runner[p].src # None
  BY <1>1 DEF WholeInv, M!MTypeOK, AtBatch
<1>3. M!Commit \in M!Chain
  BY <1>1, <1>2, CommitFacts
<1>4. CASE /\ M!Committed \/ M!Take(M!Commit)
           /\ M!Committed => UNCHANGED remote
           /\ receipts' = receipts + 1 /\ M!Goto(p, "delivered")
           /\ UNCHANGED <<syncLock, commits>>
  <2>1. /\ runner' \in [Runners -> M!Hand] /\ runner'[p].pc = "delivered"
        /\ runner'[p].prep = runner[p].prep /\ runner'[p].src = runner[p].src
        /\ \A q \in Runners \ {p} : runner'[q] = runner[q]
    BY <1>2, <1>4, GoesOn
  <2>2. AtBatch(p)'
    BY <1>1, <1>2, <1>4, <2>1 DEF AtBatch
  <2>3. remote' \in {remote, M!Commit}
    BY <1>4 DEF M!Take
  <2> QED BY <1>1, <1>2, <1>3, <1>4, <2>1, <2>2, <2>3
<1>5. CASE /\ ~M!Committed /\ commits' = commits \union {M!Commit} /\ M!Ends(p) /\ M!Frees(p)
           /\ UNCHANGED <<remote, receipts>>
  <2>1. /\ runner' \in [Runners -> M!Hand] /\ runner'[p] = M!Idle
        /\ \A q \in Runners \ {p} : runner'[q] = runner[q]
    BY <1>2, <1>5, Stops
  <2>2. AtBatch(p)' /\ syncLock' = None
    BY <1>2, <1>5, <2>1, IdleIs DEF AtBatch, M!Frees
  <2> QED BY <1>1, <1>2, <1>3, <1>5, <2>1, <2>2, IdleIs
<1> QED BY <1>4, <1>5 DEF M!Deliver

\* One commit of the batch is delivered, or sent and not heard of.
LEMMA DeliverWhole ==
  ASSUME WholeInv, NEW p \in Runners, M!Deliver(p)
  PROVE  WholeInv'
<1>1. /\ UNCHANGED <<roots, live, handed, accepted, upload, native, edits, captured>>
      /\ syncLock = p /\ upload # None /\ M!Left > 0 /\ M!Commit \in M!Chain
      /\ runner' \in [Runners -> M!Hand] /\ AtBatch(p)'
      /\ \A q \in Runners \ {p} : runner'[q] = runner[q]
      /\ runner'[p].src \in {None, runner[p].src} /\ remote' \in {remote, M!Commit}
      /\ receipts' \in {receipts, receipts + 1} /\ commits' \subseteq commits \union {M!Commit}
      /\ syncLock' \in {p, None}
  BY DeliverFacts
<1>2. receipts' \in Nat /\ receipts' <= Len(upload)
  <2>1. receipts \in Nat /\ receipts + 1 <= Len(upload) /\ Len(upload) \in Nat
    BY <1>1, CommitFacts, ChainFacts DEF WholeInv, M!MTypeOK
  <2> QED BY <1>1, <2>1
<1>3. M!MTypeOK'
  BY <1>1, <1>2 DEF WholeInv, M!MTypeOK
<1> QED BY <1>1, <1>3, WholeRuns, SameHeads DEF SameRoots

\* What is left waits, or the whole batch is accepted.
LEMMA DeliveredFacts ==
  ASSUME WholeInv, NEW p \in Runners, M!Delivered(p)
  PROVE  /\ UNCHANGED <<roots, live, remote, receipts, native, commits, edits, captured>>
         /\ syncLock = p /\ upload # None /\ syncLock' = None
         /\ runner[p].pc \in {"deliver", "delivered"}
         /\ runner' \in [Runners -> M!Hand] /\ AtBatch(p)'
         /\ \A q \in Runners \ {p} : runner'[q] = runner[q]
         /\ runner'[p].src \in {None, runner[p].src}
         /\ \/ /\ UNCHANGED <<accepted, upload>> /\ runner'[p] = M!Idle
               /\ handed' = handed \/ (runner[p].prep /\ handed' = handed \union {native.gen})
            \/ /\ remote = upload /\ accepted' = upload /\ upload' = None /\ handed' = handed
               /\ \/ runner[p].prep /\ runner'[p].prep /\ runner'[p].src = runner[p].src
                     /\ runner'[p].pc = "select"
                  \/ runner'[p] = M!Idle
<1>1. /\ UNCHANGED <<roots, live, remote, receipts, native, commits, edits, captured>>
      /\ runner[p].pc \in {"deliver", "delivered"}
  BY DEF M!Delivered, M!At, M!Outside
<1>2. /\ runner \in [Runners -> M!Hand] /\ syncLock = p /\ upload # None /\ runner[p].src # None
  BY <1>1 DEF WholeInv, M!MTypeOK, AtBatch
<1>3. CASE /\ ~M!All /\ syncLock' = None /\ M!Ends(p)
           /\ handed' = IF runner[p].prep THEN handed \union {native.gen} ELSE handed
           /\ UNCHANGED <<accepted, upload>>
  <2>1. /\ runner' \in [Runners -> M!Hand] /\ runner'[p] = M!Idle
        /\ \A q \in Runners \ {p} : runner'[q] = runner[q]
    BY <1>2, <1>3, Stops
  <2> QED BY <1>1, <1>2, <1>3, <2>1, IdleIs DEF AtBatch
<1>4. CASE /\ M!All /\ remote = SubSeq(upload, 1, receipts)
           /\ accepted' = remote /\ upload' = None /\ M!Synced(p) /\ UNCHANGED handed
  <2>1. remote = upload
    <3>1. upload \in M!Chain /\ receipts \in Nat /\ Len(upload) \in Nat
      BY <1>2, ChainFacts DEF WholeInv, M!MTypeOK
    <3>2. receipts = Len(upload)
      BY <1>4, <3>1 DEF M!All, M!Left
    <3> QED BY <1>4, <3>1, <3>2, SubSeqFull DEF M!Chain
  <2> QED BY <1>1, <1>2, <1>4, <2>1, SyncedFacts
<1> QED BY <1>3, <1>4 DEF M!Delivered

\* The batch that is accepted is the head, whole.
LEMMA DeliveredWhole ==
  ASSUME WholeInv, NEW p \in Runners, M!Delivered(p)
  PROVE  WholeInv'
<1>1. /\ UNCHANGED <<roots, live, remote, receipts, native, commits, edits, captured>>
      /\ syncLock = p /\ upload # None /\ syncLock' = None
      /\ runner' \in [Runners -> M!Hand] /\ AtBatch(p)'
      /\ \A q \in Runners \ {p} : runner'[q] = runner[q]
      /\ runner'[p].src \in {None, runner[p].src}
      /\ handed' \subseteq handed \union {native.gen}
      /\ \/ UNCHANGED <<accepted, upload>>
         \/ accepted' = upload /\ upload' = None
  BY DeliveredFacts
<1>2. M!MTypeOK'
  BY <1>1 DEF WholeInv, M!MTypeOK
<1>3. M!AcceptedWhole' /\ (upload' # None => M!Files(upload)' \in captured')
  <2>1. CASE UNCHANGED <<accepted, upload>>
    BY <1>1, <2>1, SameHeads
  <2>2. CASE accepted' = upload /\ upload' = None
    <3>1. M!Files(accepted)' = M!Files(upload)
      BY <2>2 DEF M!Files
    <3> QED BY <1>1, <2>2, <3>1 DEF WholeInv, M!AcceptedWhole
  <2> QED BY <1>1, <2>1, <2>2
<1>4. \A g : Real(g) => Real(g)'
  BY <1>1 DEF Real
<1>5. /\ Real(native.gen)' /\ (native'.pending # None => Real(native.pending.gen)')
      /\ \A g \in (live \union handed)' : Real(g)'
      /\ (runner'[p].src # None => Real(runner[p].src)')
  BY <1>1, <1>4 DEF WholeInv, Rooted, Real
<1> QED BY <1>1, <1>2, <1>3, <1>5, WholeKeeps

\* A root is selected: the staged one, a new one with the files of the head, or the one
\* in force.
LEMMA SelectFacts ==
  ASSUME WholeInv, NEW p \in Runners, M!Select(p)
  PROVE  /\ UNCHANGED <<live, remote, accepted, upload, receipts, syncLock, commits, edits, captured>>
         /\ runner[p].pc = "select" /\ upload = None /\ remote = accepted
         /\ roots[native.gen] = M!Files(remote)
         /\ runner' \in [Runners -> M!Hand] /\ runner'[p] = M!Idle
         /\ \A q \in Runners \ {p} : runner'[q] = runner[q]
         /\ \/ /\ native.pending # None /\ handed' = handed \union {native.pending.gen}
               /\ UNCHANGED <<roots, native>>
            \/ /\ ~M!Pends
               /\ \E g \in M!Gens :
                    /\ roots[g] = None /\ roots' = [roots EXCEPT ![g] = roots[native.gen]]
                    /\ native' = [native EXCEPT !.pending = [gen |-> g, head |-> remote]]
                    /\ handed' = handed \union {g}
            \/ /\ ~M!Pends /\ handed' = handed \union {native.gen} /\ UNCHANGED <<roots, native>>
<1>1. /\ UNCHANGED <<live, remote, accepted, upload, receipts, syncLock, commits, edits, captured>>
      /\ runner[p].pc = "select" /\ upload = None /\ remote = accepted
      /\ roots[native.gen] = M!Files(remote) /\ M!Ends(p)
  BY DEF M!Select, M!At, M!Outside
<1>2. runner \in [Runners -> M!Hand]
  BY DEF WholeInv, M!MTypeOK
<1>3. /\ runner' \in [Runners -> M!Hand] /\ runner'[p] = M!Idle
      /\ \A q \in Runners \ {p} : runner'[q] = runner[q]
  BY <1>1, <1>2, Stops
<1> QED BY <1>1, <1>3 DEF M!Select, M!Pends, M!Staged

\* Whichever it is, it has files.
LEMMA SelectWhole ==
  ASSUME WholeInv, NEW p \in Runners, M!Select(p)
  PROVE  WholeInv'
<1>1. /\ UNCHANGED <<live, remote, accepted, upload, receipts, syncLock, commits, edits, captured>>
      /\ runner' \in [Runners -> M!Hand] /\ runner'[p] = M!Idle
      /\ \A q \in Runners \ {p} : runner'[q] = runner[q]
  BY SelectFacts
<1>2. AtBatch(p)' /\ runner'[p].src = None
  BY <1>1, IdleIs DEF AtBatch
<1>3. /\ M!AcceptedWhole' /\ (upload' # None => M!Files(upload)' \in captured')
  BY <1>1, SameHeads
<1>4. /\ roots \in [M!Gens -> M!Content \union {None}] /\ roots[native.gen] \in M!Content
      /\ native \in [gen : M!Gens, head : M!Chain \union {None}, pending : M!Staging \union {None}]
  BY DEF WholeInv, M!MTypeOK, Rooted, Real
<1>5. ASSUME UNCHANGED <<roots, native>>,
             \/ native.pending # None /\ handed' = handed \union {native.pending.gen}
             \/ handed' = handed \union {native.gen}
      PROVE  WholeInv'
  <2>1. \A g \in handed' : Real(g)
    BY <1>5 DEF WholeInv, Rooted, Real
  <2>2. \A g : Real(g) => Real(g)'
    BY <1>5 DEF Real
  <2>3. M!MTypeOK'
    BY <1>1, <1>5, <2>1 DEF WholeInv, M!MTypeOK, Real
  <2>4. /\ Real(native.gen)' /\ (native'.pending # None => Real(native.pending.gen)')
        /\ \A g \in (live \union handed)' : Real(g)'
    BY <1>1, <1>5, <2>1, <2>2 DEF WholeInv, Rooted, Real
  <2> QED BY <1>1, <1>2, <1>3, <1>5, <2>3, <2>4, WholeKeeps
<1>6. ASSUME NEW g \in M!Gens, roots[g] = None, roots' = [roots EXCEPT ![g] = roots[native.gen]],
             native' = [native EXCEPT !.pending = [gen |-> g, head |-> remote]],
             handed' = handed \union {g}
      PROVE  WholeInv'
  <2>1. [gen |-> g, head |-> remote] \in M!Staging
    BY DEF M!Staging, WholeInv, M!MTypeOK
  <2>2. /\ native' \in [gen : M!Gens, head : M!Chain \union {None}, pending : M!Staging \union {None}]
        /\ native'.gen = native.gen /\ native'.pending.gen = g
    BY <1>4, <1>6, <2>1
  <2>3. /\ roots' \in [M!Gens -> M!Content \union {None}]
        /\ \A x \in M!Gens : roots[x] # None => roots'[x] # None
        /\ roots'[g] # None
    BY <1>4, <1>6, StoreNames
  <2>4. \A x : Real(x) => Real(x)'
    BY <2>3 DEF Real
  <2>5. Real(native.gen)' /\ Real(native.pending.gen)' /\ \A x \in (live \union handed)' : Real(x)'
    BY <1>1, <1>6, <2>2, <2>3, <2>4 DEF WholeInv, Rooted, Real
  <2>6. M!MTypeOK'
    BY <1>1, <1>6, <2>2, <2>3, <2>5 DEF WholeInv, M!MTypeOK, Real
  <2> QED BY <1>1, <1>2, <1>3, <2>3, <2>5, <2>6, WholeKeeps
<1> QED BY <1>5, <1>6, SelectFacts

\* A process fails, or dies: what was saved stays.
LEMMA RaiseFacts ==
  ASSUME WholeInv, NEW p \in Runners, M!Raise(p)
  PROVE  /\ UNCHANGED <<roots, live, handed, remote, accepted, upload, receipts, native, commits,
                        edits, captured>>
         /\ syncLock' = (IF syncLock = p THEN None ELSE syncLock)
         /\ runner' \in [Runners -> M!Hand] /\ runner'[p] = M!Idle
         /\ \A q \in Runners \ {p} : runner'[q] = runner[q]
<1>1. runner \in [Runners -> M!Hand] /\ M!Ends(p)
  BY DEF WholeInv, M!MTypeOK, M!Raise
<1> QED BY <1>1, Stops DEF M!Raise, M!Frees, M!disk

\* It leaves the lock.
LEMMA RaiseWhole ==
  ASSUME WholeInv, NEW p \in Runners, M!Raise(p)
  PROVE  WholeInv'
<1>1. /\ UNCHANGED <<roots, live, handed, remote, accepted, upload, receipts, native, commits,
                     edits, captured>>
      /\ syncLock' = (IF syncLock = p THEN None ELSE syncLock)
      /\ runner' \in [Runners -> M!Hand] /\ runner'[p] = M!Idle
      /\ \A q \in Runners \ {p} : runner'[q] = runner[q]
  BY RaiseFacts
<1>2. AtBatch(p)' /\ runner'[p].src = None
  BY <1>1, IdleIs DEF AtBatch
<1>3. M!MTypeOK'
  BY <1>1 DEF WholeInv, M!MTypeOK
<1> QED BY <1>1, <1>2, <1>3, WholeRuns, SameHeads DEF SameRoots

\* A hook acknowledges the generation that was staged, or finds its own in force.
LEMMA HookFacts ==
  ASSUME WholeInv, NEW p \in Runners, NEW g \in M!Gens, NEW event, M!Hook(p, g, event)
  PROVE  /\ UNCHANGED <<roots, live, handed, remote, accepted, upload, receipts, syncLock, commits,
                        edits, captured>>
         /\ runner[p].pc = "idle" /\ g \in live
         /\ \/ /\ native.pending # None /\ native.pending.gen = g
               /\ native' = [gen |-> g, head |-> native.pending.head, pending |-> None]
            \/ native.gen = g /\ native' = native
         /\ runner' \in [Runners -> M!Hand] /\ runner'[p].pc = "begin"
         /\ runner'[p].prep = runner[p].prep /\ runner'[p].src = runner[p].src
         /\ \A q \in Runners \ {p} : runner'[q] = runner[q]
<1>1. runner \in [Runners -> M!Hand] /\ M!Goto(p, "begin")
  BY DEF WholeInv, M!MTypeOK, M!Hook
<1>2. /\ runner' \in [Runners -> M!Hand] /\ runner'[p].pc = "begin"
      /\ runner'[p].prep = runner[p].prep /\ runner'[p].src = runner[p].src
      /\ \A q \in Runners \ {p} : runner'[q] = runner[q]
  BY <1>1, GoesOn
<1> QED BY <1>2 DEF M!Hook, M!At, M!Outside, M!Starts

\* The generation in force is one that has files.
LEMMA HookWhole ==
  ASSUME WholeInv, NEW p \in Runners, NEW g \in M!Gens, NEW event, M!Hook(p, g, event)
  PROVE  WholeInv'
<1>1. /\ UNCHANGED <<roots, live, handed, remote, accepted, upload, receipts, syncLock, commits,
                     edits, captured>>
      /\ \/ /\ native.pending # None /\ native.pending.gen = g
            /\ native' = [gen |-> g, head |-> native.pending.head, pending |-> None]
         \/ native.gen = g /\ native' = native
      /\ runner' \in [Runners -> M!Hand] /\ runner'[p].pc = "begin"
      /\ runner'[p].src = runner[p].src
      /\ \A q \in Runners \ {p} : runner'[q] = runner[q]
  BY HookFacts
<1>2. \A x : Real(x) => Real(x)'
  BY <1>1 DEF Real
<1>3. /\ Real(native.gen)' /\ (native'.pending # None => Real(native.pending.gen)')
      /\ \A x \in (live \union handed)' : Real(x)'
      /\ (runner'[p].src # None => Real(runner[p].src)')
  BY <1>1, <1>2 DEF WholeInv, Rooted, Real
<1>4. native' \in [gen : M!Gens, head : M!Chain \union {None}, pending : M!Staging \union {None}]
  BY <1>1 DEF WholeInv, M!MTypeOK, M!Staging
<1>5. M!MTypeOK'
  BY <1>1, <1>3, <1>4 DEF WholeInv, M!MTypeOK, Real
<1>6. AtBatch(p)'
  BY <1>1 DEF AtBatch
<1> QED BY <1>1, <1>3, <1>5, <1>6, WholeKeeps, SameHeads

\* So every step keeps it.
LEMMA MemoryStep ==
  ASSUME WholeInv, M!MNext
  PROVE  WholeInv'
BY EditWhole, SessionWhole, LandWhole, BeginWhole, StepWhole, CaptureWhole, FreezeWhole,
   DeliverWhole, DeliveredWhole, SelectWhole, RaiseWhole, HookWhole DEF M!MNext

-----------------------------------------------------------------------------
(* Nothing older is put back.                                               *)

\* The invariant of the next state, with its heads named.
LEMMA OrderNext ==
  ASSUME \A h \in {remote', accepted'} \union commits' : Ordered(h) /\ Upto(h, edits'),
         upload' # None => Ordered(upload') /\ Upto(upload', edits'),
         Ahead(roots'[native'.gen], IF upload' = None THEN accepted' ELSE upload'),
         \A g \in M!Gens : roots'[g] # None => \A f \in Paths : roots'[g][f] <= edits',
         OneSession',
         native'.pending # None =>
           /\ upload' = None /\ native'.pending.head = accepted' /\ native'.pending.gen # native'.gen
           /\ roots'[native'.gen] = M!Files(accepted')
           /\ Ahead(roots'[native'.pending.gen], accepted')
           /\ \A p \in Runners : runner'[p].pc # "idle" => runner'[p].prep /\ runner'[p].pc # "freeze",
         \A p \in Runners : Launches(p)',
         \A p \in Runners : runner'[p].pc = "freeze" =>
           /\ runner'[p].base = accepted' /\ Ahead(runner'[p].files, accepted')
           /\ \A f \in Paths :
                \/ roots'[native'.gen][f] = runner'[p].files[f]
                \/ /\ runner'[p].files[f] < roots'[native'.gen][f]
                   /\ Newer(roots'[native'.gen][f], accepted', f)
  PROVE  OrderInv'
BY DEF OrderInv, Staged, Compared, Ordered, Upto, Ahead, Newer, M!Files

\* What there is when nothing is about the roots or the heads that were accepted.
LEMMA OrderSame ==
  ASSUME WholeInv, OrderInv, UNCHANGED <<roots, native, accepted, upload, edits>>,
         \A h \in {remote'} \union commits' : Ordered(h) /\ Upto(h, edits),
         OneSession', \A p \in Runners : Launches(p)',
         \A p \in Runners : runner'[p].pc = "freeze" => runner'[p] = runner[p],
         native.pending # None =>
           \A p \in Runners : runner'[p].pc # "idle" => runner'[p].prep
  PROVE  OrderInv'
<1>1. \A h \in {remote', accepted'} \union commits' : Ordered(h) /\ Upto(h, edits')
  BY DEF OrderInv
<1>2. \A p \in Runners : runner'[p].pc = "freeze" =>
        /\ runner'[p].base = accepted' /\ Ahead(runner'[p].files, accepted')
        /\ \A f \in Paths :
             \/ roots'[native'.gen][f] = runner'[p].files[f]
             \/ /\ runner'[p].files[f] < roots'[native'.gen][f]
                /\ Newer(roots'[native'.gen][f], accepted', f)
  BY DEF OrderInv, Compared
<1>3. native'.pending # None =>
        /\ upload' = None /\ native'.pending.head = accepted' /\ native'.pending.gen # native'.gen
        /\ roots'[native'.gen] = M!Files(accepted')
        /\ Ahead(roots'[native'.pending.gen], accepted')
        /\ \A p \in Runners : runner'[p].pc # "idle" => runner'[p].prep /\ runner'[p].pc # "freeze"
  BY DEF OrderInv, Staged
<1>4. Ahead(roots'[native'.gen], IF upload' = None THEN accepted' ELSE upload')
  BY DEF OrderInv
<1>5. /\ upload' # None => Ordered(upload') /\ Upto(upload', edits')
      /\ \A g \in M!Gens : roots'[g] # None => \A f \in Paths : roots'[g][f] <= edits'
  BY DEF OrderInv
<1> QED BY <1>1, <1>2, <1>3, <1>4, <1>5, OrderNext

\* Who acts while nobody launches, or launches itself, leaves that as it is.
LEMMA LaunchesStay ==
  ASSUME OrderInv, NEW p \in Runners, runner[p].pc # "idle", native' = native, live' = live,
         \A q \in Runners \ {p} : runner'[q] = runner[q],
         runner'[p].prep => runner[p].prep /\ handed' = handed,
         runner'[p].src \in {None, runner[p].src, native.gen}
  PROVE  \A q \in Runners : Launches(q)'
<1>1. ASSUME NEW q \in Runners \ {p} PROVE Launches(q)'
  BY <1>1 DEF OrderInv, Launches
<1>2. Launches(p)'
  BY DEF OrderInv, Launches
<1> QED BY <1>1, <1>2

\* An edit is newer than all there was.
LEMMA EditAhead ==
  ASSUME NEW files \in M!Content, NEW h \in M!Chain, Ahead(files, h), NEW n \in Nat, Upto(h, n),
         NEW f \in Paths
  PROVE  Ahead([files EXCEPT ![f] = n + 1], h)
<1>1. Newer(n + 1, h, f)
  <2> SUFFICES ASSUME NEW i \in DOMAIN h PROVE h[i].text < n + 1
    BY DEF Newer
  <2>1. h[i].text <= n /\ h[i].text \in Nat
    BY ChainFacts DEF Upto
  <2> QED BY <2>1
<1> QED BY <1>1 DEF Ahead, M!Content

\* More edits: what was not ahead of them is not.
LEMMA UptoMore ==
  ASSUME NEW h \in M!Chain, NEW n \in Nat, Upto(h, n)
  PROVE  Upto(h, n + 1)
<1> SUFFICES ASSUME NEW i \in DOMAIN h PROVE h[i].text <= n + 1
  BY DEF Upto
<1>1. h[i].text <= n /\ h[i].text \in Nat
  BY ChainFacts DEF Upto
<1> QED BY <1>1

\* Another host's edit comes after all the head had.
LEMMA OrderedMore ==
  ASSUME NEW h \in M!Chain, NEW n \in Nat, Upto(h, n), Ordered(h), NEW f \in Paths
  PROVE  LET g == Append(h, [path |-> f, text |-> n + 1]) IN Ordered(g) /\ Upto(g, n + 1)
<1> DEFINE g == Append(h, [path |-> f, text |-> n + 1])
<1>1. h \in Seq([path : Paths, text : Nat]) /\ [path |-> f, text |-> n + 1] \in [path : Paths, text : Nat]
  BY DEF M!Chain
<1>2. /\ Len(h) \in Nat /\ DOMAIN h = 1 .. Len(h) /\ DOMAIN g = 1 .. Len(h) + 1
      /\ \A i \in 1 .. Len(h) : g[i] = h[i] /\ h[i].text \in Nat /\ h[i].text <= n
      /\ g[Len(h) + 1].text = n + 1
  <2>1. /\ g \in Seq([path : Paths, text : Nat]) /\ Len(g) = Len(h) + 1
        /\ \A i \in 1 .. Len(h) : g[i] = h[i] /\ g[Len(h) + 1] = [path |-> f, text |-> n + 1]
    BY <1>1, AppendProperties
  <2>2. g[Len(h) + 1] = [path |-> f, text |-> n + 1]
    BY <1>1
  <2> QED BY <2>1, <2>2, ChainFacts, LenProperties DEF Upto
<1> HIDE DEF g
<1>3. Upto(g, n + 1)
  <2> SUFFICES ASSUME NEW i \in 1 .. Len(h) + 1 PROVE g[i].text <= n + 1
    BY <1>2 DEF Upto
  <2>1. CASE i \in 1 .. Len(h)
    <3>1. g[i].text \in Nat /\ g[i].text <= n
      BY <1>2, <2>1
    <3> QED BY <3>1
  <2>2. CASE i = Len(h) + 1
    BY <1>2, <2>2
  <2> QED BY <1>2, <2>1, <2>2
<1>4. Ordered(g)
  <2> SUFFICES ASSUME NEW i \in 1 .. Len(h) + 1, NEW j \in 1 .. Len(h) + 1, i < j,
                      g[i].path = g[j].path
               PROVE  g[i].text < g[j].text
    BY <1>2 DEF Ordered
  <2>1. i \in 1 .. Len(h) /\ (j \in 1 .. Len(h) \/ j = Len(h) + 1)
    BY <1>2
  <2>2. CASE j \in 1 .. Len(h)
    <3>1. g[i] = h[i] /\ g[j] = h[j] /\ i \in DOMAIN h /\ j \in DOMAIN h
      BY <1>2, <2>1, <2>2
    <3> QED BY <3>1 DEF Ordered
  <2>3. CASE j = Len(h) + 1
    <3>1. g[i].text \in Nat /\ g[i].text <= n /\ g[j].text = n + 1
      BY <1>2, <2>1, <2>3
    <3> QED BY <3>1
  <2> QED BY <2>1, <2>2, <2>3
<1> QED BY <1>3, <1>4 DEF g

\* A session edits the generation it runs on, which is the one staged last.
LEMMA EditedRoot ==
  ASSUME WholeInv, OrderInv, NEW g \in live, NEW f \in Paths,
         roots' = [roots EXCEPT ![g][f] = edits + 1]
  PROVE  /\ g = Current /\ g \in M!Gens /\ roots[g] \in M!Content /\ edits \in Nat
         /\ roots'[g] = [roots[g] EXCEPT ![f] = edits + 1]
         /\ \A x \in M!Gens \ {g} : roots'[x] = roots[x]
<1>1. g = Current
  BY DEF OrderInv, OneSession
<1>2. /\ roots \in [M!Gens -> M!Content \union {None}] /\ g \in M!Gens /\ roots[g] # None
      /\ edits \in 0 .. MaxEdits
  BY DEF WholeInv, M!MTypeOK, Rooted, Real
<1> QED BY <1>1, <1>2, StoreNames

\* The heads and the files that were there are not ahead of one edit more.
LEMMA EditedHeads ==
  ASSUME WholeInv, OrderInv, UNCHANGED <<accepted, upload, commits>>, edits' = edits + 1
  PROVE  /\ \A h \in {remote, accepted'} \union commits' : Ordered(h) /\ Upto(h, edits')
         /\ upload' # None => Ordered(upload') /\ Upto(upload', edits')
         /\ \A g \in M!Gens : roots[g] # None => \A f \in Paths : roots[g][f] <= edits'
<1>1. /\ edits \in Nat /\ remote \in M!Chain /\ accepted \in M!Chain /\ commits \subseteq M!Chain
      /\ upload \in M!Chain \union {None} /\ roots \in [M!Gens -> M!Content \union {None}]
  BY StoreNames DEF WholeInv, M!MTypeOK
<1>2. \A g \in M!Gens : roots[g] # None => \A f \in Paths : roots[g][f] <= edits'
  <2> SUFFICES ASSUME NEW g \in M!Gens, roots[g] # None, NEW f \in Paths PROVE roots[g][f] <= edits'
    OBVIOUS
  <2>1. roots[g][f] \in Nat /\ roots[g][f] <= edits
    BY <1>1 DEF OrderInv, M!Content
  <2> QED BY <1>1, <2>1
<1> QED BY <1>1, <1>2, UptoMore DEF OrderInv

\* An edit of a session is newer than whatever it meets.
LEMMA EditOrder ==
  ASSUME WholeInv, OrderInv, M!Edit
  PROVE  OrderInv'
<1>1. /\ edits \in Nat /\ edits' = edits + 1
      /\ UNCHANGED <<live, handed, accepted, upload, native, runner, commits>>
      /\ \/ /\ \E g \in live, f \in Paths : roots' = [roots EXCEPT ![g][f] = edits + 1]
            /\ UNCHANGED remote
         \/ /\ \E f \in Paths : remote' = Append(remote, [path |-> f, text |-> edits + 1])
            /\ UNCHANGED roots
  BY StoreNames DEF M!Edit, M!disk, WholeInv, M!MTypeOK
<1>2. /\ \A h \in {remote, accepted'} \union commits' : Ordered(h) /\ Upto(h, edits')
      /\ upload' # None => Ordered(upload') /\ Upto(upload', edits')
      /\ \A g \in M!Gens : roots[g] # None => \A f \in Paths : roots[g][f] <= edits'
  BY <1>1, EditedHeads
<1>3. OneSession' /\ \A p \in Runners : Launches(p)'
  BY <1>1 DEF OrderInv, OneSession, Current, Launches
<1>4. ASSUME NEW f \in Paths, remote' = Append(remote, [path |-> f, text |-> edits + 1]),
             UNCHANGED roots
      PROVE  OrderInv'
  <2>1. Ordered(remote') /\ Upto(remote', edits')
    <3>1. remote \in M!Chain /\ Ordered(remote) /\ Upto(remote, edits)
      BY DEF WholeInv, M!MTypeOK, OrderInv
    <3> QED BY <1>1, <1>4, <3>1, OrderedMore
  <2>2. \A h \in {remote', accepted'} \union commits' : Ordered(h) /\ Upto(h, edits')
    BY <1>2, <2>1
  <2>3. Ahead(roots'[native'.gen], IF upload' = None THEN accepted' ELSE upload')
    BY <1>1, <1>4 DEF OrderInv
  <2>4. native'.pending # None =>
          /\ upload' = None /\ native'.pending.head = accepted' /\ native'.pending.gen # native'.gen
          /\ roots'[native'.gen] = M!Files(accepted') /\ Ahead(roots'[native'.pending.gen], accepted')
          /\ \A p \in Runners : runner'[p].pc # "idle" => runner'[p].prep /\ runner'[p].pc # "freeze"
    BY <1>1, <1>4 DEF OrderInv, Staged
  <2>5. \A p \in Runners : runner'[p].pc = "freeze" =>
          /\ runner'[p].base = accepted' /\ Ahead(runner'[p].files, accepted')
          /\ \A x \in Paths :
               \/ roots'[native'.gen][x] = runner'[p].files[x]
               \/ /\ runner'[p].files[x] < roots'[native'.gen][x]
                  /\ Newer(roots'[native'.gen][x], accepted', x)
    BY <1>1, <1>4 DEF OrderInv, Compared
  <2>6. \A g \in M!Gens : roots'[g] # None => \A x \in Paths : roots'[g][x] <= edits'
    BY <1>2, <1>4
  <2> QED BY <1>2, <1>3, <2>2, <2>3, <2>4, <2>5, <2>6, OrderNext
<1>5. ASSUME NEW g \in live, NEW f \in Paths, roots' = [roots EXCEPT ![g][f] = edits + 1],
             UNCHANGED remote
      PROVE  OrderInv'
  <2>1. /\ g = Current /\ g \in M!Gens /\ roots[g] \in M!Content
        /\ roots'[g] = [roots[g] EXCEPT ![f] = edits + 1]
        /\ \A x \in M!Gens \ {g} : roots'[x] = roots[x]
    BY <1>5, EditedRoot
  <2>2. /\ accepted \in M!Chain /\ upload \in M!Chain \union {None} /\ native.gen \in M!Gens
        /\ native.pending # None => native.pending.gen \in M!Gens
        /\ runner \in [Runners -> M!Hand] /\ roots[native.gen] \in M!Content
    BY DEF WholeInv, M!MTypeOK, Rooted, Real
  <2>3. \A h \in {remote', accepted'} \union commits' : Ordered(h) /\ Upto(h, edits')
    BY <1>2, <1>5
  <2>4. \A x \in M!Gens : roots'[x] # None => \A y \in Paths : roots'[x][y] <= edits'
    <3> SUFFICES ASSUME NEW x \in M!Gens, roots'[x] # None, NEW y \in Paths
                 PROVE  roots'[x][y] <= edits'
      OBVIOUS
    <3>1. CASE x # g
      BY <1>2, <2>1, <3>1
    <3>2. CASE x = g /\ y # f
      <4>1. roots'[x][y] = roots[g][y] /\ roots[g] # None
        BY <2>1, <3>2, StoreNames DEF M!Content
      <4> QED BY <1>2, <2>1, <4>1
    <3>3. CASE x = g /\ y = f
      <4>1. roots'[x][y] = edits + 1
        BY <2>1, <3>3 DEF M!Content
      <4> QED BY <1>1, <4>1
    <3> QED BY <3>1, <3>2, <3>3
  <2>5. CASE native.pending = None
    <3>1. g = native.gen
      BY <2>1, <2>5 DEF Current
    <3>2. Ahead(roots'[native'.gen], IF upload' = None THEN accepted' ELSE upload')
      <4>1. PICK h \in M!Chain : /\ h = IF upload = None THEN accepted ELSE upload
                                 /\ Upto(h, edits) /\ Ahead(roots[g], h)
        BY <2>2, <3>1 DEF OrderInv
      <4>2. Ahead([roots[g] EXCEPT ![f] = edits + 1], h)
        BY <1>1, <2>1, <4>1, EditAhead
      <4> QED BY <1>1, <2>1, <3>1, <4>1, <4>2
    <3>3. ASSUME NEW p \in Runners, runner'[p].pc = "freeze"
          PROVE  /\ runner'[p].base = accepted' /\ Ahead(runner'[p].files, accepted')
                 /\ \A x \in Paths :
                      \/ roots'[native'.gen][x] = runner'[p].files[x]
                      \/ /\ runner'[p].files[x] < roots'[native'.gen][x]
                         /\ Newer(roots'[native'.gen][x], accepted', x)
      <4>1. /\ runner[p].base = accepted /\ Ahead(runner[p].files, accepted)
            /\ \A x \in Paths :
                 \/ roots[g][x] = runner[p].files[x]
                 \/ runner[p].files[x] < roots[g][x] /\ Newer(roots[g][x], accepted, x)
        BY <1>1, <3>1, <3>3 DEF OrderInv, Compared
      <4>2. runner[p].files \in M!Content
        BY <1>1, <2>2, <3>3 DEF WholeInv, AtBatch, M!Hand
      <4>3. roots'[g][f] = edits + 1 /\ \A x \in Paths \ {f} : roots'[g][x] = roots[g][x]
        BY <2>1 DEF M!Content
      <4>4. runner[p].files[f] < edits + 1
        <5>1. roots[g][f] \in Nat /\ roots[g][f] <= edits /\ runner[p].files[f] \in Nat
          BY <2>1, <4>2, StoreNames DEF OrderInv, M!Content
        <5> QED BY <1>1, <4>1, <5>1
      <4>5. Newer(edits + 1, accepted, f)
        <5> SUFFICES ASSUME NEW i \in DOMAIN accepted PROVE accepted[i].text < edits + 1
          BY DEF Newer
        <5>1. accepted[i].text \in Nat /\ accepted[i].text <= edits
          BY <2>2, ChainFacts DEF OrderInv, Upto
        <5> QED BY <1>1, <5>1
      <4>6. /\ runner'[p] = runner[p] /\ native'.gen = g /\ accepted' = accepted
        BY <1>1, <3>1
      <4> QED BY <4>1, <4>3, <4>4, <4>5, <4>6
    <3>4. native'.pending = None
      BY <1>1, <2>5
    <3> QED BY <1>2, <1>3, <2>3, <2>4, <3>2, <3>3, <3>4, OrderNext
  <2>6. CASE native.pending # None
    <3>1. /\ g = native.pending.gen /\ native.gen # g /\ upload = None
          /\ native.pending.head = accepted /\ roots[native.gen] = M!Files(accepted)
          /\ Ahead(roots[g], accepted)
          /\ \A p \in Runners : runner[p].pc # "idle" => runner[p].prep /\ runner[p].pc # "freeze"
      BY <2>1, <2>6 DEF Current, OrderInv, Staged
    <3>2. roots'[native.gen] = roots[native.gen]
      BY <2>1, <2>2, <3>1
    <3>3. Ahead(roots'[g], accepted)
      <4>1. Upto(accepted, edits)
        BY DEF OrderInv
      <4>2. Ahead([roots[g] EXCEPT ![f] = edits + 1], accepted)
        BY <1>1, <2>1, <2>2, <3>1, <4>1, EditAhead
      <4> QED BY <2>1, <4>2
    <3>4. Ahead(roots'[native'.gen], IF upload' = None THEN accepted' ELSE upload')
      BY <1>1, <3>1, <3>2 DEF OrderInv
    <3>5. \A p \in Runners : runner'[p].pc # "freeze"
      BY <1>1, <3>1
    <3>6. /\ upload' = None /\ native'.pending.head = accepted' /\ native'.pending.gen # native'.gen
          /\ roots'[native'.gen] = M!Files(accepted')
          /\ Ahead(roots'[native'.pending.gen], accepted')
          /\ \A p \in Runners : runner'[p].pc # "idle" => runner'[p].prep /\ runner'[p].pc # "freeze"
      BY <1>1, <3>1, <3>2, <3>3
    <3> QED BY <1>2, <1>3, <2>3, <2>4, <3>4, <3>5, <3>6, OrderNext
  <2> QED BY <2>5, <2>6
<1> QED BY <1>1, <1>4, <1>5

\* Sessions that come and go stay on that one generation.
LEMMA SessionOrder ==
  ASSUME WholeInv, OrderInv, M!Session
  PROVE  OrderInv'
<1>1. /\ UNCHANGED <<roots, remote, accepted, upload, native, runner, commits, edits>>
      /\ live' \union handed' \subseteq live \union handed /\ (live # {} \/ handed # {})
  BY DEF M!Session, M!disk
<1>2. \A p \in Runners : Launches(p)'
  BY <1>1 DEF OrderInv, Launches
<1>3. OneSession'
  BY <1>1 DEF OrderInv, OneSession, Current
<1>4. \A h \in {remote'} \union commits' : Ordered(h) /\ Upto(h, edits)
  BY <1>1 DEF OrderInv
<1>5. native.pending # None => \A p \in Runners : runner'[p].pc # "idle" => runner'[p].prep
  BY <1>1 DEF OrderInv, Staged
<1> QED BY <1>1, <1>2, <1>3, <1>4, <1>5, OrderSame

\* A commit that lands late is of a head in order.
LEMMA LandOrder ==
  ASSUME WholeInv, OrderInv, NEW c \in commits, M!Land(c)
  PROVE  OrderInv'
<1>1. /\ UNCHANGED <<roots, live, handed, accepted, upload, native, runner, edits>>
      /\ remote' = c /\ commits' \subseteq commits
  BY DEF M!Land, M!Take, M!disk
<1>2. OneSession' /\ \A p \in Runners : Launches(p)'
  BY <1>1 DEF OrderInv, OneSession, Current, Launches
<1>3. \A h \in {remote'} \union commits' : Ordered(h) /\ Upto(h, edits)
  BY <1>1 DEF OrderInv
<1>4. native.pending # None => \A p \in Runners : runner'[p].pc # "idle" => runner'[p].prep
  BY <1>1 DEF OrderInv, Staged
<1> QED BY <1>1, <1>2, <1>3, <1>4, OrderSame

\* A launch is prepared when nothing else goes on.
LEMMA LaunchOrder ==
  ASSUME Serial, WholeInv, OrderInv, NEW p \in Runners, M!Launch(p)
  PROVE  OrderInv'
<1>1. /\ UNCHANGED <<roots, live, handed, remote, accepted, upload, native, commits, edits>>
      /\ live = {} /\ handed = {} /\ \A q \in Runners : runner[q].pc = "idle"
      /\ runner' = [runner EXCEPT ![p].pc = "begin", ![p].prep = TRUE]
  BY DEF M!Launch, M!Quiet, M!At, M!Outside, M!disk
<1>2. runner \in [Runners -> M!Hand] /\ \A q \in Runners : runner[q] = M!Idle
  BY <1>1 DEF WholeInv, M!MTypeOK, AtBatch
<1>3. /\ runner'[p].pc = "begin" /\ runner'[p].prep /\ runner'[p].src = None
      /\ \A q \in Runners \ {p} : runner'[q] = M!Idle
  BY <1>1, <1>2, IdleIs DEF M!Hand
<1>4. \A q \in Runners : Launches(q)'
  BY <1>1, <1>3, IdleIs DEF Launches
<1>5. OneSession'
  BY <1>1 DEF OneSession
<1>6. /\ \A h \in {remote'} \union commits' : Ordered(h) /\ Upto(h, edits)
      /\ \A q \in Runners : runner'[q].pc # "freeze" /\ (runner'[q].pc # "idle" => runner'[q].prep)
  BY <1>1, <1>3, IdleIs DEF OrderInv
<1> QED BY <1>1, <1>4, <1>5, <1>6, OrderSame

\* One process goes on, or ends, with the heads and the roots as they are.
LEMMA RunnerOrder ==
  ASSUME WholeInv, OrderInv, NEW p \in Runners, runner[p].pc # "idle",
         UNCHANGED <<roots, live, remote, accepted, upload, native, commits, edits>>,
         \A q \in Runners \ {p} : runner'[q] = runner[q],
         runner'[p].pc # "freeze", runner'[p].prep => runner[p].prep /\ handed' = handed,
         runner'[p].pc # "idle" => runner'[p].prep = runner[p].prep,
         runner'[p].src \in {None, runner[p].src, native.gen}, OneSession'
  PROVE  OrderInv'
<1>1. \A q \in Runners : Launches(q)'
  BY LaunchesStay
<1>2. \A q \in Runners : runner'[q].pc = "freeze" => runner'[q] = runner[q]
  OBVIOUS
<1>3. native.pending # None => \A q \in Runners : runner'[q].pc # "idle" => runner'[q].prep
  BY DEF OrderInv, Staged
<1>4. \A h \in {remote'} \union commits' : Ordered(h) /\ Upto(h, edits)
  BY DEF OrderInv
<1> QED BY <1>1, <1>2, <1>3, <1>4, OrderSame

\* It takes the generation in force, and then the lock.
LEMMA BeginOrder ==
  ASSUME WholeInv, OrderInv, NEW p \in Runners, M!Begin(p) \/ M!Step(p)
  PROVE  OrderInv'
<1>1. runner \in [Runners -> M!Hand]
  BY DEF WholeInv, M!MTypeOK
<1>2. /\ UNCHANGED <<roots, live, handed, remote, accepted, upload, native, commits, edits>>
      /\ runner[p].pc \in {"begin", "step"}
  BY DEF M!Begin, M!Step, M!At, M!Outside, M!disk
<1>3. /\ runner'[p].pc \in {"step", "capture", "deliver"} /\ runner'[p].prep = runner[p].prep
      /\ runner'[p].src \in {runner[p].src, native.gen}
      /\ \A q \in Runners \ {p} : runner'[q] = runner[q]
  BY <1>1 DEF M!Begin, M!Step, M!Goto, M!Hand
<1>4. OneSession'
  BY <1>2 DEF OrderInv, OneSession, Current
<1> QED BY <1>2, <1>3, <1>4, RunnerOrder

\* It fails.
LEMMA RaiseOrder ==
  ASSUME WholeInv, OrderInv, NEW p \in Runners, M!Raise(p)
  PROVE  OrderInv'
<1>1. /\ UNCHANGED <<roots, live, handed, remote, accepted, upload, native, commits, edits>>
      /\ runner'[p] = M!Idle /\ \A q \in Runners \ {p} : runner'[q] = runner[q]
  BY RaiseFacts
<1>2. runner[p].pc # "idle"
  BY DEF M!Raise, M!At
<1>3. OneSession'
  BY <1>1 DEF OrderInv, OneSession, Current
<1> QED BY <1>1, <1>2, <1>3, IdleIs, RunnerOrder

\* What is captured is ahead of the head that was accepted.
LEMMA CaptureOrder ==
  ASSUME WholeInv, OrderInv, NEW p \in Runners, M!Capture(p)
  PROVE  OrderInv'
<1> DEFINE files == roots[runner[p].src]
<1>1. /\ UNCHANGED <<roots, live, handed, remote, accepted, upload, native, commits, edits>>
      /\ runner[p].pc = "capture" /\ remote = accepted
      /\ \/ M!Synced(p)
         \/ /\ files # M!Files(remote)
            /\ runner' = [runner EXCEPT ![p].pc = "freeze", ![p].files = files, ![p].base = remote]
  BY DEF M!Capture, M!At, M!Adopted, M!Outside, M!disk
<1>2. OneSession'
  BY <1>1 DEF OrderInv, OneSession, Current
<1>3. CASE M!Synced(p)
  <2>1. /\ runner'[p].src \in {None, runner[p].src}
        /\ \A q \in Runners \ {p} : runner'[q] = runner[q]
        /\ \/ runner[p].prep /\ runner'[p].prep /\ runner'[p].pc = "select"
           \/ runner'[p] = M!Idle
    BY <1>1, <1>3, SyncedFacts
  <2> QED BY <1>1, <1>2, <2>1, IdleIs, RunnerOrder
<1>4. CASE /\ files # M!Files(remote)
           /\ runner' = [runner EXCEPT ![p].pc = "freeze", ![p].files = files, ![p].base = remote]
  <2>1. runner[p].src = native.gen /\ upload = None
    BY <1>1 DEF WholeInv, AtBatch, OrderInv, Launches
  <2>2. native.pending = None
    BY <1>1, <1>4, <2>1 DEF OrderInv, Staged
  <2>3. runner \in [Runners -> M!Hand]
    BY DEF WholeInv, M!MTypeOK
  <2>4. /\ runner'[p].pc = "freeze" /\ runner'[p].files = files /\ runner'[p].base = remote
        /\ runner'[p].prep = runner[p].prep /\ runner'[p].src = runner[p].src
        /\ \A q \in Runners \ {p} : runner'[q] = runner[q]
    BY <1>4, <2>3 DEF M!Hand
  <2>5. \A q \in Runners : Launches(q)'
    BY <1>1, <2>4, LaunchesStay
  <2>6. Ahead(roots[native.gen], accepted)
    BY <2>1 DEF OrderInv
  <2>7. ASSUME NEW q \in Runners, runner'[q].pc = "freeze"
        PROVE  /\ runner'[q].base = accepted' /\ Ahead(runner'[q].files, accepted')
               /\ \A f \in Paths :
                    \/ roots'[native'.gen][f] = runner'[q].files[f]
                    \/ /\ runner'[q].files[f] < roots'[native'.gen][f]
                       /\ Newer(roots'[native'.gen][f], accepted', f)
    <3>1. CASE q = p
      BY <1>1, <2>1, <2>4, <2>6, <3>1
    <3>2. CASE q # p
      BY <1>1, <2>4, <2>7, <3>2 DEF OrderInv, Compared
    <3> QED BY <3>1, <3>2
  <2>8. /\ \A h \in {remote', accepted'} \union commits' : Ordered(h) /\ Upto(h, edits')
        /\ upload' = None /\ native'.pending = None
        /\ Ahead(roots'[native'.gen], accepted')
        /\ \A g \in M!Gens : roots'[g] # None => \A f \in Paths : roots'[g][f] <= edits'
    BY <1>1, <2>1, <2>2, <2>6 DEF OrderInv
  <2> QED BY <1>2, <2>5, <2>7, <2>8, OrderNext
<1> QED BY <1>1, <1>3, <1>4

\* A batch of files that are ahead of its baseline is in order, and what is ahead of the
\* files is ahead of the batch.
LEMMA FrozenHead ==
  ASSUME NEW base \in M!Chain, NEW files \in M!Content, NEW now \in M!Content, NEW b \in M!Chain,
         NEW n \in Nat, Ordered(base), Upto(base, n), Ahead(files, base),
         \A f \in Paths : files[f] <= n,
         \A f \in Paths :
           now[f] = files[f] \/ (files[f] < now[f] /\ Newer(now[f], base, f)),
         Len(b) >= Len(base), M!Files(b) = files,
         \A i \in 1 .. Len(base) : b[i] = base[i],
         \A i \in Len(base) + 1 .. Len(b) :
           /\ files[b[i].path] # M!Files(base)[b[i].path]
           /\ b[i].text = files[b[i].path]
           /\ \A j \in Len(base) + 1 .. Len(b) : b[i].path = b[j].path => i = j
  PROVE  Ordered(b) /\ Upto(b, n) /\ Ahead(now, b)
<1>1. /\ Len(b) \in Nat /\ DOMAIN b = 1 .. Len(b) /\ Len(base) \in Nat
      /\ DOMAIN base = 1 .. Len(base) /\ \A i \in DOMAIN b : b[i].path \in Paths
  BY ChainFacts
<1>2. \A i \in DOMAIN b : i \in 1 .. Len(base) \/ i \in Len(base) + 1 .. Len(b)
  BY <1>1
<1>3. Ordered(b)
  <2> SUFFICES ASSUME NEW i \in DOMAIN b, NEW j \in DOMAIN b, i < j, b[i].path = b[j].path
               PROVE  b[i].text < b[j].text
    BY DEF Ordered
  <2>1. CASE j \in 1 .. Len(base)
    <3>1. i \in 1 .. Len(base)
      BY <1>1, <2>1
    <3> QED BY <1>1, <2>1, <3>1 DEF Ordered
  <2>2. CASE i \in 1 .. Len(base) /\ j \in Len(base) + 1 .. Len(b)
    <3>1. Newer(files[b[j].path], base, b[j].path)
      BY <1>1, <2>2 DEF Ahead
    <3> QED BY <1>1, <2>2, <3>1 DEF Newer
  <2>3. CASE i \in Len(base) + 1 .. Len(b) /\ j \in Len(base) + 1 .. Len(b)
    <3>1. i = j
      BY <2>3
    <3> QED BY <1>1, <3>1
  <2> QED BY <1>1, <1>2, <2>1, <2>2, <2>3
<1>4. Upto(b, n)
  BY <1>1, <1>2 DEF Upto
<1>5. Ahead(now, b)
  <2> SUFFICES ASSUME NEW f \in Paths, files[f] < now[f], Newer(now[f], base, f)
               PROVE  Newer(now[f], b, f)
    BY DEF Ahead
  <2> SUFFICES ASSUME NEW i \in DOMAIN b, b[i].path = f PROVE b[i].text < now[f]
    BY DEF Newer
  <2>1. CASE i \in 1 .. Len(base)
    BY <1>1, <2>1 DEF Newer
  <2>2. CASE i \in Len(base) + 1 .. Len(b)
    BY <2>2
  <2> QED BY <1>2, <2>1, <2>2
<1> QED BY <1>3, <1>4, <1>5

\* So the batch is.
LEMMA FreezeOrder ==
  ASSUME WholeInv, OrderInv, NEW p \in Runners, M!Freeze(p)
  PROVE  OrderInv'
<1>1. /\ UNCHANGED <<roots, live, handed, remote, accepted, native, commits, edits>>
      /\ runner[p].pc = "freeze" /\ syncLock = p /\ upload = None
      /\ runner'[p].pc = "deliver"
      /\ runner'[p].src = runner[p].src /\ runner'[p].prep = runner[p].prep
      /\ \A q \in Runners \ {p} : runner'[q] = runner[q]
      /\ runner[p].files \in M!Content
  BY FreezeFacts
<1>2. /\ runner[p].base = accepted /\ Ahead(runner[p].files, accepted)
      /\ \A f \in Paths :
           \/ roots[native.gen][f] = runner[p].files[f]
           \/ /\ runner[p].files[f] < roots[native.gen][f]
              /\ Newer(roots[native.gen][f], accepted, f)
  BY <1>1 DEF OrderInv, Compared
<1>3. /\ upload' \in M!Chain /\ Len(upload') >= Len(accepted)
      /\ \A i \in 1 .. Len(accepted) : upload'[i] = accepted[i]
      /\ \A i \in Len(accepted) + 1 .. Len(upload') :
           /\ runner[p].files[upload'[i].path] # M!Files(accepted)[upload'[i].path]
           /\ upload'[i].text = runner[p].files[upload'[i].path]
           /\ \A j \in Len(accepted) + 1 .. Len(upload') :
                upload'[i].path = upload'[j].path => i = j
      /\ M!Files(upload') = runner[p].files
  BY <1>2, FreezeFacts
<1>4. /\ accepted \in M!Chain /\ roots[native.gen] \in M!Content /\ native.gen \in M!Gens
      /\ roots[native.gen] # None /\ edits \in Nat
  <2>1. /\ accepted \in M!Chain /\ edits \in 0 .. MaxEdits
        /\ roots \in [M!Gens -> M!Content \union {None}]
    BY DEF WholeInv, M!MTypeOK
  <2>2. native.gen \in M!Gens /\ roots[native.gen] # None
    BY DEF WholeInv, Rooted, Real
  <2>3. edits \in Nat
    BY <2>1, StoreNames
  <2>4. roots[native.gen] \in M!Content
    BY <2>1, <2>2
  <2> QED BY <2>1, <2>2, <2>3, <2>4
<1>5. native.pending = None
  BY <1>1 DEF OrderInv, Staged
<1>6. \A f \in Paths : roots[native.gen][f] <= edits
  BY <1>4 DEF OrderInv
<1>7. \A f \in Paths : runner[p].files[f] <= edits
  <2> SUFFICES ASSUME NEW f \in Paths PROVE runner[p].files[f] <= edits
    OBVIOUS
  <2>1. runner[p].files[f] \in Nat /\ roots[native.gen][f] \in Nat
    BY <1>1, <1>4 DEF M!Content
  <2>2. runner[p].files[f] <= roots[native.gen][f]
    BY <1>2, <2>1
  <2> QED BY <1>4, <1>6, <2>1, <2>2
<1>8. Ordered(accepted) /\ Upto(accepted, edits)
  BY DEF OrderInv
<1>9. Ordered(upload') /\ Upto(upload', edits) /\ Ahead(roots[native.gen], upload')
  BY <1>1, <1>2, <1>3, <1>4, <1>7, <1>8, FrozenHead
<1>10. \A q \in Runners : runner'[q].pc # "freeze"
  BY <1>1 DEF WholeInv, AtBatch
<1>11. \A q \in Runners : Launches(q)'
  BY <1>1, LaunchesStay
<1>12. /\ \A h \in {remote', accepted'} \union commits' : Ordered(h) /\ Upto(h, edits')
       /\ OneSession' /\ \A g \in M!Gens : roots'[g] # None => \A f \in Paths : roots'[g][f] <= edits'
  BY <1>1 DEF OrderInv, OneSession, Current
<1>13. upload' # None
  BY <1>3, StoreNames
<1> QED BY <1>1, <1>5, <1>9, <1>10, <1>11, <1>12, <1>13, OrderNext

\* The head after one commit more is the beginning of the batch.
LEMMA CommitOrder ==
  ASSUME WholeInv, OrderInv, upload # None, M!Left > 0
  PROVE  Ordered(M!Commit) /\ Upto(M!Commit, edits)
<1>1. /\ M!Commit \in M!Chain /\ Len(M!Commit) = receipts + 1
      /\ \A i \in 1 .. receipts + 1 : i \in DOMAIN upload /\ M!Commit[i] = upload[i]
  BY CommitFacts
<1>2. Ordered(upload) /\ Upto(upload, edits) /\ DOMAIN M!Commit = 1 .. receipts + 1
  BY <1>1, ChainFacts DEF OrderInv
<1> HIDE DEF M!Commit
<1>3. Ordered(M!Commit)
  BY <1>1, <1>2 DEF Ordered
<1>4. Upto(M!Commit, edits)
  BY <1>1, <1>2 DEF Upto
<1> QED BY <1>3, <1>4

\* So it is in order, whenever it lands.
LEMMA DeliverOrder ==
  ASSUME WholeInv, OrderInv, NEW p \in Runners, M!Deliver(p)
  PROVE  OrderInv'
<1>1. /\ UNCHANGED <<roots, live, handed, accepted, upload, native, edits>>
      /\ upload # None /\ M!Left > 0 /\ runner[p].pc = "deliver"
      /\ \A q \in Runners \ {p} : runner'[q] = runner[q]
      /\ remote' \in {remote, M!Commit} /\ commits' \subseteq commits \union {M!Commit}
      /\ \/ /\ runner'[p].prep = runner[p].prep /\ runner'[p].src = runner[p].src
            /\ runner'[p].pc = "delivered"
         \/ runner'[p] = M!Idle
  BY DeliverFacts
<1>2. \A h \in {remote'} \union commits' : Ordered(h) /\ Upto(h, edits)
  BY <1>1, CommitOrder DEF OrderInv
<1>3. native.pending = None
  BY <1>1 DEF OrderInv, Staged
<1>4. OneSession'
  BY <1>1 DEF OrderInv, OneSession, Current
<1>5. \A q \in Runners : Launches(q)'
  BY <1>1, IdleIs, LaunchesStay
<1>6. \A q \in Runners : runner'[q].pc = "freeze" => runner'[q] = runner[q]
  BY <1>1, IdleIs
<1> QED BY <1>1, <1>2, <1>3, <1>4, <1>5, <1>6, OrderSame

\* The batch becomes the accepted head: what was ahead of it stays so.
LEMMA DeliveredOrder ==
  ASSUME WholeInv, OrderInv, NEW p \in Runners, M!Delivered(p)
  PROVE  OrderInv'
<1>1. /\ UNCHANGED <<roots, live, remote, native, commits, edits>>
      /\ syncLock = p /\ upload # None /\ runner[p].pc \in {"deliver", "delivered"}
      /\ \A q \in Runners \ {p} : runner'[q] = runner[q]
      /\ runner'[p].src \in {None, runner[p].src}
      /\ \/ /\ UNCHANGED <<accepted, upload>> /\ runner'[p] = M!Idle
            /\ handed' \subseteq handed \union {native.gen}
         \/ /\ accepted' = upload /\ upload' = None /\ handed' = handed
            /\ \/ runner[p].prep /\ runner'[p].prep /\ runner'[p].pc = "select"
               \/ runner'[p] = M!Idle
  BY DeliveredFacts
<1>2. native.pending = None
  BY <1>1 DEF OrderInv, Staged
<1>3. OneSession'
  BY <1>1, <1>2 DEF OrderInv, OneSession, Current
<1>4. CASE /\ UNCHANGED <<accepted, upload>> /\ runner'[p] = M!Idle
  BY <1>1, <1>3, <1>4, IdleIs, RunnerOrder
<1>5. CASE /\ accepted' = upload /\ upload' = None /\ handed' = handed
           /\ \/ runner[p].prep /\ runner'[p].prep /\ runner'[p].pc = "select"
              \/ runner'[p] = M!Idle
  <2>1. \A q \in Runners : Launches(q)'
    BY <1>1, <1>5, IdleIs, LaunchesStay
  <2>2. \A q \in Runners : runner'[q].pc # "freeze"
    BY <1>1, <1>5, IdleIs DEF WholeInv, AtBatch
  <2>3. /\ \A h \in {remote', accepted'} \union commits' : Ordered(h) /\ Upto(h, edits')
        /\ Ahead(roots'[native'.gen], accepted')
        /\ \A g \in M!Gens : roots'[g] # None => \A f \in Paths : roots'[g][f] <= edits'
    BY <1>1, <1>5 DEF OrderInv
  <2> QED BY <1>1, <1>2, <1>3, <1>5, <2>1, <2>2, <2>3, OrderNext
<1> QED BY <1>1, <1>4, <1>5

\* Who selects is alone, so all are idle when it has.
LEMMA SelectAlone ==
  ASSUME WholeInv, OrderInv, NEW p \in Runners, M!Select(p)
  PROVE  /\ live = {} /\ handed = {} /\ \A q \in Runners : runner'[q] = M!Idle
         /\ native.pending # None => M!Pends
<1>1. /\ runner[p].pc = "select" /\ remote = accepted /\ runner'[p] = M!Idle
      /\ \A q \in Runners \ {p} : runner'[q] = runner[q]
  BY SelectFacts
<1>2. runner[p].prep
  BY <1>1 DEF WholeInv, AtBatch
<1>3. live = {} /\ handed = {} /\ \A q \in Runners \ {p} : runner[q].pc = "idle"
  BY <1>2 DEF OrderInv, Launches
<1>4. \A q \in Runners : runner'[q] = M!Idle
  BY <1>1, <1>3 DEF WholeInv, AtBatch
<1> QED BY <1>1, <1>3, <1>4 DEF OrderInv, Staged, M!Pends

\* The generation that is staged is the accepted head, and so is the one in force.
LEMMA SelectOrder ==
  ASSUME WholeInv, OrderInv, NEW p \in Runners, M!Select(p)
  PROVE  OrderInv'
<1>1. /\ UNCHANGED <<live, remote, accepted, upload, commits, edits>>
      /\ upload = None /\ remote = accepted /\ roots[native.gen] = M!Files(remote)
  BY SelectFacts
<1>2. /\ live = {} /\ handed = {} /\ \A q \in Runners : runner'[q] = M!Idle
      /\ native.pending # None => M!Pends
  BY SelectAlone
<1>3. \A q \in Runners : Launches(q)'
  BY <1>2, IdleIs DEF Launches
<1>4. \A h \in {remote'} \union commits' : Ordered(h) /\ Upto(h, edits)
  BY <1>1 DEF OrderInv
<1>5. ASSUME UNCHANGED <<roots, native>>, handed' = handed \union {Current}
      PROVE  OrderInv'
  <2>1. OneSession'
    BY <1>1, <1>2, <1>5 DEF OneSession, Current
  <2> QED BY <1>1, <1>2, <1>3, <1>4, <1>5, <2>1, IdleIs, OrderSame
<1>6. ASSUME NEW g \in M!Gens, ~M!Pends,
             roots[g] = None, roots' = [roots EXCEPT ![g] = roots[native.gen]],
             native' = [native EXCEPT !.pending = [gen |-> g, head |-> remote]],
             handed' = handed \union {g}
      PROVE  OrderInv'
  <2>1. /\ native \in [gen : M!Gens, head : M!Chain \union {None}, pending : M!Staging \union {None}]
        /\ remote \in M!Chain /\ roots \in [M!Gens -> M!Content \union {None}]
        /\ native.gen # g /\ native.gen \in M!Gens
    BY <1>6 DEF WholeInv, M!MTypeOK
  <2>2. /\ native'.gen = native.gen /\ native'.pending.gen = g /\ native'.pending.head = remote
        /\ native'.pending # None
    <3>1. [gen |-> g, head |-> remote] \in M!Staging
      BY <2>1 DEF M!Staging
    <3> QED BY <1>6, <2>1, <3>1, StoreNames
  <2>3. /\ roots'[g] = roots[native.gen] /\ \A x \in M!Gens \ {g} : roots'[x] = roots[x]
    BY <1>6, <2>1
  <2>4. OneSession'
    BY <1>1, <1>2, <1>6, <2>2 DEF OneSession, Current
  <2>5. Ahead(roots'[g], accepted') /\ Ahead(roots'[native'.gen], accepted')
    BY <1>1, <2>1, <2>2, <2>3 DEF OrderInv
  <2>6. \A x \in M!Gens : roots'[x] # None => \A f \in Paths : roots'[x][f] <= edits'
    BY <1>1, <2>1, <2>3 DEF OrderInv
  <2>7. /\ upload' = None /\ native'.pending.head = accepted' /\ native'.pending.gen # native'.gen
        /\ roots'[native'.gen] = M!Files(accepted') /\ Ahead(roots'[native'.pending.gen], accepted')
    BY <1>1, <2>1, <2>2, <2>3, <2>5
  <2>8. \A q \in Runners : runner'[q].pc = "idle"
    BY <1>2, IdleIs
  <2>9. \A h \in {remote', accepted'} \union commits' : Ordered(h) /\ Upto(h, edits')
    BY <1>1 DEF OrderInv
  <2> QED BY <1>1, <1>3, <2>4, <2>5, <2>6, <2>7, <2>8, <2>9, OrderNext
<1> QED BY <1>2, <1>5, <1>6, SelectFacts DEF Current

\* A hook finds nobody at work when it puts a staged generation in force.
LEMMA HookOrder ==
  ASSUME WholeInv, OrderInv, NEW p \in Runners, NEW g \in M!Gens, NEW event, M!Hook(p, g, event)
  PROVE  OrderInv'
<1>1. /\ UNCHANGED <<roots, live, handed, remote, accepted, upload, commits, edits>>
      /\ runner[p].pc = "idle" /\ g \in live
      /\ \/ /\ native.pending # None /\ native.pending.gen = g
            /\ native' = [gen |-> g, head |-> native.pending.head, pending |-> None]
         \/ native.gen = g /\ native' = native
      /\ runner'[p].pc = "begin"
      /\ runner'[p].prep = runner[p].prep /\ runner'[p].src = runner[p].src
      /\ \A q \in Runners \ {p} : runner'[q] = runner[q]
  BY HookFacts
<1>2. /\ \A q \in Runners : ~runner[q].prep
      /\ runner[p].src = None
  BY <1>1, IdleIs DEF WholeInv, AtBatch, OrderInv, Launches
<1>3. g = Current
  BY <1>1 DEF OrderInv, OneSession
<1>4. CASE native.gen = g /\ native' = native
  <2>1. native.pending = None
    BY <1>3, <1>4 DEF Current, OrderInv, Staged
  <2>2. \A q \in Runners : Launches(q)'
    BY <1>1, <1>2, <1>4 DEF Launches, OrderInv
  <2>3. OneSession'
    BY <1>1, <1>4 DEF OrderInv, OneSession, Current
  <2>4. /\ \A h \in {remote'} \union commits' : Ordered(h) /\ Upto(h, edits)
        /\ \A q \in Runners : runner'[q].pc = "freeze" => runner'[q] = runner[q]
    BY <1>1 DEF OrderInv
  <2> QED BY <1>1, <1>4, <2>1, <2>2, <2>3, <2>4, OrderSame
<1>5. CASE /\ native.pending # None /\ native.pending.gen = g
           /\ native' = [gen |-> g, head |-> native.pending.head, pending |-> None]
  <2>1. /\ upload = None /\ Ahead(roots[g], accepted)
        /\ \A q \in Runners : runner[q].pc = "idle"
    BY <1>2, <1>5 DEF OrderInv, Staged
  <2>2. \A q \in Runners \ {p} : runner'[q] = M!Idle
    BY <1>1, <2>1 DEF WholeInv, AtBatch
  <2>3. \A q \in Runners : Launches(q)' /\ runner'[q].pc # "freeze"
    BY <1>1, <1>2, <2>2, IdleIs DEF Launches
  <2>4. OneSession'
    BY <1>1, <1>3, <1>5 DEF OrderInv, OneSession, Current
  <2>5. /\ \A h \in {remote', accepted'} \union commits' : Ordered(h) /\ Upto(h, edits')
        /\ upload' = None /\ native'.pending = None /\ native'.gen = g
        /\ Ahead(roots'[g], accepted')
        /\ \A x \in M!Gens : roots'[x] # None => \A f \in Paths : roots'[x][f] <= edits'
    BY <1>1, <1>5, <2>1 DEF OrderInv
  <2> QED BY <2>3, <2>4, <2>5, OrderNext
<1> QED BY <1>1, <1>4, <1>5

\* Every step keeps the order.
LEMMA MemoryOrder ==
  ASSUME Serial, WholeInv, OrderInv, M!MNext
  PROVE  OrderInv'
BY EditOrder, SessionOrder, LandOrder, LaunchOrder, BeginOrder, CaptureOrder, FreezeOrder,
   DeliverOrder, DeliveredOrder, SelectOrder, RaiseOrder, HookOrder DEF M!MNext

\* The memory's part of the instance.
LEMMA MemoryOnly ==
  /\ LInit => M!MInit
  /\ [LNext]_all => subject' = subject /\ (subject = "memory" => [M!MNext]_M!mvars)
                    /\ (subject # "memory" => UNCHANGED M!mvars)
BY DEF LInit, LNext, all, memory, M!mvars, M!disk

\* Nothing has happened, and nothing was accepted.
LEMMA MemoryBegins ==
  ASSUME M!MInit
  PROVE  WholeInv /\ OrderInv
<1>1. /\ roots = [g \in M!Gens |-> IF g = 0 THEN [f \in Paths |-> 0] ELSE None]
      /\ live = {0} /\ handed = {} /\ remote = <<>> /\ accepted = <<>> /\ upload = None
      /\ receipts = 0 /\ native = [gen |-> 0, head |-> None, pending |-> None]
      /\ syncLock = None /\ runner = [p \in Runners |-> M!Idle] /\ commits = {} /\ edits = 0
  BY DEF M!MInit
<1>2. /\ <<>> \in M!Chain /\ M!Idle \in M!Hand /\ [f \in Paths |-> 0] \in M!Content
      /\ DOMAIN <<>> = {}
  <2>1. <<>> \in M!Chain
    BY DEF M!Chain
  <2>2. M!Idle \in M!Hand
    BY DEF M!Idle, M!Hand
  <2>3. [f \in Paths |-> 0] \in M!Content
    BY DEF M!Content
  <2> QED BY <2>1, <2>2, <2>3
<1>3. /\ roots \in [M!Gens -> M!Content \union {None}] /\ roots[0] = [f \in Paths |-> 0]
      /\ roots[0] # None /\ \A g \in M!Gens : roots[g] # None => g = 0
  <2>1. [f \in Paths |-> 0] # None
    BY <1>2, StoreNames
  <2> QED BY <1>1, <1>2, <2>1, StoreNames
<1>4. \A p \in Runners : runner[p] = M!Idle
  BY <1>1
<1>5. native.gen = 0 /\ native.pending = None /\ native.head = None
  BY <1>1
<1>6. WholeInv
  <2>1. M!MTypeOK
    BY <1>1, <1>2, <1>3, StoreNames DEF M!MTypeOK
  <2>2. Rooted
    BY <1>1, <1>3, <1>4, <1>5, IdleIs, StoreNames DEF Rooted, Real
  <2>3. \A p \in Runners : AtBatch(p)
    BY <1>4, IdleIs DEF AtBatch
  <2> QED BY <1>1, <2>1, <2>2, <2>3 DEF WholeInv, M!AcceptedWhole
<1>7. OrderInv
  <2>1. Ordered(<<>>) /\ Upto(<<>>, 0)
    BY <1>2 DEF Ordered, Upto
  <2>2. Ahead(roots[0], <<>>)
    BY <1>2 DEF Ahead, Newer
  <2>3. \A p \in Runners : Launches(p) /\ Compared(p)
    BY <1>4, IdleIs DEF Launches, Compared
  <2>4. OneSession /\ Staged
    BY <1>1, <1>5 DEF OneSession, Current, Staged
  <2>5. \A g \in M!Gens : roots[g] # None => \A f \in Paths : roots[g][f] <= edits
    BY <1>1, <1>3
  <2> QED BY <1>1, <1>5, <2>1, <2>2, <2>3, <2>4, <2>5 DEF OrderInv
<1> QED BY <1>6, <1>7

\* A step of something else changes neither.
LEMMA MemoryRests ==
  ASSUME UNCHANGED M!mvars
  PROVE  (WholeInv => WholeInv') /\ (WholeInv /\ OrderInv => OrderInv')
<1>1. UNCHANGED <<roots, live, handed, remote, accepted, upload, receipts, native, syncLock,
                  runner, commits, edits, captured>>
  BY DEF M!mvars
<1>2. WholeInv => WholeInv'
  BY <1>1 DEF WholeInv, M!MTypeOK, Rooted, Real, AtBatch, M!AcceptedWhole, M!Files
<1>3. ASSUME WholeInv, OrderInv PROVE OrderInv'
  <2>1. OneSession' /\ \A p \in Runners : Launches(p)'
    BY <1>1, <1>3 DEF OrderInv, OneSession, Current, Launches
  <2>2. /\ \A h \in {remote'} \union commits' : Ordered(h) /\ Upto(h, edits)
        /\ native.pending # None => \A p \in Runners : runner'[p].pc # "idle" => runner'[p].prep
    BY <1>1, <1>3 DEF OrderInv, Staged
  <2> QED BY <1>1, <1>3, <2>1, <2>2, OrderSame
<1> QED BY <1>2, <1>3

\* What is accepted is a whole capture, however many processes are at it, at any time: the
\* one that holds the lock alone touches the batch, and it is accepted when the remote head
\* is all of it.
THEOREM AcceptedHeadsAreWhole == LSpec => []AcceptedWhole
<1>1. LInit => (subject = "memory" => WholeInv)
  BY MemoryOnly, MemoryBegins
<1>2. (subject = "memory" => WholeInv) /\ [LNext]_all => (subject = "memory" => WholeInv)'
  BY MemoryOnly, MemoryStep, MemoryRests
<1>3. (subject = "memory" => WholeInv) => AcceptedWhole
  BY DEF WholeInv, AcceptedWhole
<1> QED BY <1>1, <1>2, <1>3, PTL DEF LSpec

\* Nothing older comes back, nor the same bytes twice, however late a commit lands and
\* whatever dies, if a launch is prepared when no session and no hook runs: what a session
\* writes is ahead of the accepted head, and of the batch that leads from it.
THEOREM NothingOlderReturns == Serial => (LSpec => []NoRevert)
<1> SUFFICES ASSUME Serial PROVE LSpec => []NoRevert
  OBVIOUS
<1> DEFINE Inv == subject = "memory" => WholeInv /\ OrderInv
<1>1. LInit => Inv
  BY MemoryOnly, MemoryBegins
<1>2. Inv /\ [LNext]_all => Inv'
  <2> SUFFICES ASSUME Inv, [LNext]_all, subject' = "memory" PROVE (WholeInv /\ OrderInv)'
    OBVIOUS
  <2>1. subject = "memory" /\ [M!MNext]_M!mvars /\ WholeInv /\ OrderInv
    BY MemoryOnly
  <2> QED BY <2>1, MemoryStep, MemoryOrder, MemoryRests
<1>3. Inv => NoRevert
  BY DEF OrderInv, Ordered, NoRevert, M!NoRevert
<1> QED BY <1>1, <1>2, <1>3, PTL DEF LSpec

-----------------------------------------------------------------------------
(* Stop events: what a name, a file and an event have to do with each other, *)
(* and what a process that saves or drains has in hand.                      *)

FilesTyped ==
  /\ text \in Seq(E!Text)
  /\ dir \in [E!Slots -> DOMAIN text \union {None}]
  /\ tmp \in [E!Slots -> DOMAIN text \union {None}]

HandsTyped ==
  /\ pc \in [E!Procs -> {"idle", "open", "write", "replace", "prepare", "claim", "mark"}]
  /\ file \in [E!Procs -> E!Slots \union {None}]
  /\ fd \in [E!Procs -> DOMAIN text \union {None}]
  /\ body \in [E!Procs -> E!Body \union {E!Blank}]
  /\ seen \in [E!Procs -> SUBSET E!Slots] /\ busy \in [E!Procs -> BOOLEAN]
  /\ batch \in [E!Procs -> UNION {[S -> E!Calls] : S \in SUBSET E!Slots}]
  /\ left \in [E!Procs -> SUBSET E!Slots]

BooksTyped ==
  /\ calls \in 0 .. MaxEvents /\ peeks \in 0 .. MaxPeeks /\ crashes \in 0 .. MaxCrashes
  /\ keyOf \in [E!Calls -> Keys \union {None}] /\ stored \subseteq E!Calls
  /\ told \in [E!Calls -> Nat] /\ dropped \subseteq E!Calls /\ spoilt \subseteq E!Calls

\* No file is behind two names, and none behind an event and a temporary name.
OneName ==
  /\ \A s, t \in E!Slots : dir[s] # None /\ dir[s] = dir[t] => s = t
  /\ \A s, t \in E!Slots : tmp[s] # None /\ tmp[s] = tmp[t] => s = t
  /\ \A s, t \in E!Slots : dir[s] # None => dir[s] # tmp[t]

\* What the file of an event holds.
Of(s) == text[dir[s]]

\* It is an event, of the key if it has one, and no other file has it.
Published ==
  \A s \in E!Slots : dir[s] # None =>
    /\ Of(s) \in E!Body /\ Of(s).event <= calls
    /\ keyOf[Of(s).event] = IF s \in Keys THEN s ELSE None
    /\ \A t \in E!Slots : dir[t] # None /\ Of(t).event = Of(s).event => t = s

\* A hook that saves has a number nobody has, and an event nobody has; it is alone.
Numbered(h) ==
  /\ file[h] \in 1 .. MaxId /\ dir[file[h]] = None
  /\ body[h].is = "pending" /\ body[h].event <= calls /\ keyOf[body[h].event] = None
  /\ \A s \in E!Slots : dir[s] # None => Of(s).event # body[h].event
  /\ \A g \in Hooks : file[g] \in Nat => g = h

\* A reader that saves has an event of its batch, to be marked.
Marking(r) ==
  /\ file[r] \in left[r]
  /\ body[r] = [event |-> Of(file[r]).event, is |-> "delivered"]

\* The temporary name of the event is the file that is written, by nobody else.
Saving(p) ==
  /\ p \in Hooks => pc[p] \in {"idle", "open", "write", "replace"}
  /\ pc[p] \in {"open", "write", "replace"} =>
       /\ file[p] \in E!Slots /\ body[p] \in E!Body
       /\ IF p \in Hooks THEN Numbered(p) ELSE Marking(p)
  /\ pc[p] \in {"write", "replace"} => fd[p] = tmp[file[p]] /\ fd[p] # None
  /\ pc[p] = "write" => text[fd[p]] = E!Blank
  /\ pc[p] = "replace" => text[fd[p]] = body[p]

\* A batch has its events as they are, marked but for those that are left, and nobody was
\* given any of them.
Draining(r) ==
  /\ \A s \in DOMAIN batch[r] :
       /\ dir[s] # None /\ batch[r][s] = Of(s).event
       /\ told[Of(s).event] = 0 /\ Of(s).event \notin dropped
       /\ Of(s).is = IF pc[r] = "claim" \/ s \in left[r] THEN "pending" ELSE "delivered"
  /\ left[r] \subseteq DOMAIN batch[r]
  /\ pc[r] \in {"idle", "prepare"} => DOMAIN batch[r] = {}

\* Who was given an event finds it marked, and is given it once, or never if it was dropped.
Given ==
  \A c \in E!Calls :
    /\ told[c] <= 1 /\ (c \in dropped => told[c] = 0)
    /\ told[c] > 0 \/ c \in dropped =>
         \E s \in E!Slots : dir[s] # None /\ Of(s) = [event |-> c, is |-> "delivered"]

\* What was stored is there, or another of its key.
Stored ==
  \A c \in E!Calls :
    /\ c > calls => keyOf[c] = None
    /\ c \in stored => IF keyOf[c] = None THEN \E s \in E!Slots : dir[s] # None /\ Of(s).event = c
                                          ELSE dir[keyOf[c]] # None

EventsInv ==
  /\ FilesTyped /\ HandsTyped /\ BooksTyped /\ OneName /\ Published /\ \A p \in E!Procs : Saving(p)
  /\ \A r \in Readers : Draining(r)
  /\ Given /\ Stored /\ E!MarkedIsTold

\* What is not a number, a key or a process, and which texts there are.
LEMMA EventNames ==
  /\ None \notin E!Slots /\ None \notin Nat /\ Keys \intersect Nat = {} /\ E!Procs = Hooks \union Readers
  /\ Hooks \intersect Readers = {} /\ E!Calls = 1 .. MaxEvents
  /\ {MaxId, MaxEvents, MaxPeeks, MaxCrashes} \subseteq Nat
  /\ E!Slots = (1 .. MaxId) \union Keys
  /\ E!Blank \notin E!Body /\ {E!Blank, E!Torn} \subseteq E!Text /\ E!Body \subseteq E!Text
BY LedgersAssumption DEF E!Slots, E!Procs, E!Calls, E!Blank, E!Torn, E!Text, E!Body

\* Of a process that does not act nothing changes.
Same(q) ==
  /\ pc'[q] = pc[q] /\ file'[q] = file[q] /\ fd'[q] = fd[q] /\ body'[q] = body[q]
  /\ batch'[q] = batch[q] /\ left'[q] = left[q]

\* What is in the store stays as it is.
SlotsStay == dir' = dir /\ \A s \in E!Slots : dir[s] # None => Of(s)' = Of(s)

\* A process that ends has nothing in hand.
LEMMA HandsEnd ==
  ASSUME HandsTyped, NEW p \in E!Procs, E!Ends(p), text' = text
  PROVE  /\ HandsTyped' /\ \A q \in E!Procs \ {p} : Same(q)
         /\ pc'[p] = "idle" /\ file'[p] = None /\ DOMAIN batch'[p] = {} /\ left'[p] = {}
<1>1. /\ pc' = [pc EXCEPT ![p] = "idle"] /\ file' = [file EXCEPT ![p] = None]
      /\ fd' = [fd EXCEPT ![p] = None] /\ body' = [body EXCEPT ![p] = E!Blank]
      /\ seen' = [seen EXCEPT ![p] = {}] /\ busy' = [busy EXCEPT ![p] = FALSE]
      /\ batch' = [batch EXCEPT ![p] = E!Nothing] /\ left' = [left EXCEPT ![p] = {}]
  BY DEF E!Ends, E!Goto
<1>2. DOMAIN E!Nothing = {} /\ E!Nothing \in UNION {[S -> E!Calls] : S \in SUBSET E!Slots}
  <2>1. E!Nothing \in [{} -> E!Calls] /\ {} \in SUBSET E!Slots
    BY DEF E!Nothing
  <2> QED BY <2>1
<1> HIDE DEF E!Nothing
<1>3. HandsTyped'
  BY <1>1, <1>2 DEF HandsTyped
<1>4. \A q \in E!Procs \ {p} : Same(q)
  BY <1>1 DEF HandsTyped, Same
<1>5. pc'[p] = "idle" /\ file'[p] = None /\ DOMAIN batch'[p] = {} /\ left'[p] = {}
  BY <1>1, <1>2 DEF HandsTyped
<1> QED BY <1>3, <1>4, <1>5

\* A call starts to save.
LEMMA SavesFacts ==
  ASSUME HandsTyped, NEW p \in E!Procs, NEW s \in E!Slots, NEW b \in E!Body, E!Saves(p, s, b),
         UNCHANGED <<text, fd, seen, busy, batch, left>>
  PROVE  /\ HandsTyped' /\ \A q \in E!Procs \ {p} : Same(q)
         /\ pc'[p] = "open" /\ file'[p] = s /\ body'[p] = b
         /\ batch'[p] = batch[p] /\ left'[p] = left[p]
<1>1. /\ pc' = [pc EXCEPT ![p] = "open"] /\ file' = [file EXCEPT ![p] = s]
      /\ body' = [body EXCEPT ![p] = b]
  BY DEF E!Saves, E!Goto
<1>2. HandsTyped'
  BY <1>1 DEF HandsTyped
<1> QED BY <1>1, <1>2 DEF HandsTyped, Same

\* A reader goes on with a batch.
LEMMA BatchFact ==
  ASSUME NEW S, S \subseteq E!Slots, \A s \in S : Of(s) \in E!Body
  PROVE  /\ E!Read(S) \in UNION {[T -> E!Calls] : T \in SUBSET E!Slots}
         /\ DOMAIN E!Read(S) = S /\ \A s \in S : E!Read(S)[s] = Of(s).event
<1>1. E!Read(S) \in [S -> E!Calls]
  BY DEF E!Read, E!Body, Of
<1>2. S \in SUBSET E!Slots
  OBVIOUS
<1> QED BY <1>1, <1>2 DEF E!Read, Of

\* Two that save never save the same event, where one reader drains.
LEMMA FilesApart ==
  ASSUME EventsInv, \A r, s \in Readers : r = s, NEW p \in E!Procs, NEW q \in E!Procs \ {p},
         pc[p] \in {"open", "write", "replace"}, pc[q] \in {"open", "write", "replace"}
  PROVE  file[p] # file[q]
<1>1. ASSUME NEW h \in Hooks, NEW g \in E!Procs, h # g, pc[h] \in {"open", "write", "replace"},
             pc[g] \in {"open", "write", "replace"}, g \in Hooks => file[g] # file[h]
      PROVE  file[h] # file[g]
  <2>1. Numbered(h)
    BY <1>1, EventNames DEF EventsInv, Saving
  <2>2. CASE g \in Readers
    <3>1. Marking(g) /\ Draining(g)
      BY <1>1, <2>2, EventNames DEF EventsInv, Saving
    <3>2. dir[file[g]] # None
      BY <3>1 DEF Marking, Draining
    <3> QED BY <2>1, <3>2 DEF Numbered
  <2> QED BY <1>1, <2>2, EventNames
<1>2. ASSUME p \in Hooks, q \in Hooks
      PROVE  FALSE
  <2>1. Numbered(p) /\ Numbered(q)
    BY <1>2, EventNames DEF EventsInv, Saving
  <2>2. file[q] \in Nat
    BY <2>1, EventNames DEF Numbered
  <2> QED BY <1>2, <2>1, <2>2 DEF Numbered
<1> QED BY <1>1, <1>2, EventNames

\* An event that is pending was given to nobody.
LEMMA PendingIsNew ==
  ASSUME EventsInv, NEW s \in E!Slots, dir[s] # None, Of(s).is = "pending"
  PROVE  told[Of(s).event] = 0 /\ Of(s).event \notin dropped
<1>1. /\ Of(s) \in E!Body /\ Of(s).event \in E!Calls
      /\ \A t \in E!Slots : dir[t] # None /\ Of(t).event = Of(s).event => t = s
  BY DEF EventsInv, Published, E!Body
<1>2. \A t \in E!Slots : dir[t] # None => Of(t) # [event |-> Of(s).event, is |-> "delivered"]
  BY <1>1
<1>3. told[Of(s).event] \in Nat /\ ~(told[Of(s).event] > 0) /\ Of(s).event \notin dropped
  BY <1>1, <1>2 DEF EventsInv, Given, BooksTyped
<1> QED BY <1>3

-----------------------------------------------------------------------------
(* What stays, while the store does.                                        *)

\* While the store stays, what was stored is there.
LEMMA StoredStays ==
  ASSUME EventsInv, SlotsStay, UNCHANGED <<keyOf, stored>>, calls <= calls', calls' \in Nat
  PROVE  Stored'
<1>1. calls \in Nat
  BY EventNames DEF EventsInv, BooksTyped
<1> SUFFICES ASSUME NEW c \in E!Calls
             PROVE  /\ c > calls' => keyOf[c] = None
                    /\ c \in stored => IF keyOf[c] = None
                                       THEN \E s \in E!Slots : dir[s] # None /\ Of(s)'.event = c
                                       ELSE dir[keyOf[c]] # None
  BY DEF Stored, SlotsStay
<1>2. c > calls' => keyOf[c] = None
  BY <1>1, EventNames DEF EventsInv, Stored
<1> QED BY <1>2 DEF EventsInv, Stored, SlotsStay

\* While the store stays, what was given is marked.
LEMMA GivenStays ==
  ASSUME EventsInv, SlotsStay, UNCHANGED <<told, dropped>>
  PROVE  Given'
BY DEF EventsInv, Given, SlotsStay

\* While the store stays, however many calls are made, each file has an event of its own.
LEMMA PublishedStays ==
  ASSUME EventsInv, SlotsStay, UNCHANGED keyOf, calls <= calls', calls' \in Nat
  PROVE  Published'
<1>1. calls \in Nat /\ E!Calls \subseteq Nat
  BY EventNames DEF EventsInv, BooksTyped
<1> SUFFICES ASSUME NEW s \in E!Slots, dir[s] # None
             PROVE  /\ Of(s) \in E!Body /\ Of(s).event <= calls'
                    /\ keyOf[Of(s).event] = IF s \in Keys THEN s ELSE None
                    /\ \A t \in E!Slots : dir[t] # None /\ Of(t).event = Of(s).event => t = s
  BY DEF Published, SlotsStay
<1>2. Of(s) \in E!Body /\ Of(s).event <= calls /\ Of(s).event \in Nat
  BY <1>1 DEF EventsInv, Published, E!Body
<1>3. Of(s).event <= calls'
  BY <1>1, <1>2
<1> QED BY <1>2, <1>3 DEF EventsInv, Published

\* The readers drain as they did, but for the labels at which they save.
LEMMA DrainsOn ==
  ASSUME EventsInv, SlotsStay, UNCHANGED <<told, dropped>>, spoilt \subseteq spoilt',
         \A r \in Readers :
           /\ batch'[r] = batch[r] /\ left'[r] = left[r]
           /\ pc'[r] = pc[r] \/ {pc[r], pc'[r]} \subseteq {"mark", "open", "write", "replace"}
  PROVE  (\A r \in Readers : Draining(r)') /\ E!MarkedIsTold'
<1>1. ASSUME NEW r \in Readers PROVE Draining(r)'
  <2>1. Draining(r)
    BY DEF EventsInv
  <2>2. /\ pc'[r] = "claim" <=> pc[r] = "claim"
        /\ pc'[r] \in {"idle", "prepare"} => pc[r] \in {"idle", "prepare"}
    OBVIOUS
  <2>3. DOMAIN batch[r] \subseteq E!Slots
    BY EventNames DEF EventsInv, HandsTyped
  <2> QED BY <2>1, <2>2, <2>3 DEF Draining, SlotsStay
<1>2. E!MarkedIsTold'
  BY DEF EventsInv, E!MarkedIsTold, SlotsStay, Of
<1> QED BY <1>1, <1>2

\* Nobody else is disturbed in what it saves.
LEMMA SavesStill ==
  ASSUME EventsInv, NEW p \in E!Procs, NEW q \in E!Procs \ {p}, Same(q),
         q \in Readers => \A s \in E!Slots : dir[s] # None => Of(s)' = Of(s),
         q \in Hooks /\ Numbered(q) =>
           dir'[file[q]] = None /\ \A s \in E!Slots : dir'[s] # None => Of(s)'.event # body[q].event,
         \A c \in 1 .. calls : keyOf'[c] = keyOf[c], calls <= calls', calls' \in Nat,
         pc[q] \in {"write", "replace"} => tmp'[file[q]] = tmp[file[q]] /\ text'[fd[q]] = text[fd[q]],
         p \in Hooks => \/ file'[p] \in {None, file[p]}
                        \/ \A g \in Hooks : file[g] \notin Nat,
         \A g \in E!Procs \ {p} : Same(g)
  PROVE  Saving(q)'
<1>1. Saving(q) /\ None \notin Nat /\ calls \in Nat /\ E!Calls = 1 .. MaxEvents /\ MaxEvents \in Nat
  BY EventNames DEF EventsInv, BooksTyped
<1>2. ASSUME q \in Hooks, Numbered(q), body[q] \in E!Body PROVE Numbered(q)'
  <2>1. file[q] \in Nat
    BY <1>2, EventNames DEF Numbered
  <2>2. \A g \in Hooks : file'[g] \in Nat => g = q
    BY <1>1, <1>2, <2>1, EventNames DEF Numbered, Same
  <2>3. body[q].event <= calls' /\ keyOf'[body[q].event] = None
    <3>1. body[q].event \in 1 .. MaxEvents /\ body[q].event <= calls
      BY <1>1, <1>2 DEF Numbered, E!Body
    <3>2. body[q].event \in 1 .. calls
      BY <1>1, <3>1
    <3> QED BY <1>1, <1>2, <3>1, <3>2 DEF Numbered
  <2> QED BY <1>2, <2>2, <2>3 DEF Numbered, Same
<1>3. ASSUME q \notin Hooks, pc[q] \in {"open", "write", "replace"}, Marking(q) PROVE Marking(q)'
  <2>1. q \in Readers
    BY <1>3, EventNames
  <2>2. Draining(q) /\ file[q] \in left[q] /\ file[q] \in E!Slots
    BY <1>1, <1>3, <2>1 DEF EventsInv, Marking, Saving
  <2>3. dir[file[q]] # None
    BY <2>2 DEF Draining
  <2> QED BY <1>3, <2>1, <2>2, <2>3 DEF Marking, Same
<1> QED BY <1>1, <1>2, <1>3 DEF Saving, Same

\* While the store stays, a process that saves goes on with what it has in hand.
LEMMA SavesOn ==
  ASSUME EventsInv, NEW p \in E!Procs, NEW q \in E!Procs \ {p}, Same(q), SlotsStay,
         UNCHANGED keyOf, calls <= calls', calls' \in Nat,
         pc[q] \in {"write", "replace"} => tmp'[file[q]] = tmp[file[q]] /\ text'[fd[q]] = text[fd[q]],
         p \in Hooks => \/ file'[p] \in {None, file[p]}
                        \/ \A g \in Hooks : file[g] \notin Nat,
         \A g \in E!Procs \ {p} : Same(g)
  PROVE  Saving(q)'
<1>1. \A s \in E!Slots : dir[s] # None => Of(s)' = Of(s)
  BY DEF SlotsStay
<1>2. Numbered(q) =>
        dir'[file[q]] = None /\ \A s \in E!Slots : dir'[s] # None => Of(s)'.event # body[q].event
  BY DEF Numbered, SlotsStay
<1> QED BY <1>1, <1>2, SavesStill

-----------------------------------------------------------------------------
(* The steps that leave the files alone.                                    *)

\* A step that leaves the files alone need look after its own hands only.
LEMMA FilesRest ==
  ASSUME EventsInv, NEW p \in E!Procs, UNCHANGED <<dir, tmp, text, keyOf, stored>>,
         HandsTyped', BooksTyped', calls <= calls', \A q \in E!Procs \ {p} : Same(q),
         p \in Hooks => file'[p] \in {None, file[p]} \/ \A g \in Hooks : file[g] \notin Nat,
         Saving(p)', \A r \in Readers : Draining(r)', Given', E!MarkedIsTold'
  PROVE  EventsInv'
<1>1. SlotsStay /\ calls' \in Nat
  BY EventNames DEF SlotsStay, Of, BooksTyped
<1>2. FilesTyped' /\ OneName'
  BY DEF EventsInv, FilesTyped, OneName
<1>3. Published' /\ Stored'
  BY <1>1, PublishedStays, StoredStays
<1>4. \A q \in E!Procs : Saving(q)'
  <2> SUFFICES ASSUME NEW q \in E!Procs \ {p} PROVE Saving(q)'
    OBVIOUS
  <2> QED BY <1>1, SavesOn
<1> QED BY <1>2, <1>3, <1>4 DEF EventsInv

\* A process that has nothing in hand is not saving.
LEMMA RestSaves ==
  ASSUME NEW p \in E!Procs, pc'[p] = "idle" \/ (p \in Readers /\ pc'[p] \in {"prepare", "claim", "mark"})
  PROVE  Saving(p)'
BY EventNames DEF Saving

\* The number a hook takes is nobody's.
LEMMA NumberIsFree ==
  ASSUME EventsInv, E!NextId <= MaxId
  PROVE  E!NextId \in 1 .. MaxId /\ dir[E!NextId] = None
<1>1. /\ E!Taken \subseteq 1 .. MaxId /\ MaxId \in Nat
      /\ \A n \in 1 .. MaxId \ E!Taken : dir[n] = None
  BY EventNames DEF E!Taken
<1>2. CASE E!Taken = {}
  BY <1>1, <1>2 DEF E!NextId
<1>3. CASE E!Taken # {}
  <2> DEFINE n == CHOOSE n \in E!Taken : \A m \in E!Taken : m <= n
  <2>1. n \in E!Taken /\ \A m \in E!Taken : m <= n
    BY <1>1, <1>3, GreatestIsThere
  <2>2. E!NextId = 1 + n
    BY <1>3 DEF E!NextId
  <2> HIDE DEF n
  <2>3. 1 + n \in 1 .. MaxId /\ 1 + n \notin E!Taken
    <3>1. n \in 1 .. MaxId /\ 1 + n <= MaxId
      BY <1>1, <2>1, <2>2
    <3>2. ~(1 + n <= n)
      BY <3>1
    <3> QED BY <1>1, <2>1, <3>1, <3>2
  <2> QED BY <1>1, <2>2, <2>3
<1> QED BY <1>2, <1>3

\* A hook begins: its number is one past the others, its event a new one.
LEMMA PersistKeeps ==
  ASSUME Serial, EventsInv, NEW h \in Hooks, E!Persist(h)
  PROVE  EventsInv'
<1>1. /\ UNCHANGED <<dir, tmp, text, fd, seen, busy, batch, left, peeks, crashes, keyOf, stored,
                     told, dropped, spoilt>>
      /\ calls < MaxEvents /\ calls' = calls + 1 /\ E!NextId <= MaxId
      /\ \A g \in Hooks : file[g] \notin Nat
      /\ E!Saves(h, E!NextId, E!New(calls + 1))
  BY DEF E!Persist, E!files
<1>2. /\ calls \in Nat /\ calls + 1 \in E!Calls /\ h \in E!Procs /\ h \notin Readers
      /\ E!New(calls + 1) \in E!Body /\ E!NextId \in E!Slots /\ E!NextId \in 1 .. MaxId
      /\ dir[E!NextId] = None
  <2>1. calls \in Nat /\ calls + 1 \in E!Calls /\ h \in E!Procs /\ h \notin Readers
    BY <1>1, EventNames DEF EventsInv, BooksTyped
  <2>2. E!NextId \in 1 .. MaxId /\ dir[E!NextId] = None
    BY <1>1, NumberIsFree
  <2> QED BY <2>1, <2>2, EventNames DEF E!New, E!Body
<1>3. /\ HandsTyped' /\ \A q \in E!Procs \ {h} : Same(q)
      /\ pc'[h] = "open" /\ file'[h] = E!NextId /\ body'[h] = E!New(calls + 1)
  BY <1>1, <1>2, SavesFacts DEF EventsInv
<1> HIDE DEF E!NextId
<1>4. BooksTyped' /\ calls <= calls'
  BY <1>1, <1>2, EventNames DEF EventsInv, BooksTyped
<1>5. SlotsStay /\ spoilt \subseteq spoilt'
  BY <1>1 DEF SlotsStay, Of
<1>6. (\A r \in Readers : Draining(r)') /\ E!MarkedIsTold' /\ Given'
  BY <1>1, <1>2, <1>3, <1>5, EventNames, DrainsOn, GivenStays DEF Same
<1>7. Numbered(h)'
  <2>1. keyOf[calls + 1] = None
    BY <1>2 DEF EventsInv, Stored
  <2>2. \A s \in E!Slots : dir[s] # None => Of(s).event # calls + 1
    <3> SUFFICES ASSUME NEW s \in E!Slots, dir[s] # None PROVE Of(s).event # calls + 1
      OBVIOUS
    <3>1. Of(s).event <= calls /\ Of(s).event \in Nat
      BY EventNames DEF EventsInv, Published, E!Body
    <3> QED BY <1>2, <3>1
  <2>3. \A g \in Hooks : file'[g] \in Nat => g = h
    BY <1>1, <1>3, EventNames DEF Same
  <2>4. body'[h].is = "pending" /\ body'[h].event = calls + 1
    BY <1>3 DEF E!New
  <2>5. body'[h].event <= calls'
    BY <1>1, <1>2, <2>4
  <2> QED BY <1>1, <1>2, <1>3, <2>1, <2>2, <2>3, <2>4, <2>5 DEF Numbered, Of
<1>8. Saving(h)'
  BY <1>2, <1>3, <1>7 DEF Saving
<1> QED BY <1>1, <1>2, <1>3, <1>4, <1>6, <1>8, FilesRest

\* A reader looks, prepares and claims: what is pending nobody was given.
LEMMA ReadsKeep ==
  ASSUME EventsInv, \A r, s \in Readers : r = s, NEW r \in Readers,
         UNCHANGED <<dir, tmp, text, file, fd, body, calls, crashes, keyOf, stored, told, dropped,
                     spoilt>>,
         HandsTyped', peeks' \in 0 .. MaxPeeks, \A q \in E!Procs \ {r} : Same(q),
         pc[r] = "claim" \/ DOMAIN batch[r] = {},
         NEW S, S \subseteq E!Pending, batch'[r] = E!Read(S), pc'[r] \in {"claim", "mark", "prepare"},
         left'[r] = IF pc'[r] = "mark" THEN S ELSE {}, pc'[r] = "prepare" => S = {}
  PROVE  EventsInv'
<1>1. BooksTyped' /\ calls <= calls' /\ r \in E!Procs /\ r \notin Hooks
  BY EventNames DEF EventsInv, BooksTyped
<1>2. /\ S \subseteq E!Slots
      /\ \A s \in S : /\ dir[s] # None /\ Of(s) \in E!Body /\ Of(s).is = "pending"
                      /\ told[Of(s).event] = 0 /\ Of(s).event \notin dropped
  BY PendingIsNew DEF E!Pending, Of, EventsInv, Published
<1>3. DOMAIN E!Read(S) = S /\ \A s \in S : E!Read(S)[s] = Of(s).event
  BY <1>2, BatchFact
<1> HIDE DEF E!Read
<1>4. \A x \in Readers : Draining(x)'
  <2> SUFFICES ASSUME NEW x \in Readers PROVE Draining(r)'
    OBVIOUS
  <2> QED BY <1>2, <1>3 DEF Draining, Of
<1>5. Given'
  BY GivenStays DEF SlotsStay, Of
<1>6. E!MarkedIsTold'
  <2> SUFFICES ASSUME NEW s \in E!Slots, dir[s] # None, Of(s).is = "delivered"
               PROVE  told[Of(s).event] > 0 \/ Of(s).event \in dropped \/ Of(s).event \in spoilt
    BY DEF E!MarkedIsTold, Of
  <2>1. \A x \in Readers : s \notin DOMAIN batch[x]
    BY DEF EventsInv, Draining
  <2> QED BY <2>1 DEF EventsInv, E!MarkedIsTold, Of
<1>7. Saving(r)'
  BY <1>1, RestSaves
<1> QED BY <1>1, <1>4, <1>5, <1>6, <1>7, FilesRest

\* The three of them.
LEMMA PeekKeeps ==
  ASSUME EventsInv, \A r, s \in Readers : r = s, NEW r \in Readers, E!Peek(r)
  PROVE  EventsInv'
<1>1. /\ UNCHANGED <<dir, tmp, text, file, fd, body, left, calls, crashes, keyOf, stored, told,
                     dropped, spoilt>>
      /\ pc[r] = "idle" /\ peeks < MaxPeeks /\ peeks' = peeks + 1
      /\ seen' = [seen EXCEPT ![r] = E!Pending]
  BY DEF E!Peek, E!files
<1>2. PICK S \in SUBSET E!Pending :
        /\ batch' = [batch EXCEPT ![r] = E!Read(S)] /\ busy' = [busy EXCEPT ![r] = S # {}]
        /\ pc' = [pc EXCEPT ![r] = IF S # {} THEN "claim" ELSE "prepare"]
  BY DEF E!Peek, E!Goto
<1>3. r \in E!Procs /\ DOMAIN batch[r] = {} /\ left[r] = {} /\ E!Pending \subseteq E!Slots
  BY <1>1, EventNames DEF EventsInv, Draining, E!Pending
<1>4. \A s \in S : s \in E!Slots /\ Of(s) \in E!Body
  BY <1>2 DEF E!Pending, EventsInv, Published
<1>5. E!Read(S) \in UNION {[T -> E!Calls] : T \in SUBSET E!Slots}
  BY <1>4, BatchFact
<1> HIDE DEF E!Read, E!Pending
<1>6. HandsTyped' /\ \A q \in E!Procs \ {r} : Same(q)
  <2>1. HandsTyped'
    BY <1>1, <1>2, <1>3, <1>5 DEF EventsInv, HandsTyped
  <2>2. \A q \in E!Procs \ {r} : Same(q)
    BY <1>1, <1>2, <1>3 DEF EventsInv, HandsTyped, Same
  <2> QED BY <2>1, <2>2
<1>7. /\ batch'[r] = E!Read(S) /\ pc'[r] = (IF S # {} THEN "claim" ELSE "prepare") /\ left'[r] = {}
  BY <1>1, <1>2, <1>3 DEF EventsInv, HandsTyped
<1>8. peeks' \in 0 .. MaxPeeks
  BY <1>1, EventNames DEF EventsInv, BooksTyped
<1> QED BY <1>1, <1>3, <1>6, <1>7, <1>8, ReadsKeep

\* A reader prepares its batch from what is pending, or ends.
LEMMA PrepareKeeps ==
  ASSUME EventsInv, \A r, s \in Readers : r = s, NEW r \in Readers, E!Prepare(r)
  PROVE  EventsInv'
<1>1. /\ UNCHANGED <<dir, tmp, text, calls, peeks, crashes, keyOf, stored, told, dropped, spoilt>>
      /\ pc[r] = "prepare"
  BY DEF E!Prepare, E!files, E!hist
<1>2. r \in E!Procs /\ r \notin Hooks /\ DOMAIN batch[r] = {} /\ left[r] = {}
  BY <1>1, EventNames DEF EventsInv, Draining
<1>3. CASE E!Ends(r)
  <2>1. /\ HandsTyped' /\ \A q \in E!Procs \ {r} : Same(q)
        /\ pc'[r] = "idle" /\ file'[r] = None /\ DOMAIN batch'[r] = {} /\ left'[r] = {}
    BY <1>1, <1>2, <1>3, HandsEnd DEF EventsInv
  <2>2. \A x \in Readers : Draining(x)'
    BY <2>1 DEF Draining
  <2>3. Given' /\ BooksTyped' /\ calls <= calls'
    BY <1>1, EventNames, GivenStays DEF SlotsStay, Of, EventsInv, BooksTyped
  <2>4. E!MarkedIsTold'
    BY <1>1, <1>2, <2>1 DEF EventsInv, E!MarkedIsTold
  <2>5. Saving(r)'
    BY <1>2, <2>1, RestSaves
  <2> QED BY <1>1, <1>2, <2>1, <2>2, <2>3, <2>4, <2>5, FilesRest
<1>4. ASSUME NEW S \in SUBSET E!Pending, batch' = [batch EXCEPT ![r] = E!Read(S)],
             pc' = [pc EXCEPT ![r] = "claim"], UNCHANGED <<file, fd, body, seen, busy, left>>
      PROVE  EventsInv'
  <2>1. \A s \in S : s \in E!Slots /\ Of(s) \in E!Body
    BY <1>4 DEF E!Pending, EventsInv, Published
  <2>2. E!Read(S) \in UNION {[T -> E!Calls] : T \in SUBSET E!Slots}
    BY <2>1, BatchFact
  <2> HIDE DEF E!Read, E!Pending
  <2>3. HandsTyped'
    BY <1>1, <1>2, <1>4, <2>2 DEF EventsInv, HandsTyped
  <2>4. \A q \in E!Procs \ {r} : Same(q)
    BY <1>2, <1>4 DEF EventsInv, HandsTyped, Same
  <2>5. batch'[r] = E!Read(S) /\ pc'[r] = "claim" /\ left'[r] = {}
    BY <1>2, <1>4 DEF EventsInv, HandsTyped
  <2>6. peeks' \in 0 .. MaxPeeks
    BY <1>1 DEF EventsInv, BooksTyped
  <2> QED BY <1>1, <1>2, <1>4, <2>3, <2>4, <2>5, <2>6, ReadsKeep
<1>5. E!Pending \intersect seen[r] \in SUBSET E!Pending
  OBVIOUS
<1> QED BY <1>3, <1>4, <1>5 DEF E!Prepare, E!Goto

\* A reader claims what of its batch is pending still.
LEMMA ClaimKeeps ==
  ASSUME EventsInv, \A r, s \in Readers : r = s, NEW r \in Readers, E!Claim(r)
  PROVE  EventsInv'
<1> DEFINE S == DOMAIN batch[r] \intersect E!Pending
<1>1. /\ UNCHANGED <<dir, tmp, text, file, fd, body, seen, busy, calls, peeks, crashes, keyOf,
                     stored, told, dropped, spoilt>>
      /\ pc[r] = "claim" /\ pc' = [pc EXCEPT ![r] = "mark"]
      /\ batch' = [batch EXCEPT ![r] = E!Read(S)] /\ left' = [left EXCEPT ![r] = S]
  BY DEF E!Claim, E!files, E!hist, E!Goto
<1>2. r \in E!Procs /\ S \subseteq E!Pending /\ \A s \in S : s \in E!Slots /\ Of(s) \in E!Body
  BY EventNames DEF E!Pending, EventsInv, Published
<1>3. E!Read(S) \in UNION {[T -> E!Calls] : T \in SUBSET E!Slots} /\ S \subseteq E!Slots
  BY <1>2, BatchFact
<1> HIDE DEF E!Read, E!Pending, S
<1>4. HandsTyped'
  BY <1>1, <1>2, <1>3 DEF EventsInv, HandsTyped
<1>5. \A q \in E!Procs \ {r} : Same(q)
  BY <1>1, <1>2 DEF EventsInv, HandsTyped, Same
<1>6. batch'[r] = E!Read(S) /\ pc'[r] = "mark" /\ left'[r] = S
  BY <1>1, <1>2 DEF EventsInv, HandsTyped
<1>7. peeks' \in 0 .. MaxPeeks
  BY <1>1 DEF EventsInv, BooksTyped
<1> QED BY <1>1, <1>2, <1>4, <1>5, <1>6, <1>7, ReadsKeep

\* A reader takes up the next event of its batch, which can be read.
LEMMA MarkKeeps ==
  ASSUME EventsInv, NEW r \in Readers, E!Mark(r)
  PROVE  EventsInv'
<1>1. /\ UNCHANGED <<dir, tmp, text, calls, peeks, crashes, keyOf, stored, told, dropped>>
      /\ pc[r] = "mark" /\ r \in E!Procs /\ r \notin Hooks
  BY EventNames DEF E!Mark, E!files
<1>2. PICK s \in left[r] :
        \/ /\ Of(s) \in E!Body /\ E!Saves(r, s, [Of(s) EXCEPT !.is = "delivered"])
           /\ UNCHANGED <<fd, seen, busy, batch, left, spoilt>>
        \/ Of(s) \notin E!Body
  BY DEF E!Mark, Of
<1>3. s \in E!Slots /\ dir[s] # None /\ Of(s) \in E!Body
  BY <1>1 DEF EventsInv, Draining, Published, HandsTyped
<1>4. /\ [Of(s) EXCEPT !.is = "delivered"] = [event |-> Of(s).event, is |-> "delivered"]
      /\ [event |-> Of(s).event, is |-> "delivered"] \in E!Body
  BY <1>3 DEF E!Body
<1>5. /\ HandsTyped' /\ \A q \in E!Procs \ {r} : Same(q)
      /\ pc'[r] = "open" /\ file'[r] = s /\ body'[r] = [event |-> Of(s).event, is |-> "delivered"]
      /\ batch'[r] = batch[r] /\ left'[r] = left[r]
  BY <1>1, <1>2, <1>3, <1>4, SavesFacts DEF EventsInv
<1>6. spoilt' = spoilt /\ SlotsStay
  BY <1>1, <1>2, <1>3 DEF SlotsStay, Of
<1>7. (\A x \in Readers : Draining(x)') /\ E!MarkedIsTold' /\ Given'
  <2>1. \A x \in Readers : /\ batch'[x] = batch[x] /\ left'[x] = left[x]
                           /\ pc'[x] = pc[x] \/ {pc[x], pc'[x]} \subseteq {"mark", "open", "write", "replace"}
    BY <1>1, <1>5, EventNames DEF Same
  <2> QED BY <1>1, <1>6, <2>1, DrainsOn, GivenStays
<1>8. Saving(r)'
  <2>1. Marking(r)'
    BY <1>1, <1>2, <1>5 DEF Marking, Of
  <2> QED BY <1>1, <1>3, <1>4, <1>5, <2>1 DEF Saving
<1>9. BooksTyped' /\ calls <= calls'
  BY <1>1, <1>6, EventNames DEF EventsInv, BooksTyped
<1> QED BY <1>1, <1>5, <1>7, <1>8, <1>9, FilesRest

\* What a reader is through with is marked, and was given to nobody yet.
LEMMA ThroughFacts ==
  ASSUME EventsInv, NEW r \in Readers, pc[r] = "mark", left[r] = {}
  PROVE  /\ E!Events(r) \subseteq E!Calls
         /\ \A c \in E!Events(r) :
              /\ told[c] = 0 /\ c \notin dropped
              /\ \E s \in E!Slots : dir[s] # None /\ Of(s) = [event |-> c, is |-> "delivered"]
         /\ \A s \in DOMAIN batch[r] : Of(s).event \in E!Events(r)
<1>1. \A s \in DOMAIN batch[r] :
        /\ s \in E!Slots /\ batch[r][s] \in E!Calls
        /\ dir[s] # None /\ batch[r][s] = Of(s).event /\ Of(s) \in E!Body /\ Of(s).is = "delivered"
        /\ told[Of(s).event] = 0 /\ Of(s).event \notin dropped
  <2> SUFFICES ASSUME NEW s \in DOMAIN batch[r]
               PROVE  /\ s \in E!Slots /\ batch[r][s] \in E!Calls
                      /\ dir[s] # None /\ batch[r][s] = Of(s).event
                      /\ Of(s) \in E!Body /\ Of(s).is = "delivered"
                      /\ told[Of(s).event] = 0 /\ Of(s).event \notin dropped
    OBVIOUS
  <2>1. s \in E!Slots /\ batch[r][s] \in E!Calls
    BY EventNames DEF EventsInv, HandsTyped
  <2>2. /\ dir[s] # None /\ batch[r][s] = Of(s).event /\ Of(s).is = "delivered"
        /\ told[Of(s).event] = 0 /\ Of(s).event \notin dropped
    BY DEF EventsInv, Draining
  <2> QED BY <2>1, <2>2 DEF EventsInv, Published
<1>2. \A s \in DOMAIN batch[r] : Of(s) = [event |-> batch[r][s], is |-> "delivered"]
  BY <1>1 DEF E!Body
<1> QED BY <1>1, <1>2 DEF E!Events

\* The discarded are dropped.
LEMMA DropKeeps ==
  ASSUME EventsInv, \A r, s \in Readers : r = s, NEW r \in Readers, E!Drop(r)
  PROVE  EventsInv'
<1>1. /\ UNCHANGED <<dir, tmp, text, file, fd, body, seen, left, calls, peeks, crashes, keyOf,
                     stored, told, spoilt>>
      /\ pc[r] = "mark" /\ left[r] = {} /\ dropped' = dropped \union E!Events(r)
      /\ busy' = [busy EXCEPT ![r] = FALSE] /\ batch' = [batch EXCEPT ![r] = E!Nothing]
      /\ pc' = [pc EXCEPT ![r] = "prepare"]
  BY DEF E!Drop, E!files, E!Goto
<1>2. r \in E!Procs /\ r \notin Hooks
  BY EventNames
<1>3. /\ E!Events(r) \subseteq E!Calls
      /\ \A c \in E!Events(r) :
           /\ told[c] = 0 /\ c \notin dropped
           /\ \E s \in E!Slots : dir[s] # None /\ Of(s) = [event |-> c, is |-> "delivered"]
      /\ \A s \in DOMAIN batch[r] : Of(s).event \in E!Events(r)
  BY <1>1, ThroughFacts
<1>4. DOMAIN E!Nothing = {} /\ E!Nothing \in UNION {[S -> E!Calls] : S \in SUBSET E!Slots}
  <2>1. E!Nothing \in [{} -> E!Calls] /\ {} \in SUBSET E!Slots
    BY DEF E!Nothing
  <2> QED BY <2>1
<1> HIDE DEF E!Nothing, E!Events
<1>5. HandsTyped' /\ \A q \in E!Procs \ {r} : Same(q)
  <2>1. HandsTyped'
    BY <1>1, <1>2, <1>4 DEF EventsInv, HandsTyped
  <2>2. \A q \in E!Procs \ {r} : Same(q)
    BY <1>1, <1>2 DEF EventsInv, HandsTyped, Same
  <2> QED BY <2>1, <2>2
<1>6. DOMAIN batch'[r] = {} /\ left'[r] = {} /\ pc'[r] = "prepare"
  BY <1>1, <1>2, <1>4 DEF EventsInv, HandsTyped
<1>7. \A x \in Readers : Draining(x)'
  BY <1>6 DEF Draining
<1>8. Given'
  BY <1>1, <1>3 DEF EventsInv, Given, Of
<1>9. E!MarkedIsTold'
  <2> SUFFICES ASSUME NEW s \in E!Slots, dir[s] # None, Of(s).is = "delivered"
               PROVE  told[Of(s).event] > 0 \/ Of(s).event \in dropped' \/ Of(s).event \in spoilt
    BY <1>1 DEF E!MarkedIsTold, Of
  <2>1. \/ told[Of(s).event] > 0 \/ Of(s).event \in dropped \/ Of(s).event \in spoilt
        \/ s \in DOMAIN batch[r]
    BY DEF EventsInv, E!MarkedIsTold, Of
  <2> QED BY <1>1, <1>3, <2>1
<1>10. BooksTyped' /\ calls <= calls'
  <2>1. dropped' \subseteq E!Calls
    BY <1>1, <1>3 DEF EventsInv, BooksTyped
  <2> QED BY <1>1, <2>1, EventNames DEF EventsInv, BooksTyped
<1>11. Saving(r)'
  BY <1>2, <1>6, RestSaves
<1> QED BY <1>1, <1>2, <1>5, <1>7, <1>8, <1>9, <1>10, <1>11, FilesRest

\* The others are told.
LEMMA DrainTells ==
  ASSUME EventsInv, \A r, s \in Readers : r = s, NEW r \in Readers, E!Tell(r)
  PROVE  EventsInv'
<1>1. /\ UNCHANGED <<dir, tmp, text, calls, peeks, crashes, keyOf, stored, dropped, spoilt>>
      /\ pc[r] = "mark" /\ left[r] = {} /\ E!Ends(r)
      /\ told' = [c \in E!Calls |-> told[c] + (IF c \in E!Events(r) THEN 1 ELSE 0)]
  BY DEF E!Tell, E!files
<1>2. r \in E!Procs /\ r \notin Hooks
  BY EventNames
<1>3. /\ E!Events(r) \subseteq E!Calls
      /\ \A c \in E!Events(r) :
           /\ told[c] = 0 /\ c \notin dropped
           /\ \E s \in E!Slots : dir[s] # None /\ Of(s) = [event |-> c, is |-> "delivered"]
      /\ \A s \in DOMAIN batch[r] : Of(s).event \in E!Events(r)
  BY <1>1, ThroughFacts
<1> HIDE DEF E!Events
<1>4. /\ HandsTyped' /\ \A q \in E!Procs \ {r} : Same(q)
      /\ pc'[r] = "idle" /\ file'[r] = None /\ DOMAIN batch'[r] = {} /\ left'[r] = {}
  BY <1>1, <1>2, HandsEnd DEF EventsInv
<1>5. /\ told' \in [E!Calls -> Nat]
      /\ \A c \in E!Events(r) : told'[c] = 1
      /\ \A c \in E!Calls \ E!Events(r) : told'[c] = told[c]
  <2>1. told \in [E!Calls -> Nat]
    BY DEF EventsInv, BooksTyped
  <2>2. \A c \in E!Calls : told'[c] = (IF c \in E!Events(r) THEN told[c] + 1 ELSE told[c]) /\ told'[c] \in Nat
    BY <1>1, <2>1
  <2> QED BY <1>1, <1>3, <2>1, <2>2
<1>6. \A x \in Readers : Draining(x)'
  BY <1>4 DEF Draining
<1>7. Given'
  <2> SUFFICES ASSUME NEW c \in E!Calls
               PROVE  /\ told'[c] <= 1 /\ (c \in dropped => told'[c] = 0)
                      /\ told'[c] > 0 \/ c \in dropped =>
                           \E s \in E!Slots : dir[s] # None /\ Of(s) = [event |-> c, is |-> "delivered"]
    BY <1>1 DEF Given, Of
  <2>1. CASE c \in E!Events(r)
    BY <1>3, <1>5, <2>1
  <2>2. CASE c \notin E!Events(r)
    BY <1>5, <2>2 DEF EventsInv, Given
  <2> QED BY <2>1, <2>2
<1>8. E!MarkedIsTold'
  <2> SUFFICES ASSUME NEW s \in E!Slots, dir[s] # None, Of(s).is = "delivered"
               PROVE  told'[Of(s).event] > 0 \/ Of(s).event \in dropped \/ Of(s).event \in spoilt
    BY <1>1 DEF E!MarkedIsTold, Of
  <2>1. \/ told[Of(s).event] > 0 \/ Of(s).event \in dropped \/ Of(s).event \in spoilt
        \/ s \in DOMAIN batch[r]
    BY DEF EventsInv, E!MarkedIsTold, Of
  <2>2. Of(s).event \in E!Calls
    BY DEF EventsInv, Published, E!Body
  <2>3. CASE Of(s).event \in E!Events(r)
    BY <1>5, <2>3
  <2>4. CASE Of(s).event \notin E!Events(r)
    BY <1>3, <1>5, <2>1, <2>2, <2>4
  <2> QED BY <2>3, <2>4
<1>9. BooksTyped' /\ calls <= calls'
  BY <1>1, <1>5, EventNames DEF EventsInv, BooksTyped
<1>10. Saving(r)'
  BY <1>2, <1>4, RestSaves
<1> QED BY <1>1, <1>2, <1>4, <1>6, <1>7, <1>8, <1>9, <1>10, FilesRest

\* A process that dies leaves the files, and spoils what it had claimed.
LEMMA DeathKeeps ==
  ASSUME EventsInv, \A r, s \in Readers : r = s, NEW p \in E!Procs, E!Crash(p)
  PROVE  EventsInv'
<1>1. /\ UNCHANGED <<dir, tmp, text, calls, peeks, keyOf, stored, told, dropped>>
      /\ crashes < MaxCrashes /\ crashes' = crashes + 1 /\ E!Ends(p)
      /\ spoilt' = IF pc[p] = "claim" THEN spoilt ELSE spoilt \union E!Events(p)
  BY DEF E!Crash, E!files
<1>2. /\ HandsTyped' /\ \A q \in E!Procs \ {p} : Same(q)
      /\ pc'[p] = "idle" /\ file'[p] = None /\ DOMAIN batch'[p] = {} /\ left'[p] = {}
  BY <1>1, HandsEnd DEF EventsInv
<1>3. E!Events(p) \subseteq E!Calls
  <2>1. \A s \in DOMAIN batch[p] : batch[p][s] \in E!Calls
    BY DEF EventsInv, HandsTyped
  <2> QED BY <2>1 DEF E!Events
<1>4. \A x \in Readers : Draining(x)'
  <2> SUFFICES ASSUME NEW x \in Readers PROVE Draining(x)'
    OBVIOUS
  <2>1. CASE x = p
    BY <1>2, <2>1 DEF Draining
  <2>2. CASE x # p
    <3>1. Draining(x) /\ batch'[x] = batch[x] /\ left'[x] = left[x] /\ pc'[x] = pc[x]
      BY <1>2, <2>2, EventNames DEF EventsInv, Same
    <3> QED BY <1>1, <3>1 DEF Draining, Of
  <2> QED BY <2>1, <2>2
<1>5. E!MarkedIsTold'
  <2> SUFFICES ASSUME NEW s \in E!Slots, dir[s] # None, Of(s).is = "delivered"
               PROVE  \/ told[Of(s).event] > 0 \/ Of(s).event \in dropped \/ Of(s).event \in spoilt'
                      \/ \E x \in Readers : s \in DOMAIN batch'[x] \ left'[x]
    BY <1>1 DEF E!MarkedIsTold, Of
  <2>1. CASE \E x \in Readers : s \in DOMAIN batch[x] \ left[x]
    <3>1. PICK x \in Readers : s \in DOMAIN batch[x] \ left[x]
      BY <2>1
    <3>2. CASE x # p
      BY <1>2, <3>1, <3>2, EventNames DEF Same
    <3>3. CASE x = p
      <4>1. pc[p] # "claim" /\ batch[p][s] = Of(s).event
        BY <3>1, <3>3 DEF EventsInv, Draining
      <4>2. batch[p][s] \in E!Events(p)
        BY <3>1, <3>3 DEF E!Events
      <4> QED BY <1>1, <4>1, <4>2
    <3> QED BY <3>2, <3>3
  <2>2. CASE told[Of(s).event] > 0 \/ Of(s).event \in dropped \/ Of(s).event \in spoilt
    BY <1>1, <2>2
  <2> QED BY <2>1, <2>2 DEF EventsInv, E!MarkedIsTold, Of
<1>6. Given'
  BY <1>1, GivenStays DEF SlotsStay, Of
<1>7. BooksTyped' /\ calls <= calls'
  <2>1. spoilt' \subseteq E!Calls
    BY <1>1, <1>3 DEF EventsInv, BooksTyped
  <2> QED BY <1>1, <2>1, EventNames DEF EventsInv, BooksTyped
<1>8. Saving(p)'
  BY <1>2, RestSaves
<1> QED BY <1>1, <1>2, <1>4, <1>5, <1>6, <1>7, <1>8, FilesRest

-----------------------------------------------------------------------------
(* The steps that write files.                                              *)

\* The file a process has open is of no event, and nobody else has it open.
LEMMA OpenFacts ==
  ASSUME EventsInv, \A r, s \in Readers : r = s, NEW p \in E!Procs, pc[p] \in {"open", "write", "replace"}
  PROVE  /\ file[p] \in E!Slots
         /\ \A s \in E!Slots : dir[s] # None => dir[s] # tmp[file[p]]
         /\ \A q \in E!Procs \ {p} : pc[q] \in {"write", "replace"} =>
              /\ file[q] \in E!Slots /\ file[q] # file[p]
              /\ fd[q] = tmp[file[q]] /\ fd[q] # None /\ fd[q] # tmp[file[p]]
<1>1. file[p] \in E!Slots
  BY DEF EventsInv, Saving
<1>2. \A s \in E!Slots : dir[s] # None => dir[s] # tmp[file[p]]
  BY <1>1 DEF EventsInv, OneName
<1>3. ASSUME NEW q \in E!Procs \ {p}, pc[q] \in {"write", "replace"}
      PROVE  /\ file[q] \in E!Slots /\ file[q] # file[p]
             /\ fd[q] = tmp[file[q]] /\ fd[q] # None /\ fd[q] # tmp[file[p]]
  <2>1. file[q] \in E!Slots /\ fd[q] = tmp[file[q]] /\ fd[q] # None
    BY <1>3 DEF EventsInv, Saving
  <2>2. file[p] # file[q]
    BY <1>3, FilesApart
  <2> QED BY <1>1, <2>1, <2>2 DEF EventsInv, OneName
<1> QED BY <1>1, <1>2, <1>3

\* What there is of the books, and of the readers, when a process opens or writes.
LEMMA WritesRest ==
  ASSUME EventsInv, NEW p \in E!Procs, pc[p] \in {"open", "write"}, pc'[p] \in {"write", "replace"}, SlotsStay,
         UNCHANGED <<calls, peeks, crashes, keyOf, stored, told, dropped, spoilt, file, body, batch, left>>,
         \A q \in E!Procs \ {p} :
           /\ pc'[q] = pc[q] /\ fd'[q] = fd[q]
           /\ pc[q] \in {"write", "replace"} => tmp'[file[q]] = tmp[file[q]] /\ text'[fd[q]] = text[fd[q]],
         FilesTyped', HandsTyped', OneName', Saving(p)'
  PROVE  EventsInv'
<1>1. /\ BooksTyped' /\ calls \in Nat /\ calls <= calls'
      /\ \A q \in E!Procs \ {p} : Same(q)
  BY EventNames DEF EventsInv, BooksTyped, Same
<1>2. (\A r \in Readers : Draining(r)') /\ E!MarkedIsTold' /\ Given'
  <2>1. \A r \in Readers : pc'[r] = pc[r] \/ {pc[r], pc'[r]} \subseteq {"mark", "open", "write", "replace"}
    BY EventNames
  <2> QED BY <2>1, DrainsOn, GivenStays
<1>3. Published' /\ Stored'
  BY <1>1, PublishedStays, StoredStays
<1>4. ASSUME NEW q \in E!Procs \ {p} PROVE Saving(q)'
  BY <1>1, SavesOn
<1> QED BY <1>1, <1>2, <1>3, <1>4 DEF EventsInv

\* A file is opened: a new one, or what an earlier writer of the event left.
LEMMA OpenKeeps ==
  ASSUME EventsInv, \A r, s \in Readers : r = s, NEW p \in E!Procs, E!Open(p)
  PROVE  EventsInv'
<1> DEFINE s == file[p]
           i == IF tmp[s] = None THEN Len(text) + 1 ELSE tmp[s]
<1>1. /\ UNCHANGED <<dir, file, body, seen, busy, batch, left, calls, peeks, crashes, keyOf, stored,
                     told, dropped, spoilt>>
      /\ pc[p] = "open" /\ pc' = [pc EXCEPT ![p] = "write"]
      /\ text' = IF tmp[s] = None THEN Append(text, E!Blank) ELSE [text EXCEPT ![tmp[s]] = E!Blank]
      /\ tmp' = [tmp EXCEPT ![s] = IF tmp[s] = None THEN Len(text') ELSE tmp[s]]
      /\ fd' = [fd EXCEPT ![p] = tmp'[s]]
  BY DEF E!Open, E!hist, E!Goto
<1>2. /\ s \in E!Slots /\ \A x \in E!Slots : dir[x] # None => dir[x] # tmp[s]
      /\ \A q \in E!Procs \ {p} : pc[q] \in {"write", "replace"} =>
           /\ file[q] \in E!Slots /\ file[q] # s
           /\ fd[q] = tmp[file[q]] /\ fd[q] # None /\ fd[q] # tmp[s]
  BY <1>1, OpenFacts
<1>3. /\ text \in Seq(E!Text) /\ Len(text) \in Nat /\ DOMAIN text = 1 .. Len(text)
      /\ E!Blank \in E!Text /\ tmp \in [E!Slots -> DOMAIN text \union {None}] /\ None \notin Nat
      /\ dir \in [E!Slots -> DOMAIN text \union {None}]
      /\ fd \in [E!Procs -> DOMAIN text \union {None}]
      /\ pc \in [E!Procs -> {"idle", "open", "write", "replace", "prepare", "claim", "mark"}]
  <2>1. text \in Seq(E!Text) /\ E!Blank \in E!Text /\ None \notin Nat
    BY EventNames DEF EventsInv, FilesTyped
  <2>2. Len(text) \in Nat /\ DOMAIN text = 1 .. Len(text)
    BY <2>1, LenProperties
  <2> QED BY <2>1, <2>2 DEF EventsInv, FilesTyped, HandsTyped
<1>4. /\ text' \in Seq(E!Text) /\ DOMAIN text \subseteq DOMAIN text' /\ i \in DOMAIN text'
      /\ text'[i] = E!Blank /\ \A x \in DOMAIN text \ {i} : text'[x] = text[x]
      /\ tmp' = [tmp EXCEPT ![s] = i] /\ i # None
  <2>1. CASE tmp[s] = None
    <3>1. text' = Append(text, E!Blank) /\ i = Len(text) + 1
      BY <1>1, <2>1
    <3>2. /\ text' \in Seq(E!Text) /\ Len(text') = Len(text) + 1
          /\ text'[Len(text) + 1] = E!Blank /\ \A x \in 1 .. Len(text) : text'[x] = text[x]
      BY <1>3, <3>1, AppendProperties
    <3>3. DOMAIN text' = 1 .. Len(text) + 1
      BY <3>2, LenProperties
    <3> HIDE DEF i
    <3>4. i \in DOMAIN text' /\ DOMAIN text \subseteq DOMAIN text' /\ i # None
      BY <1>3, <3>1, <3>3
    <3>5. tmp' = [tmp EXCEPT ![s] = i]
      BY <1>1, <2>1, <3>1, <3>2
    <3> QED BY <1>3, <3>1, <3>2, <3>4, <3>5
  <2>2. CASE tmp[s] # None
    <3>1. i = tmp[s] /\ i \in 1 .. Len(text) /\ text' = [text EXCEPT ![i] = E!Blank]
      BY <1>1, <1>2, <1>3, <2>2
    <3> HIDE DEF i
    <3>2. /\ text' \in Seq(E!Text) /\ Len(text') = Len(text)
          /\ \A x \in 1 .. Len(text) : text'[x] = IF x = i THEN E!Blank ELSE text[x]
      BY <1>3, <3>1, ExceptSeq
    <3>3. DOMAIN text' = 1 .. Len(text)
      BY <3>2, LenProperties
    <3> QED BY <1>1, <1>3, <2>2, <3>1, <3>2, <3>3
  <2> QED BY <2>1, <2>2
<1>5. /\ \A x \in E!Slots : (dir[x] # None => dir[x] # i) /\ (x # s /\ tmp[x] # None => tmp[x] # i)
      /\ \A q \in E!Procs \ {p} : pc[q] \in {"write", "replace"} => fd[q] # i
  <2>1. i = tmp[s] \/ i = Len(text) + 1
    OBVIOUS
  <2>2. CASE i = tmp[s]
    BY <1>2, <1>4, <2>2 DEF EventsInv, OneName
  <2>3. CASE i = Len(text) + 1
    <3>1. i \notin DOMAIN text
      BY <1>3, <2>3
    <3> QED BY <1>2, <1>3, <3>1
  <2> QED BY <2>1, <2>2, <2>3
<1> HIDE DEF s, i
<1>6. SlotsStay
  BY <1>1, <1>3, <1>4, <1>5 DEF SlotsStay, Of
<1>7. FilesTyped'
  BY <1>1, <1>2, <1>3, <1>4 DEF FilesTyped
<1>8. /\ tmp'[s] = i /\ fd'[p] = i /\ pc'[p] = "write" /\ s = file[p]
      /\ \A x \in E!Slots \ {s} : tmp'[x] = tmp[x]
      /\ \A q \in E!Procs \ {p} : pc'[q] = pc[q] /\ fd'[q] = fd[q]
  BY <1>1, <1>2, <1>3, <1>4 DEF s
<1>9. HandsTyped'
  <2>1. fd' \in [E!Procs -> DOMAIN text' \union {None}]
    BY <1>1, <1>3, <1>4, <1>8
  <2>2. pc' \in [E!Procs -> {"idle", "open", "write", "replace", "prepare", "claim", "mark"}]
    BY <1>1, <1>3
  <2> QED BY <1>1, <2>1, <2>2 DEF EventsInv, HandsTyped
<1>10. OneName'
  BY <1>1, <1>2, <1>4, <1>5, <1>8 DEF EventsInv, OneName
<1>11. Saving(p)'
  <2>1. Saving(p)
    BY DEF EventsInv
  <2>2. p \in Hooks => Numbered(p)'
    <3> SUFFICES ASSUME p \in Hooks PROVE Numbered(p)'
      OBVIOUS
    <3>1. Numbered(p)
      BY <1>1, <2>1 DEF Saving
    <3> QED BY <1>1, <1>6, <3>1 DEF Numbered, SlotsStay
  <2>3. p \notin Hooks => Marking(p)'
    <3> SUFFICES ASSUME p \notin Hooks PROVE Marking(p)'
      OBVIOUS
    <3>1. Marking(p) /\ p \in Readers
      BY <1>1, <2>1, EventNames DEF Saving
    <3>2. s \in DOMAIN batch[p] /\ dir[s] # None
      BY <1>8, <3>1 DEF Marking, EventsInv, Draining
    <3> QED BY <1>1, <1>2, <1>6, <1>8, <3>1, <3>2 DEF Marking, SlotsStay
  <2>4. file'[p] \in E!Slots /\ body'[p] \in E!Body
    BY <1>1, <2>1 DEF Saving
  <2> QED BY <1>1, <1>4, <1>8, <2>2, <2>3, <2>4 DEF Saving
<1>12. \A q \in E!Procs \ {p} :
         /\ pc'[q] = pc[q] /\ fd'[q] = fd[q]
         /\ pc[q] \in {"write", "replace"} => tmp'[file[q]] = tmp[file[q]] /\ text'[fd[q]] = text[fd[q]]
  BY <1>2, <1>3, <1>4, <1>5, <1>8
<1>13. pc[p] \in {"open", "write"} /\ pc'[p] \in {"write", "replace"}
  BY <1>1, <1>8
<1> QED BY <1>1, <1>6, <1>7, <1>9, <1>10, <1>11, <1>12, <1>13, WritesRest

\* It is written, and holds the whole text, for nothing was in it.
LEMMA WriteFileKeeps ==
  ASSUME EventsInv, \A r, s \in Readers : r = s, NEW p \in E!Procs, E!Write(p)
  PROVE  EventsInv'
<1> DEFINE i == fd[p]
<1>1. /\ UNCHANGED <<dir, tmp, file, fd, body, seen, busy, batch, left, calls, peeks, crashes, keyOf,
                     stored, told, dropped, spoilt>>
      /\ pc[p] = "write" /\ pc' = [pc EXCEPT ![p] = "replace"]
  BY DEF E!Write, E!hist, E!Goto
<1>2. /\ text[i] = E!Blank /\ i = tmp[file[p]] /\ i # None /\ body[p] \in E!Body
  BY <1>1 DEF EventsInv, Saving
<1>3. text' = [text EXCEPT ![i] = body[p]]
  BY <1>2 DEF E!Write
<1>4. /\ \A s \in E!Slots : dir[s] # None => dir[s] # i
      /\ \A q \in E!Procs \ {p} : pc[q] \in {"write", "replace"} => fd[q] # i
  BY <1>1, <1>2, OpenFacts
<1>5. /\ text' \in Seq(E!Text) /\ DOMAIN text' = DOMAIN text /\ text'[i] = body[p]
      /\ \A x \in DOMAIN text \ {i} : text'[x] = text[x]
  <2>1. /\ text \in Seq(E!Text) /\ body[p] \in E!Text /\ DOMAIN text = 1 .. Len(text)
        /\ i \in 1 .. Len(text)
    <3>1. text \in Seq(E!Text) /\ body[p] \in E!Text /\ i \in DOMAIN text
      BY <1>2, EventNames DEF EventsInv, FilesTyped, HandsTyped
    <3> QED BY <3>1, LenProperties
  <2>2. /\ text' \in Seq(E!Text) /\ Len(text') = Len(text)
        /\ \A x \in 1 .. Len(text) : text'[x] = IF x = i THEN body[p] ELSE text[x]
    BY <1>3, <2>1, ExceptSeq
  <2> QED BY <2>1, <2>2, LenProperties
<1>6. /\ dir \in [E!Slots -> DOMAIN text \union {None}]
      /\ fd \in [E!Procs -> DOMAIN text \union {None}]
      /\ pc \in [E!Procs -> {"idle", "open", "write", "replace", "prepare", "claim", "mark"}]
  BY DEF EventsInv, FilesTyped, HandsTyped
<1> HIDE DEF i
<1>7. SlotsStay
  BY <1>1, <1>4, <1>5, <1>6 DEF SlotsStay, Of
<1>8. FilesTyped' /\ OneName'
  BY <1>1, <1>5 DEF EventsInv, FilesTyped, OneName
<1>9. HandsTyped'
  BY <1>1, <1>5, <1>6 DEF EventsInv, HandsTyped
<1>10. pc'[p] = "replace" /\ \A q \in E!Procs \ {p} : pc'[q] = pc[q]
  BY <1>1, <1>6
<1>11. Saving(p)'
  <2>1. Saving(p)
    BY DEF EventsInv
  <2>2. p \in Hooks => Numbered(p)'
    <3> SUFFICES ASSUME p \in Hooks PROVE Numbered(p)'
      OBVIOUS
    <3>1. Numbered(p)
      BY <1>1, <2>1 DEF Saving
    <3> QED BY <1>1, <1>7, <3>1 DEF Numbered, SlotsStay
  <2>3. p \notin Hooks => Marking(p)'
    <3> SUFFICES ASSUME p \notin Hooks PROVE Marking(p)'
      OBVIOUS
    <3>1. Marking(p) /\ p \in Readers
      BY <1>1, <2>1, EventNames DEF Saving
    <3>2. file[p] \in DOMAIN batch[p] /\ dir[file[p]] # None /\ file[p] \in E!Slots
      BY <1>1, <2>1, <3>1 DEF Marking, EventsInv, Draining, Saving
    <3> QED BY <1>1, <1>7, <3>1, <3>2 DEF Marking, SlotsStay
  <2> QED BY <1>1, <1>2, <1>5, <1>10, <2>1, <2>2, <2>3 DEF Saving, i
<1>12. \A q \in E!Procs \ {p} : pc[q] \in {"write", "replace"} => text'[fd[q]] = text[fd[q]]
  <2> SUFFICES ASSUME NEW q \in E!Procs \ {p}, pc[q] \in {"write", "replace"}
               PROVE  text'[fd[q]] = text[fd[q]]
    OBVIOUS
  <2>1. fd[q] # None /\ fd[q] # i
    BY <1>4 DEF EventsInv, Saving
  <2> QED BY <1>5, <1>6, <2>1
<1> QED BY <1>1, <1>7, <1>8, <1>9, <1>10, <1>11, <1>12, WritesRest

\* A new event is published, which nobody has.
LEMMA NewEvent ==
  ASSUME EventsInv, NEW n \in E!Slots, NEW c \in E!Calls, dir[n] = None, dir'[n] # None,
         Of(n)' = E!New(c), \A s \in E!Slots \ {n} : dir'[s] = dir[s] /\ (dir[s] # None => Of(s)' = Of(s)),
         calls <= calls', c <= calls', calls' \in Nat,
         keyOf'[c] = IF n \in Keys THEN n ELSE None, \A d \in E!Calls \ {c} : keyOf'[d] = keyOf[d],
         \A s \in E!Slots : dir[s] # None => Of(s).event # c,
         stored' = stored \union {c}, UNCHANGED <<told, dropped, spoilt>>,
         \A r \in Readers : Same(r)
  PROVE  Published' /\ Given' /\ Stored' /\ E!MarkedIsTold' /\ \A r \in Readers : Draining(r)'
<1>1. /\ E!New(c) \in E!Body /\ E!New(c).event = c /\ E!New(c).is = "pending"
      /\ None \notin Keys /\ calls \in Nat /\ E!Calls \subseteq Nat
  BY EventNames DEF E!New, E!Body, EventsInv, BooksTyped, E!Slots
<1> HIDE DEF E!New
<1>2. \A s \in E!Slots : dir[s] # None => s # n /\ dir'[s] # None /\ Of(s)' = Of(s)
  OBVIOUS
<1>3. ASSUME NEW s \in E!Slots, dir[s] # None
      PROVE  /\ Of(s)' \in E!Body /\ Of(s)'.event \in E!Calls \ {c} /\ Of(s)'.event <= calls'
             /\ keyOf'[Of(s)'.event] = IF s \in Keys THEN s ELSE None
  <2>1. /\ Of(s) \in E!Body /\ Of(s).event \in E!Calls /\ Of(s).event <= calls
        /\ keyOf[Of(s).event] = IF s \in Keys THEN s ELSE None
    BY <1>3 DEF EventsInv, Published, E!Body
  <2>2. Of(s).event # c /\ Of(s).event \in Nat
    BY <1>1, <1>3, <2>1
  <2> QED BY <1>1, <1>2, <1>3, <2>1, <2>2
<1>4. Published'
  <2>1. \A s, t \in E!Slots : dir[s] # None /\ dir[t] # None /\ Of(t).event = Of(s).event => t = s
    BY DEF EventsInv, Published
  <2>2. \A s \in E!Slots : dir'[s] # None => s = n \/ dir[s] # None
    OBVIOUS
  <2> QED BY <1>1, <1>2, <1>3, <2>1, <2>2 DEF Published
<1>5. Given'
  BY <1>2 DEF EventsInv, Given
<1>6. E!MarkedIsTold'
  <2> SUFFICES ASSUME NEW s \in E!Slots, dir'[s] # None, Of(s)'.is = "delivered"
               PROVE  \/ told[Of(s)'.event] > 0 \/ Of(s)'.event \in dropped \/ Of(s)'.event \in spoilt
                      \/ \E r \in Readers : s \in DOMAIN batch'[r] \ left'[r]
    BY DEF E!MarkedIsTold, Of
  <2>1. s # n /\ dir[s] # None /\ Of(s)' = Of(s)
    BY <1>1
  <2>2. \/ told[Of(s).event] > 0 \/ Of(s).event \in dropped \/ Of(s).event \in spoilt
        \/ \E r \in Readers : s \in DOMAIN batch[r] \ left[r]
    BY <2>1 DEF EventsInv, E!MarkedIsTold, Of
  <2> QED BY <2>1, <2>2 DEF Same
<1>7. ASSUME NEW r \in Readers PROVE Draining(r)'
  <2>1. Draining(r) /\ batch'[r] = batch[r] /\ left'[r] = left[r] /\ pc'[r] = pc[r]
    BY DEF EventsInv, Same
  <2>2. DOMAIN batch[r] \subseteq E!Slots
    BY EventNames DEF EventsInv, HandsTyped
  <2> QED BY <1>2, <2>1, <2>2 DEF Draining
<1>8. Stored'
  <2> SUFFICES ASSUME NEW d \in E!Calls
               PROVE  /\ d > calls' => keyOf'[d] = None
                      /\ d \in stored \union {c} =>
                           IF keyOf'[d] = None THEN \E s \in E!Slots : dir'[s] # None /\ Of(s)'.event = d
                                               ELSE dir'[keyOf'[d]] # None
    BY DEF Stored
  <2>1. CASE d = c
    <3>1. ~(d > calls')
      BY <1>1, <2>1
    <3> QED BY <1>1, <2>1, <3>1
  <2>2. CASE d # c
    <3>1. d > calls' => d > calls
      BY <1>1
    <3>2. keyOf[d] # None => keyOf[d] \in E!Slots
      BY EventNames DEF EventsInv, BooksTyped
    <3>3. /\ d > calls => keyOf[d] = None
          /\ d \in stored => IF keyOf[d] = None THEN \E s \in E!Slots : dir[s] # None /\ Of(s).event = d
                                                ELSE dir[keyOf[d]] # None
      BY DEF EventsInv, Stored
    <3> QED BY <1>2, <2>2, <3>1, <3>2, <3>3
  <2> QED BY <2>1, <2>2
<1> QED BY <1>4, <1>5, <1>6, <1>7, <1>8

\* An event is published under a key, or its key is there already.
LEMMA PersistKeyedKeeps ==
  ASSUME EventsInv, NEW h \in Hooks, NEW k \in Keys, E!PersistKeyed(h, k)
  PROVE  EventsInv'
<1> DEFINE c == calls + 1
<1>1. /\ UNCHANGED <<tmp, pc, file, fd, body, seen, busy, batch, left, peeks, crashes, told, dropped,
                     spoilt>>
      /\ pc[h] = "idle" /\ calls < MaxEvents /\ calls' = c /\ E!Link(c, k)
      /\ keyOf' = [keyOf EXCEPT ![c] = k] /\ stored' = stored \union {c}
  BY DEF E!PersistKeyed, E!proc
<1>2. /\ calls \in Nat /\ c \in E!Calls /\ c > calls /\ h \in E!Procs /\ k \in E!Slots /\ k \notin Nat
      /\ c \in Nat /\ calls <= c /\ E!Calls \subseteq Nat /\ \A x \in 1 .. calls : x # c /\ x \in E!Calls
  BY <1>1, EventNames DEF EventsInv, BooksTyped
<1> HIDE DEF c
<1>3. /\ keyOf' \in [E!Calls -> Keys \union {None}] /\ keyOf'[c] = k
      /\ \A d \in E!Calls \ {c} : keyOf'[d] = keyOf[d]
  BY <1>1, <1>2 DEF EventsInv, BooksTyped
<1>4. BooksTyped'
  BY <1>1, <1>2, <1>3, EventNames DEF EventsInv, BooksTyped
<1>5. \A q \in E!Procs : Same(q)
  BY <1>1 DEF Same
<1>6. \A s \in E!Slots : dir[s] # None => Of(s).event # c /\ Of(s).event \in E!Calls
  <2> SUFFICES ASSUME NEW s \in E!Slots, dir[s] # None PROVE Of(s).event # c /\ Of(s).event \in E!Calls
    OBVIOUS
  <2>1. Of(s).event <= calls /\ Of(s).event \in E!Calls
    BY DEF EventsInv, Published, E!Body
  <2> QED BY <1>2, <2>1
<1>7. Saving(h)'
  BY <1>1 DEF Saving
<1>8. CASE dir[k] # None /\ UNCHANGED <<dir, text>>
  <2>1. SlotsStay
    BY <1>8 DEF SlotsStay, Of
  <2>2. FilesTyped' /\ HandsTyped' /\ OneName'
    BY <1>1, <1>8 DEF EventsInv, FilesTyped, HandsTyped, OneName
  <2>3. Published'
    <3> SUFFICES ASSUME NEW s \in E!Slots, dir[s] # None
                 PROVE  /\ Of(s) \in E!Body /\ Of(s).event <= c
                        /\ keyOf'[Of(s).event] = IF s \in Keys THEN s ELSE None
                        /\ \A t \in E!Slots : dir[t] # None /\ Of(t).event = Of(s).event => t = s
      BY <1>1, <1>8 DEF Published, Of
    <3>1. /\ Of(s) \in E!Body /\ Of(s).event <= calls
          /\ keyOf[Of(s).event] = IF s \in Keys THEN s ELSE None
          /\ \A t \in E!Slots : dir[t] # None /\ Of(t).event = Of(s).event => t = s
      BY DEF EventsInv, Published
    <3>2. Of(s).event \in Nat /\ Of(s).event # c /\ Of(s).event \in E!Calls
      BY <1>2, <1>6
    <3> QED BY <1>2, <1>3, <3>1, <3>2
  <2>4. Stored'
    <3> SUFFICES ASSUME NEW d \in E!Calls
                 PROVE  /\ d > c => keyOf'[d] = None
                        /\ d \in stored \union {c} =>
                             IF keyOf'[d] = None THEN \E s \in E!Slots : dir[s] # None /\ Of(s).event = d
                                                 ELSE dir[keyOf'[d]] # None
      BY <1>1, <1>8 DEF Stored, Of
    <3>1. CASE d = c
      BY <1>2, <1>3, <1>8, <3>1, EventNames
    <3>2. CASE d # c
      <4>1. d > c => d > calls
        BY <1>2
      <4> QED BY <1>3, <3>2, <4>1 DEF EventsInv, Stored
    <3> QED BY <3>1, <3>2
  <2>5. (\A r \in Readers : Draining(r)') /\ E!MarkedIsTold' /\ Given'
    BY <1>1, <2>1, DrainsOn, GivenStays
  <2>6. ASSUME NEW q \in E!Procs \ {h} PROVE Saving(q)'
    <3>1. Numbered(q) =>
            dir'[file[q]] = None /\ \A s \in E!Slots : dir'[s] # None => Of(s)'.event # body[q].event
      BY <2>1 DEF Numbered, SlotsStay
    <3>2. \A s \in E!Slots : dir[s] # None => Of(s)' = Of(s)
      BY <2>1 DEF SlotsStay
    <3> QED BY <1>1, <1>2, <1>3, <1>5, <1>8, <3>1, <3>2, SavesStill
  <2> QED BY <1>4, <1>7, <2>2, <2>3, <2>4, <2>5, <2>6 DEF EventsInv
<1>9. CASE dir[k] = None /\ text' = Append(text, E!New(c)) /\ dir' = [dir EXCEPT ![k] = Len(text')]
  <2>1. /\ text \in Seq(E!Text) /\ Len(text) \in Nat /\ DOMAIN text = 1 .. Len(text)
        /\ E!New(c) \in E!Text
    <3>1. text \in Seq(E!Text)
      BY DEF EventsInv, FilesTyped
    <3>2. E!New(c) \in E!Text
      BY <1>2, EventNames DEF E!New, E!Body
    <3> QED BY <3>1, <3>2, LenProperties
  <2>2. /\ text' \in Seq(E!Text) /\ Len(text') = Len(text) + 1
        /\ text'[Len(text) + 1] = E!New(c) /\ \A x \in 1 .. Len(text) : text'[x] = text[x]
    BY <1>9, <2>1, AppendProperties
  <2>3. /\ DOMAIN text' = 1 .. Len(text) + 1 /\ DOMAIN text \subseteq DOMAIN text'
        /\ Len(text) + 1 \in DOMAIN text' /\ Len(text) + 1 \notin DOMAIN text
        /\ Len(text) + 1 # None
    <3>1. DOMAIN text' = 1 .. Len(text) + 1
      BY <2>2, LenProperties
    <3> QED BY <2>1, <3>1, EventNames
  <2>4. /\ dir \in [E!Slots -> DOMAIN text \union {None}] /\ tmp \in [E!Slots -> DOMAIN text \union {None}]
        /\ fd \in [E!Procs -> DOMAIN text \union {None}]
    BY DEF EventsInv, FilesTyped, HandsTyped
  <2> DEFINE i == Len(text) + 1
  <2>5. /\ dir'[k] = i /\ i # None /\ \A s \in E!Slots \ {k} : dir'[s] = dir[s]
        /\ \A s \in E!Slots : dir[s] # i /\ tmp[s] # i
    BY <1>2, <1>9, <2>2, <2>3, <2>4
  <2>6. /\ Of(k)' = E!New(c) /\ \A s \in E!Slots \ {k} : dir[s] # None => Of(s)' = Of(s)
    BY <2>1, <2>2, <2>4, <2>5 DEF Of
  <2>7. FilesTyped'
    <3>1. i \in DOMAIN text' /\ DOMAIN text \subseteq DOMAIN text'
      BY <2>3
    <3> HIDE DEF i
    <3>2. dir' \in [E!Slots -> DOMAIN text' \union {None}]
      BY <1>2, <1>9, <2>4, <2>5, <3>1
    <3> QED BY <1>1, <2>2, <2>4, <3>1, <3>2 DEF FilesTyped
  <2> HIDE DEF i
  <2>8. HandsTyped'
    <3>1. fd' \in [E!Procs -> DOMAIN text' \union {None}]
      BY <1>1, <2>3, <2>4
    <3> QED BY <1>1, <3>1 DEF EventsInv, HandsTyped
  <2>9. OneName'
    BY <1>1, <2>5 DEF EventsInv, OneName
  <2>10. Published' /\ Given' /\ Stored' /\ E!MarkedIsTold' /\ \A r \in Readers : Draining(r)'
    <3>1. /\ dir'[k] # None /\ \A s \in E!Slots \ {k} : dir'[s] = dir[s] /\ (dir[s] # None => Of(s)' = Of(s))
          /\ keyOf'[c] = (IF k \in Keys THEN k ELSE None) /\ Of(k)' = E!New(c)
      BY <1>3, <2>5, <2>6
    <3>2. calls <= calls' /\ c <= calls' /\ calls' \in Nat /\ \A r \in Readers : Same(r)
      BY <1>1, <1>2, <1>5, EventNames
    <3>3. \A s \in E!Slots : dir[s] # None => Of(s).event # c
      BY <1>6
    <3> QED BY <1>1, <1>2, <1>3, <1>9, <3>1, <3>2, <3>3, NewEvent
  <2>11. ASSUME NEW q \in E!Procs \ {h} PROVE Saving(q)'
    <3>1. ASSUME q \in Hooks, pc[q] \in {"open", "write", "replace"}, Numbered(q)
          PROVE  dir'[file[q]] = None /\ \A s \in E!Slots : dir'[s] # None => Of(s)'.event # body[q].event
      <4>1. file[q] \in Nat /\ file[q] \in E!Slots /\ body[q].event \in E!Calls /\ body[q].event <= calls
        <5>1. body[q] \in E!Body
          BY <3>1 DEF EventsInv, Saving
        <5> QED BY <3>1, <5>1, EventNames DEF Numbered, E!Body
      <4>2. body[q].event # c /\ file[q] # k
        BY <1>2, <4>1
      <4>3. \A s \in E!Slots : dir[s] # None => Of(s).event # body[q].event
        BY <3>1 DEF Numbered
      <4>4. Of(k)'.event = c
        BY <2>6 DEF E!New
      <4>5. \A s \in E!Slots \ {k} : dir'[s] # None => Of(s)'.event # body[q].event
        BY <2>5, <2>6, <4>3
      <4> QED BY <2>5, <3>1, <4>1, <4>2, <4>4, <4>5 DEF Numbered
    <3>2. \A s \in E!Slots : dir[s] # None => Of(s)' = Of(s)
      BY <1>9, <2>6
    <3>3. pc[q] \in {"write", "replace"} => text'[fd[q]] = text[fd[q]]
      BY <2>1, <2>2, <2>4 DEF EventsInv, Saving
    <3>4. /\ calls <= calls' /\ calls' \in Nat /\ \A x \in 1 .. calls : keyOf'[x] = keyOf[x]
      BY <1>1, <1>2, <1>3
    <3>5. CASE pc[q] \in {"open", "write", "replace"}
      BY <1>1, <1>2, <1>5, <3>1, <3>2, <3>3, <3>4, <3>5, SavesStill
    <3>6. CASE pc[q] \notin {"open", "write", "replace"}
      BY <1>1, <3>6 DEF EventsInv, Saving
    <3> QED BY <3>5, <3>6
  <2> QED BY <1>4, <1>7, <2>7, <2>8, <2>9, <2>10, <2>11 DEF EventsInv
<1> QED BY <1>1, <1>8, <1>9 DEF E!Link

\* The rename: the event is there, or is marked.
LEMMA ReplaceFacts ==
  ASSUME EventsInv, \A r, s \in Readers : r = s, NEW p \in E!Procs, E!Replace(p), NEW n, n = file[p]
  PROVE  /\ UNCHANGED <<text, calls, peeks, crashes, keyOf, told, dropped, spoilt>>
         /\ pc[p] = "replace" /\ n \in E!Slots /\ body[p] \in E!Body
         /\ dir'[n] # None /\ Of(n)' = body[p]
         /\ \A s \in E!Slots \ {n} : dir'[s] = dir[s] /\ Of(s)' = Of(s)
         /\ FilesTyped' /\ OneName'
         /\ \A q \in E!Procs \ {p} : pc[q] \in {"write", "replace"} => tmp'[file[q]] = tmp[file[q]]
         /\ \/ p \in Hooks /\ stored' = stored \union {body[p].event} /\ E!Ends(p)
            \/ /\ p \in Readers /\ pc' = [pc EXCEPT ![p] = "mark"]
               /\ left' = [left EXCEPT ![p] = @ \ {n}]
               /\ UNCHANGED <<file, fd, body, seen, busy, batch, stored>>
<1>1. /\ UNCHANGED <<text, calls, peeks, crashes, keyOf, told, dropped>> /\ pc[p] = "replace"
  BY DEF E!Replace
<1>2. /\ n \in E!Slots /\ body[p] \in E!Body /\ fd[p] = tmp[n] /\ fd[p] # None
      /\ text[fd[p]] = body[p]
  BY <1>1 DEF EventsInv, Saving
<1>3. /\ dir' = [dir EXCEPT ![n] = tmp[n]] /\ tmp' = [tmp EXCEPT ![n] = None] /\ spoilt' = spoilt
      /\ \/ p \in Hooks /\ stored' = stored \union {body[p].event} /\ E!Ends(p)
         \/ /\ p \in Readers /\ pc' = [pc EXCEPT ![p] = "mark"]
            /\ left' = [left EXCEPT ![p] = @ \ {n}]
            /\ UNCHANGED <<file, fd, body, seen, busy, batch, stored>>
  BY <1>2 DEF E!Replace, E!Goto
<1>4. /\ dir \in [E!Slots -> DOMAIN text \union {None}] /\ tmp \in [E!Slots -> DOMAIN text \union {None}]
      /\ text \in Seq(E!Text)
  BY DEF EventsInv, FilesTyped
<1>5. \A q \in E!Procs \ {p} : pc[q] \in {"write", "replace"} => file[q] # n
  BY <1>1, OpenFacts
<1>6. /\ dir'[n] = tmp[n] /\ tmp'[n] = None
      /\ \A s \in E!Slots \ {n} : dir'[s] = dir[s] /\ tmp'[s] = tmp[s]
  BY <1>2, <1>3, <1>4
<1>7. FilesTyped'
  BY <1>1, <1>2, <1>3, <1>4 DEF FilesTyped
<1>8. OneName'
  BY <1>2, <1>6 DEF EventsInv, OneName
<1>9. Of(n)' = body[p] /\ \A s \in E!Slots \ {n} : Of(s)' = Of(s)
  <2>1. text' = text /\ dir'[n] = fd[p]
    BY <1>1, <1>2, <1>6
  <2>2. Of(n)' = text[fd[p]]
    BY <2>1 DEF Of
  <2>3. ASSUME NEW s \in E!Slots \ {n} PROVE Of(s)' = Of(s)
    <3>1. dir'[s] = dir[s]
      BY <1>6
    <3> QED BY <2>1, <3>1 DEF Of
  <2> QED BY <1>2, <2>2, <2>3
<1>10. \A q \in E!Procs \ {p} : pc[q] \in {"write", "replace"} => tmp'[file[q]] = tmp[file[q]]
  BY <1>5, <1>6 DEF EventsInv, Saving
<1> QED BY <1>1, <1>2, <1>3, <1>6, <1>7, <1>8, <1>9, <1>10

\* A hook has stored its event.
LEMMA StoreKeeps ==
  ASSUME EventsInv, \A r, s \in Readers : r = s, NEW h \in Hooks, E!Replace(h)
  PROVE  EventsInv'
<1>0. PICK n, c : n = file[h] /\ c = body[h].event
  OBVIOUS
<1>1. h \in E!Procs /\ h \notin Readers
  BY EventNames
<1>2. /\ UNCHANGED <<text, calls, peeks, crashes, keyOf, told, dropped, spoilt>>
      /\ pc[h] = "replace" /\ n \in E!Slots /\ body[h] \in E!Body
      /\ dir'[n] # None /\ Of(n)' = body[h]
      /\ \A s \in E!Slots \ {n} : dir'[s] = dir[s] /\ Of(s)' = Of(s)
      /\ FilesTyped' /\ OneName'
      /\ \A q \in E!Procs \ {h} : pc[q] \in {"write", "replace"} => tmp'[file[q]] = tmp[file[q]]
      /\ stored' = stored \union {c} /\ E!Ends(h)
  BY <1>0, <1>1, ReplaceFacts
<1>3. Numbered(h)
  BY <1>1, <1>2 DEF EventsInv, Saving
<1>4. /\ HandsTyped' /\ \A q \in E!Procs \ {h} : Same(q)
      /\ pc'[h] = "idle" /\ file'[h] = None
  BY <1>1, <1>2, HandsEnd DEF EventsInv
<1>5. /\ n \in 1 .. MaxId /\ dir[n] = None /\ c \in E!Calls /\ c <= calls /\ keyOf[c] = None
      /\ body[h] = E!New(c) /\ \A s \in E!Slots : dir[s] # None => Of(s).event # c
      /\ \A g \in Hooks : file[g] \in Nat => g = h
  BY <1>0, <1>2, <1>3 DEF Numbered, E!Body, E!New
<1>6. n \notin Keys /\ n \in Nat /\ calls \in Nat
  BY <1>5, EventNames DEF EventsInv, BooksTyped
<1>7. Published' /\ Given' /\ Stored' /\ E!MarkedIsTold' /\ \A r \in Readers : Draining(r)'
  <2>1. \A r \in Readers : Same(r)
    BY <1>1, <1>4, EventNames
  <2>2. calls <= calls' /\ c <= calls' /\ calls' \in Nat /\ keyOf'[c] = IF n \in Keys THEN n ELSE None
    BY <1>2, <1>5, <1>6
  <2>3. Of(n)' = E!New(c) /\ \A s \in E!Slots : dir[s] # None => Of(s).event # c
    BY <1>2, <1>5
  <2>4. /\ n \in E!Slots /\ c \in E!Calls /\ dir[n] = None /\ dir'[n] # None
        /\ \A s \in E!Slots \ {n} : dir'[s] = dir[s] /\ (dir[s] # None => Of(s)' = Of(s))
    BY <1>2, <1>5
  <2>5. (\A d \in E!Calls \ {c} : keyOf'[d] = keyOf[d]) /\ stored' = stored \union {c}
    BY <1>2
  <2>6. UNCHANGED <<told, dropped, spoilt>>
    BY <1>2
  <2> QED BY <2>1, <2>2, <2>3, <2>4, <2>5, <2>6, NewEvent
<1>8. BooksTyped'
  <2>1. stored' \subseteq E!Calls
    BY <1>2, <1>5 DEF EventsInv, BooksTyped
  <2> QED BY <1>2, <2>1 DEF EventsInv, BooksTyped
<1>9. ASSUME NEW q \in E!Procs \ {h} PROVE Saving(q)'
  <2>1. q \in Hooks => ~Numbered(q)
    <3>1. file[h] \in Nat
      BY <1>0, <1>6
    <3> QED BY <3>1 DEF Numbered
  <2>2. \A s \in E!Slots : dir[s] # None => Of(s)' = Of(s)
    BY <1>2, <1>5
  <2>3. calls <= calls' /\ calls' \in Nat
    BY <1>2, <1>6
  <2> QED BY <1>1, <1>2, <1>4, <2>1, <2>2, <2>3, SavesStill
<1>10. Saving(h)'
  BY <1>1, <1>4, RestSaves
<1> QED BY <1>2, <1>4, <1>7, <1>8, <1>9, <1>10 DEF EventsInv

\* A reader has marked an event, which it has yet to tell.
LEMMA MarkedKeeps ==
  ASSUME EventsInv, \A r, s \in Readers : r = s, NEW r \in Readers, E!Replace(r)
  PROVE  EventsInv'
<1>0. PICK n : n = file[r]
  OBVIOUS
<1>1. r \in E!Procs /\ r \notin Hooks
  BY EventNames
<1>2. /\ UNCHANGED <<text, calls, peeks, crashes, keyOf, told, dropped, spoilt>>
      /\ pc[r] = "replace" /\ n \in E!Slots /\ body[r] \in E!Body
      /\ dir'[n] # None /\ Of(n)' = body[r]
      /\ \A s \in E!Slots \ {n} : dir'[s] = dir[s] /\ Of(s)' = Of(s)
      /\ FilesTyped' /\ OneName'
      /\ \A q \in E!Procs \ {r} : pc[q] \in {"write", "replace"} => tmp'[file[q]] = tmp[file[q]]
      /\ pc' = [pc EXCEPT ![r] = "mark"] /\ left' = [left EXCEPT ![r] = @ \ {n}]
      /\ UNCHANGED <<file, fd, body, seen, busy, batch, stored>>
  BY <1>0, <1>1, ReplaceFacts
<1>3. /\ n \in left[r] /\ body[r] = [event |-> Of(n).event, is |-> "delivered"] /\ Draining(r)
  BY <1>0, <1>1, <1>2 DEF EventsInv, Saving, Marking
<1>4. /\ pc'[r] = "mark" /\ left'[r] = left[r] \ {n}
      /\ \A q \in E!Procs \ {r} : pc'[q] = pc[q] /\ left'[q] = left[q]
  BY <1>1, <1>2 DEF EventsInv, HandsTyped
<1>5. HandsTyped' /\ BooksTyped'
  BY <1>2 DEF EventsInv, HandsTyped, BooksTyped
<1>6. \A q \in E!Procs \ {r} : Same(q)
  BY <1>2, <1>4 DEF Same
<1>7. /\ dir[n] # None /\ Of(n).is = "pending" /\ Of(n)'.event = Of(n).event
      /\ Of(n)'.is = "delivered" /\ n \in DOMAIN batch[r]
      /\ \A s \in E!Slots : (dir'[s] # None <=> dir[s] # None) /\ Of(s)'.event = Of(s).event
  <2>1. n \in DOMAIN batch[r]
    BY <1>3 DEF Draining
  <2>2. dir[n] # None /\ Of(n).is = "pending"
    BY <1>3, <2>1 DEF Draining
  <2>3. Of(n)' = [event |-> Of(n).event, is |-> "delivered"]
    BY <1>2, <1>3
  <2>4. Of(n)'.event = Of(n).event /\ Of(n)'.is = "delivered"
    BY <2>3
  <2>5. ASSUME NEW s \in E!Slots
        PROVE  (dir'[s] # None <=> dir[s] # None) /\ Of(s)'.event = Of(s).event
    <3>1. CASE s = n
      BY <1>2, <2>2, <2>4, <3>1
    <3>2. CASE s # n
      BY <1>2, <3>2
    <3> QED BY <3>1, <3>2
  <2> QED BY <2>1, <2>2, <2>4, <2>5
<1>8. Published'
  <2>1. ASSUME NEW s \in E!Slots, dir'[s] # None PROVE Of(s)' \in E!Body
    <3>1. CASE s = n
      BY <1>2, <3>1
    <3>2. CASE s # n
      BY <1>2, <2>1, <3>2 DEF EventsInv, Published
    <3> QED BY <3>1, <3>2
  <2>2. \A s \in E!Slots : dir[s] # None =>
          /\ Of(s).event <= calls /\ keyOf[Of(s).event] = IF s \in Keys THEN s ELSE None
          /\ \A t \in E!Slots : dir[t] # None /\ Of(t).event = Of(s).event => t = s
    BY DEF EventsInv, Published
  <2> QED BY <1>2, <1>7, <2>1, <2>2 DEF Published
<1>9. Stored'
  <2>1. \A c \in E!Calls : keyOf[c] # None => keyOf[c] \in E!Slots
    BY EventNames DEF EventsInv, BooksTyped
  <2>2. \A c \in E!Calls :
          /\ c > calls => keyOf[c] = None
          /\ c \in stored => IF keyOf[c] = None THEN \E s \in E!Slots : dir[s] # None /\ Of(s).event = c
                                                ELSE dir[keyOf[c]] # None
    BY DEF EventsInv, Stored
  <2> QED BY <1>2, <1>7, <2>1, <2>2 DEF Stored
<1>10. Given'
  <2>1. \A c \in E!Calls, s \in E!Slots : dir[s] # None /\ Of(s) = [event |-> c, is |-> "delivered"] =>
          dir'[s] # None /\ Of(s)' = [event |-> c, is |-> "delivered"]
    BY <1>2, <1>7
  <2> QED BY <1>2, <2>1 DEF EventsInv, Given
<1>11. \A x \in Readers : Draining(x)'
  <2> SUFFICES Draining(r)'
    OBVIOUS
  <2>1. DOMAIN batch[r] \subseteq E!Slots
    BY <1>1 DEF EventsInv, HandsTyped
  <2>2. ASSUME NEW s \in DOMAIN batch[r]
        PROVE  /\ dir'[s] # None /\ batch'[r][s] = Of(s)'.event
               /\ told'[Of(s)'.event] = 0 /\ Of(s)'.event \notin dropped'
               /\ Of(s)'.is = IF s \in left'[r] THEN "pending" ELSE "delivered"
    <3>1. /\ s \in E!Slots /\ dir[s] # None /\ batch[r][s] = Of(s).event
          /\ told[Of(s).event] = 0 /\ Of(s).event \notin dropped
          /\ Of(s).is = IF s \in left[r] THEN "pending" ELSE "delivered"
      BY <1>2, <1>3, <2>1 DEF Draining
    <3>2. dir'[s] # None /\ Of(s)'.event = Of(s).event /\ batch' = batch /\ told' = told /\ dropped' = dropped
      BY <1>2, <1>7, <3>1
    <3>3. Of(s)'.is = IF s \in left'[r] THEN "pending" ELSE "delivered"
      <4>1. CASE s = n
        BY <1>4, <1>7, <4>1
      <4>2. CASE s # n
        <5>1. Of(s)' = Of(s) /\ (s \in left'[r] <=> s \in left[r])
          BY <1>2, <1>4, <3>1, <4>2
        <5> QED BY <3>1, <5>1
      <4> QED BY <4>1, <4>2
    <3> QED BY <3>1, <3>2, <3>3
  <2>3. left'[r] \subseteq DOMAIN batch'[r] /\ pc'[r] = "mark"
    BY <1>2, <1>3, <1>4 DEF Draining
  <2>4. batch' = batch
    BY <1>2
  <2> QED BY <2>2, <2>3, <2>4 DEF Draining
<1>12. E!MarkedIsTold'
  <2> SUFFICES ASSUME NEW s \in E!Slots, dir'[s] # None, Of(s)'.is = "delivered"
               PROVE  \/ told'[Of(s)'.event] > 0 \/ Of(s)'.event \in dropped' \/ Of(s)'.event \in spoilt'
                      \/ \E x \in Readers : s \in DOMAIN batch'[x] \ left'[x]
    BY DEF E!MarkedIsTold, Of
  <2>1. CASE s = n
    BY <1>2, <1>4, <1>7, <2>1
  <2>2. CASE s # n
    <3>1. Of(s)' = Of(s) /\ dir[s] # None
      BY <1>2, <1>7, <2>2
    <3>2. \/ told[Of(s).event] > 0 \/ Of(s).event \in dropped \/ Of(s).event \in spoilt
          \/ s \in DOMAIN batch[r] \ left[r]
      BY <3>1 DEF EventsInv, E!MarkedIsTold, Of
    <3> QED BY <1>2, <1>4, <3>1, <3>2
  <2> QED BY <2>1, <2>2
<1>13. Saving(r)'
  BY <1>1, <1>4, RestSaves
<1>14. ASSUME NEW q \in E!Procs \ {r} PROVE Saving(q)'
  <2>1. q \notin Readers
    OBVIOUS
  <2>2. Numbered(q) =>
          dir'[file[q]] = None /\ \A s \in E!Slots : dir'[s] # None => Of(s)'.event # body[q].event
    <3> SUFFICES ASSUME Numbered(q)
                 PROVE  /\ dir'[file[q]] = None
                        /\ \A s \in E!Slots : dir'[s] # None => Of(s)'.event # body[q].event
      OBVIOUS
    <3>1. file[q] \in E!Slots /\ dir[file[q]] = None
      BY EventNames DEF Numbered
    <3> QED BY <1>7, <3>1 DEF Numbered
  <2>3. calls <= calls' /\ calls' \in Nat
    BY <1>2, EventNames DEF EventsInv, BooksTyped
  <2> QED BY <1>1, <1>2, <1>6, <2>1, <2>2, <2>3, SavesStill
<1> QED BY <1>2, <1>5, <1>8, <1>9, <1>10, <1>11, <1>12, <1>13, <1>14 DEF EventsInv

-----------------------------------------------------------------------------
(* Throughout.                                                              *)

\* Every step of the store keeps the invariant.
LEMMA EventsStep ==
  ASSUME Serial, EventsInv, \A r, s \in Readers : r = s, E!Next
  PROVE  EventsInv'
<1>1. \A p \in E!Procs : E!Step(p) => EventsInv'
  <2> SUFFICES ASSUME NEW p \in E!Procs, E!Step(p) PROVE EventsInv'
    OBVIOUS
  <2>1. p \in Hooks \/ p \in Readers
    BY EventNames
  <2> QED BY <2>1, OpenKeeps, WriteFileKeeps, StoreKeeps, MarkedKeeps, DeathKeeps DEF E!Step
<1>2. \A h \in Hooks : h \in E!Procs
  BY EventNames
<1>3. \A r \in Readers : r \in E!Procs
  BY EventNames
<1>4. ASSUME NEW h \in Hooks, E!Persist(h) \/ E!Step(h) \/ \E k \in Keys : E!PersistKeyed(h, k)
      PROVE  EventsInv'
  BY <1>1, <1>2, <1>4, PersistKeeps, PersistKeyedKeeps
<1>5. ASSUME NEW r \in Readers,
             \/ E!Peek(r) \/ E!Prepare(r) \/ E!Claim(r) \/ E!Mark(r) \/ E!Drop(r) \/ E!Tell(r)
             \/ E!Step(r)
      PROVE  EventsInv'
  BY <1>1, <1>3, <1>5, PeekKeeps, PrepareKeeps, ClaimKeeps, MarkKeeps, DropKeeps, DrainTells
<1> QED BY <1>4, <1>5 DEF E!Next

\* The events' part of the instance.
LEMMA EventsOnly ==
  /\ LInit => E!Init
  /\ [LNext]_all => subject' = subject /\ (subject = "events" => [E!Next]_E!vars)
                    /\ (subject # "events" => UNCHANGED E!vars)
BY DEF LInit, LNext, all, events, E!vars, E!files, E!proc, E!hist

\* There is no event.
LEMMA EventsBegin ==
  ASSUME E!Init
  PROVE  EventsInv
<1>1. /\ dir = [s \in E!Slots |-> None] /\ tmp = [s \in E!Slots |-> None] /\ text = <<>>
      /\ pc = [p \in E!Procs |-> "idle"] /\ file = [p \in E!Procs |-> None]
      /\ fd = [p \in E!Procs |-> None] /\ body = [p \in E!Procs |-> E!Blank]
      /\ seen = [p \in E!Procs |-> {}] /\ busy = [p \in E!Procs |-> FALSE]
      /\ batch = [p \in E!Procs |-> E!Nothing] /\ left = [p \in E!Procs |-> {}]
      /\ calls = 0 /\ peeks = 0 /\ crashes = 0 /\ keyOf = [c \in E!Calls |-> None] /\ stored = {}
      /\ told = [c \in E!Calls |-> 0] /\ dropped = {} /\ spoilt = {}
  BY DEF E!Init
<1>2. DOMAIN E!Nothing = {} /\ E!Nothing \in UNION {[S -> E!Calls] : S \in SUBSET E!Slots}
  <2>1. E!Nothing \in [{} -> E!Calls] /\ {} \in SUBSET E!Slots
    BY DEF E!Nothing
  <2> QED BY <2>1
<1> HIDE DEF E!Nothing
<1>3. FilesTyped /\ OneName /\ Published
  BY <1>1 DEF FilesTyped, OneName, Published
<1>4. HandsTyped
  BY <1>1, <1>2 DEF HandsTyped
<1>5. BooksTyped
  BY <1>1, EventNames DEF BooksTyped
<1>6. \A p \in E!Procs : Saving(p)
  BY <1>1 DEF Saving
<1>7. \A r \in Readers : Draining(r)
  BY <1>1, <1>2, EventNames DEF Draining
<1>8. Given /\ Stored /\ E!MarkedIsTold
  BY <1>1 DEF Given, Stored, E!MarkedIsTold
<1> QED BY <1>3, <1>4, <1>5, <1>6, <1>7, <1>8 DEF EventsInv

\* A step of something else changes nothing of it.
LEMMA EventsRest ==
  ASSUME EventsInv, UNCHANGED E!vars
  PROVE  EventsInv'
<1>1. UNCHANGED <<dir, tmp, text, pc, file, fd, body, seen, busy, batch, left, calls, peeks, crashes,
                  keyOf, stored, told, dropped, spoilt>>
  BY DEF E!vars, E!files, E!proc, E!hist
<1>2. FilesTyped' /\ HandsTyped' /\ BooksTyped' /\ OneName'
  BY <1>1 DEF EventsInv, FilesTyped, HandsTyped, BooksTyped, OneName
<1>3. \A p \in E!Procs : Saving(p)'
  BY <1>1 DEF EventsInv, Saving, Numbered, Marking, Of
<1>4. SlotsStay /\ calls \in Nat
  BY <1>1, EventNames DEF SlotsStay, Of, EventsInv, BooksTyped
<1>5. Published' /\ Given' /\ Stored'
  BY <1>1, <1>4, PublishedStays, GivenStays, StoredStays
<1>6. (\A r \in Readers : Draining(r)') /\ E!MarkedIsTold'
  BY <1>1, <1>4, DrainsOn
<1> QED BY <1>2, <1>3, <1>5, <1>6 DEF EventsInv

\* The invariant holds throughout, where one reader drains at a time.
LEMMA EventsInvariance ==
  Serial /\ (\A r, s \in Readers : r = s) => (LSpec => [](subject = "events" => EventsInv))
<1> SUFFICES ASSUME Serial, \A r, s \in Readers : r = s
             PROVE  LSpec => [](subject = "events" => EventsInv)
  OBVIOUS
<1>1. LInit => (subject = "events" => EventsInv)
  BY EventsOnly, EventsBegin
<1>2. (subject = "events" => EventsInv) /\ [LNext]_all => (subject = "events" => EventsInv)'
  BY EventsOnly, EventsStep, EventsRest
<1> QED BY <1>1, <1>2, PTL DEF LSpec

\* A stored event is not lost, nor its file torn, whatever is killed and whoever drains, if
\* no two hooks number an event at once: then a number is one nobody else writes, and what
\* is left behind its temporary name is truncated before it is published.
THEOREM EventsSurvive == Serial /\ (\A r, s \in Readers : r = s) => (LSpec => []Survives)
<1>1. (subject = "events" => EventsInv) => Survives
  <2> SUFFICES ASSUME EventsInv PROVE E!Survives
    BY DEF Survives
  <2>1. \A s \in E!Slots : dir[s] # None => Of(s) \in E!Body /\ Of(s).event \in E!Held
    BY DEF EventsInv, Published, E!Held, Of
  <2>2. ASSUME NEW c \in stored
        PROVE  c \in E!Held \/ (keyOf[c] # None /\ \E d \in E!Held : keyOf[d] = keyOf[c])
    <3>1. c \in E!Calls /\ (keyOf[c] # None => keyOf[c] \in E!Slots \intersect Keys)
      BY EventNames DEF EventsInv, BooksTyped
    <3>2. IF keyOf[c] = None THEN \E s \in E!Slots : dir[s] # None /\ Of(s).event = c
                             ELSE dir[keyOf[c]] # None
      BY <3>1 DEF EventsInv, Stored
    <3>3. CASE keyOf[c] # None
      <4>1. keyOf[Of(keyOf[c]).event] = keyOf[c]
        BY <3>1, <3>2, <3>3 DEF EventsInv, Published
      <4> QED BY <2>1, <3>1, <3>2, <3>3, <4>1
    <3> QED BY <2>1, <3>2, <3>3
  <2> QED BY <2>1, <2>2 DEF E!Survives, Of
<1> QED BY <1>1, EventsInvariance, PTL

\* A destination is told of an event once at most, and never of one it dropped, nor again of
\* what was stored under the same key: it leaves the pending ones before it is told.
THEOREM EventsAreToldOnce == Serial /\ (\A r, s \in Readers : r = s) => (LSpec => []BlockOnce)
<1>1. (subject = "events" => EventsInv) => BlockOnce
  <2> SUFFICES ASSUME EventsInv PROVE E!BlockOnce
    BY DEF BlockOnce
  <2>1. ASSUME NEW c \in E!Calls, NEW d \in E!Calls, told[c] > 0, told[d] > 0, keyOf[c] = keyOf[d]
        PROVE  c = d \/ keyOf[c] = None
    <3>1. PICK s \in E!Slots : dir[s] # None /\ Of(s) = [event |-> c, is |-> "delivered"]
      BY <2>1 DEF EventsInv, Given
    <3>2. PICK t \in E!Slots : dir[t] # None /\ Of(t) = [event |-> d, is |-> "delivered"]
      BY <2>1 DEF EventsInv, Given
    <3>3. /\ keyOf[c] = IF s \in Keys THEN s ELSE None
          /\ keyOf[d] = IF t \in Keys THEN t ELSE None
      BY <3>1, <3>2 DEF EventsInv, Published
    <3>4. CASE s = t
      BY <3>1, <3>2, <3>4
    <3>5. CASE s # t
      BY <2>1, <3>3, <3>5, EventNames
    <3> QED BY <3>4, <3>5
  <2> QED BY <2>1 DEF EventsInv, Given, E!BlockOnce
<1> QED BY <1>1, EventsInvariance, PTL

\* What is marked was told, or discarded, or claimed by a drain that was killed, or is in the
\* batch of one that has yet to end: no drain ends of itself between its marks and its payload.
THEOREM MarkedEventsAreTold == Serial /\ (\A r, s \in Readers : r = s) => (LSpec => []MarkedIsTold)
<1>1. (subject = "events" => EventsInv) => MarkedIsTold
  BY DEF EventsInv, MarkedIsTold
<1> QED BY <1>1, EventsInvariance, PTL
=============================================================================
