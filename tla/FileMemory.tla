----------------------------- MODULE FileMemory -----------------------------
(***************************************************************************)
(* One crew member's memory files: memory_lifecycle.py, which prepares a   *)
(* generation of them for a launch and acknowledges its start, and         *)
(* memory_sync.step, which uploads what a session wrote, as a batch of     *)
(* compare-and-set commits, at most one new one a call.  Outside: the      *)
(* sessions edit their own root, a commit lands late or never, another     *)
(* host writes the same owner's memory, and processes die.                 *)
(***************************************************************************)
EXTENDS Naturals, Sequences, FiniteSets

CONSTANTS
  Paths,
  Procs,       \* hooks and launches under way
  MaxEdits,    \* edits of the files, here and on another host
  MaxGens,     \* generations staged
  Serial,      \* TRUE: a launch is prepared when no session and no hook runs
  None

VARIABLES
  roots,     \* generation -> its files; 0 is the configured source
  live,      \* generations a session runs on
  handed,    \* generations in a settings artifact
  remote,    \* the owner's head, which is known by the edits that led to it
  accepted, batch, receipts,   \* memory-sync.json, and the receipts beside it
  native,    \* memory-native.json
  lock, proc,
  flying,    \* commits sent, not answered
  edits,
  captured   \* history: the whole sets of files that were ever captured

mvars == <<roots, live, handed, remote, accepted, batch, receipts, native, lock, proc, flying,
           edits, captured>>
disk == <<accepted, batch, receipts, native>>

Gens == 0..MaxGens
Content == [Paths -> Nat]                    \* the files of one generation
Chain == Seq([path : Paths, text : Nat])     \* a head: the commits that led to it
Staging == [gen : Gens, head : Chain]
Hand == [pc : {"idle", "begin", "step", "capture", "freeze", "deliver", "delivered", "select"},
         prep : BOOLEAN, src : Gens \union {None}, files : Content \union {None},
         base : Chain \union {None}]
Idle == [pc |-> "idle", prep |-> FALSE, src |-> None, files |-> None, base |-> None]

MInit ==
  /\ roots = [g \in Gens |-> IF g = 0 THEN [f \in Paths |-> 0] ELSE None]
  /\ live = {0} /\ handed = {} /\ remote = <<>>
  /\ accepted = <<>> /\ batch = None /\ receipts = 0
  /\ native = [gen |-> 0, head |-> None, pending |-> None]
  /\ lock = None /\ proc = [p \in Procs |-> Idle] /\ flying = {} /\ edits = 0 /\ captured = {}

\* The files of a head; a path that was never uploaded has none.
Files(head) ==
  [f \in Paths |->
     LET S == {i \in DOMAIN head : head[i].path = f} IN
     IF S = {} THEN None ELSE head[CHOOSE i \in S : \A j \in S : j <= i].text]

At(p, pc) == proc[p].pc = pc
Goto(p, pc) == proc' = [proc EXCEPT ![p].pc = pc]
Ends(p) == proc' = [proc EXCEPT ![p] = Idle]
Frees(p) == lock' = IF lock = p THEN None ELSE lock
Quiet == \A p \in Procs : At(p, "idle")

-----------------------------------------------------------------------------
(* Outside. *)

Edit ==
  /\ edits < MaxEdits /\ edits' = edits + 1
  /\ \/ /\ \E g \in live, f \in Paths : roots' = [roots EXCEPT ![g][f] = edits + 1]
        /\ UNCHANGED remote
     \/ /\ \E f \in Paths : remote' = Append(remote, [path |-> f, text |-> edits + 1])
        /\ UNCHANGED roots
  /\ UNCHANGED <<live, handed, disk, lock, proc, flying, captured>>

\* A session starts on what was handed to it, or fails to; it ends.
Session ==
  /\ \/ \E g \in handed : live' \in {live, live \union {g}} /\ handed' = handed \ {g}
     \/ \E g \in live : live' = live \ {g} /\ UNCHANGED handed
  /\ UNCHANGED <<roots, remote, disk, lock, proc, flying, edits, captured>>

\* The server takes a commit at the head it expects.
Take(c) == remote = SubSeq(c, 1, Len(c) - 1) /\ remote' = c

Land(c) ==
  /\ Take(c) /\ flying' = flying \ {c}
  /\ UNCHANGED <<roots, live, handed, disk, lock, proc, edits, captured>>

\* A deadline, a refusal or a death: what was saved stays.
Raise(p) ==
  /\ ~At(p, "idle") /\ Ends(p) /\ Frees(p)
  /\ UNCHANGED <<roots, live, handed, remote, disk, flying, edits, captured>>

Outside == UNCHANGED <<live, remote, flying, edits>>

-----------------------------------------------------------------------------
(* A start or stop hook acknowledges its generation, then synchronizes; a   *)
(* launch synchronizes, then prepares.                                      *)

Starts(g) == native.pending # None /\ native.pending.gen = g

Hook(p, g, event) ==
  /\ At(p, "idle") /\ g \in live /\ lock = None
  /\ \/ /\ event = "start" /\ Starts(g)
        /\ native' = [gen |-> g, head |-> native.pending.head, pending |-> None]
     \/ /\ ~(event = "start" /\ Starts(g)) /\ native.gen = g /\ UNCHANGED native
  /\ Goto(p, "begin")
  /\ UNCHANGED <<roots, handed, accepted, batch, receipts, lock, captured>> /\ Outside

Launch(p) ==
  /\ At(p, "idle") /\ (Serial => live = {} /\ handed = {} /\ Quiet)
  /\ proc' = [proc EXCEPT ![p].pc = "begin", ![p].prep = TRUE]
  /\ UNCHANGED <<roots, handed, disk, lock, captured>> /\ Outside

\* Which root, under the lock, which is let go again.
Begin(p) ==
  /\ At(p, "begin") /\ lock = None
  /\ proc' = [proc EXCEPT ![p].pc = "step", ![p].src = native.gen]
  /\ UNCHANGED <<roots, handed, disk, lock, captured>> /\ Outside

-----------------------------------------------------------------------------
(* step: no source is captured while a batch is active.                     *)

Step(p) ==
  /\ At(p, "step") /\ lock = None /\ lock' = p
  /\ Goto(p, IF batch = None THEN "capture" ELSE "deliver")
  /\ UNCHANGED <<roots, handed, disk, captured>> /\ Outside

Synced(p) ==
  /\ lock' = None
  /\ IF proc[p].prep THEN Goto(p, "select") ELSE Ends(p)

\* Mutant: whatever head the remote has by now is the baseline.
AdoptedAny == TRUE
Adopted == remote = accepted

\* The remote head is the one that was accepted last, and the source is read.
Capture(p) ==
  LET files == roots[proc[p].src] IN
  /\ At(p, "capture") /\ Adopted
  /\ captured' = captured \union {files}
  /\ IF files = Files(remote)
     THEN Synced(p)
     ELSE /\ proc' = [proc EXCEPT ![p].pc = "freeze", ![p].files = files,
                                  ![p].base = remote]
          /\ UNCHANGED lock
  /\ UNCHANGED <<roots, handed, disk>> /\ Outside

\* The chain of commits from the baseline, one for each file that differs.
Freeze(p) ==
  LET files == proc[p].files
      base == proc[p].base
      changed == {f \in Paths : files[f] # Files(base)[f]} IN
  /\ At(p, "freeze")
  /\ \E order \in [1..Cardinality(changed) -> changed] :
       /\ \A f \in changed : \E i \in DOMAIN order : order[i] = f
       /\ batch' = base \o [i \in DOMAIN order |-> [path |-> order[i], text |-> files[order[i]]]]
  /\ receipts' = Len(base) /\ Goto(p, "deliver")
  /\ UNCHANGED <<roots, handed, accepted, native, lock, captured>> /\ Outside

Left == Len(batch) - receipts
Commit == SubSeq(batch, 1, receipts + 1)
Committed == Len(Commit) <= Len(remote) /\ SubSeq(remote, 1, Len(Commit)) = Commit

\* One intent: its receipt is looked for, else it is committed, and may land late.
Deliver(p) ==
  /\ At(p, "deliver") /\ Left > 0
  /\ \/ /\ Committed \/ Take(Commit)
        /\ Committed => UNCHANGED remote
        /\ receipts' = receipts + 1 /\ Goto(p, "delivered")
        /\ UNCHANGED <<lock, flying>>
     \/ /\ ~Committed /\ flying' = flying \union {Commit} /\ Ends(p) /\ Frees(p)
        /\ UNCHANGED <<remote, receipts>>
  /\ UNCHANGED <<roots, live, handed, accepted, batch, native, edits, captured>>

\* Mutant: a batch of which one intent is left counts as delivered.
AllButOne == Left <= 1
All == Left = 0

\* What is left waits for another call; a launch keeps the root there is.
Delivered(p) ==
  /\ At(p, "delivered") \/ (At(p, "deliver") /\ Left = 0)
  /\ \/ /\ ~All /\ lock' = None /\ Ends(p)
        /\ handed' = IF proc[p].prep THEN handed \union {native.gen} ELSE handed
        /\ UNCHANGED <<accepted, batch>>
     \/ /\ All /\ remote = SubSeq(batch, 1, receipts)
        /\ accepted' = remote /\ batch' = None /\ Synced(p) /\ UNCHANGED handed
  /\ UNCHANGED <<roots, receipts, native, captured>> /\ Outside

-----------------------------------------------------------------------------
(* prepare: source, remote and accepted head agree, or nothing is selected. *)

Pends == native.pending # None /\ native.pending.head = remote

Staged(files) ==
  \E g \in Gens :
    /\ roots[g] = None /\ \A i \in Gens : roots[i] = None => g <= i
    /\ roots' = [roots EXCEPT ![g] = files]
    /\ native' = [native EXCEPT !.pending = [gen |-> g, head |-> remote]]
    /\ handed' = handed \union {g}

Select(p) ==
  /\ At(p, "select") /\ lock = None
  /\ batch = None /\ remote = accepted /\ roots[native.gen] = Files(remote)
  /\ \/ /\ Pends /\ roots[native.pending.gen] = Files(remote)
        /\ handed' = handed \union {native.pending.gen} /\ UNCHANGED <<roots, native>>
     \/ ~Pends /\ native.head # remote /\ Staged(Files(remote))
     \/ /\ ~Pends /\ native.head = remote
        /\ handed' = handed \union {native.gen} /\ UNCHANGED <<roots, native>>
  /\ Ends(p)
  /\ UNCHANGED <<accepted, batch, receipts, lock, captured>> /\ Outside

MNext ==
  \/ Edit \/ Session \/ (\E c \in flying : Land(c))
  \/ \E p \in Procs :
       \/ Launch(p) \/ Begin(p) \/ Step(p) \/ Capture(p) \/ Freeze(p) \/ Deliver(p)
       \/ Delivered(p) \/ Select(p) \/ Raise(p)
       \/ \E g \in Gens, event \in {"start", "stop"} : Hook(p, g, event)

MSpec == MInit /\ [][MNext]_mvars

-----------------------------------------------------------------------------
\* Every variable keeps its type.
MTypeOK ==
  /\ roots \in [Gens -> Content \union {None}] /\ roots[native.gen] # None
  /\ live \union handed \subseteq Gens /\ edits \in 0..MaxEdits
  /\ remote \in Chain /\ accepted \in Chain /\ flying \subseteq Chain
  /\ batch \in Chain \union {None} /\ receipts \in Nat
  /\ batch # None => receipts <= Len(batch)
  /\ native \in [gen : Gens, head : Chain \union {None}, pending : Staging \union {None}]
  /\ lock \in Procs \union {None} /\ proc \in [Procs -> Hand]

\* An edit that reached the remote head is followed by later edits of that file only:
\* no upload puts older bytes back, or the same bytes twice.
NoRevert ==
  \A i, j \in DOMAIN remote :
    i < j /\ remote[i].path = remote[j].path => remote[i].text < remote[j].text

\* Every accepted head is one whole capture of a source, never part of a batch.
AcceptedWhole == accepted = <<>> \/ Files(accepted) \in captured
=============================================================================
