-------------------------------- MODULE Pulls --------------------------------
(***************************************************************************)
(* The pull requests of one branch and its work item: the private registry *)
(* of shantytown/pr_binding.py (register, reconcile), the review requests  *)
(* of pr_queue.py and the serialized merge of pr_merge_slot.py.  Every     *)
(* operation runs under the registry's lock, journals what it is about to  *)
(* write outside, writes once, and asks for proof.  Outside: the forge,    *)
(* where a write may land late or never, and people.                       *)
(***************************************************************************)
EXTENDS Naturals, FiniteSets

CONSTANTS
  MaxPulls,
  MaxPeople,   \* pushes, closings, reopenings and changes of the work item
  None

Numbers == 1..MaxPulls
Statuses == {"closed", "deferred"}
Kinds == {"comment", "close", "draft"}      \* what a status is announced with

VARIABLES
  forge,    \* the pull requests
  bead,     \* the work item's status
  bind, slot, outbox,    \* registry.json
  op,       \* who holds the registry's lock: what it is doing, and what it read
  flying,   \* writes sent, not landed
  sent,     \* history: how often each write was sent
  people

fvars == <<forge, bead, bind, slot, outbox, op, flying, sent, people>>
registry == <<bind, slot, outbox>>

\* The writes on the outside.  A lifecycle write is known by its digest: the status
\* it announces for a binding, whose head never changes.
Write(kind, n, status) == [kind |-> kind, n |-> n, status |-> status]
Writes == {Write(kind, n, s) : kind \in Kinds, n \in Numbers, s \in Statuses}
     \union {Write(kind, n, None) : kind \in {"merge", "review"}, n \in Numbers}

\* A pull request, its record in the registry, and what the holder of the lock does.
PullRequest == [head : Nat, state : {"open", "closed"}, draft : BOOLEAN, merged : BOOLEAN,
                marks : SUBSET (Statuses \union {"review"})]
Binding == [head : Nat, reviewed : BOOLEAN, pending : Statuses \union {None},
            tried : SUBSET Kinds, done : SUBSET Statuses]
Labels == {"free", "preflight", "send", "prove", "each", "comment", "status", "settle"}
Op == [pc : Labels, w : Writes \union {None}, n : Numbers \union {None},
       item : Statuses \union {None}, todo : SUBSET Numbers]

ASSUME PullsAssumption ==
  /\ MaxPulls \in Nat /\ MaxPeople \in Nat
  /\ None \notin Numbers /\ None \notin Statuses /\ None \notin Writes
  /\ None \notin PullRequest /\ None \notin Binding

Free == [pc |-> "free", w |-> None, n |-> None, item |-> None, todo |-> {}]

FInit ==
  /\ forge = [n \in Numbers |-> None] /\ bead = "open"
  /\ bind = [n \in Numbers |-> None] /\ slot = None /\ outbox = [n \in Numbers |-> "none"]
  /\ op = Free /\ flying = {} /\ sent = [w \in Writes |-> 0] /\ people = 0

Is(n) == forge[n] # None
Live(n) == Is(n) /\ forge[n].state = "open"
At(pc) == op.pc = pc
Goto(pc) == op' = [op EXCEPT !.pc = pc]
Bound(n) == bind[n] # None /\ forge[n].head = bind[n].head

-----------------------------------------------------------------------------
(* Outside.  The forge has one open pull request for a branch.              *)

Edit(n, r) == forge' = [forge EXCEPT ![n] = r]

People ==
  /\ people < MaxPeople /\ people' = people + 1
  /\ \/ /\ bead' \in {"open", "deferred", "closed"} \ {bead} /\ UNCHANGED forge
     \/ /\ UNCHANGED bead
        /\ \E n \in Numbers :
             \/ /\ Live(n)
                /\ \/ Edit(n, [forge[n] EXCEPT !.head = @ + 1])
                   \/ Edit(n, [forge[n] EXCEPT !.state = "closed"])
                   \/ Edit(n, [forge[n] EXCEPT !.draft = ~@])
             \/ /\ \A i \in Numbers : ~Live(i)
                /\ \/ Is(n) /\ ~forge[n].merged /\ Edit(n, [forge[n] EXCEPT !.state = "open"])
                   \/ /\ ~Is(n) /\ \A i \in Numbers : i < n => Is(i)
                      /\ Edit(n, [head |-> 0, state |-> "open", draft |-> FALSE, merged |-> FALSE,
                                  marks |-> {}])
  /\ UNCHANGED <<registry, op, flying, sent>>

\* The helper merges the exact head it was launched for.
Effect(w) ==
  LET p == forge[w.n] IN
  CASE w.kind = "comment" -> Edit(w.n, [p EXCEPT !.marks = @ \union {w.status}])
    [] w.kind = "review"  -> Edit(w.n, [p EXCEPT !.marks = @ \union {"review"}])
    [] w.kind = "close"   -> Edit(w.n, [p EXCEPT !.state = "closed"])
    [] w.kind = "draft"   -> Live(w.n) /\ Edit(w.n, [p EXCEPT !.draft = TRUE])
    [] w.kind = "merge"   -> /\ Live(w.n) /\ ~p.draft /\ Bound(w.n)
                             /\ Edit(w.n, [p EXCEPT !.state = "closed", !.merged = TRUE])

Land(w) ==
  /\ Effect(w) /\ flying' = flying \ {w}
  /\ UNCHANGED <<bead, registry, op, sent, people>>

-----------------------------------------------------------------------------
(* A write is sent once journaled.  Whoever raises or dies, at any point,   *)
(* leaves what it saved.                                                    *)

Send ==
  /\ At("send") /\ Goto("prove")
  /\ sent' = [sent EXCEPT ![op.w] = @ + 1] /\ flying' = flying \union {op.w}
  /\ UNCHANGED <<forge, bead, registry, people>>

Raise ==
  /\ ~At("free") /\ op' = Free
  /\ UNCHANGED <<forge, bead, registry, flying, sent, people>>

Keep == UNCHANGED <<forge, bead, flying, sent, people>>

-----------------------------------------------------------------------------
(* register and enqueue_review. *)

Register(n) ==
  /\ At("free") /\ Live(n) /\ bind[n] = None
  /\ bead # "closed" /\ (bead = "deferred" => forge[n].draft)
  /\ bind' = [bind EXCEPT ![n] = [head |-> forge[n].head, reviewed |-> FALSE,
                                  pending |-> None, tried |-> {}, done |-> {}]]
  /\ UNCHANGED <<slot, outbox, op>> /\ Keep

Review(n) ==
  /\ At("free") /\ bind[n] # None
  /\ bind' = [bind EXCEPT ![n].reviewed = TRUE]
  /\ outbox' = [outbox EXCEPT ![n] = IF @ = "none" THEN "queued" ELSE @]
  /\ UNCHANGED <<slot, op>> /\ Keep

-----------------------------------------------------------------------------
(* execute_one: a slot that is taken is settled by proof or not at all.     *)

\* Mutant: a merge that was not seen is tried again by the next call.
UnclaimedBy(n) == slot \in {None, n}
Unclaimed(n) == slot = None

MergeLook(n) ==
  /\ At("free") /\ Bound(n) /\ bind[n].reviewed /\ slot \in {None, n}
  /\ \/ forge[n].merged /\ slot' = None /\ UNCHANGED op
     \/ /\ ~forge[n].merged /\ Unclaimed(n) /\ UNCHANGED slot
        /\ op' = [Free EXCEPT !.pc = "preflight", !.n = n]
  /\ UNCHANGED <<bind, outbox>> /\ Keep

\* The helper's preflight and the second look at the gate take their time.
MergeIntent ==
  /\ At("preflight") /\ slot' = op.n
  /\ op' = [op EXCEPT !.pc = "send", !.w = Write("merge", op.n, None)]
  /\ UNCHANGED <<bind, outbox>> /\ Keep

MergeProof ==
  /\ At("prove") /\ op.w.kind = "merge" /\ Bound(op.n) /\ forge[op.n].merged
  /\ slot' = None /\ op' = Free
  /\ UNCHANGED <<bind, outbox>> /\ Keep

-----------------------------------------------------------------------------
(* reconcile: the work item's status, carried to its pull requests.         *)

Reconcile ==
  /\ At("free")
  /\ op' = [Free EXCEPT !.pc = "each", !.todo = {n \in Numbers : bind[n] # None}]
  /\ UNCHANGED registry /\ Keep

\* Nothing to do; or the digest is made pending, if it is not.
Each(n) ==
  LET b == bind[n] IN
  /\ At("each") /\ n \in op.todo /\ b.pending \in {None, bead}
  /\ \/ /\ bead \in b.done \union {"open"}
        /\ op' = [op EXCEPT !.todo = @ \ {n}] /\ UNCHANGED bind
     \/ /\ bead \notin b.done \union {"open"} /\ Bound(n)
        /\ bind' = [bind EXCEPT ![n].pending = bead]
        /\ op' = [op EXCEPT !.pc = "comment", !.n = n, !.item = bead]
  /\ UNCHANGED <<slot, outbox>> /\ Keep

\* Mutant: what was tried by a call that died is forgotten.
TriedByMe(kind) == FALSE
Tried(kind) == kind \in bind[op.n].tried

Attempt(kind) ==
  /\ ~Tried(kind)
  /\ bind' = [bind EXCEPT ![op.n].tried = @ \union {kind}]
  /\ op' = [op EXCEPT !.pc = "send", !.w = Write(kind, op.n, op.item)]

Marked == op.item \in forge[op.n].marks
Announced == IF op.item = "closed" THEN forge[op.n].state = "closed" ELSE forge[op.n].draft

Comment ==
  /\ At("comment")
  /\ \/ Marked /\ Goto("status") /\ UNCHANGED bind
     \/ ~Marked /\ Attempt("comment")
  /\ UNCHANGED <<slot, outbox>> /\ Keep

CommentProof ==
  /\ At("prove") /\ op.w.kind = "comment" /\ Marked /\ Goto("status")
  /\ UNCHANGED registry /\ Keep

Status ==
  /\ At("status") /\ bead = op.item /\ Bound(op.n)
  /\ \/ Announced /\ Goto("settle") /\ UNCHANGED bind
     \/ ~Announced /\ op.item = "closed" /\ Attempt("close")
     \/ ~Announced /\ op.item = "deferred" /\ Live(op.n) /\ Attempt("draft")
  /\ UNCHANGED <<slot, outbox>> /\ Keep

Settle ==
  LET b == bind[op.n] IN
  /\ At("settle") \/ (At("prove") /\ op.w.kind \in {"close", "draft"})
  /\ Bound(op.n) /\ Announced
  /\ bind' = [bind EXCEPT ![op.n] = [b EXCEPT !.done = @ \union {op.item}, !.pending = None,
                                              !.tried = {}]]
  /\ op' = [Free EXCEPT !.pc = "each", !.todo = op.todo \ {op.n}]
  /\ UNCHANGED <<slot, outbox>> /\ Keep

-----------------------------------------------------------------------------
(* drain_outbox, one message: tried and not there, it is not sent again.    *)

Drain(n) ==
  /\ At("free")
  /\ \/ /\ outbox[n] \in {"queued", "tried"} /\ "review" \in forge[n].marks
        /\ outbox' = [outbox EXCEPT ![n] = "delivered"] /\ UNCHANGED op
     \/ /\ outbox[n] = "queued" /\ "review" \notin forge[n].marks
        /\ outbox' = [outbox EXCEPT ![n] = "tried"]
        /\ op' = [Free EXCEPT !.pc = "send", !.n = n, !.w = Write("review", n, None)]
  /\ UNCHANGED <<bind, slot>> /\ Keep

DrainProof ==
  /\ At("prove") /\ op.w.kind = "review" /\ "review" \in forge[op.n].marks
  /\ outbox' = [outbox EXCEPT ![op.n] = "delivered"] /\ op' = Free
  /\ UNCHANGED <<bind, slot>> /\ Keep

FNext ==
  \/ People \/ Send \/ Raise \/ (\E w \in flying : Land(w))
  \/ MergeIntent \/ MergeProof \/ DrainProof
  \/ Reconcile \/ Comment \/ CommentProof \/ Status \/ Settle
  \/ \E n \in Numbers : Register(n) \/ Review(n) \/ MergeLook(n) \/ Each(n) \/ Drain(n)

FSpec == FInit /\ [][FNext]_fvars

-----------------------------------------------------------------------------
\* Every variable keeps its type.
FTypeOK ==
  /\ forge \in [Numbers -> PullRequest \union {None}] /\ bead \in Statuses \union {"open"}
  /\ bind \in [Numbers -> Binding \union {None}] /\ slot \in Numbers \union {None}
  /\ outbox \in [Numbers -> {"none", "queued", "tried", "delivered"}]
  /\ op \in Op /\ flying \subseteq Writes /\ sent \in [Writes -> Nat] /\ people \in Nat

\* However answers are lost or late and whoever asks again, a comment, a closing, a
\* drafting and a review request are sent once at most.
NoReplay == \A w \in Writes : w.kind # "merge" => sent[w] <= 1

\* Of the pull requests whose merge was ever launched, each once at most, one at most
\* is not merged: nothing is merged beside a helper that may still land.
OneMergeAtATime ==
  LET launched == {n \in Numbers : sent[Write("merge", n, None)] > 0} IN
  /\ \A n \in launched : sent[Write("merge", n, None)] = 1
  /\ Cardinality({n \in launched : ~forge[n].merged}) <= 1
=============================================================================
