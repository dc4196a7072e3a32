------------------------------ MODULE Firings ------------------------------
(***************************************************************************)
(* What shantytown/jobs.py promises about the firings of a job: a queue    *)
(* that outlives the passes over it.  A pass opens it, behind what its     *)
(* trigger fired, and works on a view of its own: it attempts the firing   *)
(* at the head, for as often as it takes, and goes on to the next once     *)
(* that one has an outcome.  Closing makes the view the queue; a pass that *)
(* dies leaves the queue as it opened it.                                  *)
(***************************************************************************)
EXTENDS Naturals, Sequences

VARIABLES
  fired,    \* the keys of the firings ever queued, in order
  queue,    \* those that are queued
  open,     \* whether a pass is at work
  view,     \* the queue as that pass sees it; the queue itself when none does
  tried,    \* the keys that reached the outside world
  outcome   \* the keys that are finished, and how

qvars == <<fired, queue, open, view, tried, outcome>>

QInit == /\ fired = <<>> /\ queue = <<>> /\ view = <<>> /\ open = FALSE
         /\ tried = {} /\ outcome = [k \in {} |-> "ok"]

\* What is queued anew comes last, and is durable before anything is attempted.
Open == /\ ~open /\ open'
        /\ LET new == SubSeq(queue', Len(queue) + 1, Len(queue'))
           IN queue' = queue \o new /\ fired' = fired \o new
        /\ view' = queue'
        /\ UNCHANGED <<tried, outcome>>

Attempt == /\ open /\ view # <<>>
           /\ tried' = tried \union {Head(view)}
           /\ UNCHANGED <<fired, queue, open, view, outcome>>

\* Only an attempt that reached the outside world is a success.
Settle(how) ==
  /\ open /\ view # <<>>
  /\ tried' \in {tried, tried \union {Head(view)}}
  /\ how = "ok" => Head(view) \in tried'
  /\ outcome' = [k \in DOMAIN outcome \union {Head(view)} |->
                   IF k = Head(view) THEN how ELSE outcome[k]]
  /\ view' = Tail(view)
  /\ UNCHANGED <<fired, queue, open>>

Close == /\ open /\ ~open' /\ queue' = view
         /\ UNCHANGED <<fired, view, tried, outcome>>

Die == /\ open /\ ~open' /\ view' = queue
       /\ UNCHANGED <<fired, queue, tried, outcome>>

QNext == Open \/ Attempt \/ Settle("ok") \/ Settle("gaveup") \/ Close \/ Die

QSpec == QInit /\ [][QNext]_qvars
=============================================================================
