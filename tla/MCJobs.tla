------------------------------- MODULE MCJobs -------------------------------
\* Small instances of Jobs for TLC.
EXTENDS Jobs, TLC

CONSTANTS p1, p2

Symmetric == Permutations(Passes) \union Permutations(Children)

File(trigger, guarded, catchUp, action, retryMax) ==
  [trigger |-> trigger, guarded |-> guarded, catchUp |-> catchUp,
   action |-> action, retryMax |-> retryMax]

\* Every trigger and every action, guarded and not, with and without a retry.
MCJobFiles == {
  File("cron",   TRUE,  FALSE, "inbox",    1),
  File("cron",   FALSE, TRUE,  "exec",     0),
  File("every",  TRUE,  TRUE,  "dispatch", 1),
  File("when",   FALSE, TRUE,  "inbox",    0),
  File("gh",     TRUE,  TRUE,  "dispatch", 1),
  File("closed", TRUE,  TRUE,  "dispatch", 1),
  File("quipu",  FALSE, TRUE,  "exec",     1)}

\* A job whose action outlives its pass, and one that sends: their progress.
MCLiveFiles == {File("gh",   FALSE, TRUE, "exec",  1),
                File("when", FALSE, TRUE, "inbox", 1)}

\* A plain gh job, for the listing that is too short.
MCGhFiles == {File("gh", FALSE, TRUE, "inbox", 0)}

MCMatching == {1, 3}
MCSlots    == {1, 2}
=============================================================================
