----------------------------- MODULE MCDelivery -----------------------------
\* Small instances of Delivery for TLC.
EXTENDS Delivery, TLC

Symmetric == Permutations(Bodies)
=============================================================================
