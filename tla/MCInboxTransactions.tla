------------------------ MODULE MCInboxTransactions ------------------------
EXTENDS InboxTransactions, TLC

Symmetry == Permutations(Updates) \cup Permutations(Txns)
=============================================================================
