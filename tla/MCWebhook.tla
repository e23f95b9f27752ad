----------------------------- MODULE MCWebhook -----------------------------
EXTENDS Webhook, TLC

Symmetry == Permutations(Updates) \cup Permutations(Servers)
              \cup Permutations(Slots)
=============================================================================
