----------------------------- MODULE MCDocSync -----------------------------
\* DocSync with its goroutine slots interchangeable.
EXTENDS DocSync, TLC

Interchangeable == Permutations(Slots)
=============================================================================
