------------------------------ MODULE MCLimiter ------------------------------
EXTENDS Limiter, TLC
MCSymmetry == Permutations(Callers)
=============================================================================
