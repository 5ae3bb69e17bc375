----------------------------- MODULE MCAccounts -----------------------------
EXTENDS Accounts, TLC

CONSTANTS a, b, c1, c2

MCUsers == {a, b}
MCCalls == {c1, c2}
MCSymmetry == Permutations(MCCalls)
=============================================================================
