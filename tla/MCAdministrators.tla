-------------------------- MODULE MCAdministrators --------------------------
EXTENDS Administrators, TLC

CONSTANTS ann, bob, old, new

MCNames == {ann, bob}
MCPasswords == {old, new}
Symmetry == Permutations(MCNames) \cup Permutations(MCPasswords)
=============================================================================
