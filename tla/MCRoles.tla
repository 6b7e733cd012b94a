------------------------------ MODULE MCRoles ------------------------------
EXTENDS Roles, TLC

Interchangeable == Permutations(Proc) \cup Permutations(Token)
=============================================================================
