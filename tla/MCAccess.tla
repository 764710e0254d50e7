------------------------------ MODULE MCAccess ------------------------------
EXTENDS Access, TLC

\* Requests are interchangeable, and so are sessions and passwords.
AccessSymmetry ==
    Permutations(Requests) \cup Permutations(SessionIds) \cup Permutations(Words)

=============================================================================
