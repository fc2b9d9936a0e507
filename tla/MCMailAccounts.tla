--------------------------- MODULE MCMailAccounts ---------------------------
(* Instances of MailAccounts for TLC. *)
EXTENDS MailAccounts, TLC

\* The bytes that the secret of the code, "nnnnn", gives.
SeedOfCode == <<127, 255, 138, 55, 75, 53, 35, 246, 103>>

\* The last day of January 2025 and the first of February.
TwoDates == <<<<2, 5, 0, 1, 3, 1>>, <<2, 5, 0, 2, 0, 1>>>>

\* The same random digits every time: they must not be what makes numbers differ.
SameDigits == {<<4, 0, 7>>}

\* Handlers, addresses and passwords are interchangeable: the module names none.
Symmetry == Permutations(Req) \cup Permutations(Mails) \cup Permutations(Passwords)
=============================================================================
