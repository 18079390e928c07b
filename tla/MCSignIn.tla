----------------------------- MODULE MCSignIn -----------------------------
EXTENDS SignIn, TLC
CONSTANTS p1, p2, t1, t2

\* Passwords are compared for equality only.
Interchangeable == Permutations({p1, p2})
=============================================================================
