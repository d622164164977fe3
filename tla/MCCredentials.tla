--------------------------- MODULE MCCredentials ---------------------------
(***************************************************************************)
(* Instances of Credentials for TLC: mixes of requests that meet over the  *)
(* lock, the links, the sessions and a registration.                       *)
(***************************************************************************)
EXTENDS Credentials, TLC

CONSTANTS r1, r2, r3, r4, r5, w1, w2

ShortLives == [choice |-> 1, reset |-> 2, verify |-> 3]

Asking(first, second, third) ==
    [r \in Requests |-> IF r \in {r1, r2} THEN first ELSE IF r \in {r3, r4} THEN second ELSE third]

NoGrant == [l \in Locations |-> 0]
One == [l \in Locations |-> IF l = w1 THEN 1 ELSE 0]
Two == [l \in Locations |-> IF l = w1 THEN 1 ELSE 2]

Signing ==
    [kind |-> [r \in Requests |-> IF r \in {r1, r2, r3} THEN "signIn" ELSE "verify"],
     standing |-> TRUE, granted |-> One]

\* Sign-ins that fail or succeed while a password is reset.
Recovering ==
    [Signing EXCEPT !.kind[r4] = "forgot", !.kind[r5] = "reset"]

\* Two reset links, what is redeemed with them, and the choice that may follow.
Resetting == [kind |-> Asking("forgot", "reset", "choose"), standing |-> TRUE, granted |-> Two]

Changing == [kind |-> Asking("signIn", "change", "signOut"), standing |-> TRUE, granted |-> One]

Joining == [kind |-> Asking("signUp", "verify", "resend"), standing |-> FALSE, granted |-> NoGrant]

Every == {Signing, Recovering, Resetting, Changing, Joining}
OnlyResetting == {Resetting}

\* The clock matters to the lock and to the links, the operator to grants and sessions; a second
\* workspace is there from the start or not at all.
Asks(kind) == \E r \in Requests : job[r].kind = kind

Latest ==
    CASE Asks("change") -> 1
      [] Asks("choose") \/ Asks("signUp") -> 3
      [] Asks("forgot") -> 2
      [] OTHER -> MaxTime

Bounds ==
    /\ now' <= Latest
    /\ ops' <= IF Asks("change") THEN MaxOps ELSE IF Asks("signUp") THEN 1 ELSE 0
    /\ binding'[w2] = binding[w2]

Alike == Permutations({r1, r2})
=============================================================================
