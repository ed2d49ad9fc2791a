---------------------------- MODULE UserSession ----------------------------
(***************************************************************************)
(* What the user may expect of sign-in and sign-out, whatever refreshes    *)
(* and sign-ins are still in flight: one session at a time, the one of the *)
(* newest sign-in, and a session that has ended never comes back.          *)
(* HostAuth implements it (Session in HostAuth).                           *)
(***************************************************************************)
EXTENDS Naturals

VARIABLES
    current, \* the session the user is in, or 0
    newest,  \* the newest sign-in that was begun
    open     \* that sign-in may still succeed

vars == <<current, newest, open>>

Init == current = 0 /\ newest = 0 /\ open = FALSE

BeginSignIn ==
    /\ current = 0
    /\ newest' = newest + 1
    /\ open' = TRUE
    /\ UNCHANGED current

\* The newest sign-in succeeds; one that was superseded never does.
SignedIn ==
    /\ open
    /\ current' = newest
    /\ open' = FALSE
    /\ UNCHANGED newest

GiveUp ==
    /\ open
    /\ open' = FALSE
    /\ UNCHANGED <<current, newest>>

\* Sign-out, or the platform no longer accepts the session.
End ==
    /\ current' = 0
    /\ open' \in {open, FALSE}
    /\ UNCHANGED newest

Next == BeginSignIn \/ SignedIn \/ GiveUp \/ End

Spec == Init /\ [][Next]_vars
=============================================================================
