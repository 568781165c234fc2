------------------------------- MODULE Grants --------------------------------
(***************************************************************************)
(* What the authorization of sensitive actions promises (the docstring of  *)
(* LocalAuthorizationManager, auth.py: "Password-gated, exact, one-use     *)
(* authorization"), without saying how: a challenge is granted at most     *)
(* once, before its time is over, with the password then in force, and     *)
(* never after it was cancelled or the password was changed.               *)
(***************************************************************************)
EXTENDS Naturals

CONSTANTS Challenges, Passwords, NoPassword, Lifetime

VARIABLES
    secret,     \* the password in force
    issued,     \* challenges ever issued
    open,       \* age of each challenge that can still be granted
    granted     \* the grants: [challenge, guess] records

vars == <<secret, issued, open, granted>>

Nothing == [c \in {} |-> 0]
Without(f, S) == [c \in DOMAIN f \ S |-> f[c]]

Init ==
    /\ secret = NoPassword
    /\ issued = {}
    /\ open = Nothing
    /\ granted = {}

(* A new challenge; those whose time is over may be swept on the way.      *)
Issue ==
    /\ \E c \in Challenges \ issued, swept \in SUBSET DOMAIN open :
          /\ issued' = issued \cup {c}
          /\ open' = [k \in (DOMAIN open \ swept) \cup {c} |-> IF k = c THEN 0 ELSE open[k]]
    /\ UNCHANGED <<secret, granted>>

(* Cancelled, expired, or lost with the process.                           *)
Drop ==
    /\ \E S \in SUBSET DOMAIN open : open' = Without(open, S)
    /\ UNCHANGED <<secret, issued, granted>>

Grant ==
    /\ secret # NoPassword
    /\ \E c \in DOMAIN open :
          /\ open[c] < Lifetime
          /\ open' = Without(open, {c})
          /\ granted' = granted \cup {[challenge |-> c, guess |-> secret]}
    /\ UNCHANGED <<secret, issued>>

(* A first password is set; a password is replaced, or lost with its file, *)
(* and the challenges with it.                                             *)
Replace ==
    /\ secret' \in Passwords \cup {NoPassword}
    /\ open' = IF secret = NoPassword THEN open ELSE Nothing
    /\ UNCHANGED <<issued, granted>>

Age ==
    /\ open' = [c \in DOMAIN open |-> IF open[c] < Lifetime THEN open[c] + 1 ELSE open[c]]
    /\ UNCHANGED <<secret, issued, granted>>

Next == Issue \/ Drop \/ Grant \/ Replace \/ Age

Spec == Init /\ [][Next]_vars
=============================================================================
