------------------------- MODULE ExternalDirectory -------------------------
(***************************************************************************)
(* What external login promises: every external identity gets one account, *)
(* no two get the same, and a browser is signed in to the account of an    *)
(* identity.  ExternalLogin implements it.                                 *)
(***************************************************************************)
CONSTANTS Browsers, Externals, Users, None

VARIABLES account,  \* external identity -> its account, or None
          local     \* browser -> the account it is signed in to, or None

Init ==
  /\ account = [e \in Externals |-> None]
  /\ local   = [b \in Browsers |-> None]

(* The first sign-in of an identity: the account is nobody else's. *)
Provision(e, u) ==
  /\ account[e] = None
  /\ \A f \in Externals : account[f] # u
  /\ account' = [account EXCEPT ![e] = u]
  /\ UNCHANGED local

SignIn(b, e) ==
  /\ account[e] # None
  /\ local' = [local EXCEPT ![b] = account[e]]
  /\ UNCHANGED account

Next ==
  \/ \E e \in Externals, u \in Users : Provision(e, u)
  \/ \E b \in Browsers, e \in Externals : SignIn(b, e)

Spec == Init /\ [][Next]_<<account, local>>
=============================================================================
