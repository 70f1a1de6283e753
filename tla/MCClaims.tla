------------------------------ MODULE MCClaims ------------------------------
(***************************************************************************)
(* Three tasks over a directory and two directories inside it, which do not *)
(* overlap each other: the whole is read, the parts are changed.            *)
(***************************************************************************)
EXTENDS ResourceAdmission

CONSTANTS parent, left, right

Nested ==
  {<<r, r>> : r \in Roots}
    \cup {<<parent, r>> : r \in Roots} \cup {<<r, parent>> : r \in Roots}

Sharing ==
  {[root |-> parent, mode |-> "read"]} \cup [root : {left, right}, mode : {"write"}]
=============================================================================
