------------------------------ MODULE MCClient ------------------------------
(***************************************************************************)
(* An instance of Session, Outbound and ServerInfo together: two servers,  *)
(* one other client, one destination behind it and one without a route.    *)
(***************************************************************************)
EXTENDS Session

CONSTANTS p, behind, nowhere

MCSubnetRoute == [o \in Outside |-> IF o = behind THEN p ELSE NoHost]
=============================================================================
