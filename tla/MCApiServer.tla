------------------------------ MODULE MCApiServer ------------------------------
(* ApiServer for TLC: two requests of two firms. *)
EXTENDS ApiServer, TLC

CONSTANTS r1, r2, f1, f2

TwoFirms == r1 :> f1 @@ r2 :> f2

=============================================================================
