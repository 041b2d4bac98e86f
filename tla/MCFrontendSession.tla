--------------------------- MODULE MCFrontendSession ---------------------------
(* FrontendSession for TLC: two users of two firms on one device. *)
EXTENDS FrontendSession, TLC

CONSTANTS u1, u2, f1, f2

TwoFirms == u1 :> f1 @@ u2 :> f2

=============================================================================
