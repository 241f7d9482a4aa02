------------------------- MODULE MCServiceControl -------------------------
(***************************************************************************)
(* Two administrators: one starts and stops the service; the other stops   *)
(* it, starts it without waiting and sends it user codes.  A third client  *)
(* may only look, and tries to stop it.                                    *)
(***************************************************************************)
EXTENDS ServiceControl, TLC

CONSTANTS c1, c2, c3

MCRights == (c1 :> "AllAccess") @@ (c2 :> "AllAccess") @@ (c3 :> "ReadOnly")
MCCalls == (c1 :> {"START", "STOP"}) @@ (c2 :> {"STOP", "ASYNC", "CODE"})
             @@ (c3 :> {"STOP"})

\* For the counterexamples: the two administrators alone.
PairRights == (c1 :> "AllAccess") @@ (c2 :> "AllAccess")
PairCalls == (c1 :> {"START", "STOP"}) @@ (c2 :> {"STOP", "CODE"})
=============================================================================
