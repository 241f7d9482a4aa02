------------------------- MODULE MCServiceManager -------------------------
(***************************************************************************)
(* Two administrators: an installer that creates and configures the        *)
(* service, and another that opens, reinstalls and removes it.  A third    *)
(* client is no administrator.                                             *)
(***************************************************************************)
EXTENDS ServiceManager, TLC

CONSTANTS c1, c2, c3

MCCalls == (c1 :> {"CREATE", "RESTART"})
             @@ (c2 :> {"CREATE", "OPEN", "EXISTS", "REMOVE"}) @@ (c3 :> {"REMOVE"})
=============================================================================
