--------------------------- MODULE MCProxyServer ---------------------------
(***************************************************************************)
(* ProxyServer on small instances.                                         *)
(***************************************************************************)
EXTENDS ProxyServer
=============================================================================
