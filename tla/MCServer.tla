------------------------------- MODULE MCServer -------------------------------
(***************************************************************************)
(* A server with two upstreams, for Server.                                 *)
(***************************************************************************)
EXTENDS Server

CONSTANTS u1, u2   \* the upstreams

TwoUpstreams == <<u1, u2>>
=============================================================================
