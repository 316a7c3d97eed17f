-------------------------- MODULE MCRouteBrokerSync --------------------------
(* Small instances of RouteBrokerSync: the kernel's client and dataplanes. *)
EXTENDS RouteBrokerSync
==============================================================================
