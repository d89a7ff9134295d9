-------------------------- MODULE MCAdminSession --------------------------
(* AdminSession with pollers that are model values. *)
EXTENDS AdminSession
===========================================================================
