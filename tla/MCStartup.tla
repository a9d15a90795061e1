----------------------------- MODULE MCStartup ------------------------------
(* Two processes, one of which is started again, two migrations, two names. *)
EXTENDS Startup
=============================================================================
