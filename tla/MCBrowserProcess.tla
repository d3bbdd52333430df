-------------------------- MODULE MCBrowserProcess --------------------------
(***************************************************************************)
(* Model checking of BrowserProcess.  Two bindings, because a rebind must   *)
(* change something; three children, so that a recovered child can be       *)
(* followed by one more; and enough epochs for a stop and a start to fall   *)
(* between two lock regions of the watcher.                                 *)
(***************************************************************************)
EXTENDS BrowserProcess

CONSTANTS a, b
=============================================================================
