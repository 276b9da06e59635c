--------------------------- MODULE MCBrowserHelper ---------------------------
(* Two runs of one turn, as a retry makes them, and two helpers. *)
EXTENDS BrowserHelper
MCTrace == [r \in Runs |-> "t"]
=============================================================================
