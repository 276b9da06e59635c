----------------------------- MODULE MCBrowserTurn -----------------------------
(* Small instances of BrowserTurn for TLC: the kinds of turns that the adapter *)
(* asks for.                                                                  *)
EXTENDS BrowserTurn

Plain == [hosted |-> FALSE, reused |-> FALSE, required |-> FALSE, connector |-> FALSE,
          progress |-> FALSE, compaction |-> FALSE, stages |-> 0, cheap |-> FALSE, mishaps |-> 1]
Fresh      == [Plain EXCEPT !.hosted = TRUE, !.connector = TRUE, !.progress = TRUE]
Continued  == [Fresh EXCEPT !.reused = TRUE, !.mishaps = 2]
Bigger     == [Fresh EXCEPT !.stages = 1, !.cheap = TRUE]
Compaction == [Plain EXCEPT !.hosted = TRUE, !.compaction = TRUE]
Handoff    == [Continued EXCEPT !.required = TRUE, !.progress = FALSE, !.mishaps = 1]

Kinds == {Plain, Fresh, Continued, Bigger, Compaction, Handoff}
===============================================================================
