----------------------------- MODULE PromptComposer -----------------------------
(***************************************************************************)
(* How a message gets into ChatGPT's composer: attachPromptWithCompaction-    *)
(* Retry of src/adapters/chatgpt-web/browser-worker.ts and what it calls, the *)
(* personalization of the Temporary Chat, the choice of the connector, Think  *)
(* and the text.  All of it is a transaction on a page that the user sees and *)
(* that keeps its draft: what was begun is undone when a step fails, also     *)
(* when the stage's time is over or the turn is aborted in between.           *)
(*                                                                          *)
(* A step that throws goes to the handler that the nearest try has for it     *)
(* (Catch).  Texts are abstracted to what the readback tells apart.           *)
(***************************************************************************)
EXTENDS Naturals

CONSTANT MaxTriggers   \* MAX_CHATGPT_CONNECTOR_TRIGGER_ATTEMPTS

ASSUME TriggersAssumption == MaxTriggers \in Nat \ {0}

VARIABLES
    \* the page
    composer,   \* text: "", "mention", "prompt" (whole) or "part"; pill: the connector is selected
    personal,   \* control: which control the chat shows; on: Personalized; menu: the menu is open
    catalog,    \* the connector is "listed", the page's list is "stale", or it is "renamed"
    submitted,  \* what the composer held was submitted by somebody else
    \* the worker
    want,       \* connector, menu (of a reused conversation), compaction, refresh
    step,       \* where the attachment stands
    proof,      \* the proof of access: "none", "trying", "shown", "hidden"
    proofs,     \* proofs run
    receipt,    \* whether the chat was Personalized before the toggle, or "none"
    triggers,   \* connectorAttemptBudget.triggerAttempts
    retryLeft,  \* retryAvailable
    halted,     \* the stage's time is over, or the turn was aborted
    failure     \* the error that is thrown, or "none"

composerVars == <<composer, personal, catalog, submitted, want, step, proof, proofs,
                  receipt, triggers, retryLeft, halted, failure>>

Empty == [text |-> "", pill |-> FALSE]

Steps == {"unused", "start", "personalize", "choosing", "opening", "toggling", "proving", "judging",
          "restoring", "dismissing", "plus", "picking", "selecting", "activating", "inserting",
          "verifying", "clearing", "resetting", "attached", "failed"}

Errors == {"halted", "error", "connector", "integrity", "stale", "persistent"}

ComposerTypeOK ==
    /\ composer \in [text : {"", "mention", "prompt", "part"}, pill : BOOLEAN]
    /\ personal \in [control : {"labelled", "structural", "none"}, on : BOOLEAN, menu : BOOLEAN]
    /\ catalog \in {"listed", "stale", "renamed"}
    /\ want \in [connector : BOOLEAN, menu : BOOLEAN, compaction : BOOLEAN, refresh : BOOLEAN]
    /\ step \in Steps /\ proof \in {"none", "trying", "shown", "hidden"} /\ proofs \in 0..2
    /\ receipt \in {"none", "on", "off"} /\ triggers \in 0..MaxTriggers
    /\ {submitted, retryLeft, halted} \subseteq BOOLEAN
    /\ failure \in Errors \cup {"none"}

ComposerInit ==
    /\ composer = Empty /\ submitted = FALSE
    /\ personal \in [control : {"labelled", "structural", "none"}, on : BOOLEAN, menu : {FALSE}]
    /\ catalog \in {"listed", "stale", "renamed"}
    /\ want = [connector |-> FALSE, menu |-> FALSE, compaction |-> FALSE, refresh |-> FALSE]
    /\ step = "unused" /\ proof = "none" /\ proofs = 0 /\ receipt = "none" /\ triggers = 0
    /\ retryLeft = FALSE /\ halted = FALSE /\ failure = "none"

---------------------------------------------------------------------------
(* Which handler an error reaches.                                           *)

Catch == [s \in Steps |->
    CASE s \in {"choosing", "opening"}            -> "dismissing"
      [] s = "toggling"                           -> "restoring"
      [] s \in {"proving", "picking", "selecting", "activating", "inserting", "verifying"}
                                                  -> "clearing"
      [] s = "judging" /\ receipt # "none"        -> "restoring"
      [] OTHER                                    -> "failed"]

\* The steps that watch the stage's signal; the undoing steps have a deadline of their own.
Watching == {"start", "personalize", "choosing", "opening", "toggling", "proving", "judging", "plus",
             "picking", "selecting", "activating", "inserting", "verifying", "resetting"}

Throw(e) == failure' = e /\ step' = Catch[step]
Stay     == UNCHANGED <<catalog, submitted, want, triggers, retryLeft, halted>>

\* The signal, or a failure of the page, stops a step before it changed anything.
StepThrows ==
    /\ step \in Watching
    /\ \E e \in {"error"} \cup (IF halted THEN {"halted"} ELSE {}) : Throw(e)
    /\ UNCHANGED <<composer, personal, proof, proofs, receipt>> /\ Stay

Go(from, to) == step = from /\ ~halted /\ step' = to /\ UNCHANGED failure

---------------------------------------------------------------------------
(* attachPrompt begins: without a connector, through the composer's menu, or  *)
(* by a mention.                                                              *)

Attach(connector, menu, compaction, refresh, stopped) ==
    /\ step \in {"unused", "attached", "failed"}
    /\ want' = [connector |-> connector, menu |-> menu, compaction |-> compaction, refresh |-> refresh]
    /\ step' = "start" /\ retryLeft' = compaction
    /\ proof' = "none" /\ proofs' = 0 /\ receipt' = "none" /\ failure' = "none" /\ halted' = stopped
    /\ UNCHANGED <<composer, personal, catalog, submitted, triggers>>

\* The attempt's own state goes with it.
AttemptEnds ==
    /\ want' = [connector |-> FALSE, menu |-> FALSE, compaction |-> FALSE, refresh |-> FALSE]
    /\ step' = "unused" /\ proof' = "none" /\ proofs' = 0 /\ receipt' = "none" /\ triggers' = 0
    /\ retryLeft' = FALSE /\ halted' = FALSE /\ failure' = "none"

StartsPlain ==
    /\ ~want.connector /\ Go("start", "inserting")
    /\ composer' = Empty
    /\ UNCHANGED <<personal, proof, proofs, receipt>> /\ Stay

StartsMenu    == want.connector /\ want.menu /\ Go("start", "plus")
                 /\ UNCHANGED <<composer, personal, proof, proofs, receipt>> /\ Stay
StartsMention == want.connector /\ ~want.menu /\ Go("start", "personalize")
                 /\ UNCHANGED <<composer, personal, proof, proofs, receipt>> /\ Stay

---------------------------------------------------------------------------
(* The composer's plus menu: absent, or without the connector, the mention    *)
(* is tried instead.                                                          *)

PlusOpens == Go("plus", "picking") /\ UNCHANGED <<composer, personal, proof, proofs, receipt>> /\ Stay

MenuUnavailable ==
    /\ Go("plus", "personalize") \/ Go("picking", "personalize")
    /\ UNCHANGED <<composer, personal, proof, proofs, receipt>> /\ Stay

PicksRow ==
    /\ catalog = "listed" /\ Go("picking", "inserting")
    /\ composer' = [composer EXCEPT !.pill = TRUE]
    /\ UNCHANGED <<personal, proof, proofs, receipt>> /\ Stay

\* The row was clicked, but the pill is not there when it is looked for.
PickUnproven ==
    /\ step = "picking" /\ catalog = "listed" /\ Throw("error")
    /\ composer' = [composer EXCEPT !.pill = TRUE]
    /\ UNCHANGED <<personal, proof, proofs, receipt>> /\ Stay

---------------------------------------------------------------------------
(* ensureChatGptPersonalizedConnectorAccess: a Temporary Chat that is not     *)
(* Personalized hides the connectors.                                         *)

LabelSaysOn ==
    /\ personal.control = "labelled" /\ personal.on /\ Go("personalize", "selecting")
    /\ UNCHANGED <<composer, personal, proof, proofs, receipt>> /\ Stay

OpensChoice ==
    /\ personal.control = "labelled" /\ ~personal.on /\ Go("personalize", "choosing")
    /\ personal' = [personal EXCEPT !.menu = TRUE]
    /\ UNCHANGED <<composer, proof, proofs, receipt>> /\ Stay

Chooses ==
    /\ Go("choosing", "selecting")
    /\ personal' = [personal EXCEPT !.on = TRUE, !.menu = FALSE]
    /\ UNCHANGED <<composer, proof, proofs, receipt>> /\ Stay

\* Without the labelled buttons, access is proved by a mention that lists the connector.
Prove ==
    /\ step \in {"personalize", "judging", "toggling"} /\ ~halted
    /\ \/ step = "personalize" /\ personal.control # "labelled"
       \/ step = "judging" /\ proof = "hidden" /\ receipt = "none" /\ proofs = 1
       \/ step = "toggling" /\ ~personal.menu
    /\ step' = "proving" /\ proof' = "trying"
    /\ proofs' = IF receipt = "none" THEN proofs + 1 ELSE proofs
    /\ composer' = [composer EXCEPT !.text = "mention"]
    /\ UNCHANGED <<personal, receipt, failure>> /\ Stay

ProofShows ==
    /\ step = "proving" /\ catalog = "listed" /\ personal.on
    /\ step' = "clearing" /\ proof' = "shown"
    /\ UNCHANGED <<composer, personal, proofs, receipt, failure>> /\ Stay

\* Not shown in time; the mention must still be there, or the editor lost it.
ProofHides ==
    /\ step = "proving"
    /\ \/ proof' = "hidden" /\ step' = "clearing" /\ UNCHANGED <<composer, failure>>
       \/ Throw("integrity") /\ composer' = [composer EXCEPT !.text = "part"] /\ UNCHANGED proof
    /\ UNCHANGED <<personal, proofs, receipt>> /\ Stay

Proven ==
    /\ proof = "shown" /\ Go("judging", "selecting")
    /\ receipt' = "none"
    /\ UNCHANGED <<composer, personal, proof, proofs>> /\ Stay

\* No control to change, and the second look found nothing either.
NotAvailable ==
    /\ step = "judging" /\ proof = "hidden" /\ receipt = "none" /\ proofs = 2 /\ ~halted
    /\ Throw("connector")
    /\ UNCHANGED <<composer, personal, proof, proofs, receipt>> /\ Stay

OpensToggle ==
    /\ proof = "hidden" /\ receipt = "none" /\ proofs = 1 /\ personal.control = "structural"
    /\ Go("judging", "opening")
    /\ personal' = [personal EXCEPT !.menu = TRUE]
    /\ UNCHANGED <<composer, proof, proofs, receipt>> /\ Stay

\* The receipt is taken before the click, so that a click that may have worked is undone.
Toggles ==
    /\ Go("opening", "toggling")
    /\ receipt' = (IF personal.on THEN "on" ELSE "off")
    /\ \E works, closes \in BOOLEAN :
        personal' = [personal EXCEPT !.on = IF works THEN ~@ ELSE @, !.menu = ~closes]
    /\ UNCHANGED <<composer, proof, proofs>> /\ Stay

ToggleUnproven ==
    /\ step = "judging" /\ proof = "hidden" /\ receipt # "none" /\ ~halted
    /\ Throw("connector")
    /\ UNCHANGED <<composer, personal, proof, proofs, receipt>> /\ Stay

---------------------------------------------------------------------------
(* Undoing: each has five seconds of its own; when it fails, the error says   *)
(* that the page may hold what it should not.                                 *)

Restores ==
    /\ step = "restoring"
    /\ \/ personal' = [personal EXCEPT !.on = (receipt = "on"), !.menu = FALSE] /\ UNCHANGED failure
       \/ UNCHANGED personal /\ failure' = "persistent"
    /\ step' = "failed" /\ receipt' = "none"
    /\ UNCHANGED <<composer, proof, proofs>> /\ Stay

Dismisses ==
    /\ step = "dismissing"
    /\ \/ personal' = [personal EXCEPT !.menu = FALSE] /\ UNCHANGED failure
       \/ UNCHANGED personal /\ failure' = "persistent"
    /\ step' = "failed"
    /\ UNCHANGED <<composer, proof, proofs, receipt>> /\ Stay

\* After a clean composer: the proof's verdict, the toggle's undoing, or the caller.
AfterClearing(e) ==
    IF e = "none" THEN "judging" ELSE IF receipt # "none" THEN "restoring" ELSE "failed"

Clears ==
    /\ step = "clearing"
    /\ \/ composer' = Empty /\ failure' = failure
       \/ composer' = composer /\ failure' = "persistent"
    /\ step' = AfterClearing(failure')
    /\ UNCHANGED <<personal, proof, proofs, receipt>> /\ Stay

---------------------------------------------------------------------------
(* selectConnector: the mention, at most MaxTriggers times over the whole     *)
(* turn.                                                                     *)

Triggers ==
    /\ step = "selecting" /\ ~halted /\ triggers < MaxTriggers
    /\ triggers' = triggers + 1
    /\ composer' = [composer EXCEPT !.text = "mention"]
    /\ \/ catalog = "listed" /\ personal.on /\ step' = "activating" /\ UNCHANGED failure
       \/ catalog = "renamed" /\ Throw("connector")
       \/ /\ catalog = "stale" /\ want.refresh /\ triggers' < MaxTriggers
          /\ Throw("stale")
       \/ /\ catalog # "renamed"
          /\ IF triggers' = MaxTriggers THEN Throw("connector") ELSE UNCHANGED <<step, failure>>
    /\ UNCHANGED <<personal, catalog, submitted, want, proof, proofs, receipt, retryLeft, halted>>

\* The budget was spent before a catalog refresh: the count of rows decides.
BudgetSpent ==
    /\ step = "selecting" /\ triggers = MaxTriggers /\ ~halted /\ Throw("connector")
    /\ UNCHANGED <<composer, personal, proof, proofs, receipt>> /\ Stay

Activates ==
    /\ Go("activating", "inserting")
    /\ composer' = [text |-> "", pill |-> TRUE]
    /\ UNCHANGED <<personal, proof, proofs, receipt>> /\ Stay

\* Enter was pressed on the row, and the pill is not found in time.
ActivationUnproven ==
    /\ step = "activating" /\ Throw("error")
    /\ composer' = [composer EXCEPT !.pill = TRUE]
    /\ UNCHANGED <<personal, proof, proofs, receipt>> /\ Stay

---------------------------------------------------------------------------
(* Think, the text and its readback.                                          *)

Inserts ==
    /\ Go("inserting", "verifying")
    /\ \E t \in {"prompt", "part"} : composer' = [composer EXCEPT !.text = t]
    /\ UNCHANGED <<personal, proof, proofs, receipt>> /\ Stay

InsertRejected ==
    /\ step = "inserting" /\ Throw("integrity")
    /\ UNCHANGED <<composer, personal, proof, proofs, receipt>> /\ Stay

ReadsBack ==
    /\ step = "verifying" /\ ~halted
    /\ IF composer.text = "prompt"
       THEN step' = "attached" /\ UNCHANGED failure
       ELSE Throw("integrity")
    /\ UNCHANGED <<composer, personal, proof, proofs, receipt>> /\ Stay

\* Somebody else submits what the composer holds: the page, a key of the user.
SubmittedByHand ==
    /\ step \in {"verifying", "clearing", "resetting"} /\ want.compaction /\ ~submitted
    /\ composer.text \in {"prompt", "part"}
    /\ submitted' = TRUE /\ composer' = Empty
    /\ UNCHANGED <<personal, catalog, want, step, proof, proofs, receipt, triggers, retryLeft,
                   halted, failure>>

---------------------------------------------------------------------------
(* One clean retry of a compaction whose text did not arrive whole, unless    *)
(* the conversation shows that something was submitted.                       *)

RetryBegins ==
    /\ step = "failed" /\ failure = "integrity" /\ retryLeft
    /\ retryLeft' = FALSE
    /\ IF submitted THEN UNCHANGED <<step, failure>> ELSE step' = "resetting" /\ failure' = "none"
    /\ UNCHANGED <<composer, personal, catalog, submitted, want, proof, proofs, receipt, triggers,
                   halted>>

RetryResets ==
    /\ step = "resetting" /\ ~halted
    /\ IF submitted
       THEN Throw("integrity") /\ UNCHANGED <<composer, proof, proofs>>
       ELSE /\ composer' = Empty
            /\ proof' = "none" /\ proofs' = 0
            /\ step' = "start" /\ UNCHANGED failure
    /\ UNCHANGED <<personal, receipt>> /\ Stay

Halt ==
    /\ step \in Watching \cup {"clearing", "restoring", "dismissing"} /\ ~halted
    /\ halted' = TRUE
    /\ UNCHANGED <<composer, personal, catalog, submitted, want, step, proof, proofs, receipt,
                   triggers, retryLeft, failure>>

ComposerStep ==
    \/ StepThrows \/ StartsPlain \/ StartsMenu \/ StartsMention
    \/ PlusOpens \/ MenuUnavailable \/ PicksRow \/ PickUnproven
    \/ LabelSaysOn \/ OpensChoice \/ Chooses \/ Prove \/ ProofShows \/ ProofHides \/ Proven
    \/ NotAvailable \/ OpensToggle \/ Toggles \/ ToggleUnproven
    \/ Restores \/ Dismisses \/ Clears
    \/ Triggers \/ BudgetSpent \/ Activates \/ ActivationUnproven
    \/ Inserts \/ InsertRejected \/ ReadsBack \/ RetryBegins \/ RetryResets

---------------------------------------------------------------------------
(* An attachment that failed left the page as it found it, the text, the pill *)
(* and the menus, also when it was stopped between two steps; otherwise its   *)
(* error says that the page's state persists.                                *)
FailedIsClean ==
    (step = "failed" /\ failure # "persistent") =>
        composer = Empty /\ ~personal.menu /\ receipt = "none"
=============================================================================
