------------------------------ MODULE BrowserTurn ------------------------------
(***************************************************************************)
(* One turn of the browser worker, runExclusive and runBrowserTurn of         *)
(* src/adapters/chatgpt-web/browser-worker.ts, against a ChatGPT page that    *)
(* writes, calls tools, loses and replaces its answer, hangs or is closed,    *)
(* and against an abort at any time.                                          *)
(*                                                                          *)
(* The turn leases a tab, holds the compiled prompt and a connection to the   *)
(* page, sends the stages of a Bigger Context and then the message, each      *)
(* attached by PromptComposer, binds the answer that is new on the page,      *)
(* and reads it until its text, the tool calls and the broker's fence agree   *)
(* that it is complete.  A look at the page, the look at the broker and the   *)
(* verdict are steps of their own, as every await in the loop is.             *)
(***************************************************************************)
EXTENDS PromptComposer

CONSTANTS
    Turns,        \* what may be asked of the worker, records as in TurnAssumption
    MaxRebinds,   \* MAX_CHATGPT_BROWSER_PAGE_REBINDS
    MaxFaults,    \* MAX_CHATGPT_INTERNAL_OBSERVATION_FAULTS
    MaxText,      \* how often the visible answer grows
    MaxBatches    \* batches of tool calls of the turn

ASSUME TurnAssumption ==
    /\ Turns \subseteq [hosted : BOOLEAN, reused : BOOLEAN, required : BOOLEAN, connector : BOOLEAN,
                        progress : BOOLEAN, compaction : BOOLEAN, stages : Nat, cheap : BOOLEAN,
                        mishaps : Nat]
    /\ {MaxRebinds, MaxFaults, MaxBatches} \subseteq Nat /\ MaxText \in Nat \ {0}

VARIABLES
    config,     \* the turn; reused: the launcher granted a retained conversation;
                \* cheap: the stages are sent at a cheaper effort than the answer;
                \* mishaps: how much may go wrong with its page or with the turn
    at,         \* where runBrowserTurn stands
    own,        \* lease, beat: the heartbeat; prompt; link: the connection or tab of its own;
                \* pill: onConnectorBound was called
    message,    \* part: the message being sent; effort: the page's; mayRun: submissionMayBeRunning;
                \* presses: messages sent; refresh: catalogRefreshAvailable;
                \* initial: initialToolBatchRevision
    page,       \* users, node, ids, other: what is new on it; inflight: Enter was pressed;
                \* closed, hung; left: mishaps that may still come
    reply,      \* gen, text, action, asking: ChatGPT's answer
    calls,      \* batches, open, live: the broker's progress; rev: the fence's revision
    watch,      \* node, ids, accepted: the binding; batch, base: the last observed tool batch
    seen,       \* present, text, action of the last look; open, live: the broker's at its reading
    waits,      \* the grace windows that are open
    tries,      \* rebinds, faults: consecutive
    aborted,    \* the turn's signal: "no", "abort" or "handoff"
    outcome,    \* how runBrowserTurn ends
    cleanup,    \* status of stopSubmittedChatGptTurn
    ended       \* what the launcher was told

turnVars == <<config, at, own, message, page, reply, calls, watch, seen, waits, tries, aborted,
              outcome, cleanup, ended>>
vars == <<composerVars, turnVars>>

Nothing == [missing |-> FALSE, empty |-> FALSE, post |-> FALSE, bare |-> 0, stable |-> 0]
Unseen  == [present |-> FALSE, text |-> 0, action |-> FALSE, open |-> 0, live |-> FALSE]
Unbound == [node |-> "none", ids |-> FALSE, accepted |-> {}, batch |-> 0, base |-> MaxText + 1]
Silent  == [gen |-> "none", text |-> 0, action |-> FALSE, asking |-> FALSE]

Phases == {"idle", "selecting", "preparing", "acquiring", "opening", "effort", "attaching", "refreshing",
           "filing", "sending", "activating", "pressing", "accepting", "binding", "looking",
           "reconciling", "reading", "judging", "fencing", "finishing", "failing", "releasing",
           "ending", "done"}

TurnTypeOK ==
    /\ config \in Turns /\ at \in Phases
    /\ own \in [lease : {"none", "held", "ended"}, beat : BOOLEAN, prompt : {"none", "held"},
                link : {"none", "open", "orphan"}, pill : BOOLEAN]
    /\ message \in [part : 1..(config.stages + 1), effort : {"none", "cheap", "asked"},
                    mayRun : BOOLEAN, presses : Nat, refresh : BOOLEAN, initial : 0..MaxBatches]
    /\ page \in [users : SUBSET {"ours", "other"}, node : {"none", "first", "lost", "second"},
                 ids : {"none", "kept", "fresh"}, other : BOOLEAN, inflight : BOOLEAN,
                 closed : BOOLEAN, hung : BOOLEAN, left : 0..config.mishaps]
    /\ reply \in [gen : {"none", "running", "over"}, text : 0..MaxText, action : BOOLEAN,
                  asking : BOOLEAN]
    /\ calls \in [batches : 0..MaxBatches, open : 0..1, live : BOOLEAN,
                  rev : {"none", "current", "stale", "committed"}]
    /\ watch \in [node : {"none", "first", "second", "other"}, ids : BOOLEAN,
                  accepted : SUBSET {"ours", "other"}, batch : 0..MaxBatches, base : 0..(MaxText + 1)]
    /\ seen \in [present : BOOLEAN, text : 0..MaxText, action : BOOLEAN, open : 0..1, live : BOOLEAN]
    /\ waits \in [missing : BOOLEAN, empty : BOOLEAN, post : BOOLEAN, bare : 0..MaxText,
                  stable : 0..MaxText]
    /\ tries \in [rebinds : 0..MaxRebinds, faults : 0..MaxFaults]
    /\ aborted \in {"no", "abort", "handoff"}
    /\ outcome \in {"none", "completed", "failed", "aborted"}
    /\ cleanup \in {"none", "stopped", "idle", "closed", "unconfirmed"}
    /\ ended \in [status : {"none", "completed", "failed", "aborted"}, bound : BOOLEAN]

\* A page that lists the connector and is Personalized.  The others come without further mishaps.
Ordinary == catalog = "listed" /\ personal.control = "labelled" /\ personal.on

TurnInit ==
    /\ config \in Turns /\ at = "idle"
    /\ own = [lease |-> "none", beat |-> FALSE, prompt |-> "none", link |-> "none", pill |-> FALSE]
    /\ message = [part |-> 1, effort |-> "none", mayRun |-> FALSE, presses |-> 0, refresh |-> FALSE,
                   initial |-> 0]
    /\ page = [users |-> {}, node |-> "none", ids |-> "none", other |-> FALSE,
                inflight |-> FALSE, closed |-> FALSE, hung |-> FALSE,
                left |-> IF Ordinary THEN config.mishaps ELSE 0]
    /\ reply = Silent
    /\ calls = [batches |-> 0, open |-> 0, live |-> FALSE, rev |-> "none"]
    /\ watch = Unbound /\ seen = Unseen /\ waits = Nothing
    /\ tries = [rebinds |-> 0, faults |-> 0]
    /\ aborted = "no" /\ outcome = "none" /\ cleanup = "none"
    /\ ended = [status |-> "none", bound |-> FALSE]

\* Without a connector the page's catalog and personalization are not looked at.
Init ==
    /\ ComposerInit /\ TurnInit
    /\ config.connector \/ Ordinary

---------------------------------------------------------------------------

Final     == message.part = config.stages + 1
Watched   == config.progress
Signalled == aborted # "no"
Readable  == ~page.hung /\ ~page.closed
pageVars  == <<page, reply, calls>>
readVars  == <<watch, seen, waits, tries>>
endVars   == <<outcome, cleanup, ended>>

Still     == UNCHANGED <<composerVars, config, own, message, pageVars, aborted>>
Goes(phase) == at' = phase /\ UNCHANGED endVars

\* What the loop knew goes with it; an error reaches the catch of runBrowserTurn.
Leaves(phase, kind) ==
    /\ at' = phase /\ outcome' = kind /\ UNCHANGED <<cleanup, ended>>
    /\ watch' = Unbound /\ seen' = Unseen /\ waits' = Nothing /\ tries' = [rebinds |-> 0, faults |-> 0]

Fails(kind) == Leaves("failing", kind)

Completes == Leaves("releasing", "completed")

Interrupts == Fails(IF Signalled THEN "aborted" ELSE "failed")

\* One of the things that go wrong.
Mishap(p) == page.left > 0 /\ page' = [p EXCEPT !.left = @ - 1]

---------------------------------------------------------------------------
(* The lease and the prompt.                                                  *)

\* A turn that was aborted before it began, or that the launcher refuses, holds nothing.
Refused ==
    /\ at = "idle" /\ (config.hosted \/ Signalled)
    /\ at' = "done" /\ outcome' = (IF Signalled THEN "aborted" ELSE "failed")
    /\ Still /\ UNCHANGED <<readVars, cleanup, ended>>

Leases ==
    /\ at = "idle" /\ ~Signalled
    /\ own' = [own EXCEPT !.lease = IF config.hosted THEN "held" ELSE @]
    /\ Goes(IF config.hosted THEN "selecting" ELSE "preparing")
    /\ UNCHANGED <<composerVars, config, message, pageVars, readVars, aborted>>

\* onPreparedSelected, which may throw; a required conversation must be the retained one.
Selects ==
    /\ at = "selecting"
    /\ \/ /\ config.required => config.reused
          /\ Goes("preparing") /\ own' = [own EXCEPT !.beat = TRUE]
       \/ at' = "ending" /\ outcome' = "failed" /\ UNCHANGED <<own, cleanup, ended>>
    /\ UNCHANGED <<composerVars, config, message, pageVars, readVars, aborted>>

\* Compiles the prompt; one that is over the model's limits fails with the prompt in hand.
Prepares ==
    /\ at = "preparing" /\ ~Signalled
    /\ own' = [own EXCEPT !.prompt = "held"]
    /\ message' = [message EXCEPT !.refresh = config.connector /\ ~config.reused /\ config.stages = 0]
    /\ (Goes("acquiring") /\ UNCHANGED readVars) \/ Fails("failed")
    /\ UNCHANGED <<composerVars, config, pageVars, aborted>>

PrepareFails ==
    /\ at = "preparing"
    /\ at' = (IF config.hosted THEN "ending" ELSE "done")
    /\ outcome' = (IF Signalled THEN "aborted" ELSE "failed")
    /\ Still /\ UNCHANGED <<readVars, cleanup, ended>>

---------------------------------------------------------------------------
(* The stages up to the message.  A stage whose time is over fails the turn   *)
(* at once and leaves its action to notice the signal; only the attachment is *)
(* waited for.                                                                *)

Acquires ==
    /\ at = "acquiring" /\ Goes("opening")
    /\ own' = [own EXCEPT !.link = "open"]
    /\ UNCHANGED <<composerVars, config, message, pageVars, readVars, aborted>>

\* The page arrives after the stage's time was over and is closed by the action.
AcquiresLate ==
    /\ at = "acquiring" /\ Fails("failed")
    /\ own' = [own EXCEPT !.link = "orphan"]
    /\ UNCHANGED <<composerVars, config, message, pageVars, aborted>>

OrphanCloses ==
    /\ own.link = "orphan" /\ own' = [own EXCEPT !.link = "none"]
    /\ UNCHANGED <<composerVars, config, at, message, pageVars, readVars, aborted, endVars>>

\* prepareTemporaryChatSurface, not for a retained conversation.
Opens == at = "opening" /\ Goes("effort") /\ Still /\ UNCHANGED readVars

EffortOf(part) == IF config.cheap /\ part <= config.stages THEN "cheap" ELSE "asked"

\* selectModelAndEffort, then the baseline: what is on the page now is not new.
SelectsEffort ==
    /\ at = "effort" /\ Goes("attaching")
    /\ message' = [message EXCEPT !.effort = EffortOf(message.part)]
    /\ page' = [page EXCEPT !.users = {}, !.node = "none", !.ids = "none", !.other = FALSE]
    /\ reply' = Silent /\ watch' = Unbound /\ seen' = Unseen /\ waits' = Nothing
    /\ Attach(Final /\ config.connector, config.reused, Final /\ config.compaction, message.refresh,
              Signalled)
    /\ UNCHANGED <<config, own, calls, tries, aborted>>

Attaching ==
    /\ at = "attaching" /\ (ComposerStep \/ SubmittedByHand)
    /\ UNCHANGED turnVars

\* The stage's time is over; the signal of the turn halts it too (Aborts).
AttachmentTimesOut == at = "attaching" /\ Halt /\ UNCHANGED turnVars

\* The stages of a Bigger Context have no files and note at once that they may be running.
Attached ==
    /\ at = "attaching" /\ step = "attached"
    /\ Goes(IF Final THEN "filing" ELSE "sending")
    /\ message' = [message EXCEPT !.mayRun = @ \/ ~Final]
    /\ own' = [own EXCEPT !.pill = Final /\ config.connector]
    /\ AttemptEnds
    /\ UNCHANGED <<composer, personal, catalog, submitted>>
    /\ UNCHANGED <<config, pageVars, readVars, aborted>>

\* What is thrown by the attachment, once it has settled.
AttachmentFails ==
    /\ at = "attaching" /\ step = "failed" /\ ~(failure = "integrity" /\ retryLeft)
    /\ IF failure = "stale" /\ message.refresh
       THEN /\ Goes("refreshing") /\ message' = [message EXCEPT !.refresh = FALSE]
            /\ UNCHANGED readVars
       ELSE Interrupts /\ UNCHANGED message
    /\ UNCHANGED <<composerVars, config, own, pageVars, aborted>>

\* The page is loaded again: its draft is gone and its list of connectors is new.
Refreshes ==
    /\ at = "refreshing" /\ Goes("effort")
    /\ composer' = Empty /\ personal' = [personal EXCEPT !.menu = FALSE]
    /\ catalog' = IF catalog = "stale" THEN "listed" ELSE catalog
    /\ UNCHANGED <<submitted, want, step, proof, proofs, receipt, triggers, retryLeft, halted, failure>>
    /\ UNCHANGED <<config, own, message, pageVars, readVars, aborted>>

Files == at = "filing" /\ Goes("sending") /\ Still /\ UNCHANGED readVars

---------------------------------------------------------------------------
(* sendAttachedPrompt.                                                        *)

\* The button was enabled on two polls.
Sends ==
    /\ at = "sending" /\ ~Signalled
    /\ Goes(IF Final THEN "activating" ELSE "pressing")
    /\ message' = [message EXCEPT !.mayRun = TRUE, !.initial = calls.batches]
    /\ UNCHANGED <<composerVars, config, own, pageVars, readVars, aborted>>

\* onSendActivated answered.
Activated == at = "activating" /\ ~Signalled /\ Goes("pressing") /\ Still /\ UNCHANGED readVars

\* Enter, which may be stopped while it is being pressed.
Presses ==
    /\ at = "pressing"
    /\ (Goes("accepting") /\ UNCHANGED readVars) \/ Interrupts
    /\ page' = [page EXCEPT !.inflight = TRUE]
    /\ message' = [message EXCEPT !.presses = @ + 1]
    /\ UNCHANGED <<composerVars, config, own, reply, calls, aborted>>

\* What is new among the answers on the page.
Answers == (IF page.node \in {"first", "second"} THEN {page.node} ELSE {})
           \cup (IF page.other THEN {"other"} ELSE {})

Unobserved == Watched /\ calls.batches > watch.batch

\* A batch is noted with the text before it, and acknowledged.
Observes(text) == watch' = [watch EXCEPT !.batch = calls.batches, !.base = text]

\* The batch of a message whose answer is not bound yet.
ObservesEarly ==
    /\ at \in {"accepting", "binding"} /\ Final /\ Unobserved /\ Readable /\ ~Signalled
    /\ Observes(IF page.node \in {"first", "second"} THEN reply.text ELSE 0)
    /\ Still /\ UNCHANGED <<at, seen, waits, tries, endVars>>

\* chatGptSubmissionEvidence, or a tool call.
Evident ==
    \/ page.users # {} \/ Answers # {} \/ reply.gen = "running"
    \/ Watched /\ Final /\ calls.batches > message.initial

Accepts ==
    /\ at = "accepting" /\ Readable /\ ~Signalled /\ Evident
    /\ IF page.users = {"ours", "other"} THEN Fails("failed")
       ELSE Goes("binding") /\ UNCHANGED <<watch, seen, waits>> /\ tries' = [tries EXCEPT !.rebinds = 0]
    /\ Still

Binds ==
    /\ at = "binding" /\ Readable /\ ~Signalled /\ Answers # {}
    /\ ~(Final /\ Unobserved)
    /\ \/ \E n \in Answers :
            /\ Answers = {n} /\ Goes("looking")
            /\ watch' = [watch EXCEPT !.node = n, !.ids = page.ids # "none", !.accepted = page.users]
            /\ tries' = [tries EXCEPT !.rebinds = 0]
            /\ UNCHANGED <<seen, waits>>
       \/ (\E m, n \in Answers : m # n) /\ Fails("failed")
    /\ Still

\* The grace is over and nothing shows that ChatGPT works.
GivesUp ==
    /\ at = "binding" /\ Readable /\ Answers = {} /\ ~(Final /\ Watched /\ calls.live)
    /\ Fails("failed") /\ Still

---------------------------------------------------------------------------
(* The loop over the bound answer: look at the page, read the broker's        *)
(* progress, judge.  The acknowledgement of a stage is the same loop without  *)
(* recovery and fence.                                                        *)

\* ChatGPT asks whether the connector may act: allowed, or denied when nobody answers.
Confirms ==
    /\ at = "looking" /\ config.connector /\ reply.asking /\ ~page.closed /\ ~Signalled
    /\ reply' = [reply EXCEPT !.asking = FALSE]
    /\ UNCHANGED <<composerVars, config, at, own, message, page, calls, readVars, aborted, endVars>>

Shown == watch.node \in Answers

\* Another message's answer has some text of its own.
TextSeen == IF watch.node = "other" THEN 1 ELSE reply.text

Looks ==
    /\ at = "looking" /\ ~page.closed /\ ~Signalled /\ ~(config.connector /\ reply.asking)
    /\ IF Shown /\ ~page.hung
       THEN /\ Goes("reading")
            /\ seen' = [Unseen EXCEPT !.present = TRUE, !.text = TextSeen, !.action = reply.action]
            /\ watch' = [watch EXCEPT !.ids = @ \/ page.ids # "none"]
       ELSE Goes("reconciling") /\ UNCHANGED <<seen, watch>>
    /\ Still /\ UNCHANGED <<waits, tries>>

\* A defect of this worker while it reads the page is tolerated a few times in a row.
Faults ==
    /\ at = "looking" /\ ~page.closed /\ ~Signalled /\ Mishap(page)
    /\ IF Final /\ tries.faults < MaxFaults
       THEN /\ tries' = [tries EXCEPT !.faults = @ + 1]
            /\ Goes("looking") /\ UNCHANGED <<watch, seen, waits>>
       ELSE Fails("failed")
    /\ UNCHANGED <<composerVars, config, own, message, reply, calls, aborted>>

\* Where the turn goes on after its page was connected again.
ResumeAt(phase) == IF phase = "reconciling" THEN "looking" ELSE phase

\* A probe got no answer: the leased page is connected again, over a new connection.  A page that
\* was not leased is waited for while the model's calls show that it works.
Rebinds ==
    /\ at \in {"accepting", "binding", "reconciling"} /\ page.hung /\ ~page.closed /\ ~Signalled
    /\ ~(at = "binding" /\ ~config.hosted /\ Final /\ Watched /\ calls.live)
    /\ IF config.hosted /\ tries.rebinds < MaxRebinds /\ (at = "reconciling" => Final)
       THEN /\ tries' = [tries EXCEPT !.rebinds = @ + 1]
            /\ Goes(ResumeAt(at)) /\ UNCHANGED <<watch, seen, waits>>
            /\ page' = [page EXCEPT !.hung = FALSE]
       ELSE Fails("failed") /\ UNCHANGED page
    /\ UNCHANGED <<composerVars, config, own, message, reply, calls, aborted>>

\* The new connection failed after the old one was closed.
RebindFails ==
    /\ at \in {"accepting", "binding", "reconciling"} /\ page.hung /\ config.hosted /\ Mishap(page)
    /\ own' = [own EXCEPT !.link = "none"] /\ Interrupts
    /\ UNCHANGED <<composerVars, config, message, reply, calls, aborted>>

\* reconcileAssistantTurnBinding: which answers may be the bound one that is gone.  Its messages'
\* ids decide; without them, or when they are new as well, the only one that is new.
Replacement ==
    IF watch.ids /\ page.node = "second" /\ page.ids = "kept" THEN {"second"} ELSE Answers

\* mutant: the users' turns are not looked at
Overtaken1 == FALSE

Overtaken == ~(page.users \subseteq watch.accepted)

Reconciles ==
    /\ at = "reconciling" /\ Readable /\ ~Signalled
    /\ \/ /\ Shown \/ (~Overtaken /\ Replacement = {} /\ ~watch.ids)
          /\ Goes("reading") /\ UNCHANGED readVars
       \/ /\ ~Shown /\ ~Overtaken
          /\ \E n \in Replacement :
                /\ Replacement = {n} /\ Goes("looking")
                /\ watch' = [watch EXCEPT !.node = n, !.accepted = page.users,
                                          !.ids = @ \/ page.ids # "none"]
          /\ UNCHANGED <<seen, waits, tries>>
       \/ /\ ~Shown
          /\ Overtaken \/ (Replacement = {} /\ watch.ids) \/ (\E m, n \in Replacement : m # n)
          /\ Fails("failed")
    /\ Still

Reads ==
    /\ at = "reading" /\ Goes("judging")
    /\ seen' = [seen EXCEPT !.open = IF Watched THEN calls.open ELSE 0, !.live = Watched /\ calls.live]
    /\ IF Unobserved
       THEN Observes(seen.text) /\ waits' = [waits EXCEPT !.post = FALSE, !.stable = 0]
       ELSE UNCHANGED <<watch, waits>>
    /\ tries' = [rebinds |-> IF seen.present THEN 0 ELSE tries.rebinds, faults |-> 0]
    /\ Still

\* The stop button is looked at after the answer.
Stopped  == reply.gen # "running" \/ page.closed
Complete == seen.present /\ Stopped /\ seen.text > 0 /\ seen.action

\* mutant: an answer that stopped without its completed-turn action is waited for
Health1 ==
    [missing |-> ~seen.live /\ ~seen.present,
     empty   |-> ~seen.live /\ seen.present /\ Stopped /\ seen.text = 0 /\ seen.action,
     bare    |-> 0]

\* ChatGptTurnDomHealthTracker.update: the windows of what proves that ChatGPT stopped.
Health ==
    [missing |-> ~seen.live /\ ~seen.present,
     empty   |-> ~seen.live /\ seen.present /\ Stopped /\ seen.text = 0 /\ seen.action,
     bare    |-> IF ~seen.live /\ seen.present /\ Stopped /\ ~seen.action THEN seen.text ELSE 0]

Unhealthy ==
    \/ waits.missing /\ Health.missing
    \/ waits.empty /\ Health.empty
    \/ Health.bare > 0 /\ waits.bare = Health.bare

Outstanding == seen.open > 0

Unanswered == seen.text = watch.base

\* ChatGptCompletionTracker.update.
Settling ==
    [post   |-> ~Outstanding /\ Unanswered /\ Complete,
     stable |-> IF ~Outstanding /\ ~Unanswered /\ Complete THEN seen.text ELSE 0]

Ready == Settling.stable > 0 /\ waits.stable = Settling.stable

NextWindows ==
    IF seen.present
    THEN [missing |-> FALSE, empty |-> Health.empty, bare |-> Health.bare,
          post |-> Settling.post, stable |-> Settling.stable]
    ELSE [waits EXCEPT !.missing = Health.missing]

\* A verdict; elapsed: the windows that stay open have been open for their time.
Judges(elapsed) ==
    /\ at = "judging"
    /\ \/ /\ elapsed /\ (Unhealthy \/ (waits.post /\ Settling.post))
          /\ Fails("failed") /\ UNCHANGED calls
       \/ /\ ~(elapsed /\ Unhealthy) /\ Ready /\ (elapsed \/ calls.rev # "none")
          /\ Goes("fencing") /\ UNCHANGED <<calls, watch, seen, tries>> /\ waits' = NextWindows
       \/ /\ ~(elapsed /\ (Unhealthy \/ (waits.post /\ Settling.post)))
          /\ ~(Ready /\ (elapsed \/ calls.rev # "none"))
          /\ Goes("looking") /\ UNCHANGED <<watch, tries>>
          /\ seen' = Unseen /\ waits' = NextWindows
          /\ calls' = [calls EXCEPT !.rev = IF seen.present THEN "none" ELSE @]
    /\ UNCHANGED <<composerVars, config, own, message, page, reply, aborted>>

\* completionFence.begin, and one more look before the commit.
Begins ==
    /\ at = "fencing" /\ Watched /\ Final /\ calls.rev = "none"
    /\ Goes("looking") /\ seen' = Unseen
    /\ calls' = [calls EXCEPT !.rev = IF calls.open > 0 THEN @ ELSE "current"]
    /\ UNCHANGED <<composerVars, config, own, message, page, reply, watch, waits, tries, aborted>>

\* mutant: the fence is not asked again
Fenced1 == TRUE

\* completionFence.commit: refused when the broker saw activity since.
Fenced == calls.rev = "current" /\ calls.open = 0

Commits ==
    /\ at = "fencing" /\ (Watched /\ Final => calls.rev # "none")
    /\ IF ~(Watched /\ Final)
       THEN Goes("finishing") /\ UNCHANGED <<calls, seen>>
       ELSE IF Fenced
       THEN Goes("finishing") /\ UNCHANGED seen /\ calls' = [calls EXCEPT !.rev = "committed"]
       ELSE Goes("looking") /\ seen' = Unseen /\ calls' = [calls EXCEPT !.rev = "none"]
    /\ UNCHANGED <<composerVars, config, own, message, page, reply, watch, waits, tries, aborted>>

\* The answer is whole, or cannot be told as Markdown; a stage's must be its acknowledgement.
Finishes ==
    /\ at = "finishing"
    /\ \/ Fails("failed") /\ UNCHANGED message
       \/ Final /\ Completes /\ message' = [message EXCEPT !.mayRun = FALSE]
       \/ /\ ~Final /\ Goes("effort") /\ message' = [message EXCEPT !.part = @ + 1]
          /\ UNCHANGED readVars
    /\ UNCHANGED <<composerVars, config, own, pageVars, aborted>>

---------------------------------------------------------------------------
(* What stops a turn.                                                         *)

Staged == {"acquiring", "opening", "effort", "refreshing", "filing", "sending", "activating", "accepting"}

\* A stage's time is over, or its action throws.
StageFails ==
    /\ at \in Staged \/ (~Final /\ at \in {"binding", "looking", "reconciling"})
    /\ Fails("failed") /\ Still

\* An alert of the page, Stopped thinking, a conflicting Markdown, the turn's own deadline.
AlertStops ==
    /\ at \in {"binding", "looking", "judging"} /\ Mishap(page) /\ Fails("failed")
    /\ UNCHANGED <<composerVars, config, own, message, reply, calls, aborted>>

ClosedStops ==
    /\ at \in {"binding", "looking", "reconciling"} /\ page.closed
    /\ Fails(IF at = "reconciling" THEN "failed" ELSE "aborted") /\ Still

SignalStops ==
    /\ at \in {"sending", "activating", "accepting", "binding", "looking", "reconciling"} /\ Signalled
    /\ Fails("aborted") /\ Still

---------------------------------------------------------------------------
(* The end: what was submitted is stopped, then everything is given back.     *)

\* mutant: a turn that was aborted leaves ChatGPT as it is
Stoppable1 == message.mayRun /\ outcome # "aborted"

\* A turn that ends with an accepted handoff leaves ChatGPT to finish.
Stoppable == message.mayRun /\ ~(aborted = "handoff" /\ outcome = "aborted")

\* stopSubmittedChatGptTurn: the stop button is looked for once.
Cleans ==
    /\ at = "failing" /\ at' = "releasing"
    /\ \/ ~Stoppable /\ UNCHANGED <<reply, cleanup>>
       \/ Stoppable /\ cleanup' = "unconfirmed" /\ UNCHANGED reply
       \/ /\ Stoppable /\ (page.closed \/ own.link # "open")
          /\ cleanup' = "closed" /\ UNCHANGED reply
       \/ /\ Stoppable /\ ~page.closed /\ own.link = "open"
          /\ cleanup' = IF reply.gen = "running" THEN "stopped" ELSE "idle"
          /\ reply' = [reply EXCEPT !.gen = IF @ = "running" THEN "over" ELSE @]
    /\ UNCHANGED <<composerVars, config, own, message, page, calls, readVars, aborted, outcome, ended>>

Released == [own EXCEPT !.prompt = "none", !.link = IF @ = "open" THEN "none" ELSE @]

Releases ==
    /\ at = "releasing" /\ Goes(IF config.hosted THEN "ending" ELSE "done")
    /\ own' = Released
    /\ UNCHANGED <<composerVars, config, message, pageVars, readVars, aborted>>

Status == IF aborted = "handoff" /\ outcome = "aborted" THEN "completed" ELSE outcome

\* The launcher is told; its answer may be that the user closed the tab, or be lost.
Ends ==
    /\ at = "ending" /\ at' = "done"
    /\ own' = [own EXCEPT !.lease = "ended", !.beat = FALSE]
    /\ ended' = [status |-> Status, bound |-> own.pill /\ Status = "completed"]
    /\ outcome' \in {outcome, "aborted", IF outcome = "completed" THEN "failed" ELSE outcome}
    /\ UNCHANGED <<composerVars, config, message, pageVars, readVars, aborted, cleanup>>

---------------------------------------------------------------------------
(* The turn's signal, the page, ChatGPT and the broker.                       *)

Aborts ==
    /\ aborted = "no" /\ at \notin {"failing", "releasing", "ending", "done"} /\ Mishap(page)
    /\ aborted' \in {"abort"} \cup (IF config.required /\ reply.gen # "none" THEN {"handoff"} ELSE {})
    /\ halted' = (halted \/ at = "attaching")
    /\ UNCHANGED <<composer, personal, catalog, submitted, want, step, proof, proofs, receipt, triggers,
                   retryLeft, failure>>
    /\ UNCHANGED <<config, at, own, message, reply, calls, readVars, endVars>>

Outside == at # "done" /\ UNCHANGED <<config, at, own, message, readVars, aborted, endVars>>

\* Enter arrives, at last or too late; it may also be ignored.
Submits ==
    /\ page.inflight /\ ~page.closed
    /\ page' = [page EXCEPT !.inflight = FALSE, !.users = @ \cup {"ours"}]
    /\ composer' = Empty /\ reply' = [reply EXCEPT !.gen = "running"]
    /\ UNCHANGED <<personal, catalog, submitted, want, step, proof, proofs, receipt, triggers, retryLeft,
                   halted, failure, calls>>
    /\ Outside

\* The answer's element appears, gets its messages' ids, goes and is replaced.
AnswerMoves ==
    /\ reply.gen # "none" /\ ~page.closed /\ at \notin {"failing", "releasing", "ending"}
    /\ \E ids \in {"none", "kept", "fresh"} :
        \/ page.node = "none" /\ ids # "fresh" /\ page' = [page EXCEPT !.node = "first", !.ids = ids]
        \/ page.node = "first" /\ page.ids = "none" /\ page' = [page EXCEPT !.ids = "kept"]
        \/ page.node = "first" /\ Mishap([page EXCEPT !.node = "lost"])
        \/ page.node = "lost" /\ page' = [page EXCEPT !.node = "second", !.ids = ids]
    /\ UNCHANGED <<composerVars, reply, calls>> /\ Outside

\* The user sends another message in the tab.
Intrudes ==
    /\ "ours" \in page.users /\ ~page.closed /\ at \notin {"failing", "releasing", "ending"}
    /\ \/ "other" \notin page.users /\ Mishap([page EXCEPT !.users = @ \cup {"other"}])
       \/ "other" \in page.users /\ ~page.other /\ page' = [page EXCEPT !.other = TRUE]
    /\ UNCHANGED <<composerVars, reply, calls>> /\ Outside

PageCloses ==
    /\ own.link = "open" /\ ~page.closed /\ Mishap([page EXCEPT !.closed = TRUE])
    /\ UNCHANGED <<composerVars, reply, calls>> /\ Outside

Hangs ==
    /\ at \in {"accepting", "binding", "looking"} /\ ~page.hung
    /\ Mishap([page EXCEPT !.hung = TRUE])
    /\ UNCHANGED <<composerVars, reply, calls>> /\ Outside

Writes ==
    /\ reply.gen = "running" /\ ~reply.asking /\ reply.text < MaxText
    /\ reply' = [reply EXCEPT !.text = @ + 1]
    /\ UNCHANGED <<composerVars, page, calls>> /\ Outside

Asks ==
    /\ reply.gen = "running" /\ config.connector /\ Watched /\ ~reply.asking
    /\ calls.batches < MaxBatches /\ reply' = [reply EXCEPT !.asking = TRUE]
    /\ UNCHANGED <<composerVars, page, calls>> /\ Outside

ReplyEnds ==
    /\ reply.gen = "running" /\ ~reply.asking /\ reply' = [reply EXCEPT !.gen = "over"]
    /\ UNCHANGED <<composerVars, page, calls>> /\ Outside

ActionShows ==
    /\ reply.gen = "over" /\ ~reply.action /\ reply' = [reply EXCEPT !.action = TRUE]
    /\ UNCHANGED <<composerVars, page, calls>> /\ Outside

\* The broker's activity makes the fence's revision stale.
Active(c) == [c EXCEPT !.live = TRUE, !.rev = IF @ = "current" THEN "stale" ELSE @]

\* Also after the page shows the answer as over: the two reach the worker by different ways.
CallArrives ==
    /\ reply.gen # "none" /\ ~reply.asking /\ Watched /\ config.connector
    /\ calls.batches < MaxBatches /\ calls.open = 0 /\ calls.rev # "committed"
    /\ calls' = [Active(calls) EXCEPT !.batches = @ + 1, !.open = 1]
    /\ UNCHANGED <<composerVars, page, reply>> /\ Outside

\* Codex runs the call only when its batch was acknowledged.
CallReturns ==
    /\ calls.open = 1 /\ watch.batch = calls.batches
    /\ calls' = [Active(calls) EXCEPT !.open = 0]
    /\ UNCHANGED <<composerVars, page, reply>> /\ Outside

\* The last activity is older than the grace, or than the ceiling of an open call.
Lapses ==
    /\ calls.live /\ calls' = [calls EXCEPT !.live = FALSE]
    /\ UNCHANGED <<composerVars, page, reply>> /\ Outside

---------------------------------------------------------------------------

WorkerStep ==
    \/ Refused \/ Leases \/ Selects \/ Prepares \/ PrepareFails \/ Acquires \/ AcquiresLate
    \/ OrphanCloses \/ Opens \/ SelectsEffort \/ Attached \/ AttachmentFails \/ Refreshes \/ Files
    \/ Sends \/ Activated \/ Presses \/ ObservesEarly \/ Accepts \/ Binds \/ GivesUp
    \/ Confirms \/ Looks \/ Rebinds \/ Reconciles \/ Reads \/ Begins \/ Commits \/ Finishes
    \/ ClosedStops \/ SignalStops \/ Cleans \/ Releases \/ Ends

Next ==
    \/ WorkerStep \/ Attaching \/ AttachmentTimesOut
    \/ Faults \/ RebindFails \/ StageFails \/ AlertStops \/ (\E elapsed \in BOOLEAN : Judges(elapsed))
    \/ Aborts \/ Submits \/ AnswerMoves \/ Intrudes \/ PageCloses \/ Hangs
    \/ Writes \/ Asks \/ ReplyEnds \/ ActionShows \/ CallArrives \/ CallReturns \/ Lapses

\* The worker's own steps and timers; ChatGPT ends its answer, and shows that an answer without
\* text is over (the worker has no window for one that does not); a call returns, activity ages.
Fairness ==
    /\ WF_vars(WorkerStep) /\ WF_vars(Looks) /\ WF_vars(Attaching) /\ WF_vars(StageFails)
    /\ WF_vars(\E elapsed \in BOOLEAN : Judges(elapsed)) /\ SF_vars(Judges(TRUE))
    /\ SF_vars(ReplyEnds) /\ WF_vars(reply.text = 0 /\ ActionShows) /\ WF_vars(CallReturns) /\ WF_vars(Lapses)

Spec == Init /\ [][Next]_vars /\ Fairness

---------------------------------------------------------------------------
(* From the end of the attachment until Enter the composer holds the whole    *)
(* message, with its connector exactly when it was asked for.                 *)
AttachedIsWhole ==
    at \in {"filing", "sending", "activating", "pressing"} =>
        /\ ~submitted /\ composer.text = "prompt"
        /\ composer.pill = (Final /\ config.connector)

(* Every part of a Bigger Context is sent once, whatever its page does, and   *)
(* the message after all its stages, at the effort the turn asked for.        *)
SentInOrder ==
    /\ message.presses <= message.part
    /\ (at = "pressing" /\ Final) => message.presses = config.stages /\ message.effort = "asked"

(* A turn completes with all of its answer: ChatGPT stopped, the text is what *)
(* the page shows and newer than the last tool call that was observed, no     *)
(* call is open and none was recorded that the worker did not observe.        *)
CompletedIsWhole ==
    (at = "finishing" /\ Final) =>
        /\ Watched => calls.open = 0 /\ watch.batch = calls.batches
        /\ watch.node # "other" =>
               reply.gen = "over" /\ seen.text = reply.text /\ reply.text # watch.base

(* What is sent and what is taken for the answer is whole, on a page that      *)
(* may lose, delay or replace any of it.                                      *)
ExchangeIsWhole ==
    ComposerTypeOK /\ TurnTypeOK /\ AttachedIsWhole /\ SentInOrder /\ CompletedIsWhole

(* A turn stays with its own answer: when ChatGPT replaces the element, the   *)
(* worker never follows to the answer of a message sent after it was bound.   *)
OwnAnswerOnly ==
    [][(watch.node \in {"first", "second"} /\ watch'.node = "other") => "other" \in watch.accepted]_vars

(* However a turn ends, a failed attempt leaves the page as it found it; the  *)
(* prompt, the connection, the lease and the heartbeat are given back; the    *)
(* launcher learns of a bound connector only from a completed turn; and       *)
(* ChatGPT is stopped when the worker may have submitted to it, unless its    *)
(* cleanup says otherwise.                                                    *)
EndIsClean ==
    /\ FailedIsClean
    /\ at = "done" => own.prompt = "none" /\ own.link # "open" /\ own.lease # "held" /\ ~own.beat
    /\ ended.bound => ended.status = "completed" /\ Final
    /\ (at \in {"releasing", "ending"} /\ outcome # "completed" /\ reply.gen = "running") =>
           Status = "completed" \/ cleanup \in {"unconfirmed", "closed", "idle"}

(* Every turn ends, without any deadline of its own: when the page never      *)
(* shows the message or the answer, loses it, stops without an end, hangs or  *)
(* is closed, provided that ChatGPT stops writing and every call returns.     *)
TurnEnds == <>(at = "done")
=============================================================================
