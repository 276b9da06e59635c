--------------------------- MODULE BrowserHelper ---------------------------
(***************************************************************************)
(* A browser turn runs in a helper process of its own.  The daemon's       *)
(* client (launcher-helper-client.ts) spawns the helper, writes frames to  *)
(* its input and reads frames from its output; the helper                  *)
(* (browser-helper-main.ts) drives the worker (browser-worker.ts), which   *)
(* takes a tab from the launcher, asks for the prompt, asks leave to press *)
(* Send, reads the answer and gives the tab back.  The two sides know a    *)
(* turn by its trace id only, and a retry of a turn has the same id.       *)
(* Left out: progress, trace and text frames, the completion fence (see    *)
(* TurnCompletion), the stages of a prompt sent in several messages, and   *)
(* maintenance.                                                            *)
(***************************************************************************)
EXTENDS Integers, Sequences, FiniteSets

CONSTANTS
  Runs,         \* browser turns, numbered in the order the adapter starts them
  Traces,       \* the trace ids they carry
  Trace,        \* the trace id of each
  MaxHelpers    \* how many helpers are spawned: a bound of the model

ASSUME RunsAssumption == Runs \subseteq Nat /\ Trace \in [Runs -> Traces]
ASSUME HelpersAssumption == MaxHelpers \in Nat \ {0}

Helpers == 1..MaxHelpers
None == 0       \* no helper

VARIABLES
  \* the daemon: its adapter, the client and the turns the client waits for
  run,          \* "new", "starting" (awaits a ready helper), "pending", "settled"
  settlement,   \* what the adapter was told: "answer", "error", "upstream"
  phase,        \* how far the adapter believes Send went
  prompt,       \* the prompt's lease: "none", "compiling", "held", "released"
  signalled,    \* the turn's abort signal was raised
  failed,       \* a failure on the daemon's side overrides the helper's result
  ending,       \* crashed helpers whose turns are being ended at the launcher
  child,        \* the helper the client owns
  ready,        \* whether it said that it is ready
  spawned,      \* how many were spawned
  closed,       \* the daemon closed its workers
  \* the pipes
  input,        \* frames on their way to each helper
  output,       \* frames on their way from each helper
  \* the helpers
  proc,         \* "unborn", "up", "closing", "dead"
  home,         \* the helper each run was given to
  worker,       \* where the helper's worker is with it
  stopped,      \* the helper's abort signal for it
  waiting,      \* it waits for the leave to press Send
  verdict,      \* how it ended in the worker
  \* the outside
  lease,        \* the helper that owns the launcher's tab of each trace
  pressed,      \* Send was pressed for the run
  early         \* history: its abort was raised while the phase was "prepared"

daemonVars == <<run, settlement, phase, prompt, signalled, failed, ending, child, ready,
                spawned, closed, early>>
helperVars == <<proc, home, worker, stopped, waiting, verdict, pressed>>
allVars == <<daemonVars, helperVars, input, output, lease>>

Working == {"selecting", "preparing", "activating", "sending", "submitting", "answering"}
Over == {"none", "refused", "done"}

Frame(kind, r) == [kind |-> kind, run |-> r]
Frames == [kind : {"ready", "select", "activated", "submitted", "result", "error", "upstream",
                   "run", "prompt", "sendAck", "abort", "shutdown"},
           run : Runs \cup {None}]

TypeOK ==
  /\ run \in [Runs -> {"new", "starting", "pending", "settled"}]
  /\ settlement \in [Runs -> {"none", "answer", "error", "upstream"}]
  /\ phase \in [Runs -> {"prepared", "send_activated", "accepted"}]
  /\ prompt \in [Runs -> {"none", "compiling", "held", "released"}]
  /\ {signalled, failed, stopped, waiting, pressed, early} \subseteq [Runs -> BOOLEAN]
  /\ ending \subseteq Runs \X Helpers
  /\ child \in Helpers \cup {None}
  /\ ready \in BOOLEAN /\ closed \in BOOLEAN
  /\ spawned \in 0..MaxHelpers
  /\ input \in [Helpers -> Seq(Frames)] /\ output \in [Helpers -> Seq(Frames)]
  /\ proc \in [Helpers -> {"unborn", "up", "closing", "dead"}]
  /\ home \in [Runs -> Helpers \cup {None}]
  /\ worker \in [Runs -> Working \cup Over \cup {"leasing", "ending"}]
  /\ verdict \in [Runs -> {"none", "completed", "failed", "upstream", "aborted"}]
  /\ lease \in [Traces -> Helpers \cup {None}]

HelperInit ==
  /\ run = [r \in Runs |-> "new"]
  /\ settlement = [r \in Runs |-> "none"]
  /\ phase = [r \in Runs |-> "prepared"]
  /\ prompt = [r \in Runs |-> "none"]
  /\ signalled = [r \in Runs |-> FALSE]
  /\ failed = [r \in Runs |-> FALSE]
  /\ ending = {}
  /\ child = None /\ ready = FALSE /\ spawned = 0 /\ closed = FALSE
  /\ input = [c \in Helpers |-> <<>>]
  /\ output = [c \in Helpers |-> <<>>]
  /\ proc = [c \in Helpers |-> "unborn"]
  /\ home = [r \in Runs |-> None]
  /\ worker = [r \in Runs |-> "none"]
  /\ stopped = [r \in Runs |-> FALSE]
  /\ waiting = [r \in Runs |-> FALSE]
  /\ verdict = [r \in Runs |-> "none"]
  /\ lease = [t \in Traces |-> None]
  /\ pressed = [r \in Runs |-> FALSE]
  /\ early = [r \in Runs |-> FALSE]

-----------------------------------------------------------------------------
(* The client. *)

(* The turn the client waits for under a trace id, if there is one. *)
PendingOf(t) == {r \in Runs : run[r] = "pending" /\ Trace[r] = t}

(* What finishing a set of turns does: the promise settles, a prompt that was held is released. *)
Settle(rs, how) ==
  /\ run' = [r \in Runs |-> IF r \in rs THEN "settled" ELSE run[r]]
  /\ settlement' = [r \in Runs |-> IF r \in rs THEN (IF failed[r] THEN "error" ELSE how) ELSE settlement[r]]
  /\ prompt' = [r \in Runs |-> IF r \in rs /\ prompt[r] = "held" THEN "released" ELSE prompt[r]]

(* A frame is written to the helper the client owns now; with none the write fails. *)
Send(kind, r) == input' = [input EXCEPT ![child] = Append(@, Frame(kind, r))]

(* Telling the helper to abort; when that cannot be written the turn is over at once. *)
AbortHelper(r) ==
  IF child = None
    THEN Settle({r}, "error") /\ UNCHANGED input
    ELSE Send("abort", r) /\ UNCHANGED <<run, settlement, prompt>>

(* The adapter starts another run of a turn only when the last one is over and its prompt was     *)
(* surely not sent, or was answered by an error of the upstream and by nothing else.             *)
Retryable(r) ==
  /\ run[r] = "settled"
  /\ \/ settlement[r] # "answer" /\ phase[r] = "prepared"
     \/ settlement[r] = "upstream" /\ phase[r] = "accepted"

Start(r) ==
  /\ run[r] = "new" /\ ~closed
  /\ \A q \in Runs : q < r /\ Trace[q] = Trace[r] => Retryable(q)
  /\ run' = [run EXCEPT ![r] = "starting"]
  /\ IF child # None
       THEN home' = [home EXCEPT ![r] = child] /\ UNCHANGED <<child, ready, spawned, proc, output>>
       ELSE /\ spawned < MaxHelpers
            /\ spawned' = spawned + 1
            /\ child' = spawned'
            /\ ready' = FALSE
            /\ home' = [home EXCEPT ![r] = spawned']
            /\ proc' = [proc EXCEPT ![spawned'] = "up"]
            /\ output' = [output EXCEPT ![spawned'] = <<Frame("ready", None)>>]
  /\ UNCHANGED <<settlement, phase, prompt, signalled, failed, ending, closed, early,
                 worker, stopped, waiting, verdict, pressed, input, lease>>

(* The helper is ready: the turn is handed over, unless it was aborted while it waited. *)
Dispatch(r) ==
  /\ run[r] = "starting" /\ home[r] = child /\ ready
  /\ IF signalled[r]
       THEN Settle({r}, "error") /\ UNCHANGED input
       ELSE /\ run' = [run EXCEPT ![r] = "pending"]
            /\ Send("run", r)
            /\ UNCHANGED <<settlement, prompt>>
  /\ UNCHANGED <<phase, signalled, failed, ending, child, ready, spawned, closed, early,
                 helperVars, output, lease>>

(* The adapter's abort signal: at a handed-over turn it becomes a frame behind the run frame. *)
Abort(r) ==
  /\ run[r] \in {"starting", "pending"} /\ ~signalled[r]
  /\ signalled' = [signalled EXCEPT ![r] = TRUE]
  /\ early' = [early EXCEPT ![r] = phase[r] = "prepared"]
  /\ IF run[r] = "pending" THEN AbortHelper(r) ELSE UNCHANGED <<run, settlement, prompt, input>>
  /\ UNCHANGED <<phase, failed, ending, child, ready, spawned, closed, helperVars, output, lease>>

-----------------------------------------------------------------------------
(* Frames from the helper the client owns.  A frame names a trace; "run" only records its writer. *)

Heard(kind) == child # None /\ output[child] # <<>> /\ Head(output[child]).kind = kind
Addressee == PendingOf(Trace[Head(output[child]).run])
Read == output' = [output EXCEPT ![child] = Tail(@)]

HearReady ==
  /\ Heard("ready") /\ Read
  /\ ready' = TRUE
  /\ UNCHANGED <<run, settlement, phase, prompt, signalled, failed, ending, child, spawned, closed, early,
                 helperVars, input, lease>>

(* prepared_selected: the prompt is compiled, which takes its time. *)
HearSelect ==
  /\ Heard("select") /\ Read
  /\ prompt' = [r \in Runs |-> IF r \in Addressee THEN "compiling" ELSE prompt[r]]
  /\ UNCHANGED <<run, settlement, phase, signalled, failed, ending, child, ready, spawned, closed, early,
                 helperVars, input, lease>>

(* The compiled prompt is handed to the helper; one that comes too late is released at once. *)
Compiled(r) ==
  /\ prompt[r] = "compiling"
  /\ CASE run[r] # "pending" ->
            /\ prompt' = [prompt EXCEPT ![r] = "released"]
            /\ UNCHANGED <<run, settlement, failed, input>>
       [] run[r] = "pending" /\ child # None ->
            /\ prompt' = [prompt EXCEPT ![r] = "held"]
            /\ Send("prompt", r)
            /\ UNCHANGED <<run, settlement, failed>>
       [] OTHER ->
            /\ run' = [run EXCEPT ![r] = "settled"]
            /\ settlement' = [settlement EXCEPT ![r] = "error"]
            /\ prompt' = [prompt EXCEPT ![r] = "released"]
            /\ UNCHANGED <<failed, input>>
  /\ UNCHANGED <<phase, signalled, ending, child, ready, spawned, closed, early, helperVars, output, lease>>

(* The prompt cannot be compiled: the daemon remembers why and aborts the helper's turn. *)
CompileFails(r) ==
  /\ prompt[r] = "compiling"
  /\ IF run[r] = "pending" /\ ~failed[r]
       THEN /\ failed' = [failed EXCEPT ![r] = TRUE]
            /\ IF child = None
                 THEN /\ run' = [run EXCEPT ![r] = "settled"]
                      /\ settlement' = [settlement EXCEPT ![r] = "error"]
                      /\ UNCHANGED input
                 ELSE Send("abort", r) /\ UNCHANGED <<run, settlement>>
       ELSE UNCHANGED <<run, settlement, failed, input>>
  /\ prompt' = [prompt EXCEPT ![r] = "none"]
  /\ UNCHANGED <<phase, signalled, ending, child, ready, spawned, closed, early, helperVars, output, lease>>

(* Mutant: the leave is given, and only "submitted" is noted. *)
HearActivatedUnnoted ==
  /\ Heard("activated") /\ Read
  /\ IF Addressee = {} THEN UNCHANGED input ELSE Send("sendAck", CHOOSE r \in Addressee : TRUE)
  /\ UNCHANGED <<run, settlement, phase, prompt, signalled, failed, ending, child, ready, spawned, closed,
                 early, helperVars, lease>>

(* send_activated: the adapter notes that Send may be pressed, and only then the leave is given. *)
HearActivated ==
  /\ Heard("activated") /\ Read
  /\ phase' = [r \in Runs |-> IF r \in Addressee THEN "send_activated" ELSE phase[r]]
  /\ IF Addressee = {} THEN UNCHANGED input ELSE Send("sendAck", CHOOSE r \in Addressee : TRUE)
  /\ UNCHANGED <<run, settlement, prompt, signalled, failed, ending, child, ready, spawned, closed, early,
                 helperVars, lease>>

HearSubmitted ==
  /\ Heard("submitted") /\ Read
  /\ phase' = [r \in Runs |-> IF r \in Addressee THEN "accepted" ELSE phase[r]]
  /\ UNCHANGED <<run, settlement, prompt, signalled, failed, ending, child, ready, spawned, closed, early,
                 helperVars, input, lease>>

(* A result or an error ends whatever turn waits under its trace id. *)
HearEnd ==
  /\ \/ Heard("result") /\ Settle(Addressee, "answer")
     \/ Heard("error") /\ Settle(Addressee, "error")
     \/ Heard("upstream") /\ Settle(Addressee, "upstream")
  /\ Read
  /\ UNCHANGED <<phase, signalled, failed, ending, child, ready, spawned, closed, early,
                 helperVars, input, lease>>

Hear == HearReady \/ HearSelect \/ HearActivated \/ HearSubmitted \/ HearEnd

-----------------------------------------------------------------------------
(* The end of a helper, as the client sees it. *)

Starting(c) == {r \in Runs : run[r] = "starting" /\ home[r] = c}
Pending == {r \in Runs : run[r] = "pending"}

(* No "ready" in time: the client drops the helper and has it terminated. *)
ReadyTimesOut ==
  /\ child # None /\ ~ready
  /\ child' = None
  /\ Settle(Starting(child), "error")
  /\ input' = [input EXCEPT ![child] = Append(@, Frame("shutdown", None))]
  /\ UNCHANGED <<phase, signalled, failed, ending, ready, spawned, closed, early, helperVars, output, lease>>

(* Mutant: the turns that were handed over are forgotten. *)
HandleExitForgetful ==
  /\ child # None /\ proc[child] = "dead"
  /\ child' = None /\ ready' = FALSE
  /\ Settle(Starting(child), "error")
  /\ output' = [output EXCEPT ![child] = <<>>]
  /\ UNCHANGED <<phase, signalled, failed, ending, spawned, closed, early, helperVars, input, lease>>

(* The helper is gone: turns that wait for a helper fail, and each turn handed over is first *)
(* ended at the launcher.  Frames that were still unread are ignored.                       *)
HandleExit ==
  /\ child # None /\ proc[child] = "dead"
  /\ child' = None /\ ready' = FALSE
  /\ Settle(Starting(child), "error")
  /\ ending' = ending \cup (Pending \X {child})
  /\ output' = [output EXCEPT ![child] = <<>>]
  /\ UNCHANGED <<phase, signalled, failed, spawned, closed, early, helperVars, input, lease>>

(* The launcher was told, or could not be: either way the turn under that trace id is over. *)
ExitTold(r, c, told) ==
  /\ <<r, c>> \in ending
  /\ ending' = ending \ {<<r, c>>}
  /\ lease' = IF told /\ lease[Trace[r]] = c THEN [lease EXCEPT ![Trace[r]] = None] ELSE lease
  /\ Settle(PendingOf(Trace[r]), "error")
  /\ UNCHANGED <<phase, signalled, failed, child, ready, spawned, closed, early,
                 helperVars, input, output>>

(* The daemon shuts down: the client lets go of its helper and of every turn handed over to it. *)
Close ==
  /\ ~closed
  /\ closed' = TRUE
  /\ child' = None /\ ready' = FALSE
  /\ Settle(Pending, "error")
  /\ IF child = None
       THEN UNCHANGED input
       ELSE input' = [input EXCEPT ![child] = Append(@, Frame("shutdown", None))]
  /\ UNCHANGED <<phase, signalled, failed, ending, spawned, early, helperVars, output, lease>>

-----------------------------------------------------------------------------
(* The helper. *)

ActiveIn(c, r) == home[r] = c /\ worker[r] \notin Over
Write(c, kind, r) ==
  output' = IF proc[c] = "up" THEN [output EXCEPT ![c] = Append(@, Frame(kind, r))] ELSE output

Receives(c, kind) == proc[c] = "up" /\ input[c] # <<>> /\ Head(input[c]).kind = kind
Taken(c) == input' = [input EXCEPT ![c] = Tail(@)]

(* The helper's turn under the trace id of the frame that is read. *)
Target(c) == {r \in Runs : ActiveIn(c, r) /\ Trace[r] = Trace[Head(input[c]).run]}

(* A run frame starts a turn, unless the helper still has one with this trace id. *)
ReceiveRun(c) ==
  /\ Receives(c, "run") /\ Taken(c)
  /\ LET r == Head(input[c]).run
     IN IF Target(c) = {}
          THEN worker' = [worker EXCEPT ![r] = "leasing"] /\ UNCHANGED output
          ELSE worker' = [worker EXCEPT ![r] = "refused"] /\ Write(c, "error", r)
  /\ UNCHANGED <<daemonVars, proc, home, stopped, waiting, verdict, pressed, lease>>

(* The prompt for the turn that selects one.  A turn that is not there is answered by an error. *)
ReceivePrompt(c) ==
  /\ Receives(c, "prompt") /\ Taken(c)
  /\ worker' = [r \in Runs |-> IF r \in Target(c) /\ worker[r] = "selecting" /\ ~stopped[r]
                             THEN "preparing" ELSE worker[r]]
  /\ IF Target(c) = {} THEN Write(c, "error", Head(input[c]).run) ELSE UNCHANGED output
  /\ UNCHANGED <<daemonVars, proc, home, stopped, waiting, verdict, pressed, lease>>

(* The leave to press Send.  With nobody waiting for it the helper writes an error under the turn. *)
ReceiveSendAck(c) ==
  /\ Receives(c, "sendAck") /\ Taken(c)
  /\ LET told == {r \in Target(c) : waiting[r]}
     IN /\ waiting' = [r \in Runs |-> waiting[r] /\ r \notin told]
        /\ worker' = [r \in Runs |-> IF r \in told /\ worker[r] = "activating" THEN "sending" ELSE worker[r]]
        /\ IF told = {} THEN Write(c, "error", Head(input[c]).run) ELSE UNCHANGED output
  /\ UNCHANGED <<daemonVars, proc, home, stopped, verdict, pressed, lease>>

(* Aborting stops the turn and rejects what it waits for. *)
ReceiveAbort(c) ==
  /\ Receives(c, "abort") /\ Taken(c)
  /\ stopped' = [r \in Runs |-> stopped[r] \/ r \in Target(c)]
  /\ waiting' = [r \in Runs |-> waiting[r] /\ r \notin Target(c)]
  /\ UNCHANGED <<daemonVars, proc, home, worker, verdict, pressed, output, lease>>

(* Shutting down: nothing more is written or read, every turn is aborted and unwinds. *)
ShutDown(c) ==
  /\ Receives(c, "shutdown")
  /\ input' = [input EXCEPT ![c] = <<>>]
  /\ proc' = [proc EXCEPT ![c] = "closing"]
  /\ stopped' = [r \in Runs |-> stopped[r] \/ ActiveIn(c, r)]
  /\ waiting' = [r \in Runs |-> waiting[r] /\ ~ActiveIn(c, r)]
  /\ UNCHANGED <<daemonVars, home, worker, verdict, pressed, output, lease>>

Dies(c) ==
  /\ proc' = [proc EXCEPT ![c] = "dead"]
  /\ input' = [input EXCEPT ![c] = <<>>]
  /\ UNCHANGED <<daemonVars, home, worker, stopped, waiting, verdict, pressed, output, lease>>

(* A helper that shuts down exits when its turns are over, or is killed because they are not. *)
Exit(c) == proc[c] = "closing" /\ Dies(c)

(* A helper crashes. *)
Crash(c) == proc[c] = "up" /\ Dies(c)

-----------------------------------------------------------------------------
(* The worker of the helper, at one turn. *)

Alive(r) == home[r] # None /\ proc[home[r]] \in {"up", "closing"}

(* The launcher gives the turn a tab, unless a live helper has the tab of that trace. *)
Lease(r) ==
  /\ Alive(r) /\ worker[r] = "leasing"
  /\ lease[Trace[r]] \in {None, home[r]} \cup {c \in Helpers : proc[c] = "dead"}
  /\ lease' = [lease EXCEPT ![Trace[r]] = home[r]]
  /\ worker' = [worker EXCEPT ![r] = "selecting"]
  /\ Write(home[r], "select", r)
  /\ UNCHANGED <<daemonVars, proc, home, stopped, waiting, verdict, pressed, input>>

(* The launcher refuses; there is nothing to give back. *)
LeaseRefused(r) ==
  /\ Alive(r) /\ worker[r] = "leasing"
  /\ worker' = [worker EXCEPT ![r] = "done"]
  /\ Write(home[r], "error", r)
  /\ UNCHANGED <<daemonVars, proc, home, stopped, waiting, verdict, pressed, input, lease>>

(* The composer holds the prompt and Send is enabled: ask for the leave to press it.  The abort *)
(* signal was last looked at before a screenshot was taken.                                    *)
Activate(r) ==
  /\ Alive(r) /\ worker[r] = "preparing" /\ proc[home[r]] = "up"
  /\ worker' = [worker EXCEPT ![r] = "activating"]
  /\ waiting' = [waiting EXCEPT ![r] = TRUE]
  /\ Write(home[r], "activated", r)
  /\ UNCHANGED <<daemonVars, proc, home, stopped, verdict, pressed, input, lease>>

Press(r) ==
  /\ Alive(r) /\ worker[r] = "sending" /\ ~stopped[r]
  /\ worker' = [worker EXCEPT ![r] = "submitting"]
  /\ pressed' = [pressed EXCEPT ![r] = TRUE]
  /\ UNCHANGED <<daemonVars, proc, home, stopped, waiting, verdict, input, output, lease>>

(* The page shows that the message was accepted. *)
Accepted(r) ==
  /\ Alive(r) /\ worker[r] = "submitting"
  /\ worker' = [worker EXCEPT ![r] = "answering"]
  /\ Write(home[r], "submitted", r)
  /\ UNCHANGED <<daemonVars, proc, home, stopped, waiting, verdict, pressed, input, lease>>

EndWith(r, how) ==
  /\ worker' = [worker EXCEPT ![r] = "ending"]
  /\ verdict' = [verdict EXCEPT ![r] = how]
  /\ UNCHANGED <<daemonVars, proc, home, stopped, waiting, pressed, input, output, lease>>

Answered(r) == Alive(r) /\ worker[r] = "answering" /\ ~stopped[r] /\ EndWith(r, "completed")

(* The turn fails: a deadline passed, its tab was closed, the page showed an error, or the turn *)
(* was aborted.  Only an abort ends the wait for a prompt.                                     *)
Fail(r) ==
  /\ Alive(r) /\ worker[r] \in Working
  /\ worker[r] = "selecting" => stopped[r]
  /\ EndWith(r, IF stopped[r] THEN "aborted" ELSE "failed")

(* ChatGPT answers with a transient error of its own. *)
UpstreamFails(r) == Alive(r) /\ worker[r] = "answering" /\ ~stopped[r] /\ EndWith(r, "upstream")

(* The tab is given back, and only then is the outcome written: an answer whose tab could not  *)
(* be given back becomes an error.                                                            *)
GiveBack(r, told) ==
  /\ Alive(r) /\ worker[r] = "ending"
  /\ told => lease[Trace[r]] = home[r]
  /\ lease' = IF told THEN [lease EXCEPT ![Trace[r]] = None] ELSE lease
  /\ worker' = [worker EXCEPT ![r] = "done"]
  /\ waiting' = [waiting EXCEPT ![r] = FALSE]
  /\ Write(home[r], CASE verdict[r] = "completed" /\ told -> "result"
                      [] verdict[r] = "upstream" -> "upstream"
                      [] OTHER -> "error", r)
  /\ UNCHANGED <<daemonVars, proc, home, stopped, verdict, pressed, input>>

(* The launcher reclaims a tab whose turn sends no heartbeat: it waits for its prompt, is being *)
(* ended, or its helper is dead.                                                              *)
Reclaim(t) ==
  /\ lease[t] # None
  /\ \A r \in Runs : Trace[r] = t /\ home[r] = lease[t] /\ Alive(r) => worker[r] \notin Working \ {"selecting"}
  /\ lease' = [lease EXCEPT ![t] = None]
  /\ UNCHANGED <<daemonVars, helperVars, input, output>>

-----------------------------------------------------------------------------
Receive(c) == \/ ReceiveRun(c) \/ ReceivePrompt(c) \/ ReceiveSendAck(c) \/ ReceiveAbort(c)
              \/ ShutDown(c) \/ Exit(c)

Work(r) == \/ Lease(r) \/ LeaseRefused(r) \/ Activate(r) \/ Press(r) \/ Accepted(r) \/ Answered(r)
           \/ Fail(r) \/ UpstreamFails(r) \/ \E told \in BOOLEAN : GiveBack(r, told)

Progress ==
  \/ Hear \/ HandleExit
  \/ \E r \in Runs : \/ Dispatch(r) \/ Compiled(r) \/ Work(r)
                     \/ \E c \in Helpers, told \in BOOLEAN : ExitTold(r, c, told)
  \/ \E c \in Helpers : Receive(c)

HelperNext ==
  \/ Progress \/ ReadyTimesOut \/ Close
  \/ \E r \in Runs : Start(r) \/ Abort(r) \/ CompileFails(r)
  \/ \E c \in Helpers : Crash(c)
  \/ \E t \in Traces : Reclaim(t)

(* Pipes are read, timers fire, and every wait of the worker has a deadline: no step of progress *)
(* stays possible for ever without some step of progress being taken.                            *)
HelperSpec == HelperInit /\ [][HelperNext]_allVars /\ WF_allVars(Progress)

-----------------------------------------------------------------------------
(* One task is submitted to ChatGPT at most once: Send is pressed for a second run of a turn    *)
(* only when ChatGPT accepted the first one and answered it with a transient error.  (The leave *)
(* to press Send is given after the adapter noted it, and a run is retried only before that.)   *)
SubmittedOnce ==
  \A q, r \in Runs : q < r /\ Trace[q] = Trace[r] /\ pressed[q] /\ pressed[r] => settlement[q] = "upstream"

(* A turn aborted before the adapter heard that Send is about to be pressed is never submitted. *)
AbortHolds == \A r \in Runs : early[r] => ~pressed[r]

(* A prompt that was compiled for a turn is released when the turn is over, in whatever order   *)
(* its compilation, the abort, the helper's end and the helper's answer came.                   *)
PromptsAreReleased == \A r \in Runs : run[r] = "settled" => prompt[r] # "held"

(* An answer reaches the adapter only when the launcher has taken the turn's tab back: what     *)
(* follows in the same conversation finds it free.                                             *)
AnsweredIsReleased ==
  \A r \in Runs : settlement[r] = "answer" => worker[r] = "done" /\ verdict[r] = "completed"

(* A task reaches ChatGPT once and not after its turn was stopped, and what a turn held is      *)
(* given back when it ends, over retries, losses and the deaths of helpers                      *)
(* (launcher-helper-client.ts, browser-helper-main.ts).                                         *)
HelperHolds ==
  TypeOK /\ SubmittedOnce /\ AbortHolds /\ PromptsAreReleased /\ AnsweredIsReleased

(* Every turn that was given to the client settles, whatever crashes or is lost: only a client  *)
(* that was closed while the turn waited for the helper to become ready leaves it waiting.      *)
TurnsSettle ==
  \A r \in Runs : run[r] \in {"starting", "pending"} ~> run[r] = "settled" \/ closed
=============================================================================
