------------------------------ MODULE BrowserProofs ------------------------------
(***************************************************************************)
(* The browser's side of a turn, proved in two parts that share nothing.     *)
(* Turns in helper processes (BrowserHelper), for any number of turns,       *)
(* retries, traces and helpers: a task is submitted once and not after its   *)
(* turn was stopped, and what a turn held is given back when it ends.  The   *)
(* worker's exchange with the page (BrowserTurn with PromptComposer), for    *)
(* turns of any kind with any number of stages, batches of calls, faults and *)
(* mishaps: what it sends and what it takes for its answer is whole, it      *)
(* stays with its own answer, and it gives back what it holds.               *)
(***************************************************************************)
EXTENDS BrowserHelper, BrowserTurn, TLAPS

-------------------------------------------------------------------------------
(* The inductive invariant *)

(* The client owns the helper it spawned last.  A helper that was not spawned  *)
(* has no frames, and a run has a helper once it is started.  A run that was   *)
(* handed over has a ready helper, or one that died.                           *)
ClientSound ==
    /\ child \in {None, spawned}
    /\ \A c \in Helpers : c > spawned => proc[c] = "unborn" /\ input[c] = <<>>
    /\ \A r \in Runs :
          /\ home[r] <= spawned
          /\ home[r] = None <=> run[r] = "new"
          /\ run[r] \in {"new", "starting"} => worker[r] = "none"
          /\ run[r] = "pending" => (home[r] = child /\ ready) \/ proc[home[r]] = "dead"

(* A helper that is up has begun each run it was handed, or has its run frame  *)
(* still to read.                                                              *)
HandedSound ==
    \A r \in Runs :
        run[r] = "pending" /\ home[r] = child /\ proc[child] = "up" /\ worker[r] = "none" =>
            \E i \in DOMAIN input[child] : input[child][i] = Frame("run", r)

(* A run is started when those of its trace before it may be retried, and never on an older helper. *)
RetriesSound ==
    \A q, r \in Runs : q < r /\ Trace[q] = Trace[r] /\ run[r] # "new" => Retryable(q) /\ home[q] <= home[r]

(* Whether a frame is about a run of the trace of this one. *)
About(f, r) == f.kind \in {"run", "prompt", "sendAck", "abort"} /\ Trace[f.run] = Trace[r]

(* The frames of a trace reach a helper in the order of its runs, and the run  *)
(* frame is the first of each: what comes before it is read before the run is  *)
(* begun.  The leave to press Send is on its way only when the adapter noted   *)
(* it.                                                                         *)
FrameSound(c, i) ==
    LET f == input[c][i] IN
    /\ f.kind \in {"run", "prompt", "sendAck", "abort"}
    /\ f.run \in Runs
    /\ run[f.run] \in {"pending", "settled"}
    /\ f.kind = "run" => home[f.run] = c /\ worker[f.run] = "none"
    /\ f.kind = "sendAck" => home[f.run] = c /\ phase[f.run] # "prepared"
    /\ home[f.run] = c /\ proc[c] = "up" /\ worker[f.run] = "none" /\ f.kind # "run" =>
          \E j \in 1..(i - 1) : input[c][j] = Frame("run", f.run)
    /\ \A j \in 1..(i - 1) : About(input[c][j], f.run) =>
          input[c][j].run <= f.run /\ (f.kind = "run" => input[c][j].run # f.run)
    /\ \A r \in Runs : home[r] = c /\ worker[r] # "none" /\ Trace[r] = Trace[f.run] => f.run >= r

(* What is unread by the helpers.                                               *)
InputSound ==
    \A c \in Helpers : \A i \in DOMAIN input[c] : input[c][i].kind = "shutdown" \/ FrameSound(c, i)

(* Whether a frame tells a run of a trace that it failed.                      *)
IsError(f, r) == f.kind = "error" /\ Trace[f.run] = Trace[r]

(* What is unread from the client's helper.  The outcome of a run is written   *)
(* once, when the run is over; another run that waits under its trace id was   *)
(* refused, and that is heard first.                                           *)
HeardSound(i) ==
    LET f == output[child][i] IN
    /\ f.run \in Runs
    /\ f.kind = "activated" => home[f.run] = child
    /\ f.kind \in {"result", "upstream"} =>
          /\ home[f.run] = child /\ worker[f.run] = "done"
          /\ verdict[f.run] = IF f.kind = "result" THEN "completed" ELSE "upstream"
          /\ settlement[f.run] \notin {"answer", "upstream"}
          /\ \A j \in 1..(i - 1) :
                output[child][j].kind \in {"result", "upstream"} => output[child][j].run # f.run
          /\ \A r \in Runs : run[r] = "pending" /\ Trace[r] = Trace[f.run] /\ r # f.run =>
                \E j \in 1..(i - 1) : IsError(output[child][j], r)

OutputSound ==
    child # None => \A i \in DOMAIN output[child] : output[child][i].kind = "ready" \/ HeardSound(i)

(* A run that was refused hears of it.                                         *)
RefusalsTold ==
    \A r \in Runs : worker[r] = "refused" /\ run[r] = "pending" /\ home[r] = child =>
        \E i \in DOMAIN output[child] : IsError(output[child][i], r)

(* A helper works at one run of a trace: the later ones it has read were refused. *)
WorkSound ==
    \A q, r \in Runs : q < r /\ Trace[q] = Trace[r] /\ home[q] = home[r] /\ worker[q] \notin Over =>
          worker[r] \in {"none", "refused"}

(* Whether a run got the leave to press Send.                                   *)
Left(r) == worker[r] \in {"sending", "submitting", "answering"} \/ pressed[r] \/ verdict[r] \in {"completed", "upstream"}

(* The leave was given to a later run, which the helper had refused while it worked at this one. *)
LeaveOfAnother(r) ==
    \E x \in Runs :
        /\ r < x /\ Trace[x] = Trace[r] /\ home[x] = home[r]
        /\ worker[x] = "refused" /\ phase[x] # "prepared"
        /\ \A s \in Runs : r < s /\ s < x /\ Trace[s] = Trace[r] => worker[s] \in {"none", "refused"}

(* Send is pressed after the leave, which was noted, for this run or for another. *)
LeaveSound ==
    \A r \in Runs :
        /\ pressed[r] => worker[r] \in {"submitting", "answering", "ending", "done"}
        /\ Left(r) => worker[r] \notin {"none", "refused"} /\ (phase[r] # "prepared" \/ LeaveOfAnother(r))

(* What the adapter was told is how the worker ended the run.                   *)
OutcomeSound ==
    \A r \in Runs :
        /\ settlement[r] = "answer" => worker[r] = "done" /\ verdict[r] = "completed"
        /\ settlement[r] = "upstream" => worker[r] = "done" /\ verdict[r] = "upstream"

(* The abort is on its way, and no leave that the run would take comes first.   *)
AbortComes(r) ==
    /\ worker[r] \notin {"sending", "submitting", "answering"}
    /\ \E i \in DOMAIN input[home[r]] :
          /\ input[home[r]][i] = Frame("abort", r)
          /\ \A j \in 1..(i - 1) : input[home[r]][j].kind = "sendAck" /\ Trace[input[home[r]][j].run] = Trace[r] =>
                input[home[r]][j].run < r

(* The run frame is not on its way, and will not be written.                    *)
NeverSent(r) ==
    /\ worker[r] = "none"
    /\ run[r] # "pending" \/ proc[home[r]] # "up"
    /\ \A i \in DOMAIN input[home[r]] : input[home[r]][i] # Frame("run", r)

(* What keeps a run that was aborted early from being submitted.               *)
Kept(r) ==
    \/ stopped[r] \/ worker[r] \in {"refused", "done"} \/ proc[home[r]] = "dead"
    \/ NeverSent(r) \/ AbortComes(r)

(* A run whose abort was raised early is kept from Send.                        *)
AbortSound ==
    \A r \in Runs : early[r] => signalled[r] /\ ~pressed[r] /\ run[r] # "new" /\ Kept(r)

(* The inductive invariant.                                                     *)
HelperSound ==
    /\ TypeOK /\ PromptsAreReleased /\ ClientSound /\ HandedSound /\ RetriesSound /\ InputSound
    /\ OutputSound /\ RefusalsTold
    /\ WorkSound /\ LeaveSound /\ OutcomeSound /\ AbortSound

(* The flags of a run, one by one.                                           *)
FlagsTyped ==
    /\ signalled \in [Runs -> BOOLEAN] /\ failed \in [Runs -> BOOLEAN] /\ early \in [Runs -> BOOLEAN]
    /\ stopped \in [Runs -> BOOLEAN] /\ waiting \in [Runs -> BOOLEAN] /\ pressed \in [Runs -> BOOLEAN]

(* The rest of the type.                                                     *)
StateTyped ==
    /\ run \in [Runs -> {"new", "starting", "pending", "settled"}]
    /\ settlement \in [Runs -> {"none", "answer", "error", "upstream"}]
    /\ phase \in [Runs -> {"prepared", "send_activated", "accepted"}]
    /\ prompt \in [Runs -> {"none", "compiling", "held", "released"}]
    /\ ending \subseteq Runs \X Helpers
    /\ child \in Helpers \cup {None}
    /\ ready \in BOOLEAN /\ closed \in BOOLEAN
    /\ spawned \in 0..MaxHelpers
    /\ input \in [Helpers -> Seq(Frames)] /\ output \in [Helpers -> Seq(Frames)]
    /\ proc \in [Helpers -> {"unborn", "up", "closing", "dead"}]
    /\ home \in [Runs -> Helpers \cup {None}]
    /\ worker \in [Runs -> Working \cup Over \cup {"leasing", "ending"}]
    /\ verdict \in [Runs -> {"none", "completed", "failed", "upstream", "aborted"}]
    /\ lease \in [Traces -> Helpers \cup {None}]

(* The type is these two.                                                    *)
LEMMA TypeParts == (TypeOK <=> FlagsTyped /\ StateTyped) /\ (TypeOK' <=> FlagsTyped' /\ StateTyped')
BY DEF TypeOK, FlagsTyped, StateTyped

(* No step but these changes a flag, and each of them keeps the flags flags. *)
LEMMA FlagsStep == FlagsTyped /\ [HelperNext]_allVars => FlagsTyped'
<1> SUFFICES ASSUME FlagsTyped, [HelperNext]_allVars PROVE FlagsTyped'
    OBVIOUS
<1> USE DEF FlagsTyped
<1>1. ASSUME NEW r \in Runs,
             Start(r) \/ Dispatch(r) \/ Abort(r) \/ Compiled(r) \/ CompileFails(r)
      PROVE  FlagsTyped'
  <2>1. CASE Start(r)
      BY <2>1 DEF Start
  <2>2. CASE Dispatch(r)
      BY <2>2 DEF Dispatch, helperVars
  <2>3. CASE Abort(r)
      BY <2>3 DEF Abort, helperVars
  <2>4. CASE Compiled(r)
      BY <2>4 DEF Compiled, helperVars
  <2>5. CASE CompileFails(r)
      BY <2>5 DEF CompileFails, helperVars
  <2> QED
      BY <1>1, <2>1, <2>2, <2>3, <2>4, <2>5
<1>2. CASE Hear \/ HandleExit \/ ReadyTimesOut \/ Close
  <2>1. UNCHANGED <<signalled, failed, early, stopped, waiting, pressed>>
      BY <1>2 DEF Hear, HearReady, HearSelect, HearActivated, HearSubmitted, HearEnd, HandleExit, ReadyTimesOut,
         Close, helperVars
  <2> QED
      BY <2>1
<1>3. ASSUME NEW r \in Runs, NEW c \in Helpers, NEW told \in BOOLEAN, ExitTold(r, c, told) PROVE FlagsTyped'
    BY <1>3 DEF ExitTold, helperVars
<1>4. ASSUME NEW c \in Helpers, Receive(c) \/ Crash(c) PROVE FlagsTyped'
  <2>1. UNCHANGED <<signalled, failed, early, pressed>>
      BY <1>4 DEF Receive, ReceiveRun, ReceivePrompt, ReceiveSendAck, ReceiveAbort, ShutDown, Exit, Crash, Dies,
         daemonVars
  <2>2. stopped' \in [Runs -> BOOLEAN] /\ waiting' \in [Runs -> BOOLEAN]
    <3>1. CASE ReceiveRun(c) \/ ReceivePrompt(c) \/ Exit(c) \/ Crash(c)
        BY <3>1 DEF ReceiveRun, ReceivePrompt, Exit, Crash, Dies
    <3>2. CASE ReceiveSendAck(c)
        BY <3>2 DEF ReceiveSendAck
    <3>3. CASE ReceiveAbort(c)
        BY <3>3 DEF ReceiveAbort
    <3>4. CASE ShutDown(c)
        BY <3>4 DEF ShutDown
    <3> QED
        BY <1>4, <3>1, <3>2, <3>3, <3>4 DEF Receive
  <2> QED
      BY <2>1, <2>2
<1>5. ASSUME NEW r \in Runs, Work(r) PROVE FlagsTyped'
  <2>1. UNCHANGED <<signalled, failed, early, stopped>>
      BY <1>5 DEF Work, Lease, LeaseRefused, Activate, Press, Accepted, Answered, Fail, UpstreamFails, EndWith,
         GiveBack, daemonVars
  <2>2. waiting' \in [Runs -> BOOLEAN]
      BY <1>5 DEF Work, Lease, LeaseRefused, Activate, Press, Accepted, Answered, Fail, UpstreamFails, EndWith,
         GiveBack
  <2>3. pressed' \in [Runs -> BOOLEAN]
      BY <1>5 DEF Work, Lease, LeaseRefused, Activate, Press, Accepted, Answered, Fail, UpstreamFails, EndWith,
         GiveBack
  <2> QED
      BY <2>1, <2>2, <2>3
<1>6. CASE UNCHANGED allVars \/ \E t \in Traces : Reclaim(t)
    BY <1>6 DEF allVars, Reclaim, daemonVars, helperVars
<1> QED
    BY <1>1, <1>2, <1>3, <1>4, <1>5, <1>6 DEF HelperNext, Progress

-------------------------------------------------------------------------------
(* Types *)

(* Frames that are written are frames.                                       *)
LEMMA FrameTyped ==
    ASSUME NEW r \in Runs \cup {None},
           NEW kind \in {"ready", "select", "activated", "submitted", "result", "error", "upstream",
                         "run", "prompt", "sendAck", "abort", "shutdown"}
    PROVE  Frame(kind, r) \in Frames /\ Frame(kind, r).kind = kind /\ Frame(kind, r).run = r
BY DEF Frame, Frames

(* Pipes of frames stay so.                                                  *)
LEMMA PipesTyped ==
    ASSUME NEW pipe \in [Helpers -> Seq(Frames)], NEW c \in Helpers, NEW f \in Frames
    PROVE  /\ [pipe EXCEPT ![c] = Append(@, f)] \in [Helpers -> Seq(Frames)]
           /\ [pipe EXCEPT ![c] = <<>>] \in [Helpers -> Seq(Frames)]
           /\ [pipe EXCEPT ![c] = <<f>>] \in [Helpers -> Seq(Frames)]
           /\ pipe[c] # <<>> => [pipe EXCEPT ![c] = Tail(@)] \in [Helpers -> Seq(Frames)] /\ Head(pipe[c]) \in Frames
OBVIOUS

(* What settling does to the types of the ledger.                            *)
LEMMA SettleTyped ==
    ASSUME StateTyped, NEW rs, NEW how \in {"answer", "error", "upstream"}, Settle(rs, how)
    PROVE  /\ run' \in [Runs -> {"new", "starting", "pending", "settled"}]
           /\ settlement' \in [Runs -> {"none", "answer", "error", "upstream"}]
           /\ prompt' \in [Runs -> {"none", "compiling", "held", "released"}]
BY DEF StateTyped, Settle

(* Writing to the client's helper keeps the type of the pipes.               *)
LEMMA SendTyped ==
    ASSUME StateTyped, child # None, NEW r \in Runs, NEW kind \in {"run", "prompt", "sendAck", "abort"}, Send(kind, r)
    PROVE  input' \in [Helpers -> Seq(Frames)]
<1>1. child \in Helpers /\ Frame(kind, r) \in Frames
    BY FrameTyped DEF StateTyped
<1> QED
    BY <1>1, PipesTyped DEF StateTyped, Send

(* Writing to the client keeps the type of the pipes.                        *)
LEMMA WriteTyped ==
    ASSUME StateTyped, NEW c \in Helpers, NEW r \in Runs,
           NEW kind \in {"select", "activated", "submitted", "result", "error", "upstream"},
           Write(c, kind, r)
    PROVE  output' \in [Helpers -> Seq(Frames)]
<1>1. Frame(kind, r) \in Frames
    BY FrameTyped
<1> QED
    BY <1>1, PipesTyped DEF StateTyped, Write

(* The head of a pipe that is read is a frame, and the rest are frames.      *)
LEMMA ReadTyped ==
    ASSUME StateTyped, child # None, output[child] # <<>>, Read
    PROVE  output' \in [Helpers -> Seq(Frames)] /\ Head(output[child]) \in Frames
BY PipesTyped DEF StateTyped, Read

(* The same at a helper's input.                                             *)
LEMMA TakenTyped ==
    ASSUME StateTyped, NEW c \in Helpers, input[c] # <<>>, Taken(c)
    PROVE  input' \in [Helpers -> Seq(Frames)] /\ Head(input[c]) \in Frames
BY PipesTyped DEF StateTyped, Taken

(* What the client does keeps the types.                                     *)
LEMMA ClientTypeStep ==
    ASSUME StateTyped, ClientSound, NEW r \in Runs,
           Start(r) \/ Dispatch(r) \/ Abort(r) \/ Compiled(r) \/ CompileFails(r)
    PROVE  StateTyped'
<1>1. CASE Start(r)
  <2>1. CASE child # None
      BY <1>1, <2>1 DEF Start, StateTyped
  <2>2. CASE child = None
    <3>1. Frame("ready", None) \in Frames
        BY FrameTyped
    <3>2. spawned + 1 \in Helpers /\ spawned + 1 \in 0..MaxHelpers
        BY <1>1, <2>2, HelpersAssumption DEF Start, StateTyped, Helpers
    <3>3. /\ spawned' = spawned + 1 /\ child' = spawned + 1 /\ ready' = FALSE
          /\ home' = [home EXCEPT ![r] = spawned + 1]
          /\ proc' = [proc EXCEPT ![spawned + 1] = "up"]
          /\ output' = [output EXCEPT ![spawned + 1] = <<Frame("ready", None)>>]
        BY <1>1, <2>2 DEF Start
    <3>4. output' \in [Helpers -> Seq(Frames)]
        BY <3>1, <3>2, <3>3, PipesTyped DEF StateTyped
    <3>5. /\ run' = [run EXCEPT ![r] = "starting"]
          /\ UNCHANGED <<settlement, phase, prompt, ending, closed, worker, verdict, input, lease>>
        BY <1>1 DEF Start
    <3> QED
        BY <3>2, <3>3, <3>4, <3>5 DEF StateTyped
  <2> QED
      BY <2>1, <2>2
<1>2. CASE Dispatch(r)
  <2>1. CASE signalled[r]
      BY <1>2, <2>1, SettleTyped DEF Dispatch, StateTyped, helperVars
  <2>2. CASE ~signalled[r]
    <3>1. child # None
        BY <1>2 DEF Dispatch, ClientSound
    <3>2. input' \in [Helpers -> Seq(Frames)]
        BY <1>2, <2>2, <3>1, SendTyped DEF Dispatch
    <3> QED
        BY <1>2, <2>2, <3>2 DEF Dispatch, StateTyped, helperVars
  <2> QED
      BY <2>1, <2>2
<1>3. CASE Abort(r)
  <2>1. /\ run' \in [Runs -> {"new", "starting", "pending", "settled"}]
        /\ settlement' \in [Runs -> {"none", "answer", "error", "upstream"}]
        /\ prompt' \in [Runs -> {"none", "compiling", "held", "released"}]
        /\ input' \in [Helpers -> Seq(Frames)]
      BY <1>3, SettleTyped, SendTyped DEF Abort, AbortHelper, StateTyped
  <2> QED
      BY <1>3, <2>1 DEF Abort, StateTyped, helperVars
<1>4. CASE Compiled(r)
  <2>1. input' \in [Helpers -> Seq(Frames)]
      BY <1>4, SendTyped DEF Compiled, StateTyped
  <2> QED
      BY <1>4, <2>1 DEF Compiled, StateTyped, helperVars
<1>5. CASE CompileFails(r)
  <2>1. input' \in [Helpers -> Seq(Frames)]
      BY <1>5, SendTyped DEF CompileFails, StateTyped
  <2> QED
      BY <1>5, <2>1 DEF CompileFails, StateTyped, helperVars
<1> QED
    BY <1>1, <1>2, <1>3, <1>4, <1>5

(* What the client hears keeps the types.                                    *)
LEMMA HearTypeStep ==
    ASSUME StateTyped, Hear
    PROVE  StateTyped'
<1>1. child # None /\ output[child] # <<>> /\ Read
    BY DEF Hear, HearReady, HearSelect, HearActivated, HearSubmitted, HearEnd, Heard
<1>2. output' \in [Helpers -> Seq(Frames)]
    BY <1>1, ReadTyped
<1>3. CASE HearReady \/ HearSelect \/ HearSubmitted
  <2>1. CASE HearReady
      BY <1>2, <2>1 DEF HearReady, StateTyped, helperVars
  <2>2. CASE HearSelect
      BY <1>2, <2>2 DEF HearSelect, StateTyped, helperVars
  <2>3. CASE HearSubmitted
      BY <1>2, <2>3 DEF HearSubmitted, StateTyped, helperVars
  <2> QED
      BY <1>3, <2>1, <2>2, <2>3
<1>4. CASE HearActivated
  <2>1. Addressee # {} => (CHOOSE r \in Addressee : TRUE) \in Runs
      BY DEF Addressee, PendingOf
  <2>2. input' \in [Helpers -> Seq(Frames)]
      BY <1>1, <1>4, <2>1, SendTyped DEF HearActivated, StateTyped
  <2> QED
      BY <1>2, <1>4, <2>2 DEF HearActivated, StateTyped, helperVars
<1>5. CASE HearEnd
  <2>1. /\ run' \in [Runs -> {"new", "starting", "pending", "settled"}]
        /\ settlement' \in [Runs -> {"none", "answer", "error", "upstream"}]
        /\ prompt' \in [Runs -> {"none", "compiling", "held", "released"}]
      BY <1>5, SettleTyped DEF HearEnd
  <2> QED
      BY <1>2, <1>5, <2>1 DEF HearEnd, StateTyped, helperVars
<1> QED
    BY <1>3, <1>4, <1>5 DEF Hear

(* The end of a helper keeps the types.                                      *)
LEMMA ExitTypeStep ==
    ASSUME StateTyped,
           \/ ReadyTimesOut \/ HandleExit \/ Close
           \/ \E r \in Runs, c \in Helpers, told \in BOOLEAN : ExitTold(r, c, told)
           \/ \E c \in Helpers : Exit(c) \/ Crash(c) \/ ShutDown(c)
    PROVE  StateTyped'
<1>1. Frame("shutdown", None) \in Frames
    BY FrameTyped
<1>2. CASE ReadyTimesOut
  <2>1. input' \in [Helpers -> Seq(Frames)]
      BY <1>1, <1>2, PipesTyped DEF ReadyTimesOut, StateTyped
  <2>2. /\ run' \in [Runs -> {"new", "starting", "pending", "settled"}]
        /\ settlement' \in [Runs -> {"none", "answer", "error", "upstream"}]
        /\ prompt' \in [Runs -> {"none", "compiling", "held", "released"}]
      BY <1>2, SettleTyped DEF ReadyTimesOut
  <2> QED
      BY <1>2, <2>1, <2>2 DEF ReadyTimesOut, StateTyped, helperVars
<1>3. CASE HandleExit
  <2>1. child \in Helpers /\ output' \in [Helpers -> Seq(Frames)]
      BY <1>1, <1>3, PipesTyped DEF HandleExit, StateTyped
  <2>2. /\ run' \in [Runs -> {"new", "starting", "pending", "settled"}]
        /\ settlement' \in [Runs -> {"none", "answer", "error", "upstream"}]
        /\ prompt' \in [Runs -> {"none", "compiling", "held", "released"}]
      BY <1>3, SettleTyped DEF HandleExit
  <2>3. ending' \subseteq Runs \X Helpers
      BY <1>3, <2>1 DEF HandleExit, StateTyped, Pending
  <2> QED
      BY <1>3, <2>1, <2>2, <2>3 DEF HandleExit, StateTyped, helperVars
<1>4. CASE Close
  <2>1. input' \in [Helpers -> Seq(Frames)]
    <3>1. CASE child = None
        BY <1>4, <3>1 DEF Close, StateTyped
    <3>2. CASE child # None
      <4>1. child \in Helpers /\ input' = [input EXCEPT ![child] = Append(@, Frame("shutdown", None))]
          BY <1>4, <3>2 DEF Close, StateTyped
      <4> QED
          BY <1>1, <4>1, PipesTyped DEF StateTyped
    <3> QED
        BY <3>1, <3>2
  <2>2. /\ run' \in [Runs -> {"new", "starting", "pending", "settled"}]
        /\ settlement' \in [Runs -> {"none", "answer", "error", "upstream"}]
        /\ prompt' \in [Runs -> {"none", "compiling", "held", "released"}]
      BY <1>4, SettleTyped DEF Close
  <2> QED
      BY <1>4, <2>1, <2>2 DEF Close, StateTyped, helperVars
<1>5. ASSUME NEW r \in Runs, NEW c \in Helpers, NEW told \in BOOLEAN, ExitTold(r, c, told)
      PROVE  StateTyped'
  <2>1. /\ run' \in [Runs -> {"new", "starting", "pending", "settled"}]
        /\ settlement' \in [Runs -> {"none", "answer", "error", "upstream"}]
        /\ prompt' \in [Runs -> {"none", "compiling", "held", "released"}]
      BY <1>5, SettleTyped DEF ExitTold
  <2>2. lease' \in [Traces -> Helpers \cup {None}]
      BY <1>5 DEF ExitTold, StateTyped
  <2> QED
      BY <1>5, <2>1, <2>2 DEF ExitTold, StateTyped, helperVars
<1>6. ASSUME NEW c \in Helpers, Exit(c) \/ Crash(c) \/ ShutDown(c) PROVE StateTyped'
  <2>1. input' = [input EXCEPT ![c] = <<>>]
      BY <1>6 DEF Exit, Crash, Dies, ShutDown
  <2>2. input' \in [Helpers -> Seq(Frames)]
      BY <1>1, <2>1, PipesTyped DEF StateTyped
  <2>3. CASE ShutDown(c)
      BY <2>2, <2>3 DEF ShutDown, StateTyped, daemonVars
  <2>4. CASE Dies(c)
      BY <2>2, <2>4 DEF Dies, StateTyped, daemonVars
  <2> QED
      BY <1>6, <2>2, <2>4, <2>3 DEF Exit, Crash
<1> QED
    BY <1>2, <1>3, <1>4, <1>5, <1>6

(* What a helper reads keeps the types.                                      *)
LEMMA ReceiveTypeStep ==
    ASSUME StateTyped, InputSound, NEW c \in Helpers,
           ReceiveRun(c) \/ ReceivePrompt(c) \/ ReceiveSendAck(c) \/ ReceiveAbort(c)
    PROVE  StateTyped'
<1>1. input[c] # <<>> /\ Taken(c) /\ Head(input[c]).kind # "shutdown"
    BY DEF ReceiveRun, ReceivePrompt, ReceiveSendAck, ReceiveAbort, Receives
<1>2. input' \in [Helpers -> Seq(Frames)]
    BY <1>1, TakenTyped
<1>3. Head(input[c]) = input[c][1] /\ 1 \in DOMAIN input[c]
    BY <1>1 DEF StateTyped
<1>4. Head(input[c]).run \in Runs
    BY <1>1, <1>3 DEF InputSound, FrameSound
<1>5. CASE ReceiveRun(c)
  <2>1. output' \in [Helpers -> Seq(Frames)]
      BY <1>4, <1>5, WriteTyped DEF ReceiveRun, StateTyped
  <2> QED
      BY <1>2, <1>4, <1>5, <2>1 DEF ReceiveRun, StateTyped, daemonVars, Over
<1>6. CASE ReceivePrompt(c)
  <2>1. output' \in [Helpers -> Seq(Frames)]
      BY <1>4, <1>6, WriteTyped DEF ReceivePrompt, StateTyped
  <2> QED
      BY <1>2, <1>4, <1>6, <2>1 DEF ReceivePrompt, StateTyped, daemonVars, Working
<1>7. CASE ReceiveSendAck(c)
  <2>1. output' \in [Helpers -> Seq(Frames)]
      BY <1>4, <1>7, WriteTyped DEF ReceiveSendAck, StateTyped
  <2> QED
      BY <1>2, <1>4, <1>7, <2>1 DEF ReceiveSendAck, StateTyped, daemonVars, Working
<1>8. CASE ReceiveAbort(c)
    BY <1>2, <1>8 DEF ReceiveAbort, StateTyped, daemonVars
<1> QED
    BY <1>5, <1>6, <1>7, <1>8

(* What the worker does keeps the types.                                     *)
LEMMA WorkTypeStep ==
    ASSUME StateTyped, NEW r \in Runs, Work(r)
    PROVE  StateTyped'
<1>1. home[r] \in Helpers
    BY DEF Work, Lease, LeaseRefused, Activate, Press, Accepted, Answered, Fail, UpstreamFails, GiveBack,
       Alive, StateTyped
<1>2. CASE Lease(r)
    BY <1>1, <1>2, WriteTyped, RunsAssumption DEF Lease, StateTyped, Working, daemonVars
<1>3. CASE LeaseRefused(r) \/ Activate(r) \/ Accepted(r)
  <2>1. output' \in [Helpers -> Seq(Frames)]
      BY <1>1, <1>3, WriteTyped DEF LeaseRefused, Activate, Accepted
  <2>2. worker' \in [Runs -> Working \cup Over \cup {"leasing", "ending"}]
    <3>1. \E new \in {"done", "activating", "answering"} : worker' = [worker EXCEPT ![r] = new]
        BY <1>3 DEF LeaseRefused, Activate, Accepted
    <3> QED
        BY <3>1 DEF StateTyped, Working, Over
  <2>3. UNCHANGED <<daemonVars, proc, home, verdict, input, lease>>
      BY <1>3 DEF LeaseRefused, Activate, Accepted
  <2> QED
      BY <2>1, <2>2, <2>3 DEF StateTyped, daemonVars
<1>4. CASE Press(r)
    BY <1>4 DEF Press, StateTyped, Working, daemonVars
<1>5. CASE Answered(r) \/ Fail(r) \/ UpstreamFails(r)
  <2>1. /\ worker' = [worker EXCEPT ![r] = "ending"]
        /\ \E how \in {"completed", "failed", "upstream", "aborted"} : verdict' = [verdict EXCEPT ![r] = how]
        /\ UNCHANGED <<daemonVars, proc, home, input, output, lease>>
      BY <1>5 DEF Answered, Fail, UpstreamFails, EndWith
  <2> QED
      BY <2>1 DEF StateTyped, daemonVars
<1>6. ASSUME NEW told \in BOOLEAN, GiveBack(r, told) PROVE StateTyped'
  <2>1. output' \in [Helpers -> Seq(Frames)]
      BY <1>1, <1>6, WriteTyped DEF GiveBack
  <2>2. lease' \in [Traces -> Helpers \cup {None}]
      BY <1>6, RunsAssumption DEF GiveBack, StateTyped
  <2> QED
      BY <1>6, <2>1, <2>2 DEF GiveBack, StateTyped, Over, daemonVars
<1> QED
    BY <1>2, <1>3, <1>4, <1>5, <1>6 DEF Work

(* Every step keeps the types.                                               *)
LEMMA TypeStep == TypeOK /\ ClientSound /\ InputSound /\ [HelperNext]_allVars => TypeOK'
<1> SUFFICES ASSUME StateTyped, ClientSound, InputSound, [HelperNext]_allVars PROVE StateTyped'
    BY TypeParts, FlagsStep
<1>1. CASE UNCHANGED allVars
    BY <1>1 DEF allVars, daemonVars, helperVars, StateTyped
<1>2. ASSUME NEW t \in Traces, Reclaim(t) PROVE StateTyped'
    BY <1>2 DEF Reclaim, daemonVars, helperVars, StateTyped
<1> QED
    BY <1>1, <1>2, ClientTypeStep, HearTypeStep, ExitTypeStep, ReceiveTypeStep, WorkTypeStep
    DEF HelperNext, Progress, Receive

-------------------------------------------------------------------------------
(* What no step undoes *)

(* A run that is settled stays so, with its outcome; it keeps its helper; and  *)
(* its phase moves only while it waits, and never back to prepared.            *)
RunOnward(r) ==
    /\ run'[r] = run[r] \/ <<run[r], run'[r]>> \in
          {<<"new", "starting">>, <<"starting", "pending">>, <<"starting", "settled">>, <<"pending", "settled">>}
    /\ run[r] # "new" => home'[r] = home[r]
    /\ settlement'[r] # settlement[r] => run[r] \in {"starting", "pending"} /\ run'[r] = "settled"
    /\ phase'[r] # phase[r] => run[r] = "pending" /\ phase'[r] # "prepared"

(* The worker takes a run forward: it is begun or refused once, and what is    *)
(* over stays over.                                                            *)
WorkOnward(r) ==
    /\ worker'[r] # worker[r] => worker[r] \notin {"refused", "done"} /\ worker'[r] # "none"
    /\ worker[r] = "none" => worker'[r] \in {"none", "leasing", "refused"}
    /\ worker[r] \notin Over => worker'[r] # "refused"
    /\ verdict'[r] # verdict[r] => worker[r] \in Working /\ worker'[r] = "ending"

(* A helper that died does not come back, and what is spawned is new.          *)
HelpersOnward ==
    /\ \A c \in Helpers : proc'[c] = proc[c] \/ proc[c] \in {"up", "closing"} \/ c > spawned
    /\ \A c \in Helpers : c > spawned' => proc'[c] = proc[c]
    /\ spawned' = spawned \/ (spawned' = spawned + 1 /\ child = None)
    /\ child' = child \/ child' = None \/ child' = spawned'

(* What happens to a run that settles.                                         *)
LEMMA SettleOnward ==
    ASSUME NEW rs, NEW how, Settle(rs, how), UNCHANGED <<phase, home>>, StateTyped,
           \A r \in rs : run[r] \in {"starting", "pending"}
    PROVE  \A r \in Runs : RunOnward(r)
BY DEF Settle, RunOnward, StateTyped

(* Every step takes the runs onward.                                           *)
LEMMA RunsGoOn ==
    ASSUME TypeOK, ClientSound, [HelperNext]_allVars
    PROVE  \A r \in Runs : RunOnward(r)
<1> USE TypeParts
<1>1. ASSUME NEW q \in Runs, Start(q) PROVE \A r \in Runs : RunOnward(r)
  <2>1. run' = [run EXCEPT ![q] = "starting"] /\ run[q] = "new" /\ UNCHANGED <<settlement, phase>>
      BY <1>1 DEF Start
  <2>2. \E c \in Helpers \cup {None, spawned + 1} : home' = [home EXCEPT ![q] = c]
      BY <1>1 DEF Start, StateTyped
  <2> QED
      BY <2>1, <2>2 DEF RunOnward, StateTyped
<1>2. ASSUME NEW q \in Runs, Dispatch(q) PROVE \A r \in Runs : RunOnward(r)
  <2>1. CASE signalled[q]
      BY <1>2, <2>1, SettleOnward DEF Dispatch, helperVars
  <2>2. CASE ~signalled[q]
      BY <1>2, <2>2 DEF Dispatch, helperVars, RunOnward, StateTyped
  <2> QED
      BY <2>1, <2>2
<1>3. ASSUME NEW q \in Runs, Abort(q) PROVE \A r \in Runs : RunOnward(r)
  <2>1. CASE run[q] = "pending" /\ child = None
      BY <1>3, <2>1, SettleOnward DEF Abort, AbortHelper, helperVars
  <2>2. CASE ~(run[q] = "pending" /\ child = None)
      BY <1>3, <2>2 DEF Abort, AbortHelper, helperVars, RunOnward, StateTyped
  <2> QED
      BY <2>1, <2>2
<1>4. ASSUME NEW q \in Runs, Compiled(q) \/ CompileFails(q) PROVE \A r \in Runs : RunOnward(r)
  <2>1. UNCHANGED <<phase, home>>
      BY <1>4 DEF Compiled, CompileFails, helperVars
  <2>2. \/ UNCHANGED <<run, settlement>>
        \/ run[q] = "pending" /\ run' = [run EXCEPT ![q] = "settled"] /\ settlement' = [settlement EXCEPT ![q] = "error"]
      BY <1>4 DEF Compiled, CompileFails
  <2> QED
      BY <2>1, <2>2 DEF RunOnward, StateTyped
<1>5. CASE HearReady \/ HearSelect \/ HearActivated \/ HearSubmitted
  <2>1. UNCHANGED <<run, settlement, home>>
      BY <1>5 DEF HearReady, HearSelect, HearActivated, HearSubmitted, helperVars
  <2>2. \A r \in Runs : phase'[r] # phase[r] => run[r] = "pending" /\ phase'[r] # "prepared"
      BY <1>5 DEF HearReady, HearSelect, HearActivated, HearSubmitted, StateTyped, Addressee, PendingOf
  <2> QED
      BY <2>1, <2>2 DEF RunOnward
<1>6. CASE HearEnd
    BY <1>6, SettleOnward DEF HearEnd, helperVars, Addressee, PendingOf
<1>7. CASE ReadyTimesOut \/ HandleExit
    BY <1>7, SettleOnward DEF ReadyTimesOut, HandleExit, helperVars, Starting
<1>8. CASE Close
    BY <1>8, SettleOnward DEF Close, helperVars, Pending
<1>9. ASSUME NEW q \in Runs, NEW c \in Helpers, NEW told \in BOOLEAN, ExitTold(q, c, told)
      PROVE  \A r \in Runs : RunOnward(r)
    BY <1>9, SettleOnward DEF ExitTold, helperVars, PendingOf
<1>10. ASSUME NEW c \in Helpers, Receive(c) \/ Crash(c) PROVE \A r \in Runs : RunOnward(r)
  <2>1. UNCHANGED <<run, settlement, home, phase>>
      BY <1>10 DEF Receive, ReceiveRun, ReceivePrompt, ReceiveSendAck, ReceiveAbort, ShutDown, Exit, Crash, Dies,
         daemonVars
  <2> QED
      BY <2>1 DEF RunOnward
<1>11. ASSUME NEW q \in Runs, Work(q) PROVE \A r \in Runs : RunOnward(r)
  <2>1. UNCHANGED <<run, settlement, home, phase>>
      BY <1>11 DEF Work, Lease, LeaseRefused, Activate, Press, Accepted, Answered, Fail, UpstreamFails, EndWith,
         GiveBack, daemonVars
  <2> QED
      BY <2>1 DEF RunOnward
<1>12. CASE UNCHANGED allVars \/ \E t \in Traces : Reclaim(t)
    BY <1>12 DEF allVars, Reclaim, daemonVars, helperVars, RunOnward
<1> QED
    BY <1>1, <1>2, <1>3, <1>4, <1>5, <1>6, <1>7, <1>8, <1>9, <1>10, <1>11, <1>12 DEF HelperNext, Progress, Hear

(* The frame a helper reads.                                                   *)
LEMMA HeadIsFirst ==
    ASSUME TypeOK, InputSound, NEW c \in Helpers, NEW kind \in {"run", "prompt", "sendAck", "abort"},
           Receives(c, kind)
    PROVE  /\ 1 \in DOMAIN input[c] /\ Head(input[c]) = input[c][1]
           /\ Head(input[c]).run \in Runs
           /\ run[Head(input[c]).run] \in {"pending", "settled"}
           /\ kind = "run" => home[Head(input[c]).run] = c /\ worker[Head(input[c]).run] = "none"
           /\ kind = "sendAck" => home[Head(input[c]).run] = c /\ phase[Head(input[c]).run] # "prepared"
           /\ kind # "run" /\ home[Head(input[c]).run] = c => worker[Head(input[c]).run] # "none"
           /\ \A r \in Runs : home[r] = c /\ worker[r] # "none" /\ Trace[r] = Trace[Head(input[c]).run] =>
                 Head(input[c]).run >= r
<1>1. 1 \in DOMAIN input[c] /\ Head(input[c]) = input[c][1]
    BY TypeParts DEF Receives, StateTyped
<1> DEFINE f == input[c][1]
<1>2. f.kind = kind /\ f.kind # "shutdown"
    BY <1>1 DEF Receives
<1>3. /\ f.run \in Runs
      /\ run[f.run] \in {"pending", "settled"}
      /\ f.kind = "run" => home[f.run] = c /\ worker[f.run] = "none"
      /\ f.kind = "sendAck" => home[f.run] = c /\ phase[f.run] # "prepared"
      /\ home[f.run] = c /\ proc[c] = "up" /\ worker[f.run] = "none" /\ f.kind # "run" =>
            \E j \in 1..(1 - 1) : input[c][j] = Frame("run", f.run)
      /\ \A r \in Runs : home[r] = c /\ worker[r] # "none" /\ Trace[r] = Trace[f.run] => f.run >= r
    BY <1>1, <1>2 DEF InputSound, FrameSound
<1>4. 1..(1 - 1) = {}
    OBVIOUS
<1>5. proc[c] = "up"
    BY DEF Receives
<1> QED
    BY <1>1, <1>2, <1>3, <1>4, <1>5

(* Every step takes the work onward.                                           *)
LEMMA WorkGoesOn ==
    ASSUME TypeOK, InputSound, [HelperNext]_allVars
    PROVE  \A r \in Runs : WorkOnward(r)
<1> USE TypeParts DEF WorkOnward, Over, Working
<1>1. ASSUME UNCHANGED <<worker, verdict>> PROVE \A r \in Runs : WorkOnward(r)
    BY <1>1
<1>2. ASSUME NEW q \in Runs, Start(q) \/ Dispatch(q) \/ Abort(q) \/ Compiled(q) \/ CompileFails(q)
      PROVE  UNCHANGED <<worker, verdict>>
    BY <1>2 DEF Start, Dispatch, Abort, Compiled, CompileFails, helperVars
<1>3. CASE Hear \/ HandleExit \/ ReadyTimesOut \/ Close \/ \E t \in Traces : Reclaim(t)
  <2>1. UNCHANGED <<worker, verdict>>
      BY <1>3 DEF Hear, HearReady, HearSelect, HearActivated, HearSubmitted, HearEnd, HandleExit, ReadyTimesOut,
         Close, Reclaim, helperVars
  <2> QED
      BY <1>1, <2>1
<1>4. ASSUME NEW q \in Runs, NEW c \in Helpers, NEW told \in BOOLEAN, ExitTold(q, c, told)
      PROVE  UNCHANGED <<worker, verdict>>
    BY <1>4 DEF ExitTold, helperVars
<1>5. ASSUME NEW c \in Helpers, ReceiveRun(c) PROVE \A r \in Runs : WorkOnward(r)
  <2>1. worker[Head(input[c]).run] = "none" /\ Head(input[c]).run \in Runs
      BY <1>5, HeadIsFirst DEF ReceiveRun
  <2> QED
      BY <1>5, <2>1 DEF ReceiveRun, StateTyped
<1>6. ASSUME NEW c \in Helpers, ReceivePrompt(c) PROVE \A r \in Runs : WorkOnward(r)
    BY <1>6 DEF ReceivePrompt, StateTyped
<1>7. ASSUME NEW c \in Helpers, ReceiveSendAck(c) PROVE \A r \in Runs : WorkOnward(r)
    BY <1>7 DEF ReceiveSendAck, StateTyped
<1>8. ASSUME NEW c \in Helpers, ReceiveAbort(c) \/ ShutDown(c) \/ Exit(c) \/ Crash(c) PROVE UNCHANGED <<worker, verdict>>
    BY <1>8 DEF ReceiveAbort, ShutDown, Exit, Crash, Dies
<1>9. ASSUME NEW q \in Runs, Lease(q) \/ LeaseRefused(q) \/ Activate(q) \/ Press(q) \/ Accepted(q)
      PROVE  \A r \in Runs : WorkOnward(r)
  <2>1. UNCHANGED verdict /\ worker[q] \notin Over /\ \E new \in (Working \cup {"done"}) : worker' = [worker EXCEPT ![q] = new]
      BY <1>9 DEF Lease, LeaseRefused, Activate, Press, Accepted
  <2> QED
      BY <2>1 DEF StateTyped
<1>10. ASSUME NEW q \in Runs, Answered(q) \/ Fail(q) \/ UpstreamFails(q) PROVE \A r \in Runs : WorkOnward(r)
  <2>1. worker[q] \in Working /\ worker' = [worker EXCEPT ![q] = "ending"] /\ \E how : verdict' = [verdict EXCEPT ![q] = how]
      BY <1>10 DEF Answered, Fail, UpstreamFails, EndWith
  <2> QED
      BY <2>1 DEF StateTyped
<1>11. ASSUME NEW q \in Runs, NEW told \in BOOLEAN, GiveBack(q, told) PROVE \A r \in Runs : WorkOnward(r)
    BY <1>11 DEF GiveBack, StateTyped
<1>12. CASE UNCHANGED allVars
    BY <1>1, <1>12 DEF allVars, helperVars
<1> QED
    BY <1>1, <1>2, <1>3, <1>4, <1>5, <1>6, <1>7, <1>8, <1>9, <1>10, <1>11, <1>12 DEF HelperNext, Progress, Receive, Work

-------------------------------------------------------------------------------
(* The client, its helper and its runs *)

(* What neither spawns a helper nor starts a run.                              *)
LEMMA ClientKept ==
    ASSUME TypeOK, TypeOK', ClientSound,
           \A r \in Runs : RunOnward(r) /\ home'[r] = home[r],
           \A r \in Runs : run'[r] \in {"new", "starting"} => run[r] = run'[r] /\ worker'[r] = worker[r],
           \A r \in Runs : run[r] = "starting" /\ run'[r] = "pending" => home[r] = child /\ ready /\ child' = child,
           spawned' = spawned, child' \in {child, None}, child' = child /\ child # None /\ ready => ready',
           \A c \in Helpers : c > spawned => proc'[c] = proc[c] /\ input'[c] = input[c],
           \A c \in Helpers : proc[c] = "dead" => proc'[c] = "dead",
           child' # child => \A r \in Runs : run'[r] = "pending" /\ home[r] = child => proc'[child] = "dead"
    PROVE  ClientSound'
<1> USE TypeParts DEF StateTyped
<1>1. child' \in {None, spawned'}
    BY DEF ClientSound
<1>2. \A c \in Helpers : c > spawned' => proc'[c] = "unborn" /\ input'[c] = <<>>
    BY DEF ClientSound
<1>3. ASSUME NEW r \in Runs
      PROVE  /\ home'[r] <= spawned'
             /\ home'[r] = None <=> run'[r] = "new"
             /\ run'[r] \in {"new", "starting"} => worker'[r] = "none"
    BY <1>3 DEF ClientSound, RunOnward
<1>4. ASSUME NEW r \in Runs, run'[r] = "pending"
      PROVE  (home'[r] = child' /\ ready') \/ proc'[home'[r]] = "dead"
  <2>1. run[r] \in {"starting", "pending"}
      BY <1>4 DEF RunOnward
  <2>2. home[r] \in Helpers /\ home[r] # None
      BY <2>1 DEF ClientSound
  <2>3. (home[r] = child /\ ready) \/ proc[home[r]] = "dead"
      BY <1>4, <2>1 DEF ClientSound
  <2> QED
      BY <1>4, <2>1, <2>2, <2>3
<1> QED
    BY <1>1, <1>2, <1>3, <1>4 DEF ClientSound

(* A frame to the client's helper is no frame to one that was not spawned.     *)
LEMMA SendElsewhere ==
    ASSUME TypeOK, ClientSound, child # None, NEW f, input' = [input EXCEPT ![child] = Append(@, f)]
    PROVE  \A c \in Helpers : c > spawned => input'[c] = input[c]
BY TypeParts DEF StateTyped, ClientSound

(* Every step keeps the books of the client.                                   *)
LEMMA ClientStep ==
    ASSUME TypeOK, TypeOK', ClientSound, InputSound, [HelperNext]_allVars
    PROVE  ClientSound'
<1>1. \A r \in Runs : RunOnward(r)
    BY RunsGoOn
<1>2. \A r \in Runs : WorkOnward(r)
    BY WorkGoesOn
<1> USE TypeParts
<1>3. ASSUME NEW q \in Runs, Start(q) PROVE ClientSound'
  <2>1. CASE child # None
    <3>1. /\ run' = [run EXCEPT ![q] = "starting"] /\ run[q] = "new"
          /\ home' = [home EXCEPT ![q] = child]
          /\ UNCHANGED <<child, ready, spawned, proc, input, worker>>
        BY <1>3, <2>1 DEF Start
    <3> QED
        BY <2>1, <3>1 DEF ClientSound, StateTyped
  <2>2. CASE child = None
    <3>1. /\ run' = [run EXCEPT ![q] = "starting"] /\ run[q] = "new"
          /\ home' = [home EXCEPT ![q] = spawned + 1]
          /\ child' = spawned + 1 /\ spawned' = spawned + 1 /\ spawned < MaxHelpers
          /\ proc' = [proc EXCEPT ![spawned + 1] = "up"]
          /\ UNCHANGED <<input, worker>>
        BY <1>3, <2>2 DEF Start
    <3>2. spawned + 1 \in Helpers /\ spawned + 1 # None /\ spawned \in Nat
        BY <3>1, HelpersAssumption DEF StateTyped, Helpers, None
    <3>3. \A c \in Helpers : c > spawned' => proc'[c] = "unborn" /\ input'[c] = <<>>
        BY <3>1, <3>2 DEF ClientSound, StateTyped, Helpers
    <3>4. ASSUME NEW r \in Runs, r # q
          PROVE  /\ run'[r] = run[r] /\ home'[r] = home[r] /\ worker'[r] = worker[r]
                 /\ home[r] <= spawned /\ home[r] \in Nat
        BY <3>1, <3>4 DEF ClientSound, StateTyped, Helpers, None
    <3>5. ASSUME NEW r \in Runs, r # q
          PROVE  /\ home'[r] <= spawned'
                 /\ home'[r] = None <=> run'[r] = "new"
                 /\ run'[r] \in {"new", "starting"} => worker'[r] = "none"
        BY <3>1, <3>2, <3>4, <3>5 DEF ClientSound
    <3>6. ASSUME NEW r \in Runs, run'[r] = "pending" PROVE proc'[home'[r]] = "dead"
      <4>1. r # q /\ run[r] = "pending"
          BY <3>1, <3>6 DEF StateTyped
      <4>2. proc[home[r]] = "dead" /\ home[r] \in Helpers /\ home[r] # spawned + 1
          BY <2>2, <3>2, <3>4, <4>1 DEF ClientSound, StateTyped
      <4> QED
          BY <3>1, <3>4, <4>1, <4>2 DEF StateTyped
    <3>7. /\ home'[q] <= spawned' /\ home'[q] # None /\ run'[q] = "starting" /\ worker'[q] = "none"
        BY <3>1, <3>2 DEF ClientSound, StateTyped
    <3> QED
        BY <3>1, <3>3, <3>5, <3>6, <3>7 DEF ClientSound
  <2> QED
      BY <2>1, <2>2
<1>4. ASSUME NEW q \in Runs, Dispatch(q) PROVE ClientSound'
  <2>1. child # None /\ home[q] = child /\ ready /\ run[q] = "starting"
      BY <1>4 DEF Dispatch, ClientSound
  <2>2. UNCHANGED <<child, ready, spawned, proc, home, worker>>
      BY <1>4 DEF Dispatch, helperVars
  <2>3. \A c \in Helpers : c > spawned => input'[c] = input[c]
      BY <1>4, <2>1, SendElsewhere DEF Dispatch, Send
  <2>4. \A r \in Runs : r # q => run'[r] = run[r]
      BY <1>4 DEF Dispatch, Settle, StateTyped
  <2>5. run'[q] \in {"pending", "settled"}
      BY <1>4 DEF Dispatch, Settle, StateTyped
  <2> QED
      BY <1>1, <2>1, <2>2, <2>3, <2>4, <2>5, ClientKept DEF ClientSound
<1>5. ASSUME NEW q \in Runs, Abort(q) \/ Compiled(q) \/ CompileFails(q) PROVE ClientSound'
  <2>1. UNCHANGED <<child, ready, spawned, proc, home, worker>>
      BY <1>5 DEF Abort, Compiled, CompileFails, helperVars
  <2>2. \A c \in Helpers : c > spawned => input'[c] = input[c]
      BY <1>5, SendElsewhere DEF Abort, AbortHelper, Compiled, CompileFails, Send
  <2>3. \A r \in Runs : run'[r] = run[r] \/ run'[r] = "settled"
      BY <1>5 DEF Abort, AbortHelper, Compiled, CompileFails, Settle, StateTyped
  <2> QED
      BY <1>1, <2>1, <2>2, <2>3, ClientKept
<1>6. CASE Hear
  <2>1. UNCHANGED <<child, spawned, proc, home, worker>> /\ (ready' = ready \/ ready' = TRUE)
      BY <1>6 DEF Hear, HearReady, HearSelect, HearActivated, HearSubmitted, HearEnd, helperVars
  <2>2. \A c \in Helpers : c > spawned => input'[c] = input[c]
    <3>1. CASE HearActivated
        BY <3>1, SendElsewhere DEF HearActivated, Heard, Send
    <3> QED
        BY <1>6, <3>1 DEF Hear, HearReady, HearSelect, HearSubmitted, HearEnd
  <2>3. \A r \in Runs : run'[r] = run[r] \/ run'[r] = "settled"
    <3>1. CASE HearEnd
        BY <3>1 DEF HearEnd, Settle, StateTyped
    <3> QED
        BY <1>6, <3>1 DEF Hear, HearReady, HearSelect, HearActivated, HearSubmitted
  <2> QED
      BY <1>1, <2>1, <2>2, <2>3, ClientKept
<1>7. CASE ReadyTimesOut \/ HandleExit \/ Close
  <2>1. UNCHANGED <<spawned, proc, home, worker>> /\ child' = None
      BY <1>7 DEF ReadyTimesOut, HandleExit, Close, helperVars
  <2>2. \A c \in Helpers : c > spawned => input'[c] = input[c]
      BY <1>7, SendElsewhere DEF ReadyTimesOut, HandleExit, Close
  <2>3. \A r \in Runs : run'[r] = run[r] \/ run'[r] = "settled"
      BY <1>7 DEF ReadyTimesOut, HandleExit, Close, Settle, StateTyped
  <2>4. ASSUME NEW r \in Runs, run'[r] = "pending", home[r] = child PROVE child' = child \/ proc'[child] = "dead"
    <3>1. run[r] = "pending"
        BY <2>3, <2>4
    <3>2. CASE ReadyTimesOut
        BY <2>4, <3>1, <3>2 DEF ReadyTimesOut, ClientSound, helperVars
    <3>3. CASE HandleExit
        BY <3>3 DEF HandleExit, helperVars
    <3>4. CASE Close
        BY <2>4, <3>1, <3>4 DEF Close, Settle, Pending, StateTyped
    <3> QED
        BY <1>7, <3>2, <3>3, <3>4
  <2> QED
      BY <1>1, <2>1, <2>2, <2>3, <2>4, ClientKept
<1>8. ASSUME NEW c \in Helpers, Receive(c) \/ Crash(c) PROVE ClientSound'
  <2>1. UNCHANGED <<child, ready, spawned, run, home>>
      BY <1>8 DEF Receive, ReceiveRun, ReceivePrompt, ReceiveSendAck, ReceiveAbort, ShutDown, Exit, Crash, Dies,
         daemonVars
  <2>2. proc[c] \in {"up", "closing"} /\ c <= spawned
    <3>1. proc[c] \in {"up", "closing"}
        BY <1>8 DEF Receive, ReceiveRun, ReceivePrompt, ReceiveSendAck, ReceiveAbort, ShutDown, Exit, Crash,
           Receives
    <3>2. proc[c] # "unborn"
        BY <3>1
    <3>3. ~(c > spawned)
        BY <3>2 DEF ClientSound
    <3>4. c \in Int /\ spawned \in Int
        BY DEF StateTyped, Helpers
    <3> QED
        BY <3>1, <3>3, <3>4
  <2>3. \A d \in Helpers : d # c => input'[d] = input[d] /\ proc'[d] = proc[d]
      BY <1>8 DEF Receive, ReceiveRun, ReceivePrompt, ReceiveSendAck, ReceiveAbort, ShutDown, Exit, Crash, Dies,
         Taken, StateTyped
  <2>4. ASSUME NEW r \in Runs, run'[r] \in {"new", "starting"} PROVE worker'[r] = worker[r]
    <3>1. worker[r] = "none"
        BY <2>1, <2>4 DEF ClientSound
    <3>2. CASE ReceiveRun(c)
      <4>1. run[Head(input[c]).run] \in {"pending", "settled"}
          BY <3>2, HeadIsFirst DEF ReceiveRun
      <4> QED
          BY <2>1, <2>4, <3>2, <4>1 DEF ReceiveRun, StateTyped
    <3> QED
        BY <1>8, <3>1, <3>2 DEF Receive, ReceivePrompt, ReceiveSendAck, ReceiveAbort, ShutDown, Exit, Crash, Dies,
           StateTyped
  <2>5. \A d \in Helpers : d > spawned => d # c
      BY <2>2 DEF Helpers, StateTyped
  <2>6. \A d \in Helpers : proc[d] = "dead" => proc'[d] = "dead"
      BY <2>2, <2>3
  <2> QED
      BY <1>1, <2>1, <2>2, <2>3, <2>4, <2>5, <2>6, ClientKept
<1>9. ASSUME NEW q \in Runs, Work(q) PROVE ClientSound'
  <2>1. UNCHANGED <<child, ready, spawned, run, home, proc, input>>
      BY <1>9 DEF Work, Lease, LeaseRefused, Activate, Press, Accepted, Answered, Fail, UpstreamFails, EndWith,
         GiveBack, daemonVars
  <2>2. worker[q] # "none" /\ \A r \in Runs : r # q => worker'[r] = worker[r]
      BY <1>9 DEF Work, Lease, LeaseRefused, Activate, Press, Accepted, Answered, Fail, UpstreamFails, EndWith,
         GiveBack, StateTyped, Working
  <2> QED
      BY <1>1, <2>1, <2>2, ClientKept DEF ClientSound
<1>10. CASE UNCHANGED allVars \/ \E t \in Traces : Reclaim(t)
  <2>1. UNCHANGED <<child, ready, spawned, run, home, proc, input, worker>>
      BY <1>10 DEF allVars, Reclaim, daemonVars, helperVars
  <2> QED
      BY <2>1 DEF ClientSound
<1>11. ASSUME NEW q \in Runs, NEW c \in Helpers, NEW told \in BOOLEAN, ExitTold(q, c, told) PROVE ClientSound'
  <2>1. UNCHANGED <<child, ready, spawned, proc, home, worker, input>>
      BY <1>11 DEF ExitTold, helperVars
  <2>2. \A r \in Runs : run'[r] = run[r] \/ run'[r] = "settled"
      BY <1>11 DEF ExitTold, Settle, StateTyped
  <2> QED
      BY <1>1, <2>1, <2>2, ClientKept
<1> QED
    BY <1>3, <1>4, <1>5, <1>6, <1>7, <1>8, <1>9, <1>10, <1>11 DEF HelperNext, Progress

-------------------------------------------------------------------------------
(* Retries, and what is on its way to a helper *)

(* A run that waits is the last of its trace that was started.                 *)
LEMMA LastWaits ==
    ASSUME TypeOK, RetriesSound, NEW q \in Runs, NEW r \in Runs, Trace[q] = Trace[r],
           run[q] \in {"starting", "pending"}, run[r] # "new"
    PROVE  r <= q
BY RunsAssumption DEF RetriesSound, Retryable

(* A run is started only when the others of its trace may be retried.          *)
LEMMA RetriesStep ==
    ASSUME TypeOK, TypeOK', ClientSound, ClientSound', RetriesSound, [HelperNext]_allVars
    PROVE  RetriesSound'
<1> SUFFICES ASSUME NEW q \in Runs, NEW r \in Runs, q < r, Trace[q] = Trace[r], run'[r] # "new"
             PROVE  Retryable(q)' /\ home'[q] <= home'[r]
    BY DEF RetriesSound
<1> USE TypeParts
<1>1. RunOnward(q) /\ RunOnward(r)
    BY RunsGoOn
<1>2. CASE run[r] # "new"
    BY <1>1, <1>2 DEF RetriesSound, Retryable, RunOnward
<1>3. CASE run[r] = "new"
  <2>1. Start(r)
    <3>1. run'[r] = "starting"
        BY <1>1, <1>3 DEF RunOnward
    <3>2. ASSUME NEW p \in Runs, Start(p) PROVE p = r
        BY <1>3, <3>1, <3>2 DEF Start, StateTyped
    <3>3. ASSUME NEW p \in Runs, Dispatch(p) \/ Abort(p) \/ Compiled(p) \/ CompileFails(p) PROVE FALSE
        BY <1>3, <3>1, <3>3 DEF Dispatch, Abort, AbortHelper, Compiled, CompileFails, Settle, StateTyped
    <3>4. CASE Hear \/ HandleExit \/ ReadyTimesOut \/ Close
      <4>1. run' = run \/ \E rs : run' = [p \in Runs |-> IF p \in rs THEN "settled" ELSE run[p]]
          BY <3>4 DEF Hear, HearReady, HearSelect, HearActivated, HearSubmitted, HearEnd, HandleExit,
             ReadyTimesOut, Close, Settle
      <4> QED
          BY <1>3, <3>1, <4>1
    <3>5. ASSUME NEW p \in Runs, NEW c \in Helpers, NEW told \in BOOLEAN, ExitTold(p, c, told) PROVE FALSE
        BY <1>3, <3>1, <3>5 DEF ExitTold, Settle, StateTyped
    <3>6. ASSUME run' = run PROVE FALSE
        BY <1>3, <3>1, <3>6
    <3>7. ASSUME NEW p \in Runs, Work(p) PROVE run' = run
        BY <3>7 DEF Work, Lease, LeaseRefused, Activate, Press, Accepted, Answered, Fail, UpstreamFails, EndWith,
           GiveBack, daemonVars
    <3>8. ASSUME NEW c \in Helpers, Receive(c) \/ Crash(c) PROVE run' = run
        BY <3>8 DEF Receive, ReceiveRun, ReceivePrompt, ReceiveSendAck, ReceiveAbort, ShutDown, Exit, Crash, Dies,
           daemonVars
    <3>9. CASE UNCHANGED allVars \/ \E t \in Traces : Reclaim(t)
        BY <3>6, <3>9 DEF allVars, Reclaim, daemonVars
    <3> QED
        BY <3>2, <3>3, <3>4, <3>5, <3>6, <3>7, <3>8, <3>9 DEF HelperNext, Progress
  <2>2. Retryable(q) /\ UNCHANGED <<settlement, phase>> /\ q # r
      BY <2>1, RunsAssumption DEF Start
  <2>3. Retryable(q)' /\ home'[q] = home[q] /\ run[q] # "new"
      BY <1>1, <2>2 DEF Retryable, RunOnward
  <2>4. CASE child # None
    <3>1. home'[r] = child
        BY <2>1, <2>4 DEF Start, StateTyped
    <3> QED
        BY <2>3, <2>4, <3>1 DEF ClientSound
  <2>5. CASE child = None
    <3>1. home' = [home EXCEPT ![r] = spawned + 1]
        BY <2>1, <2>5 DEF Start
    <3>2. home'[r] = spawned + 1
        BY <3>1 DEF StateTyped
    <3>3. spawned \in Nat /\ home[q] \in Nat /\ home[q] <= spawned
        BY HelpersAssumption DEF StateTyped, ClientSound, Helpers, None
    <3> QED
        BY <2>3, <3>2, <3>3
  <2> QED
      BY <2>3, <2>4, <2>5
<1> QED
    BY <1>2, <1>3

(* Nothing new is on its way, and no run is begun.                             *)
LEMMA InputKept ==
    ASSUME TypeOK, ClientSound, InputSound,
           \A r \in Runs : RunOnward(r),
           \A r \in Runs : worker'[r] = "none" <=> worker[r] = "none",
           \A c \in Helpers : input'[c] = <<>> \/ (input'[c] = input[c] /\ (proc'[c] = "up" => proc[c] = "up"))
    PROVE  InputSound'
<1> SUFFICES ASSUME NEW c \in Helpers, NEW i \in DOMAIN input'[c], input'[c][i].kind # "shutdown"
             PROVE  FrameSound(c, i)'
    BY DEF InputSound
<1>1. input'[c] = input[c] /\ (proc'[c] = "up" => proc[c] = "up")
    OBVIOUS
<1>2. FrameSound(c, i)
    BY <1>1 DEF InputSound
<1> DEFINE x == input[c][i].run
<1>3. x \in Runs /\ run[x] # "new" /\ home'[x] = home[x] /\ run'[x] \in {"pending", "settled"}
    BY <1>2 DEF FrameSound, RunOnward
<1>4. ASSUME NEW r \in Runs, home'[r] = c, worker'[r] # "none" PROVE home[r] = c /\ worker[r] # "none"
    BY <1>4 DEF ClientSound, RunOnward
<1>5. phase[x] # "prepared" => phase'[x] # "prepared"
    BY <1>3 DEF RunOnward
<1> QED
    BY <1>1, <1>2, <1>3, <1>4, <1>5 DEF FrameSound, About

(* The indices of a sequence that is written to, or read from.                 *)
LEMMA WrittenPipe ==
    ASSUME NEW S, NEW s \in Seq(S), NEW f \in S
    PROVE  /\ DOMAIN Append(s, f) = DOMAIN s \cup {Len(s) + 1}
           /\ Append(s, f)[Len(s) + 1] = f /\ Len(s) + 1 \in Nat
           /\ \A i \in DOMAIN s : Append(s, f)[i] = s[i] /\ i \in 1..Len(s)
           /\ \A i \in 1..Len(s) : i \in DOMAIN s
OBVIOUS

(* The same of a sequence whose head is taken.                                 *)
LEMMA ReadPipe ==
    ASSUME NEW S, NEW s \in Seq(S), s # <<>>
    PROVE  /\ \A i \in DOMAIN Tail(s) : i + 1 \in DOMAIN s /\ i \in Nat /\ i >= 1 /\ Tail(s)[i] = s[i + 1]
           /\ \A i \in DOMAIN s : i # 1 => i - 1 \in DOMAIN Tail(s) /\ Tail(s)[i - 1] = s[i]
           /\ 1 \in DOMAIN s /\ Head(s) = s[1]
           /\ Tail(s) \in Seq(S)
OBVIOUS

(* A frame is written to the client's helper.                                  *)
LEMMA InputGrows ==
    ASSUME TypeOK, ClientSound, HandedSound, RetriesSound, InputSound, child # None,
           \A r \in Runs : RunOnward(r),
           UNCHANGED <<worker, proc, home>>,
           NEW f \in Frames, input' = [input EXCEPT ![child] = Append(@, f)],
           f.kind = "shutdown" \/
              /\ f.kind \in {"run", "prompt", "sendAck", "abort"}
              /\ f.run \in Runs /\ run'[f.run] = "pending"
              /\ f.kind = "run" => home[f.run] = child /\ run[f.run] = "starting"
              /\ f.kind # "run" => run[f.run] = "pending"
              /\ f.kind = "sendAck" => home[f.run] = child /\ phase'[f.run] # "prepared"
    PROVE  InputSound'
<1> USE TypeParts
<1> SUFFICES ASSUME NEW c \in Helpers, NEW i \in DOMAIN input'[c], input'[c][i].kind # "shutdown"
             PROVE  FrameSound(c, i)'
    BY DEF InputSound
<1>0. child \in Helpers /\ input[c] \in Seq(Frames) /\ input[child] \in Seq(Frames)
    BY DEF StateTyped
<1>1. ASSUME input'[c] = input[c] \/ (c = child /\ i \in DOMAIN input[c]) PROVE FrameSound(c, i)'
  <2>1. i \in DOMAIN input[c] /\ input'[c][i] = input[c][i] /\ \A j \in 1..(i - 1) : input'[c][j] = input[c][j]
    <3>1. CASE input'[c] = input[c]
        BY <3>1
    <3>2. CASE c = child /\ i \in DOMAIN input[c]
      <4>1. input'[c] = Append(input[c], f)
          BY <1>0, <3>2 DEF StateTyped
      <4>2. i \in 1..Len(input[c]) /\ \A j \in 1..(i - 1) : j \in 1..Len(input[c])
          BY <1>0, <3>2
      <4> QED
          BY <1>0, <3>2, <4>1, <4>2, WrittenPipe
    <3> QED
        BY <1>1, <3>1, <3>2
  <2>2. FrameSound(c, i)
      BY <2>1 DEF InputSound
  <2> DEFINE x == input[c][i].run
  <2>3. x \in Runs /\ run'[x] \in {"pending", "settled"} /\ (phase[x] # "prepared" => phase'[x] # "prepared")
      BY <2>2 DEF FrameSound, RunOnward
  <2> QED
      BY <2>1, <2>2, <2>3 DEF FrameSound, About
<1>2. ASSUME c = child, i \notin DOMAIN input[c] PROVE FrameSound(c, i)'
  <2>1. input'[c] = Append(input[c], f)
      BY <1>0, <1>2 DEF StateTyped
  <2>2. i = Len(input[c]) + 1 /\ input'[c][i] = f
      BY <1>0, <1>2, <2>1, WrittenPipe
  <2>3. \A j \in 1..(i - 1) : input'[c][j] = input[c][j] /\ j \in DOMAIN input[c]
      BY <1>0, <2>1, <2>2, WrittenPipe
  <2> DEFINE x == f.run
  <2>4. /\ f.kind \in {"run", "prompt", "sendAck", "abort"}
        /\ x \in Runs /\ run'[x] = "pending" /\ run[x] \in {"starting", "pending"}
      BY <2>2
  <2>5. ASSUME NEW r \in Runs, Trace[r] = Trace[x], run[r] # "new" PROVE r <= x
      BY <2>4, <2>5, LastWaits
  <2>6. ASSUME NEW j \in 1..(i - 1), About(input'[c][j], x)
        PROVE  input'[c][j].run <= x /\ (f.kind = "run" => input'[c][j].run # x)
    <3>1. FrameSound(c, j)
        BY <2>3, <2>6 DEF InputSound, About
    <3>2. input[c][j].run \in Runs /\ run[input[c][j].run] \in {"pending", "settled"}
        BY <3>1 DEF FrameSound
    <3> QED
        BY <2>3, <2>5, <2>6, <3>2 DEF About
  <2>7. ASSUME NEW r \in Runs, home[r] = c, worker[r] # "none", Trace[r] = Trace[x] PROVE x >= r
    <3>1. run[r] # "new"
        BY <2>7 DEF ClientSound
    <3> QED
        BY <2>5, <2>7, <3>1, RunsAssumption
  <2>8. ASSUME home[x] = c, proc[c] = "up", worker[x] = "none", f.kind # "run"
        PROVE  \E j \in 1..(i - 1) : input'[c][j] = Frame("run", x)
    <3>1. PICK j \in DOMAIN input[c] : input[c][j] = Frame("run", x)
        BY <1>2, <2>4, <2>8 DEF HandedSound
    <3>2. j \in 1..(i - 1)
        BY <1>0, <2>2, <3>1
    <3> QED
        BY <2>3, <3>1, <3>2
  <2>9. f.kind = "run" => worker[x] = "none"
      BY <2>4 DEF ClientSound
  <2> QED
      BY <1>2, <2>2, <2>4, <2>6, <2>7, <2>8, <2>9 DEF FrameSound
<1>3. c # child => input'[c] = input[c]
    BY <1>0 DEF StateTyped
<1> QED
    BY <1>1, <1>2, <1>3

(* A helper reads a frame, and begins or refuses the run of a run frame.       *)
LEMMA InputTaken ==
    ASSUME TypeOK, ClientSound, InputSound, UNCHANGED <<run, home, phase, proc>>,
           NEW c \in Helpers, NEW kind \in {"run", "prompt", "sendAck", "abort"}, Receives(c, kind), Taken(c),
           \A r \in Runs : (kind = "run" /\ r = Head(input[c]).run) \/ (worker'[r] = "none" <=> worker[r] = "none"),
           kind = "run" => worker'[Head(input[c]).run] # "none"
    PROVE  InputSound'
<1> USE TypeParts
<1> DEFINE s == input[c]
           q == Head(s).run
<1>1. s \in Seq(Frames) /\ s # <<>> /\ Head(s).kind = kind
    BY DEF StateTyped, Receives
<1>2. input'[c] = Tail(s) /\ \A d \in Helpers : d # c => input'[d] = input[d]
    BY DEF Taken, StateTyped
<1>3. 1 \in DOMAIN s /\ Head(s) = s[1]
    BY <1>1, ReadPipe
<1>4. FrameSound(c, 1)
    BY <1>1, <1>3 DEF InputSound
<1>5. q \in Runs /\ (kind = "run" => home[q] = c /\ worker[q] = "none")
    BY <1>1, <1>3, <1>4 DEF FrameSound
<1>6. ASSUME NEW d \in Helpers, NEW i \in DOMAIN input'[d], d # c, input'[d][i].kind # "shutdown"
      PROVE  FrameSound(d, i)'
  <2>1. FrameSound(d, i) /\ input'[d] = input[d]
      BY <1>2, <1>6 DEF InputSound
  <2>2. ASSUME NEW r \in Runs, home[r] = d PROVE worker'[r] = "none" <=> worker[r] = "none"
      BY <1>5, <1>6, <2>2
  <2>3. input[d][i].kind = "run" => home[input[d][i].run] = d
      BY <2>1 DEF FrameSound
  <2> QED
      BY <2>1, <2>2, <2>3 DEF FrameSound, About
<1>7. ASSUME NEW i \in DOMAIN input'[c], input'[c][i].kind # "shutdown"
      PROVE  FrameSound(c, i)'
  <2>1. i + 1 \in DOMAIN s /\ i \in Nat /\ i >= 1 /\ input'[c][i] = s[i + 1]
      BY <1>1, <1>2, <1>7, ReadPipe
  <2>2. \A j \in 1..(i - 1) : input'[c][j] = s[j + 1] /\ j + 1 \in 1..i
    <3>1. \A j \in 1..(i - 1) : j \in DOMAIN Tail(s)
        BY <1>1, <1>2, <1>7
    <3> QED
        BY <1>1, <1>2, <2>1, <3>1, ReadPipe
  <2>3. FrameSound(c, i + 1)
      BY <1>7, <2>1 DEF InputSound
  <2> DEFINE f == s[i + 1]
             x == f.run
  <2>4. /\ f.kind \in {"run", "prompt", "sendAck", "abort"}
        /\ x \in Runs /\ run[x] \in {"pending", "settled"}
        /\ f.kind = "run" => home[x] = c /\ worker[x] = "none"
        /\ f.kind = "sendAck" => home[x] = c /\ phase[x] # "prepared"
        /\ home[x] = c /\ proc[c] = "up" /\ worker[x] = "none" /\ f.kind # "run" =>
              \E j \in 1..i : s[j] = Frame("run", x)
        /\ \A j \in 1..i : About(s[j], x) => s[j].run <= x /\ (f.kind = "run" => s[j].run # x)
        /\ \A r \in Runs : home[r] = c /\ worker[r] # "none" /\ Trace[r] = Trace[x] => x >= r
    <3>1. (i + 1) - 1 = i
        BY <2>1
    <3> QED
        BY <2>3, <3>1 DEF FrameSound
  <2>5. 1 \in 1..i
      BY <2>1
  <2>6. Trace[q] = Trace[x] => q <= x /\ (f.kind = "run" => q # x)
    <3>1. Trace[q] = Trace[x] => About(s[1], x)
        BY <1>1, <1>3 DEF About
    <3> QED
        BY <1>3, <2>4, <2>5, <3>1
  <2>7. f.kind = "run" => worker'[x] = "none"
      BY <2>4, <2>6
  <2>8. ASSUME home[x] = c, proc[c] = "up", worker'[x] = "none", f.kind # "run"
        PROVE  \E j \in 1..(i - 1) : input'[c][j] = Frame("run", x)
    <3>1. worker[x] = "none"
        BY <2>4, <2>8
    <3>2. PICK j \in 1..i : s[j] = Frame("run", x)
        BY <2>4, <2>8, <3>1
    <3>3. j # 1
      <4>1. s[1] = Frame("run", x) => kind = "run" /\ q = x
          BY <1>1, <1>3 DEF Frame
      <4> QED
          BY <2>8, <3>2, <4>1
    <3>4. j - 1 \in 1..(i - 1) /\ (j - 1) + 1 = j
        BY <2>1, <3>2, <3>3
    <3> QED
        BY <2>2, <3>2, <3>4
  <2>9. \A j \in 1..(i - 1) : About(input'[c][j], x) =>
              input'[c][j].run <= x /\ (f.kind = "run" => input'[c][j].run # x)
      BY <2>2, <2>4
  <2>10. ASSUME NEW r \in Runs, home[r] = c, worker'[r] # "none", Trace[r] = Trace[x] PROVE x >= r
    <3>1. CASE worker[r] # "none"
        BY <2>4, <2>10, <3>1
    <3>2. CASE worker[r] = "none"
        BY <2>4, <2>6, <2>10, <3>2, RunsAssumption
    <3> QED
        BY <3>1, <3>2
  <2> QED
      BY <2>1, <2>4, <2>7, <2>8, <2>9, <2>10 DEF FrameSound
<1> QED
    BY <1>6, <1>7 DEF InputSound

(* The leave to press Send goes to the run that waits, which the client's      *)
(* helper has.                                                                 *)
LEMMA LeaveGoesHome ==
    ASSUME TypeOK, ClientSound, RetriesSound, NEW w \in Runs, child # None, home[w] = child,
           NEW x \in Runs, run[x] = "pending", Trace[x] = Trace[w]
    PROVE  home[x] = child /\ w <= x
<1>1. run[w] # "new"
    BY DEF ClientSound
<1>2. w <= x
    BY <1>1, LastWaits
<1>3. home[w] <= home[x]
    BY <1>2, RunsAssumption, TypeParts DEF RetriesSound, StateTyped, Helpers, None
<1>4. home[x] <= child
    BY DEF ClientSound
<1>5. home[x] \in Int /\ child \in Int
    BY TypeParts, HelpersAssumption DEF StateTyped, Helpers, None
<1> QED
    BY <1>2, <1>3, <1>4, <1>5

(* Every step keeps what is on its way to the helpers in order.                *)
LEMMA InputStep ==
    ASSUME TypeOK, TypeOK', ClientSound, HandedSound, RetriesSound, InputSound, OutputSound, [HelperNext]_allVars
    PROVE  InputSound'
<1> USE TypeParts
<1>1. \A r \in Runs : RunOnward(r)
    BY RunsGoOn
<1>2. \A r \in Runs : WorkOnward(r)
    BY WorkGoesOn
<1>3. ASSUME UNCHANGED <<worker, proc, input>> PROVE InputSound'
    BY <1>1, <1>3, InputKept
<1>4. ASSUME NEW q \in Runs, NEW kind \in {"run", "prompt", "sendAck", "abort"}, child # None, Send(kind, q),
             UNCHANGED <<worker, proc, home>>, run'[q] = "pending",
             kind = "run" => home[q] = child /\ run[q] = "starting",
             kind # "run" => run[q] = "pending",
             kind = "sendAck" => home[q] = child /\ phase'[q] # "prepared"
      PROVE  InputSound'
  <2>1. /\ Frame(kind, q) \in Frames /\ Frame(kind, q).kind = kind /\ Frame(kind, q).run = q
      BY FrameTyped
  <2> QED
      BY <1>1, <1>4, <2>1, InputGrows DEF Send
<1>5. ASSUME NEW q \in Runs, Start(q) PROVE InputSound'
  <2>1. UNCHANGED <<worker, input>>
      BY <1>5 DEF Start
  <2>2. ASSUME NEW c \in Helpers, proc'[c] = "up", proc[c] # "up" PROVE input'[c] = <<>>
    <3>1. child = None /\ proc' = [proc EXCEPT ![spawned + 1] = "up"]
        BY <1>5, <2>2 DEF Start
    <3>2. c = spawned + 1
        BY <2>2, <3>1 DEF StateTyped
    <3>3. c > spawned
        BY <3>2, HelpersAssumption DEF StateTyped
    <3> QED
        BY <2>1, <3>3 DEF ClientSound
  <2> QED
      BY <1>1, <2>1, <2>2, InputKept
<1>6. ASSUME NEW q \in Runs, Dispatch(q) PROVE InputSound'
  <2>1. child # None /\ home[q] = child /\ run[q] = "starting" /\ UNCHANGED <<worker, proc, home>>
      BY <1>6 DEF Dispatch, ClientSound, helperVars
  <2>2. CASE signalled[q]
      BY <1>3, <1>6, <2>1, <2>2 DEF Dispatch
  <2>3. CASE ~signalled[q]
      BY <1>4, <1>6, <2>1, <2>3 DEF Dispatch, StateTyped
  <2> QED
      BY <2>2, <2>3
<1>7. ASSUME NEW q \in Runs, Abort(q) \/ Compiled(q) \/ CompileFails(q) PROVE InputSound'
  <2>1. UNCHANGED <<worker, proc, home>>
      BY <1>7 DEF Abort, Compiled, CompileFails, helperVars
  <2>2. \/ UNCHANGED input
        \/ \E kind \in {"prompt", "abort"} : child # None /\ run[q] = "pending" /\ Send(kind, q) /\ UNCHANGED run
      BY <1>7 DEF Abort, AbortHelper, Compiled, CompileFails
  <2> QED
      BY <1>3, <1>4, <2>1, <2>2
<1>8. CASE Hear
  <2>1. UNCHANGED <<worker, proc, home>>
      BY <1>8 DEF Hear, HearReady, HearSelect, HearActivated, HearSubmitted, HearEnd, helperVars
  <2>2. CASE ~HearActivated
      BY <1>3, <1>8, <2>1, <2>2 DEF Hear, HearReady, HearSelect, HearSubmitted, HearEnd
  <2>3. CASE HearActivated
    <3>1. CASE Addressee = {}
        BY <1>3, <2>1, <2>3, <3>1 DEF HearActivated
    <3>2. CASE Addressee # {}
      <4> DEFINE x == CHOOSE r \in Addressee : TRUE
                 w == Head(output[child]).run
      <4>1. child # None /\ output[child] # <<>> /\ Head(output[child]).kind = "activated"
          BY <2>3 DEF HearActivated, Heard
      <4>2. 1 \in DOMAIN output[child] /\ Head(output[child]) = output[child][1]
          BY <4>1 DEF StateTyped
      <4>3. w \in Runs /\ home[w] = child
          BY <4>1, <4>2 DEF OutputSound, HeardSound
      <4>4. x \in Addressee /\ x \in Runs /\ run[x] = "pending" /\ Trace[x] = Trace[w]
          BY <3>2 DEF Addressee, PendingOf
      <4>5. home[x] = child
          BY <4>1, <4>3, <4>4, LeaveGoesHome
      <4>6. Send("sendAck", x) /\ UNCHANGED run /\ phase'[x] # "prepared"
          BY <2>3, <3>2, <4>4 DEF HearActivated
      <4> QED
          BY <1>4, <2>1, <4>1, <4>4, <4>5, <4>6
    <3> QED
        BY <3>1, <3>2
  <2> QED
      BY <2>2, <2>3
<1>9. CASE ReadyTimesOut \/ Close \/ HandleExit
  <2>1. UNCHANGED <<worker, proc, home>>
      BY <1>9 DEF ReadyTimesOut, Close, HandleExit, helperVars
  <2>2. UNCHANGED input \/ (child # None /\ input' = [input EXCEPT ![child] = Append(@, Frame("shutdown", None))])
      BY <1>9 DEF ReadyTimesOut, Close, HandleExit
  <2>3. Frame("shutdown", None) \in Frames /\ Frame("shutdown", None).kind = "shutdown"
      BY FrameTyped
  <2> QED
      BY <1>1, <1>3, <2>1, <2>2, <2>3, InputGrows
<1>10. ASSUME NEW q \in Runs, NEW c \in Helpers, NEW told \in BOOLEAN, ExitTold(q, c, told) PROVE InputSound'
    BY <1>3, <1>10 DEF ExitTold, helperVars
<1>11. ASSUME NEW c \in Helpers, ReceiveRun(c) PROVE InputSound'
  <2>1. Receives(c, "run") /\ Taken(c) /\ UNCHANGED <<run, home, phase, proc>>
      BY <1>11 DEF ReceiveRun, daemonVars
  <2>2. worker'[Head(input[c]).run] # "none" /\ \A r \in Runs : r = Head(input[c]).run \/ worker'[r] = worker[r]
    <3>1. Head(input[c]).run \in Runs
        BY <2>1, HeadIsFirst
    <3> QED
        BY <1>11, <3>1 DEF ReceiveRun, StateTyped
  <2> QED
      BY <2>1, <2>2, InputTaken
<1>12. ASSUME NEW c \in Helpers, ReceivePrompt(c) \/ ReceiveSendAck(c) \/ ReceiveAbort(c) PROVE InputSound'
  <2>1. Taken(c) /\ UNCHANGED <<run, home, phase, proc>>
        /\ \E kind \in {"prompt", "sendAck", "abort"} : Receives(c, kind)
      BY <1>12 DEF ReceivePrompt, ReceiveSendAck, ReceiveAbort, daemonVars
  <2>2. \A r \in Runs : worker'[r] = worker[r] \/ (worker[r] # "none" /\ worker'[r] # "none")
      BY <1>12 DEF ReceivePrompt, ReceiveSendAck, ReceiveAbort, StateTyped
  <2> QED
      BY <2>1, <2>2, InputTaken
<1>13. ASSUME NEW c \in Helpers, ShutDown(c) \/ Exit(c) \/ Crash(c) PROVE InputSound'
  <2>1. UNCHANGED worker /\ \A d \in Helpers : input'[d] = <<>> \/ (input'[d] = input[d] /\ proc'[d] = proc[d])
      BY <1>13 DEF ShutDown, Exit, Crash, Dies, StateTyped
  <2> QED
      BY <1>1, <2>1, InputKept
<1>14. ASSUME NEW q \in Runs, Work(q) PROVE InputSound'
  <2>1. UNCHANGED <<proc, input>>
      BY <1>14 DEF Work, Lease, LeaseRefused, Activate, Press, Accepted, Answered, Fail, UpstreamFails, EndWith,
         GiveBack
  <2>2. worker[q] # "none" /\ \A r \in Runs : r # q => worker'[r] = worker[r]
      BY <1>14 DEF Work, Lease, LeaseRefused, Activate, Press, Accepted, Answered, Fail, UpstreamFails, EndWith,
         GiveBack, StateTyped, Working
  <2> QED
      BY <1>1, <1>2, <2>1, <2>2, InputKept DEF WorkOnward
<1>15. CASE UNCHANGED allVars \/ \E t \in Traces : Reclaim(t)
    BY <1>3, <1>15 DEF allVars, Reclaim, daemonVars, helperVars
<1> QED
    BY <1>5, <1>6, <1>7, <1>8, <1>9, <1>10, <1>11, <1>12, <1>13, <1>14, <1>15 DEF HelperNext, Progress, Receive

(* Nothing is handed over, and nothing is read by the client's helper.         *)
LEMMA HandedKept ==
    ASSUME TypeOK, ClientSound, HandedSound,
           \A r \in Runs : RunOnward(r) /\ WorkOnward(r),
           \A r \in Runs : run'[r] = "pending" => run[r] = "pending",
           child' \in {child, None}, proc'[child] = "up" => proc[child] = "up",
           \/ child' = None \/ proc'[child] # "up" \/ input'[child] = input[child]
           \/ child # None /\ \E f \in Frames : input' = [input EXCEPT ![child] = Append(@, f)]
    PROVE  HandedSound'
<1> USE TypeParts
<1> SUFFICES ASSUME NEW r \in Runs, run'[r] = "pending", home'[r] = child', proc'[child'] = "up", worker'[r] = "none"
             PROVE  \E i \in DOMAIN input'[child'] : input'[child'][i] = Frame("run", r)
    BY DEF HandedSound
<1>1. run[r] = "pending" /\ home'[r] = home[r] /\ home[r] # None
    BY DEF RunOnward, ClientSound
<1>2. child' = child /\ home[r] = child /\ proc[child] = "up" /\ child # None
    BY <1>1
<1>3. worker[r] = "none"
    BY DEF WorkOnward
<1>4. PICK i \in DOMAIN input[child] : input[child][i] = Frame("run", r)
    BY <1>1, <1>2, <1>3 DEF HandedSound
<1>5. CASE input'[child] = input[child]
    BY <1>2, <1>4, <1>5
<1>6. ASSUME NEW f \in Frames, input' = [input EXCEPT ![child] = Append(@, f)]
      PROVE  \E j \in DOMAIN input'[child'] : input'[child'][j] = Frame("run", r)
  <2>1. child \in Helpers /\ input[child] \in Seq(Frames) /\ input'[child] = Append(input[child], f)
      BY <1>2, <1>6 DEF StateTyped
  <2> QED
      BY <1>2, <1>4, <2>1, WrittenPipe
<1> QED
    BY <1>2, <1>5, <1>6

(* Every step hands over what it says it handed over.                          *)
LEMMA HandedStep ==
    ASSUME TypeOK, TypeOK', ClientSound, HandedSound, InputSound, [HelperNext]_allVars
    PROVE  HandedSound'
<1> USE TypeParts
<1>1. \A r \in Runs : RunOnward(r) /\ WorkOnward(r)
    BY RunsGoOn, WorkGoesOn
<1>2. ASSUME NEW q \in Runs, Start(q) PROVE HandedSound'
  <2>1. CASE child # None
    <3>1. run' = [run EXCEPT ![q] = "starting"] /\ UNCHANGED <<child, proc, input, worker>>
        BY <1>2, <2>1 DEF Start
    <3> QED
        BY <1>1, <2>1, <3>1, HandedKept DEF StateTyped
  <2>2. CASE child = None
    <3>1. run' = [run EXCEPT ![q] = "starting"] /\ child' = spawned + 1
        BY <1>2, <2>2 DEF Start
    <3>2. ASSUME NEW r \in Runs, run'[r] = "pending" PROVE home'[r] # child'
      <4>1. run[r] = "pending" /\ home'[r] = home[r] /\ home[r] <= spawned
          BY <1>1, <3>1, <3>2 DEF RunOnward, ClientSound, StateTyped
      <4> QED
          BY <3>1, <4>1, HelpersAssumption DEF StateTyped, Helpers, None
    <3> QED
        BY <3>2 DEF HandedSound
  <2> QED
      BY <2>1, <2>2
<1>3. ASSUME NEW q \in Runs, Dispatch(q) PROVE HandedSound'
  <2>1. child # None /\ UNCHANGED <<child, proc, home, worker>>
      BY <1>3 DEF Dispatch, ClientSound, helperVars
  <2>2. CASE signalled[q]
      BY <1>1, <1>3, <2>1, <2>2, HandedKept DEF Dispatch, Settle, StateTyped
  <2>3. CASE ~signalled[q]
    <3>1. run' = [run EXCEPT ![q] = "pending"] /\ input' = [input EXCEPT ![child] = Append(@, Frame("run", q))]
        BY <1>3, <2>3 DEF Dispatch, Send
    <3>2. Frame("run", q) \in Frames
        BY FrameTyped
    <3>3. child \in Helpers /\ input[child] \in Seq(Frames) /\ input'[child] = Append(input[child], Frame("run", q))
        BY <2>1, <3>1 DEF StateTyped
    <3>4. ASSUME NEW r \in Runs, run'[r] = "pending", home[r] = child, proc[child] = "up", worker[r] = "none"
          PROVE  \E i \in DOMAIN input'[child] : input'[child][i] = Frame("run", r)
      <4>1. CASE r = q
          BY <3>2, <3>3, <4>1, WrittenPipe
      <4>2. CASE r # q
        <5>1. PICK i \in DOMAIN input[child] : input[child][i] = Frame("run", r)
            BY <3>1, <3>4, <4>2 DEF HandedSound, StateTyped
        <5> QED
            BY <3>2, <3>3, <5>1, WrittenPipe
      <4> QED
          BY <4>1, <4>2
    <3> QED
        BY <2>1, <3>4 DEF HandedSound
  <2> QED
      BY <2>2, <2>3
<1>4. ASSUME NEW q \in Runs, Abort(q) \/ Compiled(q) \/ CompileFails(q) PROVE HandedSound'
  <2>1. UNCHANGED <<child, proc>>
      BY <1>4 DEF Abort, Compiled, CompileFails, helperVars
  <2>2. UNCHANGED input \/ (child # None /\ \E f \in Frames : input' = [input EXCEPT ![child] = Append(@, f)])
      BY <1>4, FrameTyped DEF Abort, AbortHelper, Compiled, CompileFails, Send
  <2>3. \A r \in Runs : run'[r] = run[r] \/ run'[r] = "settled"
      BY <1>4 DEF Abort, AbortHelper, Compiled, CompileFails, Settle, StateTyped
  <2> QED
      BY <1>1, <2>1, <2>2, <2>3, HandedKept
<1>5. CASE Hear
  <2>1. UNCHANGED <<child, proc>> /\ child # None
      BY <1>5 DEF Hear, HearReady, HearSelect, HearActivated, HearSubmitted, HearEnd, helperVars, Heard
  <2>2. \A r \in Runs : run'[r] = run[r] \/ run'[r] = "settled"
    <3>1. CASE HearEnd
        BY <3>1 DEF HearEnd, Settle, StateTyped
    <3> QED
        BY <1>5, <3>1 DEF Hear, HearReady, HearSelect, HearActivated, HearSubmitted
  <2>3. UNCHANGED input \/ \E f \in Frames : input' = [input EXCEPT ![child] = Append(@, f)]
    <3>1. CASE HearActivated /\ Addressee # {}
      <4>1. (CHOOSE r \in Addressee : TRUE) \in Runs
          BY <3>1 DEF Addressee, PendingOf
      <4> QED
          BY <3>1, <4>1, FrameTyped DEF HearActivated, Send
    <3> QED
        BY <1>5, <3>1 DEF Hear, HearReady, HearSelect, HearSubmitted, HearEnd, HearActivated
  <2> QED
      BY <1>1, <2>1, <2>2, <2>3, HandedKept
<1>6. CASE ReadyTimesOut \/ Close \/ HandleExit
  <2>1. child' = None /\ UNCHANGED proc
      BY <1>6 DEF ReadyTimesOut, Close, HandleExit, helperVars
  <2>2. \A r \in Runs : run'[r] = run[r] \/ run'[r] = "settled"
      BY <1>6 DEF ReadyTimesOut, HandleExit, Close, Settle, StateTyped
  <2> QED
      BY <1>1, <2>1, <2>2, HandedKept
<1>7. ASSUME NEW q \in Runs, NEW c \in Helpers, NEW told \in BOOLEAN, ExitTold(q, c, told) PROVE HandedSound'
  <2>1. UNCHANGED <<child, proc, input>>
      BY <1>7 DEF ExitTold, helperVars
  <2>2. \A r \in Runs : run'[r] = run[r] \/ run'[r] = "settled"
      BY <1>7 DEF ExitTold, Settle, StateTyped
  <2> QED
      BY <1>1, <2>1, <2>2, HandedKept
<1>8. ASSUME NEW c \in Helpers, ReceiveRun(c) \/ ReceivePrompt(c) \/ ReceiveSendAck(c) \/ ReceiveAbort(c)
      PROVE  HandedSound'
  <2>1. UNCHANGED <<child, run, home, proc>> /\ Taken(c) /\ input[c] # <<>>
        /\ \E kind \in {"run", "prompt", "sendAck", "abort"} : Receives(c, kind)
      BY <1>8 DEF ReceiveRun, ReceivePrompt, ReceiveSendAck, ReceiveAbort, daemonVars, Receives
  <2>2. CASE c # child
    <3>1. input'[child] = input[child]
        BY <2>1, <2>2 DEF Taken, StateTyped
    <3> QED
        BY <1>1, <2>1, <3>1, HandedKept
  <2>3. CASE c = child
    <3>1. input[child] \in Seq(Frames) /\ input'[child] = Tail(input[child])
        BY <2>1, <2>3 DEF Taken, StateTyped
    <3>2. ASSUME NEW r \in Runs, run[r] = "pending", home[r] = child, proc[child] = "up", worker'[r] = "none"
          PROVE  \E i \in DOMAIN input'[child] : input'[child][i] = Frame("run", r)
      <4>1. worker[r] = "none"
          BY <1>1, <3>2 DEF WorkOnward
      <4>2. PICK i \in DOMAIN input[child] : input[child][i] = Frame("run", r)
          BY <3>2, <4>1 DEF HandedSound
      <4>3. i # 1
        <5>1. ASSUME i = 1 PROVE FALSE
          <6>1. Head(input[c]) = Frame("run", r)
              BY <2>1, <2>3, <3>1, <4>2, <5>1, ReadPipe
          <6>2. Head(input[c]).kind = "run" /\ Head(input[c]).run = r
              BY <6>1 DEF Frame
          <6> QED
              BY <1>8, <3>2, <6>2 DEF ReceiveRun, ReceivePrompt, ReceiveSendAck, ReceiveAbort, Receives, StateTyped
        <5> QED
            BY <5>1
      <4>4. i - 1 \in DOMAIN Tail(input[child]) /\ Tail(input[child])[i - 1] = input[child][i]
          BY <2>1, <2>3, <3>1, <4>2, <4>3, ReadPipe
      <4> QED
          BY <3>1, <4>2, <4>4
    <3> QED
        BY <2>1, <3>2 DEF HandedSound
  <2> QED
      BY <2>2, <2>3
<1>9. ASSUME NEW c \in Helpers, ShutDown(c) \/ Exit(c) \/ Crash(c) PROVE HandedSound'
  <2>1. UNCHANGED <<child, run, home>> /\ \A d \in Helpers : d # c => input'[d] = input[d] /\ proc'[d] = proc[d]
      BY <1>9 DEF ShutDown, Exit, Crash, Dies, daemonVars, StateTyped
  <2>2. proc'[c] # "up"
      BY <1>9 DEF ShutDown, Exit, Crash, Dies, StateTyped
  <2>3. CASE child = None
      BY <2>1, <2>3 DEF HandedSound, ClientSound
  <2>4. CASE child # None
      BY <1>1, <2>1, <2>2, <2>4, HandedKept DEF StateTyped
  <2> QED
      BY <2>3, <2>4
<1>10. ASSUME NEW q \in Runs, Work(q) PROVE HandedSound'
  <2>1. UNCHANGED <<child, run, proc, input>>
      BY <1>10 DEF Work, Lease, LeaseRefused, Activate, Press, Accepted, Answered, Fail, UpstreamFails, EndWith,
         GiveBack, daemonVars
  <2> QED
      BY <1>1, <2>1, HandedKept
<1>11. CASE UNCHANGED allVars \/ \E t \in Traces : Reclaim(t)
  <2>1. UNCHANGED <<child, run, proc, input>>
      BY <1>11 DEF allVars, Reclaim, daemonVars, helperVars
  <2> QED
      BY <1>1, <2>1, HandedKept
<1> QED
    BY <1>2, <1>3, <1>4, <1>5, <1>6, <1>7, <1>8, <1>9, <1>10, <1>11 DEF HelperNext, Progress, Receive

-------------------------------------------------------------------------------
(* The worker, the leave to press Send and the outcomes *)

(* A run is begun or refused when its helper reads its run frame.              *)
LEMMA BeginsByRead ==
    ASSUME TypeOK, InputSound, [HelperNext]_allVars, NEW r \in Runs, worker[r] = "none", worker'[r] # "none"
    PROVE  home[r] \in Helpers /\ ReceiveRun(home[r]) /\ Head(input[home[r]]).run = r
<1> USE TypeParts
<1>1. ASSUME NEW c \in Helpers, ReceiveRun(c) PROVE c = home[r] /\ Head(input[c]).run = r
  <2>1. Head(input[c]).run \in Runs /\ home[Head(input[c]).run] = c
      BY <1>1, HeadIsFirst DEF ReceiveRun
  <2> QED
      BY <1>1, <2>1 DEF ReceiveRun, StateTyped
<1>2. ASSUME NEW q \in Runs, Start(q) \/ Dispatch(q) \/ Abort(q) \/ Compiled(q) \/ CompileFails(q) PROVE UNCHANGED worker
    BY <1>2 DEF Start, Dispatch, Abort, Compiled, CompileFails, helperVars
<1>3. CASE Hear \/ HandleExit \/ ReadyTimesOut \/ Close \/ UNCHANGED allVars \/ \E t \in Traces : Reclaim(t)
    BY <1>3 DEF Hear, HearReady, HearSelect, HearActivated, HearSubmitted, HearEnd, HandleExit, ReadyTimesOut, Close,
       allVars, Reclaim, helperVars
<1>4. ASSUME NEW q \in Runs, NEW c \in Helpers, NEW told \in BOOLEAN, ExitTold(q, c, told) PROVE UNCHANGED worker
    BY <1>4 DEF ExitTold, helperVars
<1>5. ASSUME NEW c \in Helpers,
             ReceivePrompt(c) \/ ReceiveSendAck(c) \/ ReceiveAbort(c) \/ ShutDown(c) \/ Exit(c) \/ Crash(c)
      PROVE  worker'[r] = "none"
    BY <1>5 DEF ReceivePrompt, ReceiveSendAck, ReceiveAbort, ShutDown, Exit, Crash, Dies
<1>6. ASSUME NEW q \in Runs, Work(q) PROVE worker'[r] = "none"
  <2>1. worker[q] # "none" /\ \A s \in Runs : s # q => worker'[s] = worker[s]
      BY <1>6 DEF Work, Lease, LeaseRefused, Activate, Press, Accepted, Answered, Fail, UpstreamFails, EndWith,
         GiveBack, StateTyped, Working
  <2> QED
      BY <2>1
<1> QED
    BY <1>1, <1>2, <1>3, <1>4, <1>5, <1>6 DEF HelperNext, Progress, Receive

(* A run that is not on its way has its helper and stays there.                *)
LEMMA BegunHasHelper ==
    ASSUME TypeOK, ClientSound, NEW r \in Runs, worker[r] # "none", RunOnward(r)
    PROVE  run[r] \in {"pending", "settled"} /\ home[r] \in Helpers /\ home[r] # None /\ home'[r] = home[r]
BY TypeParts DEF StateTyped, ClientSound, RunOnward

(* A helper works at one run of a trace.                                       *)
LEMMA WorkStep ==
    ASSUME TypeOK, TypeOK', ClientSound, ClientSound', InputSound, WorkSound, [HelperNext]_allVars
    PROVE  WorkSound'
<1> SUFFICES ASSUME NEW q \in Runs, NEW r \in Runs, q < r, Trace[q] = Trace[r], home'[q] = home'[r], worker'[q] \notin Over,
                    worker'[r] # "none"
             PROVE  worker'[r] = "refused"
    BY DEF WorkSound
<1>1. /\ RunOnward(q) /\ RunOnward(r) /\ WorkOnward(q) /\ WorkOnward(r) /\ q # r
    BY RunsGoOn, WorkGoesOn, RunsAssumption
<1>2. home'[q] = home[q] /\ home'[r] = home[r]
    BY <1>1, TypeParts DEF ClientSound, RunOnward, Over, StateTyped
<1>3. CASE worker[q] = "none"
  <2>1. ReceiveRun(home[q]) /\ Head(input[home[q]]).run = q /\ home[q] \in Helpers
      BY <1>3, BeginsByRead DEF Over
  <2>2. worker[r] # "none"
      BY <1>1, <2>1, TypeParts DEF ReceiveRun, StateTyped
  <2>3. Receives(home[q], "run")
      BY <2>1 DEF ReceiveRun
  <2>4. \A s \in Runs : home[s] = home[q] /\ worker[s] # "none" /\ Trace[s] = Trace[q] => q >= s
      BY <2>1, <2>3, HeadIsFirst
  <2>5. q >= r
      BY <1>2, <2>2, <2>4
  <2>6. q \in Int /\ r \in Int
      BY RunsAssumption
  <2> QED
      BY <2>5, <2>6
<1>4. CASE worker[q] # "none"
  <2>1. worker[q] \notin Over
      BY <1>1, <1>4 DEF WorkOnward, Over
  <2>2. worker[r] \in {"none", "refused"}
      BY <1>2, <2>1 DEF WorkSound
  <2>3. ASSUME worker[r] = "none" PROVE worker'[r] = "refused"
    <3>1. ReceiveRun(home[r]) /\ Head(input[home[r]]).run = r
        BY <2>3, BeginsByRead
    <3>2. q \in Target(home[r])
        BY <1>2, <2>1, <3>1 DEF Target, ActiveIn
    <3> QED
        BY <3>1, <3>2, TypeParts DEF ReceiveRun, StateTyped
  <2> QED
      BY <1>1, <2>2, <2>3 DEF WorkOnward
<1> QED
    BY <1>3, <1>4

(* What has the leave to press Send got it by reading it.                      *)
LEMMA LeftByLeave ==
    ASSUME TypeOK, TypeOK', InputSound, [HelperNext]_allVars, NEW r \in Runs, ~Left(r), Left(r)'
    PROVE  \E c \in Helpers : ReceiveSendAck(c) /\ r \in Target(c)
<1> USE TypeParts
<1>1. ASSUME UNCHANGED <<worker, pressed, verdict>> PROVE FALSE
    BY <1>1 DEF Left
<1>2. ASSUME NEW q \in Runs, Start(q) \/ Dispatch(q) \/ Abort(q) \/ Compiled(q) \/ CompileFails(q) PROVE FALSE
    BY <1>1, <1>2 DEF Start, Dispatch, Abort, Compiled, CompileFails, helperVars
<1>3. CASE Hear \/ HandleExit \/ ReadyTimesOut \/ Close \/ UNCHANGED allVars \/ \E t \in Traces : Reclaim(t)
    BY <1>1, <1>3 DEF Hear, HearReady, HearSelect, HearActivated, HearSubmitted, HearEnd, HandleExit, ReadyTimesOut,
       Close, allVars, Reclaim, helperVars
<1>4. ASSUME NEW q \in Runs, NEW c \in Helpers, NEW told \in BOOLEAN, ExitTold(q, c, told) PROVE FALSE
    BY <1>1, <1>4 DEF ExitTold, helperVars
<1>5. ASSUME NEW c \in Helpers, ReceiveAbort(c) \/ ShutDown(c) \/ Exit(c) \/ Crash(c) PROVE FALSE
    BY <1>1, <1>5 DEF ReceiveAbort, ShutDown, Exit, Crash, Dies
<1>6. ASSUME NEW c \in Helpers, ReceiveRun(c) \/ ReceivePrompt(c) PROVE FALSE
  <2>1. UNCHANGED <<pressed, verdict>>
      BY <1>6 DEF ReceiveRun, ReceivePrompt
  <2>2. worker'[r] = worker[r] \/ worker'[r] \in {"leasing", "refused", "preparing"}
      BY <1>6 DEF ReceiveRun, ReceivePrompt, StateTyped
  <2> QED
      BY <2>1, <2>2 DEF Left
<1>7. ASSUME NEW c \in Helpers, ReceiveSendAck(c) PROVE r \in Target(c)
    BY <1>7 DEF ReceiveSendAck, StateTyped, Left
<1>8. ASSUME NEW q \in Runs, Work(q) PROVE FALSE
  <2>1. CASE r # q
    <3>1. worker'[r] = worker[r] /\ pressed'[r] = pressed[r] /\ verdict'[r] = verdict[r]
        BY <1>8, <2>1 DEF Work, Lease, LeaseRefused, Activate, Press, Accepted, Answered, Fail, UpstreamFails,
           EndWith, GiveBack, StateTyped, FlagsTyped
    <3> QED
        BY <3>1 DEF Left
  <2>2. CASE r = q
    <3>1. CASE Lease(q) \/ LeaseRefused(q) \/ Activate(q) \/ \E told \in BOOLEAN : GiveBack(q, told)
        BY <2>2, <3>1 DEF Lease, LeaseRefused, Activate, GiveBack, StateTyped, Left
    <3>2. CASE Press(q) \/ Accepted(q) \/ Answered(q) \/ UpstreamFails(q)
        BY <2>2, <3>2 DEF Press, Accepted, Answered, UpstreamFails, Left
    <3>3. CASE Fail(q)
        BY <2>2, <3>3 DEF Fail, EndWith, StateTyped, Left
    <3> QED
        BY <1>8, <3>1, <3>2, <3>3 DEF Work
  <2> QED
      BY <2>1, <2>2
<1> QED
    BY <1>2, <1>3, <1>4, <1>5, <1>6, <1>7, <1>8 DEF HelperNext, Progress, Receive

(* The runs between two runs of a trace that one helper has are there too.     *)
LEMMA Between ==
    ASSUME TypeOK, ClientSound, RetriesSound, NEW q \in Runs, NEW x \in Runs, NEW s \in Runs,
           q < s, s < x, Trace[q] = Trace[s], Trace[s] = Trace[x], home[q] = home[x], worker[x] # "none", worker[q] # "none"
    PROVE  home[s] = home[q]
<1>1. run[x] # "new"
    BY DEF ClientSound
<1>2. Retryable(s) /\ home[s] <= home[x]
    BY <1>1 DEF RetriesSound
<1>3. home[q] <= home[s]
    BY <1>2 DEF RetriesSound, Retryable
<1>4. home[s] \in Int /\ home[x] \in Int
    BY TypeParts, HelpersAssumption DEF StateTyped, Helpers, None
<1> QED
    BY <1>2, <1>3, <1>4

(* The leave that was given to another run stays given to it.                  *)
LEMMA LeaveOfAnotherStays ==
    ASSUME TypeOK, ClientSound, RetriesSound, InputSound, [HelperNext]_allVars,
           NEW r \in Runs, worker[r] # "none", LeaveOfAnother(r)
    PROVE  LeaveOfAnother(r)'
<1>1. \A s \in Runs : RunOnward(s) /\ WorkOnward(s)
    BY RunsGoOn, WorkGoesOn
<1>2. PICK x \in Runs :
        /\ r < x /\ Trace[x] = Trace[r] /\ home[x] = home[r]
        /\ worker[x] = "refused" /\ phase[x] # "prepared"
        /\ \A s \in Runs : r < s /\ s < x /\ Trace[s] = Trace[r] => worker[s] \in {"none", "refused"}
    BY DEF LeaveOfAnother
<1>3. home'[x] = home'[r] /\ worker'[x] = "refused" /\ phase'[x] # "prepared"
    BY <1>1, <1>2, BegunHasHelper DEF RunOnward, WorkOnward
<1>4. ASSUME NEW s \in Runs, r < s, s < x, Trace[s] = Trace[r] PROVE worker'[s] \in {"none", "refused"}
  <2>1. CASE worker[s] = "none"
    <3>1. ASSUME worker'[s] # "none" PROVE FALSE
      <4>1. home[s] \in Helpers /\ ReceiveRun(home[s]) /\ Head(input[home[s]]).run = s
          BY <2>1, <3>1, BeginsByRead
      <4>2. home[s] = home[x]
          BY <1>2, <1>4, Between
      <4>3. s >= x
          BY <1>2, <1>4, <4>1, <4>2, HeadIsFirst DEF ReceiveRun
      <4> QED
          BY <1>4, <4>3, RunsAssumption
    <3> QED
        BY <3>1
  <2>2. CASE worker[s] # "none"
      BY <1>1, <1>2, <1>4, <2>2 DEF WorkOnward
  <2> QED
      BY <2>1, <2>2
<1> QED
    BY <1>2, <1>3, <1>4 DEF LeaveOfAnother

(* Send is pressed with a leave that the adapter noted.                        *)
LEMMA LeaveStep ==
    ASSUME TypeOK, TypeOK', ClientSound, RetriesSound, InputSound, WorkSound, LeaveSound, [HelperNext]_allVars
    PROVE  LeaveSound'
<1> USE TypeParts
<1> SUFFICES ASSUME NEW r \in Runs
             PROVE  /\ pressed'[r] => worker'[r] \in {"submitting", "answering", "ending", "done"}
                    /\ Left(r)' => worker'[r] \notin {"none", "refused"} /\ (phase'[r] # "prepared" \/ LeaveOfAnother(r)')
    BY DEF LeaveSound
<1>1. \A s \in Runs : RunOnward(s) /\ WorkOnward(s)
    BY RunsGoOn, WorkGoesOn
<1>2. ASSUME Left(r) PROVE worker'[r] \notin {"none", "refused"} /\ (phase'[r] # "prepared" \/ LeaveOfAnother(r)')
  <2>1. worker[r] \notin {"none", "refused"} /\ (phase[r] # "prepared" \/ LeaveOfAnother(r))
      BY <1>2 DEF LeaveSound
  <2>2. worker'[r] \notin {"none", "refused"}
      BY <1>1, <2>1 DEF WorkOnward, Over
  <2> QED
      BY <1>1, <2>1, <2>2, LeaveOfAnotherStays DEF RunOnward
<1>3. ASSUME ~Left(r), Left(r)'
      PROVE  worker'[r] \notin {"none", "refused"} /\ (phase'[r] # "prepared" \/ LeaveOfAnother(r)')
  <2>1. PICK c \in Helpers : ReceiveSendAck(c) /\ r \in Target(c)
      BY <1>3, LeftByLeave
  <2> DEFINE x == Head(input[c]).run
  <2>2. Receives(c, "sendAck") /\ UNCHANGED <<phase, home>>
      BY <2>1 DEF ReceiveSendAck, daemonVars
  <2>3. home[r] = c /\ worker[r] \notin Over /\ Trace[r] = Trace[x]
      BY <2>1 DEF Target, ActiveIn
  <2>4. x \in Runs /\ home[x] = c /\ phase[x] # "prepared" /\ worker[x] # "none" /\ x >= r
      BY <2>2, <2>3, HeadIsFirst DEF Over
  <2>5. worker'[r] \notin {"none", "refused"}
      BY <1>1, <2>3 DEF WorkOnward, Over
  <2>6. CASE x = r
      BY <2>2, <2>4, <2>5, <2>6
  <2>7. CASE x # r
    <3>1. r < x
      <4>1. \A p, q \in Runs : p >= q /\ p # q => q < p
          BY RunsAssumption
      <4> QED
          BY <2>4, <2>7, <4>1
    <3>2. worker[x] = "refused"
        BY <2>3, <2>4, <3>1 DEF WorkSound
    <3>3. ASSUME NEW s \in Runs, r < s, s < x, Trace[s] = Trace[r] PROVE worker[s] \in {"none", "refused"}
      <4>1. home[s] = home[r]
          BY <2>3, <2>4, <3>3, Between DEF Over
      <4> QED
          BY <2>3, <3>3, <4>1 DEF WorkSound
    <3>4. LeaveOfAnother(r)
        BY <2>3, <2>4, <3>1, <3>2, <3>3 DEF LeaveOfAnother
    <3> QED
        BY <2>3, <2>5, <3>4, LeaveOfAnotherStays DEF Over
  <2> QED
      BY <2>6, <2>7
<1>4. ASSUME pressed'[r] PROVE worker'[r] \in {"submitting", "answering", "ending", "done"}
  <2>1. CASE ~pressed[r]
    <3>1. ASSUME NEW q \in Runs, Press(q) PROVE worker'[r] = "submitting"
        BY <1>4, <2>1, <3>1 DEF Press, StateTyped, FlagsTyped
    <3>2. ASSUME NEW q \in Runs, Work(q), ~Press(q) PROVE UNCHANGED pressed
        BY <3>2 DEF Work, Lease, LeaseRefused, Activate, Accepted, Answered, Fail, UpstreamFails, EndWith, GiveBack
    <3>3. ASSUME NEW q \in Runs, Start(q) \/ Dispatch(q) \/ Abort(q) \/ Compiled(q) \/ CompileFails(q)
          PROVE  UNCHANGED pressed
        BY <3>3 DEF Start, Dispatch, Abort, Compiled, CompileFails, helperVars
    <3>4. CASE Hear \/ HandleExit \/ ReadyTimesOut \/ Close \/ UNCHANGED allVars \/ \E t \in Traces : Reclaim(t)
      <4>1. UNCHANGED pressed
          BY <3>4 DEF Hear, HearReady, HearSelect, HearActivated, HearSubmitted, HearEnd, HandleExit, ReadyTimesOut,
             Close, allVars, Reclaim, helperVars
      <4> QED
          BY <1>4, <2>1, <4>1
    <3>5. ASSUME NEW q \in Runs, NEW c \in Helpers, NEW told \in BOOLEAN, ExitTold(q, c, told) PROVE UNCHANGED pressed
        BY <3>5 DEF ExitTold, helperVars
    <3>6. ASSUME NEW c \in Helpers, Receive(c) \/ Crash(c) PROVE UNCHANGED pressed
        BY <3>6 DEF Receive, ReceiveRun, ReceivePrompt, ReceiveSendAck, ReceiveAbort, ShutDown, Exit, Crash, Dies
    <3> QED
        BY <1>4, <2>1, <3>1, <3>2, <3>3, <3>4, <3>5, <3>6 DEF HelperNext, Progress
  <2>2. CASE pressed[r]
    <3>1. worker[r] \in {"submitting", "answering", "ending", "done"}
        BY <2>2 DEF LeaveSound
    <3>2. ASSUME NEW c \in Helpers, Receive(c) \/ Crash(c) PROVE worker'[r] = worker[r]
      <4>1. CASE ReceiveRun(c)
        <5>1. Head(input[c]).run # r
            BY <3>1, <4>1, HeadIsFirst DEF ReceiveRun
        <5> QED
            BY <4>1, <5>1 DEF ReceiveRun, StateTyped
      <4> QED
          BY <3>1, <3>2, <4>1 DEF Receive, ReceivePrompt, ReceiveSendAck, ReceiveAbort, ShutDown, Exit, Crash, Dies,
             StateTyped
    <3>3. ASSUME NEW q \in Runs, Work(q)
          PROVE  worker'[r] = worker[r] \/ worker'[r] \in {"submitting", "answering", "ending", "done"}
        BY <3>1, <3>3 DEF Work, Lease, LeaseRefused, Activate, Press, Accepted, Answered, Fail,
           UpstreamFails, EndWith,
           GiveBack, StateTyped
    <3>4. ASSUME NEW q \in Runs, Start(q) \/ Dispatch(q) \/ Abort(q) \/ Compiled(q) \/ CompileFails(q)
          PROVE  UNCHANGED worker
        BY <3>4 DEF Start, Dispatch, Abort, Compiled, CompileFails, helperVars
    <3>5. CASE Hear \/ HandleExit \/ ReadyTimesOut \/ Close \/ UNCHANGED allVars \/ \E t \in Traces : Reclaim(t)
      <4>1. UNCHANGED worker
          BY <3>5 DEF Hear, HearReady, HearSelect, HearActivated, HearSubmitted, HearEnd, HandleExit, ReadyTimesOut,
             Close, allVars, Reclaim, helperVars
      <4> QED
          BY <3>1, <4>1
    <3>6. ASSUME NEW q \in Runs, NEW c \in Helpers, NEW told \in BOOLEAN, ExitTold(q, c, told) PROVE UNCHANGED worker
        BY <3>6 DEF ExitTold, helperVars
    <3> QED
        BY <3>1, <3>2, <3>3, <3>4, <3>5, <3>6 DEF HelperNext, Progress
  <2> QED
      BY <2>1, <2>2
<1> QED
    BY <1>2, <1>3, <1>4

(* An answer, or an error of ChatGPT, is heard from the helper of the turn     *)
(* that it is about.                                                           *)
LEMMA OutcomeHeard ==
    ASSUME TypeOK, TypeOK', OutputSound, [HelperNext]_allVars,
           NEW r \in Runs, settlement'[r] # settlement[r], settlement'[r] \in {"answer", "upstream"}
    PROVE  /\ HearEnd /\ child # None /\ output[child] # <<>> /\ r = Head(output[child]).run
           /\ Head(output[child]).kind = IF settlement'[r] = "answer" THEN "result" ELSE "upstream"
           /\ worker[r] = "done" /\ verdict[r] = IF settlement'[r] = "answer" THEN "completed" ELSE "upstream"
<1> USE TypeParts
<1>1. ASSUME NEW q \in Runs, Start(q) \/ Dispatch(q) \/ Abort(q) \/ Compiled(q) \/ CompileFails(q) PROVE FALSE
  <2>1. settlement' = settlement \/ settlement'[r] = settlement[r] \/ settlement'[r] = "error"
      BY <1>1 DEF Start, Dispatch, Abort, AbortHelper, Compiled, CompileFails, Settle, StateTyped
  <2> QED
      BY <2>1
<1>2. CASE HandleExit \/ ReadyTimesOut \/ Close
    BY <1>2 DEF HandleExit, ReadyTimesOut, Close, Settle
<1>3. CASE HearReady \/ HearSelect \/ HearActivated \/ HearSubmitted \/ UNCHANGED allVars \/ \E t \in Traces : Reclaim(t)
    BY <1>3 DEF HearReady, HearSelect, HearActivated, HearSubmitted, allVars, Reclaim, daemonVars
<1>4. ASSUME NEW q \in Runs, NEW c \in Helpers, NEW told \in BOOLEAN, ExitTold(q, c, told) PROVE FALSE
    BY <1>4 DEF ExitTold, Settle
<1>5. ASSUME NEW c \in Helpers, Receive(c) \/ Crash(c) PROVE FALSE
    BY <1>5 DEF Receive, ReceiveRun, ReceivePrompt, ReceiveSendAck, ReceiveAbort, ShutDown, Exit, Crash,
       Dies, daemonVars
<1>6. ASSUME NEW q \in Runs, Work(q) PROVE FALSE
    BY <1>6 DEF Work, Lease, LeaseRefused, Activate, Press, Accepted, Answered, Fail, UpstreamFails, EndWith,
       GiveBack,
       daemonVars
<1>7. HearEnd
    BY <1>1, <1>2, <1>3, <1>4, <1>5, <1>6 DEF HelperNext, Progress, Hear
<1>8. /\ child # None /\ output[child] # <<>> /\ r \in Addressee
      /\ Head(output[child]).kind = IF settlement'[r] = "answer" THEN "result" ELSE "upstream"
    BY <1>7 DEF HearEnd, Heard, Settle
<1>9. 1 \in DOMAIN output[child] /\ Head(output[child]) = output[child][1]
    BY <1>8, ReadPipe DEF StateTyped
<1> DEFINE f == output[child][1]
<1>10. /\ f.run \in Runs /\ worker[f.run] = "done"
       /\ verdict[f.run] = IF f.kind = "result" THEN "completed" ELSE "upstream"
       /\ \A q \in Runs : run[q] = "pending" /\ Trace[q] = Trace[f.run] /\ q # f.run =>
             \E j \in 1..(1 - 1) : IsError(output[child][j], q)
    BY <1>8, <1>9 DEF OutputSound, HeardSound
<1>11. 1..(1 - 1) = {}
    OBVIOUS
<1>12. r = f.run
    BY <1>8, <1>9, <1>10, <1>11 DEF Addressee, PendingOf
<1> QED
    BY <1>7, <1>8, <1>9, <1>10, <1>12

(* Outcomes are what the worker's verdict says.                                *)
LEMMA OutcomeStep ==
    ASSUME TypeOK, TypeOK', InputSound, OutputSound, OutcomeSound, [HelperNext]_allVars
    PROVE  OutcomeSound'
<1> SUFFICES ASSUME NEW r \in Runs, settlement'[r] \in {"answer", "upstream"}
             PROVE  worker'[r] = "done" /\ verdict'[r] = IF settlement'[r] = "answer" THEN "completed" ELSE "upstream"
    BY DEF OutcomeSound
<1>1. worker[r] = "done" /\ verdict[r] = IF settlement'[r] = "answer" THEN "completed" ELSE "upstream"
    BY OutcomeHeard DEF OutcomeSound
<1>2. WorkOnward(r)
    BY WorkGoesOn
<1> QED
    BY <1>1, <1>2 DEF WorkOnward, Working

-------------------------------------------------------------------------------
(* What is on its way to the client *)

(* When an outcome is written, a run that waits for another one of its trace   *)
(* was refused by the same helper: no run of the trace could be started after  *)
(* the one that had the leave to press Send.                                   *)
LEMMA EndHeardFirst ==
    ASSUME TypeOK, ClientSound, RetriesSound, LeaveSound, OutcomeSound,
           NEW w \in Runs, verdict[w] \in {"completed", "upstream"}, settlement[w] \notin {"answer", "upstream"},
           NEW r \in Runs, run[r] \in {"starting", "pending"}, Trace[r] = Trace[w], r # w
    PROVE  worker[r] = "refused" /\ home[r] = home[w] /\ run[r] = "pending"
<1>1. Left(w) /\ worker[w] # "none"
    BY DEF Left, LeaveSound
<1>2. run[w] # "new"
    BY <1>1 DEF ClientSound
<1>3. w < r
    BY <1>2, LastWaits, RunsAssumption
<1>4. Retryable(w)
    BY <1>3 DEF RetriesSound
<1>5. phase[w] = "prepared"
    BY <1>4 DEF Retryable
<1>6. PICK x \in Runs : w < x /\ Trace[x] = Trace[w] /\ home[x] = home[w] /\ worker[x] = "refused" /\ phase[x] # "prepared"
    BY <1>1, <1>5 DEF LeaveSound, LeaveOfAnother
<1>7. run[x] # "new"
    BY <1>6 DEF ClientSound
<1>8. x <= r
    BY <1>6, <1>7, LastWaits
<1>9. ~(x < r)
  <2>1. ASSUME x < r PROVE FALSE
    <3>1. Retryable(x)
        BY <1>6, <2>1 DEF RetriesSound
    <3>2. settlement[x] = "upstream"
        BY <1>6, <3>1 DEF Retryable
    <3> QED
        BY <1>6, <3>2 DEF OutcomeSound
  <2> QED
      BY <2>1
<1>10. x = r
    BY <1>8, <1>9, RunsAssumption
<1> QED
    BY <1>6, <1>10 DEF ClientSound

(* A frame that stays unread stays sound.                                      *)
LEMMA HeardKept ==
    ASSUME TypeOK, TypeOK', ClientSound, RetriesSound, LeaveSound, OutcomeSound,
           \A r \in Runs : RunOnward(r) /\ WorkOnward(r),
           \A r \in Runs : settlement'[r] = settlement[r] \/ settlement'[r] \notin {"answer", "upstream"},
           child # None, child' = child, NEW i \in Nat, HeardSound(i),
           output'[child][i] = output[child][i], \A j \in 1..(i - 1) : output'[child][j] = output[child][j]
    PROVE  HeardSound(i)'
<1> DEFINE f == output[child][i]
           w == f.run
<1>1. w \in Runs
    BY DEF HeardSound
<1>2. home[w] = child => home'[w] = child
    BY <1>1 DEF ClientSound, RunOnward
<1>3. ASSUME f.kind \in {"result", "upstream"}
      PROVE  /\ home'[w] = child /\ worker'[w] = "done" /\ verdict'[w] = IF f.kind = "result" THEN "completed" ELSE "upstream"
             /\ settlement'[w] \notin {"answer", "upstream"}
             /\ \A j \in 1..(i - 1) :
                   output'[child][j].kind \in {"result", "upstream"} => output'[child][j].run # w
             /\ \A r \in Runs : run'[r] = "pending" /\ Trace[r] = Trace[w] /\ r # w =>
                   \E j \in 1..(i - 1) : IsError(output'[child][j], r)
  <2>1. /\ home[w] = child /\ worker[w] = "done" /\ verdict[w] = IF f.kind = "result" THEN "completed" ELSE "upstream"
        /\ settlement[w] \notin {"answer", "upstream"}
        /\ \A j \in 1..(i - 1) :
              output[child][j].kind \in {"result", "upstream"} => output[child][j].run # w
        /\ \A r \in Runs : run[r] = "pending" /\ Trace[r] = Trace[w] /\ r # w =>
              \E j \in 1..(i - 1) : IsError(output[child][j], r)
      BY <1>3 DEF HeardSound
  <2>2. worker'[w] = "done" /\ verdict'[w] = verdict[w]
      BY <1>1, <2>1 DEF WorkOnward, Working
  <2>3. settlement'[w] \notin {"answer", "upstream"}
      BY <1>1, <2>1
  <2>4. ASSUME NEW r \in Runs, run'[r] = "pending", Trace[r] = Trace[w], r # w PROVE run[r] = "pending"
    <3>1. run[r] \in {"starting", "pending"}
        BY <2>4 DEF RunOnward
    <3>2. verdict[w] \in {"completed", "upstream"}
        BY <2>1
    <3> QED
        BY <1>1, <2>1, <2>4, <3>1, <3>2, EndHeardFirst
  <2> QED
      BY <1>2, <2>1, <2>2, <2>3, <2>4 DEF IsError
<1> QED
    BY <1>1, <1>2, <1>3 DEF HeardSound

(* The client hears nothing, and hears of at most one thing more.              *)
LEMMA OutputGrows ==
    ASSUME TypeOK, TypeOK', ClientSound, RetriesSound, LeaveSound, OutcomeSound, OutputSound,
           \A r \in Runs : RunOnward(r) /\ WorkOnward(r),
           \A r \in Runs : settlement'[r] = settlement[r] \/ settlement'[r] \notin {"answer", "upstream"},
           child' \in {child, None},
           \/ child' = None
           \/ output'[child] = output[child]
           \/ \E f \in Frames :
                 /\ child # None /\ output'[child] = Append(output[child], f)
                 /\ f.run \in Runs
                 /\ f.kind = "activated" => home'[f.run] = child
                 /\ f.kind \in {"result", "upstream"} =>
                       /\ home'[f.run] = child /\ worker'[f.run] = "done" /\ worker[f.run] # "done"
                       /\ verdict'[f.run] = IF f.kind = "result" THEN "completed" ELSE "upstream"
                       /\ settlement'[f.run] \notin {"answer", "upstream"}
                       /\ \A r \in Runs : run'[r] = "pending" /\ Trace[r] = Trace[f.run] /\ r # f.run =>
                             \E j \in DOMAIN output[child] : IsError(output[child][j], r)
    PROVE  OutputSound'
<1> USE TypeParts
<1> SUFFICES ASSUME child' # None, NEW i \in DOMAIN output'[child'], output'[child'][i].kind # "ready"
             PROVE  HeardSound(i)'
    BY DEF OutputSound
<1>1. child' = child /\ child \in Helpers /\ output[child] \in Seq(Frames) /\ i \in Nat
    BY DEF StateTyped
<1>2. ASSUME output'[child] = output[child] PROVE HeardSound(i)'
  <2>1. HeardSound(i)
      BY <1>1, <1>2 DEF OutputSound
  <2> QED
      BY <1>1, <1>2, <2>1, HeardKept
<1>3. ASSUME NEW f \in Frames, output'[child] = Append(output[child], f), i \in DOMAIN output[child]
      PROVE  HeardSound(i)'
  <2>1. /\ output'[child][i] = output[child][i] /\ i \in 1..Len(output[child])
      BY <1>1, <1>3, WrittenPipe
  <2>2. \A j \in 1..(i - 1) : j \in 1..Len(output[child])
      BY <1>1, <2>1
  <2>3. \A j \in 1..(i - 1) : output'[child][j] = output[child][j]
      BY <1>1, <1>3, <2>2, WrittenPipe
  <2>4. HeardSound(i)
      BY <1>1, <1>3, <2>1 DEF OutputSound
  <2> QED
      BY <1>1, <2>1, <2>3, <2>4, HeardKept
<1>4. ASSUME NEW f \in Frames, output'[child] = Append(output[child], f), i \notin DOMAIN output[child],
             /\ f.run \in Runs
             /\ f.kind = "activated" => home'[f.run] = child
             /\ f.kind \in {"result", "upstream"} =>
                   /\ home'[f.run] = child /\ worker'[f.run] = "done" /\ worker[f.run] # "done"
                   /\ verdict'[f.run] = IF f.kind = "result" THEN "completed" ELSE "upstream"
                   /\ settlement'[f.run] \notin {"answer", "upstream"}
                   /\ \A r \in Runs : run'[r] = "pending" /\ Trace[r] = Trace[f.run] /\ r # f.run =>
                         \E j \in DOMAIN output[child] : IsError(output[child][j], r)
      PROVE  HeardSound(i)'
  <2>1. i = Len(output[child]) + 1 /\ output'[child][i] = f
      BY <1>1, <1>4, WrittenPipe
  <2>2. \A j \in DOMAIN output[child] : j \in 1..(i - 1)
      BY <1>1, <2>1, WrittenPipe
  <2>3. \A j \in 1..(i - 1) : j \in DOMAIN output[child] /\ output'[child][j] = output[child][j]
      BY <1>1, <1>4, <2>1, WrittenPipe
  <2>4. ASSUME f.kind \in {"result", "upstream"}, NEW j \in 1..(i - 1), output'[child][j].kind \in {"result", "upstream"}
        PROVE  output'[child][j].run # f.run
    <3>1. HeardSound(j) /\ output[child][j].kind \in {"result", "upstream"}
        BY <1>1, <2>3, <2>4 DEF OutputSound
    <3>2. worker[output[child][j].run] = "done"
        BY <3>1 DEF HeardSound
    <3> QED
        BY <1>4, <2>3, <2>4, <3>2
  <2> QED
      BY <1>1, <1>4, <2>1, <2>2, <2>3, <2>4 DEF HeardSound, IsError
<1> QED
    BY <1>1, <1>2, <1>3, <1>4

(* The client hears a frame.                                                   *)
LEMMA OutputHeard ==
    ASSUME TypeOK, TypeOK', ClientSound, InputSound, OutputSound, Hear, [HelperNext]_allVars
    PROVE  OutputSound'
<1> USE TypeParts
<1>1. \A r \in Runs : RunOnward(r)
    BY RunsGoOn
<1>2. child' = child /\ child # None /\ output[child] # <<>> /\ Read /\ UNCHANGED <<home, worker, verdict>>
    BY DEF Hear, HearReady, HearSelect, HearActivated, HearSubmitted, HearEnd, Heard, helperVars
<1> DEFINE s == output[child]
<1>3. s \in Seq(Frames) /\ s # <<>> /\ output'[child] = Tail(s)
    BY <1>2 DEF Read, StateTyped
<1>4. SUFFICES ASSUME NEW i \in DOMAIN Tail(s), Tail(s)[i].kind # "ready"
               PROVE  HeardSound(i)'
    BY <1>2, <1>3 DEF OutputSound
<1>5. i + 1 \in DOMAIN s /\ i \in Nat /\ i >= 1 /\ output'[child][i] = s[i + 1]
    BY <1>3, ReadPipe
<1>6. \A j \in 1..(i - 1) : output'[child][j] = s[j + 1] /\ j + 1 \in 1..i
  <2>1. \A j \in 1..(i - 1) : j \in DOMAIN Tail(s)
      BY <1>3
  <2> QED
      BY <1>3, <1>5, <2>1, ReadPipe
<1>7. HeardSound(i + 1) /\ (i + 1) - 1 = i /\ 1 \in 1..i
    BY <1>2, <1>3, <1>4, <1>5, ReadPipe DEF OutputSound
<1> DEFINE f == s[i + 1]
           w == f.run
<1>8. /\ w \in Runs
      /\ f.kind = "activated" => home[w] = child
      /\ f.kind \in {"result", "upstream"} =>
            /\ home[w] = child /\ worker[w] = "done"
            /\ verdict[w] = IF f.kind = "result" THEN "completed" ELSE "upstream"
            /\ settlement[w] \notin {"answer", "upstream"}
            /\ \A j \in 1..i : s[j].kind \in {"result", "upstream"} => s[j].run # w
            /\ \A r \in Runs : run[r] = "pending" /\ Trace[r] = Trace[w] /\ r # w =>
                  \E j \in 1..i : IsError(s[j], r)
    BY <1>7 DEF HeardSound
<1>9. Head(s) = s[1]
    BY <1>3, ReadPipe
<1>10. ASSUME f.kind \in {"result", "upstream"} PROVE settlement'[w] \notin {"answer", "upstream"}
  <2>1. ASSUME settlement'[w] \in {"answer", "upstream"} PROVE FALSE
    <3>1. settlement'[w] # settlement[w]
        BY <1>8, <1>10, <2>1
    <3>2. w = Head(s).run /\ Head(s).kind \in {"result", "upstream"}
        BY <1>8, <2>1, <3>1, OutcomeHeard
    <3> QED
        BY <1>7, <1>8, <1>9, <1>10, <3>2
  <2> QED
      BY <2>1
<1>11. ASSUME f.kind \in {"result", "upstream"}, NEW r \in Runs, run'[r] = "pending", Trace[r] = Trace[w], r # w
       PROVE  \E j \in 1..(i - 1) : IsError(output'[child][j], r)
  <2>1. run[r] = "pending"
    <3>1. run' = run \/ \E rs, how : Settle(rs, how)
        BY DEF Hear, HearReady, HearSelect, HearActivated, HearSubmitted, HearEnd
    <3> QED
        BY <1>11, <3>1 DEF Settle
  <2>2. PICK j \in 1..i : IsError(s[j], r)
      BY <1>8, <1>11, <2>1
  <2>3. j # 1
    <3>1. ASSUME j = 1 PROVE FALSE
      <4>1. Head(s).kind = "error" /\ Trace[Head(s).run] = Trace[r]
          BY <1>9, <2>2, <3>1 DEF IsError
      <4>2. HearEnd /\ r \in Addressee
          BY <2>1, <4>1 DEF Hear, HearReady, HearSelect, HearActivated, HearSubmitted, Heard, Addressee, PendingOf
      <4> QED
          BY <1>11, <4>2 DEF HearEnd, Settle
    <3> QED
        BY <3>1
  <2>4. j - 1 \in 1..(i - 1) /\ (j - 1) + 1 = j
      BY <1>5, <2>2, <2>3
  <2> QED
      BY <1>6, <2>2, <2>4
<1>12. ASSUME NEW j \in 1..(i - 1), f.kind \in {"result", "upstream"}, output'[child][j].kind \in {"result", "upstream"}
       PROVE  output'[child][j].run # w
    BY <1>6, <1>8, <1>12
<1> QED
    BY <1>2, <1>5, <1>8, <1>10, <1>11, <1>12 DEF HeardSound

(* What a helper writes is unread by the client that owns it.                  *)
LEMMA WrittenFrame ==
    ASSUME TypeOK, NEW c \in Helpers, NEW r \in Runs,
           NEW kind \in {"select", "activated", "submitted", "result", "error", "upstream"}, Write(c,
           kind, r), child # None
    PROVE  output'[child] = output[child] \/
              (c = child /\ proc[c] = "up" /\ output'[child] = Append(output[child], Frame(kind, r)))
BY TypeParts DEF StateTyped, Write

(* Every step keeps what is on its way to the client sound.                    *)
LEMMA OutputStep ==
    ASSUME TypeOK, TypeOK', ClientSound, RetriesSound, InputSound, LeaveSound, OutcomeSound,
           OutputSound, RefusalsTold,
           [HelperNext]_allVars
    PROVE  OutputSound'
<1> USE TypeParts
<1>1. \A r \in Runs : RunOnward(r) /\ WorkOnward(r)
    BY RunsGoOn, WorkGoesOn
<1>2. CASE Hear
    BY <1>2, OutputHeard
<1>3. CASE ~Hear
  <2>1. \A r \in Runs : settlement'[r] = settlement[r] \/ settlement'[r] \notin {"answer", "upstream"}
      BY <1>3, OutcomeHeard DEF Hear
  <2>2. ASSUME child' \in {child, None}, child' = None \/ output'[child] = output[child] PROVE OutputSound'
      BY <1>1, <2>1, <2>2, OutputGrows
  <2>3. ASSUME child' = child, child # None, NEW r \in Runs, UNCHANGED <<home>>,
               NEW kind \in {"select", "activated", "submitted", "error"},
               output'[child] = output[child] \/ output'[child] = Append(output[child], Frame(kind, r)),
               kind = "activated" => home[r] = child
        PROVE  OutputSound'
    <3>1. Frame(kind, r) \in Frames /\ Frame(kind, r).kind = kind /\ Frame(kind, r).run = r
        BY FrameTyped
    <3> QED
        BY <1>1, <2>1, <2>3, <3>1, OutputGrows
  <2>4. ASSUME NEW q \in Runs, Start(q) PROVE OutputSound'
    <3>1. CASE child # None
        BY <2>2, <2>4, <3>1 DEF Start
    <3>2. CASE child = None
      <4>1. /\ spawned' = spawned + 1 /\ child' = spawned + 1
            /\ output' = [output EXCEPT ![spawned + 1] = <<Frame("ready", None)>>]
          BY <2>4, <3>2 DEF Start
      <4>2. spawned + 1 \in Helpers
          BY <2>4, <3>2, HelpersAssumption DEF Start, StateTyped, Helpers
      <4>3. output'[child'] = <<Frame("ready", None)>>
          BY <4>1, <4>2 DEF StateTyped
      <4>4. \A i \in DOMAIN output'[child'] : output'[child'][i].kind = "ready"
          BY <4>3 DEF Frame
      <4> QED
          BY <4>4 DEF OutputSound
    <3> QED
        BY <3>1, <3>2
  <2>5. ASSUME NEW q \in Runs, Dispatch(q) \/ Abort(q) \/ Compiled(q) \/ CompileFails(q) PROVE OutputSound'
      BY <2>2, <2>5 DEF Dispatch, Abort, Compiled, CompileFails
  <2>6. CASE HandleExit \/ ReadyTimesOut \/ Close
      BY <2>2, <2>6 DEF HandleExit, ReadyTimesOut, Close
  <2>7. ASSUME NEW q \in Runs, NEW c \in Helpers, NEW told \in BOOLEAN, ExitTold(q, c, told) PROVE OutputSound'
      BY <2>2, <2>7 DEF ExitTold
  <2>8. ASSUME NEW c \in Helpers, ReceiveRun(c) \/ ReceivePrompt(c) \/ ReceiveSendAck(c) PROVE OutputSound'
    <3>1. child' = child /\ UNCHANGED home
        BY <2>8 DEF ReceiveRun, ReceivePrompt, ReceiveSendAck, daemonVars
    <3>2. Head(input[c]).run \in Runs
        BY <2>8, HeadIsFirst DEF ReceiveRun, ReceivePrompt, ReceiveSendAck
    <3>3. UNCHANGED output \/ Write(c, "error", Head(input[c]).run)
        BY <2>8 DEF ReceiveRun, ReceivePrompt, ReceiveSendAck
    <3>4. CASE child = None
        BY <3>1, <3>4, <2>2
    <3>5. CASE child # None
      <4>1. output'[child] = output[child] \/ output'[child] = Append(output[child], Frame("error", Head(input[c]).run))
          BY <3>2, <3>3, <3>5, WrittenFrame
      <4> QED
          BY <2>3, <3>1, <3>2, <3>5, <4>1
    <3> QED
        BY <3>4, <3>5
  <2>9. ASSUME NEW c \in Helpers, ReceiveAbort(c) \/ ShutDown(c) \/ Exit(c) \/ Crash(c) PROVE OutputSound'
    <3>1. UNCHANGED <<child, output>>
        BY <2>9 DEF ReceiveAbort, ShutDown, Exit, Crash, Dies, daemonVars
    <3> QED
        BY <2>2, <3>1
  <2>10. ASSUME NEW q \in Runs, Lease(q) \/ LeaseRefused(q) \/ Activate(q) \/ Accepted(q) PROVE OutputSound'
    <3>1. child' = child /\ UNCHANGED home /\ home[q] \in Helpers
        BY <2>10 DEF Lease, LeaseRefused, Activate, Accepted, daemonVars, Alive, StateTyped
    <3>2. PICK kind \in {"select", "activated", "submitted", "error"} : Write(home[q], kind, q)
        BY <2>10 DEF Lease, LeaseRefused, Activate, Accepted
    <3>3. CASE child = None
        BY <3>1, <3>3, <2>2
    <3>4. CASE child # None
      <4>1. output'[child] = output[child] \/
               (home[q] = child /\ output'[child] = Append(output[child], Frame(kind, q)))
          BY <3>1, <3>2, <3>4, WrittenFrame
      <4>2. CASE output'[child] = output[child]
          BY <3>1, <2>2, <4>2
      <4>3. CASE home[q] = child /\ output'[child] = Append(output[child], Frame(kind, q))
          BY <2>3, <3>1, <3>2, <3>4, <4>3
      <4> QED
          BY <4>1, <4>2, <4>3
    <3> QED
        BY <3>3, <3>4
  <2>11. ASSUME NEW q \in Runs, Press(q) \/ Answered(q) \/ Fail(q) \/ UpstreamFails(q) PROVE OutputSound'
    <3>1. UNCHANGED <<child, output>>
        BY <2>11 DEF Press, Answered, Fail, UpstreamFails, EndWith, daemonVars
    <3> QED
        BY <2>2, <3>1
  <2>12. ASSUME NEW q \in Runs, NEW told \in BOOLEAN, GiveBack(q, told) PROVE OutputSound'
    <3>1. UNCHANGED <<child, home, run, settlement, verdict>> /\ home[q] \in Helpers /\ worker[q] = "ending" /\ worker'[q] = "done"
        BY <2>12 DEF GiveBack, daemonVars, Alive, StateTyped
    <3>2. PICK kind \in {"result", "upstream", "error"} :
             /\ Write(home[q], kind, q)
             /\ kind = "result" => verdict[q] = "completed"
             /\ kind = "upstream" => verdict[q] = "upstream"
        BY <2>12 DEF GiveBack
    <3>3. CASE child = None
        BY <3>1, <3>3, <2>2
    <3>4. CASE child # None
      <4>1. output'[child] = output[child] \/
               (home[q] = child /\ output'[child] = Append(output[child], Frame(kind, q)))
          BY <3>1, <3>2, <3>4, WrittenFrame
      <4>2. CASE output'[child] = output[child]
          BY <3>1, <2>2, <4>2
      <4>3. CASE home[q] = child /\ output'[child] = Append(output[child], Frame(kind, q))
        <5>1. Frame(kind, q) \in Frames /\ Frame(kind, q).kind = kind /\ Frame(kind, q).run = q
            BY FrameTyped
        <5>2. settlement[q] \notin {"answer", "upstream"}
            BY <3>1 DEF OutcomeSound
        <5>3. ASSUME kind \in {"result", "upstream"}, NEW r \in Runs, run[r] = "pending", Trace[r] = Trace[q], r # q
              PROVE  \E j \in DOMAIN output[child] : IsError(output[child][j], r)
          <6>1. verdict[q] \in {"completed", "upstream"}
              BY <3>2, <5>3
          <6>2. worker[r] = "refused" /\ home[r] = child
              BY <4>3, <5>2, <5>3, <6>1, EndHeardFirst
          <6> QED
              BY <5>3, <6>2 DEF RefusalsTold
        <5>4. kind \in {"result", "upstream"} => verdict'[q] = IF kind = "result" THEN "completed" ELSE "upstream"
            BY <3>1, <3>2
        <5>5. child' \in {child, None}
            BY <3>1
        <5>6. /\ child # None /\ output'[child] = Append(output[child], Frame(kind, q))
              /\ Frame(kind, q).run \in Runs
              /\ Frame(kind, q).kind = "activated" => home'[Frame(kind, q).run] = child
              /\ Frame(kind, q).kind \in {"result", "upstream"} =>
                    /\ home'[Frame(kind, q).run] = child /\ worker'[Frame(kind, q).run] = "done"
                    /\ worker[Frame(kind, q).run] # "done"
                    /\ verdict'[Frame(kind, q).run] = IF Frame(kind, q).kind = "result" THEN "completed" ELSE "upstream"
                    /\ settlement'[Frame(kind, q).run] \notin {"answer", "upstream"}
                    /\ \A r \in Runs : run'[r] = "pending" /\ Trace[r] = Trace[Frame(kind, q).run] /\
                          r # Frame(kind, q).run =>
                          \E j \in DOMAIN output[child] : IsError(output[child][j], r)
            BY <3>1, <3>2, <3>4, <4>3, <5>1, <5>2, <5>3, <5>4
        <5> QED
            BY <1>1, <2>1, <5>1, <5>5, <5>6, OutputGrows
      <4> QED
          BY <4>1, <4>2, <4>3
    <3> QED
        BY <3>3, <3>4
  <2>13. CASE UNCHANGED allVars \/ \E t \in Traces : Reclaim(t)
    <3>1. UNCHANGED <<child, output>>
        BY <2>13 DEF allVars, Reclaim, daemonVars
    <3> QED
        BY <2>2, <3>1
  <2> QED
      BY <1>3, <2>4, <2>5, <2>6, <2>7, <2>8, <2>9, <2>10, <2>11, <2>12, <2>13 DEF HelperNext, Progress, Receive, Work
<1> QED
    BY <1>2, <1>3

(* Only a helper that refuses a run makes it a refused one.                    *)
LEMMA RefusedByRead ==
    ASSUME TypeOK, TypeOK', InputSound, [HelperNext]_allVars, NEW r \in Runs, worker[r] # "refused", worker'[r] = "refused"
    PROVE  home[r] \in Helpers /\ Receives(home[r], "run") /\ Write(home[r], "error", r)
<1>1. WorkOnward(r)
    BY WorkGoesOn
<1>2. worker[r] = "none"
    BY <1>1, TypeParts DEF WorkOnward, Over, StateTyped
<1>3. home[r] \in Helpers /\ ReceiveRun(home[r]) /\ Head(input[home[r]]).run = r
    BY <1>2, BeginsByRead
<1> QED
    BY <1>3, TypeParts DEF ReceiveRun, StateTyped

(* A run that waits and was refused hears of it.                               *)
LEMMA RefusalsStep ==
    ASSUME TypeOK, TypeOK', ClientSound, InputSound, OutputSound, RefusalsTold, [HelperNext]_allVars
    PROVE  RefusalsTold'
<1> USE TypeParts
<1> SUFFICES ASSUME NEW r \in Runs, worker'[r] = "refused", run'[r] = "pending", home'[r] = child'
             PROVE  \E i \in DOMAIN output'[child'] : IsError(output'[child'][i], r)
    BY DEF RefusalsTold, IsError
<1>1. RunOnward(r) /\ WorkOnward(r)
    BY RunsGoOn, WorkGoesOn
<1>2. CASE worker[r] # "refused"
  <2>1. home[r] \in Helpers /\ Receives(home[r], "run") /\ Write(home[r], "error", r)
      BY <1>2, RefusedByRead
  <2>2. worker[r] = "none" /\ ReceiveRun(home[r])
    <3>1. worker[r] = "none"
        BY <1>1, <1>2 DEF WorkOnward, Over, StateTyped
    <3> QED
        BY <3>1, BeginsByRead
  <2>3. UNCHANGED <<home, child>>
      BY <2>2 DEF ReceiveRun, daemonVars
  <2>4. output'[home[r]] = Append(output[home[r]], Frame("error", r)) /\ output[home[r]] \in Seq(Frames)
      BY <2>1 DEF Receives, Write, StateTyped
  <2>5. Frame("error", r) \in Frames /\ Frame("error", r).kind = "error" /\ Frame("error", r).run = r
      BY FrameTyped
  <2>6. /\ Len(output[home[r]]) + 1 \in DOMAIN output'[home[r]]
        /\ output'[home[r]][Len(output[home[r]]) + 1] = Frame("error", r)
      BY <2>4, <2>5, WrittenPipe
  <2> QED
      BY <2>3, <2>5, <2>6 DEF IsError
<1>3. CASE worker[r] = "refused"
  <2>1. run[r] = "pending" /\ home'[r] = home[r] /\ home[r] # None /\ home[r] \in Helpers /\ home[r] <= spawned
      BY <1>1, <1>3 DEF ClientSound, RunOnward, StateTyped
  <2> DEFINE Told(s) == \E i \in DOMAIN s : IsError(s[i], r)
  <2>2. ASSUME child' = child PROVE Told(output[child])
      BY <1>3, <2>1, <2>2 DEF RefusalsTold
  <2>3. ASSUME child' = child, output'[child] = output[child] PROVE Told(output'[child'])
      BY <2>2, <2>3
  <2>4. ASSUME NEW c \in Helpers, child' = child, NEW q \in Runs,
               NEW kind \in {"select", "activated", "submitted", "result", "error", "upstream"}, Write(c, kind, q)
        PROVE  Told(output'[child'])
    <3>1. child \in Helpers /\ child # None /\ output[child] \in Seq(Frames) /\ Frame(kind, q) \in Frames
      <4>1. child = home[r]
          BY <2>1, <2>4
      <4>2. Frame(kind, q) \in Frames
          BY FrameTyped
      <4> QED
          BY <2>1, <4>1, <4>2 DEF StateTyped
    <3>2. output'[child] = output[child] \/ output'[child] = Append(output[child], Frame(kind, q))
        BY <2>4, <3>1, WrittenFrame
    <3>3. CASE output'[child] = Append(output[child], Frame(kind, q))
      <4>1. PICK i \in DOMAIN output[child] : IsError(output[child][i], r)
          BY <2>2, <2>4
      <4>2. i \in DOMAIN output'[child] /\ output'[child][i] = output[child][i]
          BY <3>1, <3>3, <4>1, WrittenPipe
      <4> QED
          BY <2>4, <4>1, <4>2
    <3> QED
        BY <2>3, <2>4, <3>2, <3>3
  <2>5. ASSUME NEW q \in Runs, Start(q) PROVE Told(output'[child'])
    <3>1. CASE child # None
        BY <2>3, <2>5, <3>1 DEF Start
    <3>2. CASE child = None
      <4>1. child' = spawned + 1
          BY <2>5, <3>2 DEF Start
      <4>2. home[r] = spawned + 1
          BY <2>1, <4>1
      <4>3. spawned \in Int
          BY HelpersAssumption DEF StateTyped
      <4> QED
          BY <2>1, <4>2, <4>3
    <3> QED
        BY <3>1, <3>2
  <2>6. ASSUME NEW q \in Runs, Dispatch(q) \/ Abort(q) \/ Compiled(q) \/ CompileFails(q) PROVE Told(output'[child'])
      BY <2>3, <2>6 DEF Dispatch, Abort, Compiled, CompileFails
  <2>7. CASE HandleExit \/ ReadyTimesOut \/ Close
      BY <2>1, <2>7 DEF HandleExit, ReadyTimesOut, Close
  <2>8. ASSUME NEW q \in Runs, NEW c \in Helpers, NEW told \in BOOLEAN, ExitTold(q, c, told)
        PROVE  Told(output'[child'])
      BY <2>3, <2>8 DEF ExitTold
  <2>9. ASSUME NEW c \in Helpers, Receive(c) \/ Crash(c) PROVE Told(output'[child'])
    <3>1. child' = child
        BY <2>9 DEF Receive, ReceiveRun, ReceivePrompt, ReceiveSendAck, ReceiveAbort, ShutDown, Exit, Crash, Dies,
           daemonVars
    <3>2. UNCHANGED output \/ \E q \in Runs : Write(c, "error", q)
      <4>1. CASE ReceiveRun(c) \/ ReceivePrompt(c) \/ ReceiveSendAck(c)
        <5>1. Head(input[c]).run \in Runs
            BY <4>1, HeadIsFirst DEF ReceiveRun, ReceivePrompt, ReceiveSendAck
        <5> QED
            BY <4>1, <5>1 DEF ReceiveRun, ReceivePrompt, ReceiveSendAck
      <4> QED
          BY <2>9, <4>1 DEF Receive, ReceiveAbort, ShutDown, Exit, Crash, Dies
    <3> QED
        BY <2>3, <2>4, <3>1, <3>2
  <2>10. ASSUME NEW q \in Runs, Work(q) PROVE Told(output'[child'])
    <3>1. child' = child /\ home[q] \in Helpers
        BY <2>10 DEF Work, Lease, LeaseRefused, Activate, Press, Accepted, Answered, Fail, UpstreamFails, EndWith,
           GiveBack, daemonVars, Alive, StateTyped
    <3>2. \/ UNCHANGED output
          \/ \E kind \in {"select", "activated", "submitted", "result", "error", "upstream"} : Write(home[q], kind, q)
        BY <2>10 DEF Work, Lease, LeaseRefused, Activate, Press, Accepted, Answered, Fail, UpstreamFails, EndWith,
           GiveBack
    <3> QED
        BY <2>3, <2>4, <3>1, <3>2
  <2>11. CASE UNCHANGED allVars \/ \E t \in Traces : Reclaim(t)
    <3>1. UNCHANGED <<child, output>>
        BY <2>11 DEF allVars, Reclaim, daemonVars
    <3> QED
        BY <2>3, <3>1
  <2>12. CASE Hear
    <3>1. child' = child /\ child # None /\ output[child] # <<>> /\ Read
        BY <2>12 DEF Hear, HearReady, HearSelect, HearActivated, HearSubmitted, HearEnd, Heard
    <3>2. output[child] \in Seq(Frames) /\ output'[child] = Tail(output[child])
        BY <3>1 DEF Read, StateTyped
    <3>3. PICK i \in DOMAIN output[child] : IsError(output[child][i], r)
        BY <2>2, <3>1
    <3>4. i # 1
      <4>1. ASSUME i = 1 PROVE FALSE
        <5>1. Head(output[child]).kind = "error" /\ Trace[Head(output[child]).run] = Trace[r]
            BY <3>1, <3>2, <3>3, <4>1, ReadPipe DEF IsError
        <5>2. HearEnd /\ r \in Addressee
            BY <2>1, <2>12, <5>1 DEF Hear, HearReady, HearSelect, HearActivated, HearSubmitted, Heard,
               Addressee, PendingOf
        <5> QED
            BY <5>2 DEF HearEnd, Settle
      <4> QED
          BY <4>1
    <3>5. i - 1 \in DOMAIN Tail(output[child]) /\ Tail(output[child])[i - 1] = output[child][i]
        BY <3>1, <3>2, <3>3, <3>4, ReadPipe
    <3> QED
        BY <3>1, <3>2, <3>3, <3>5
  <2> QED
      BY <2>5, <2>6, <2>7, <2>8, <2>9, <2>10, <2>11, <2>12 DEF HelperNext, Progress
<1> QED
    BY <1>2, <1>3

-------------------------------------------------------------------------------
(* Aborts and prompts *)

(* A prompt that is held is one of a turn that waits.                          *)
LEMMA PromptsStep ==
    ASSUME TypeOK, TypeOK', PromptsAreReleased, [HelperNext]_allVars
    PROVE  PromptsAreReleased'
<1> USE TypeParts
<1>1. ASSUME UNCHANGED <<run, prompt>> PROVE PromptsAreReleased'
    BY <1>1 DEF PromptsAreReleased
<1>2. ASSUME NEW rs, NEW how, Settle(rs, how) PROVE PromptsAreReleased'
    BY <1>2 DEF PromptsAreReleased, Settle, StateTyped
<1>3. ASSUME NEW q \in Runs, Start(q) PROVE PromptsAreReleased'
    BY <1>3 DEF PromptsAreReleased, Start, StateTyped
<1>4. ASSUME NEW q \in Runs, Dispatch(q) PROVE PromptsAreReleased'
  <2>1. CASE signalled[q]
      BY <1>2, <1>4, <2>1 DEF Dispatch
  <2>2. CASE ~signalled[q]
      BY <1>4, <2>2 DEF Dispatch, PromptsAreReleased, StateTyped
  <2> QED
      BY <2>1, <2>2
<1>5. ASSUME NEW q \in Runs, Abort(q) PROVE PromptsAreReleased'
    BY <1>1, <1>2, <1>5 DEF Abort, AbortHelper
<1>6. ASSUME NEW q \in Runs, Compiled(q) \/ CompileFails(q) PROVE PromptsAreReleased'
  <2>1. \A p \in Runs : p # q => run'[p] = run[p] /\ prompt'[p] = prompt[p]
      BY <1>6 DEF Compiled, CompileFails, StateTyped
  <2>2. CASE Compiled(q)
    <3>1. prompt'[q] = "held" => run'[q] = "pending"
        BY <2>2 DEF Compiled, StateTyped
    <3> QED
        BY <2>1, <3>1 DEF PromptsAreReleased
  <2>3. CASE CompileFails(q)
    <3>1. prompt'[q] = "none"
        BY <2>3 DEF CompileFails, StateTyped
    <3> QED
        BY <2>1, <3>1 DEF PromptsAreReleased
  <2> QED
      BY <1>6, <2>2, <2>3
<1>7. CASE HearSelect
    BY <1>7 DEF HearSelect, PromptsAreReleased, StateTyped
<1>8. CASE Hear /\ ~HearSelect
    BY <1>1, <1>2, <1>8 DEF Hear, HearReady, HearActivated, HearSubmitted, HearEnd
<1>9. CASE HandleExit \/ ReadyTimesOut \/ Close
    BY <1>2, <1>9 DEF HandleExit, ReadyTimesOut, Close
<1>10. ASSUME NEW q \in Runs, NEW c \in Helpers, NEW told \in BOOLEAN, ExitTold(q, c, told) PROVE PromptsAreReleased'
    BY <1>2, <1>10 DEF ExitTold
<1>11. ASSUME NEW c \in Helpers, Receive(c) \/ Crash(c) PROVE PromptsAreReleased'
  <2>1. UNCHANGED <<run, prompt>>
      BY <1>11 DEF Receive, ReceiveRun, ReceivePrompt, ReceiveSendAck, ReceiveAbort, ShutDown, Exit, Crash, Dies,
         daemonVars
  <2> QED
      BY <1>1, <2>1
<1>12. ASSUME NEW q \in Runs, Work(q) PROVE PromptsAreReleased'
  <2>1. UNCHANGED <<run, prompt>>
      BY <1>12 DEF Work, Lease, LeaseRefused, Activate, Press, Accepted, Answered, Fail, UpstreamFails, EndWith,
         GiveBack, daemonVars
  <2> QED
      BY <1>1, <2>1
<1>13. CASE UNCHANGED allVars \/ \E t \in Traces : Reclaim(t)
    BY <1>1, <1>13 DEF allVars, Reclaim, daemonVars
<1> QED
    BY <1>3, <1>4, <1>5, <1>6, <1>7, <1>8, <1>9, <1>10, <1>11, <1>12, <1>13 DEF HelperNext, Progress

(* A run that is kept from Send is not pressed.                                *)
LEMMA KeptFromSend ==
    ASSUME TypeOK, NEW r \in Runs, Kept(r), ~pressed[r], [HelperNext]_allVars
    PROVE  ~pressed'[r]
<1> USE TypeParts
<1>1. ASSUME NEW q \in Runs, Press(q) PROVE q # r
  <2>1. ASSUME q = r PROVE FALSE
    <3>1. worker[r] = "sending" /\ ~stopped[r] /\ proc[home[r]] \in {"up", "closing"}
        BY <1>1, <2>1 DEF Press, Alive
    <3> QED
        BY <3>1 DEF Kept, NeverSent, AbortComes
  <2> QED
      BY <2>1
<1>2. ASSUME NEW q \in Runs, Press(q) PROVE ~pressed'[r]
    BY <1>1, <1>2 DEF Press, FlagsTyped
<1>3. ASSUME NEW q \in Runs, Work(q), ~Press(q) PROVE UNCHANGED pressed
    BY <1>3 DEF Work, Lease, LeaseRefused, Activate, Accepted, Answered, Fail, UpstreamFails, EndWith, GiveBack
<1>4. ASSUME NEW q \in Runs, Start(q) \/ Dispatch(q) \/ Abort(q) \/ Compiled(q) \/ CompileFails(q)
      PROVE  UNCHANGED pressed
    BY <1>4 DEF Start, Dispatch, Abort, Compiled, CompileFails, helperVars
<1>5. CASE Hear \/ HandleExit \/ ReadyTimesOut \/ Close \/ UNCHANGED allVars \/ \E t \in Traces : Reclaim(t)
  <2>1. UNCHANGED pressed
      BY <1>5 DEF Hear, HearReady, HearSelect, HearActivated, HearSubmitted, HearEnd, HandleExit, ReadyTimesOut,
         Close, allVars, Reclaim, helperVars
  <2> QED
      BY <2>1
<1>6. ASSUME NEW q \in Runs, NEW c \in Helpers, NEW told \in BOOLEAN, ExitTold(q, c, told) PROVE UNCHANGED pressed
    BY <1>6 DEF ExitTold, helperVars
<1>7. ASSUME NEW c \in Helpers, Receive(c) \/ Crash(c) PROVE UNCHANGED pressed
    BY <1>7 DEF Receive, ReceiveRun, ReceivePrompt, ReceiveSendAck, ReceiveAbort, ShutDown, Exit, Crash, Dies
<1> QED
    BY <1>2, <1>3, <1>4, <1>5, <1>6, <1>7 DEF HelperNext, Progress

(* An abort that is on its way stays so while more is written behind it.       *)
LEMMA AbortStillComes ==
    ASSUME TypeOK, NEW r \in Runs, home[r] \in Helpers, AbortComes(r), home'[r] = home[r],
           worker'[r] \notin {"sending", "submitting", "answering"},
           \/ input'[home[r]] = input[home[r]]
           \/ \E f \in Frames : input'[home[r]] = Append(input[home[r]], f)
    PROVE  AbortComes(r)'
<1> DEFINE s == input[home[r]]
<1>1. s \in Seq(Frames)
    BY TypeParts DEF StateTyped
<1>2. PICK i \in DOMAIN s :
         /\ s[i] = Frame("abort", r)
         /\ \A j \in 1..(i - 1) : s[j].kind = "sendAck" /\ Trace[s[j].run] = Trace[r] => s[j].run < r
    BY DEF AbortComes
<1>3. i \in 1..Len(s) /\ \A j \in 1..(i - 1) : j \in DOMAIN s
    BY <1>1, <1>2
<1>4. i \in DOMAIN input'[home[r]] /\ input'[home[r]][i] = s[i] /\ \A j \in 1..(i - 1) : input'[home[r]][j] = s[j]
    BY <1>1, <1>2, <1>3, WrittenPipe
<1> QED
    BY <1>2, <1>4 DEF AbortComes

(* Nothing is read by the run's helper, and no run frame of it is written.     *)
LEMMA KeptStays ==
    ASSUME TypeOK, NEW r \in Runs, home[r] \in Helpers, Kept(r), home'[r] = home[r],
           stopped[r] => stopped'[r],
           worker'[r] = worker[r] \/ (worker[r] # "none" /\ worker'[r] \notin {"none", "sending", "submitting", "answering"})
              \/ worker[r] \in {"sending", "submitting", "answering"},
           worker[r] \in {"refused", "done"} => worker'[r] = worker[r],
           proc[home[r]] = "dead" => proc'[home[r]] = "dead", proc[home[r]] # "up" => proc'[home[r]] # "up",
           run'[r] = "pending" => run[r] = "pending",
           \/ input'[home[r]] = input[home[r]]
           \/ \E f \in Frames : f # Frame("run", r) /\ input'[home[r]] = Append(input[home[r]], f)
    PROVE  Kept(r)'
<1> DEFINE s == input[home[r]]
<1>1. CASE stopped[r] \/ worker[r] \in {"refused", "done"} \/ proc[home[r]] = "dead"
    BY <1>1 DEF Kept
<1>2. CASE NeverSent(r)
  <2>1. worker'[r] = "none" /\ (run'[r] # "pending" \/ proc'[home'[r]] # "up")
      BY <1>2 DEF NeverSent
  <2>2. s \in Seq(Frames)
      BY TypeParts DEF StateTyped
  <2>3. \A i \in DOMAIN input'[home[r]] : input'[home[r]][i] # Frame("run", r)
    <3>1. CASE input'[home[r]] = s
        BY <1>2, <3>1 DEF NeverSent
    <3>2. ASSUME NEW f \in Frames, f # Frame("run", r), input'[home[r]] = Append(s, f)
          PROVE  \A i \in DOMAIN input'[home[r]] : input'[home[r]][i] # Frame("run", r)
        BY <1>2, <2>2, <3>2, WrittenPipe DEF NeverSent
    <3> QED
        BY <3>1, <3>2
  <2> QED
      BY <2>1, <2>3 DEF Kept, NeverSent
<1>3. CASE AbortComes(r)
  <2>1. worker'[r] \notin {"sending", "submitting", "answering"}
      BY <1>3 DEF AbortComes
  <2> QED
      BY <1>3, <2>1, AbortStillComes DEF Kept
<1> QED
    BY <1>1, <1>2, <1>3 DEF Kept

(* What is kept from Send when its helper reads the next frame.                *)
LEMMA KeptRead ==
    ASSUME TypeOK, InputSound, NEW r \in Runs, NEW c \in Helpers, home[r] = c, Kept(r),
           ReceiveRun(c) \/ ReceivePrompt(c) \/ ReceiveSendAck(c) \/ ReceiveAbort(c) \/ ShutDown(c)
    PROVE  Kept(r)'
<1> USE TypeParts
<1> DEFINE s == input[c]
           h == Head(s)
           Read1 == ReceiveRun(c) \/ ReceivePrompt(c) \/ ReceiveSendAck(c) \/ ReceiveAbort(c)
<1>1. s \in Seq(Frames) /\ s # <<>> /\ proc[c] = "up" /\ h \in Frames
    BY DEF ReceiveRun, ReceivePrompt, ReceiveSendAck, ReceiveAbort, ShutDown, Receives, StateTyped
<1>2. UNCHANGED <<home, run>>
    BY DEF ReceiveRun, ReceivePrompt, ReceiveSendAck, ReceiveAbort, ShutDown, daemonVars
<1>3. Read1 => UNCHANGED proc /\ input'[c] = Tail(s)
    BY DEF ReceiveRun, ReceivePrompt, ReceiveSendAck, ReceiveAbort, Taken, StateTyped
<1>4. Read1 => h.run \in Runs
    BY HeadIsFirst DEF ReceiveRun, ReceivePrompt, ReceiveSendAck, ReceiveAbort
<1>5. ShutDown(c) => proc'[c] = "closing" /\ input'[c] = <<>> /\ UNCHANGED worker
    BY DEF ShutDown, StateTyped
<1>6. CASE stopped[r]
  <2>1. stopped'[r]
      BY <1>6 DEF ReceiveRun, ReceivePrompt, ReceiveSendAck, ReceiveAbort, ShutDown
  <2> QED
      BY <2>1 DEF Kept
<1>7. CASE worker[r] \in {"refused", "done"}
  <2>1. worker'[r] = worker[r]
    <3>1. CASE ReceiveRun(c)
      <4>1. h.run # r
          BY <1>7, <3>1, HeadIsFirst DEF ReceiveRun
      <4> QED
          BY <3>1, <4>1 DEF ReceiveRun, StateTyped
    <3>2. CASE ReceivePrompt(c) \/ ReceiveSendAck(c) \/ ReceiveAbort(c) \/ ShutDown(c)
        BY <1>7, <3>2 DEF ReceivePrompt, ReceiveSendAck, ReceiveAbort, ShutDown
    <3> QED
        BY <3>1, <3>2
  <2> QED
      BY <1>7, <2>1 DEF Kept
<1>8. CASE NeverSent(r)
  <2>1. worker'[r] = "none"
    <3>1. CASE ReceiveRun(c)
      <4>1. ASSUME h.run = r PROVE FALSE
        <5>1. h.kind = "run" /\ 1 \in DOMAIN s /\ h = s[1]
            BY <3>1, HeadIsFirst DEF ReceiveRun, Receives
        <5>2. h = Frame("run", r)
            BY <1>1, <4>1, <5>1 DEF Frame, Frames
        <5> QED
            BY <1>8, <5>1, <5>2 DEF NeverSent
      <4> QED
          BY <1>8, <3>1, <4>1 DEF ReceiveRun, NeverSent, StateTyped
    <3>2. CASE ReceivePrompt(c) \/ ReceiveSendAck(c) \/ ReceiveAbort(c) \/ ShutDown(c)
        BY <1>8, <3>2 DEF ReceivePrompt, ReceiveSendAck, ReceiveAbort, ShutDown, NeverSent
    <3> QED
        BY <3>1, <3>2
  <2>2. run'[r] # "pending"
      BY <1>1, <1>2, <1>8 DEF NeverSent
  <2>3. \A i \in DOMAIN input'[c] : input'[c][i] # Frame("run", r)
    <3>1. CASE ShutDown(c)
        BY <1>5, <3>1
    <3>2. CASE Read1
      <4>1. \A i \in DOMAIN Tail(s) : i + 1 \in DOMAIN s /\ Tail(s)[i] = s[i + 1]
          BY <1>1, ReadPipe
      <4>2. \A i \in DOMAIN s : s[i] # Frame("run", r)
          BY <1>8 DEF NeverSent
      <4>3. input'[c] = Tail(s)
          BY <1>3, <3>2
      <4> QED
          BY <4>1, <4>2, <4>3
    <3> QED
        BY <3>1, <3>2
  <2> QED
      BY <1>2, <2>1, <2>2, <2>3 DEF Kept, NeverSent
<1>9. CASE AbortComes(r)
  <2>1. PICK i \in DOMAIN s :
           /\ s[i] = Frame("abort", r)
           /\ \A j \in 1..(i - 1) : s[j].kind = "sendAck" /\ Trace[s[j].run] = Trace[r] => s[j].run < r
      BY <1>9 DEF AbortComes
  <2>2. worker[r] \notin {"sending", "submitting", "answering"}
      BY <1>9 DEF AbortComes
  <2>3. CASE i = 1
    <3>1. h.kind = "abort" /\ h.run = r
        BY <1>1, <2>1, <2>3, ReadPipe, FrameTyped
    <3>2. ReceiveAbort(c)
        BY <3>1 DEF ReceiveRun, ReceivePrompt, ReceiveSendAck, ShutDown, Receives
    <3>3. worker[r] # "none"
        BY <3>1, <3>2, HeadIsFirst DEF ReceiveAbort
    <3>4. CASE ActiveIn(c, r)
      <4>1. r \in Target(c)
          BY <3>1, <3>4 DEF Target
      <4>2. stopped'[r]
          BY <3>2, <4>1 DEF ReceiveAbort
      <4> QED
          BY <4>2 DEF Kept
    <3>5. CASE ~ActiveIn(c, r)
      <4>1. worker[r] \in {"refused", "done"} /\ UNCHANGED worker
          BY <3>2, <3>3, <3>5 DEF ReceiveAbort, ActiveIn, Over
      <4> QED
          BY <4>1 DEF Kept
    <3> QED
        BY <3>4, <3>5
  <2>4. CASE i # 1 /\ Read1
    <3>1. worker'[r] \notin {"sending", "submitting", "answering"}
      <4>1. CASE ReceiveSendAck(c)
        <5>1. ASSUME r \in Target(c) PROVE FALSE
          <6>1. h.kind = "sendAck" /\ Trace[h.run] = Trace[r] /\ worker[r] # "none" /\ h = s[1] /\ h.run >= r
              BY <4>1, <5>1, HeadIsFirst DEF ReceiveSendAck, Receives, Target, ActiveIn, Over
          <6>2. 1 \in 1..(i - 1)
              BY <1>1, <2>1, <2>4
          <6>3. h.run < r
              BY <2>1, <6>1, <6>2
          <6>4. h.run \in Int /\ r \in Int
              BY <1>4, <2>4, RunsAssumption
          <6> QED
              BY <6>1, <6>3, <6>4
        <5> QED
            BY <2>2, <4>1, <5>1 DEF ReceiveSendAck, StateTyped
      <4>2. CASE ReceiveRun(c) \/ ReceivePrompt(c) \/ ReceiveAbort(c)
          BY <2>2, <4>2 DEF ReceiveRun, ReceivePrompt, ReceiveAbort, StateTyped
      <4> QED
          BY <2>4, <4>1, <4>2
    <3>2. i - 1 \in DOMAIN Tail(s) /\ Tail(s)[i - 1] = Frame("abort", r)
        BY <1>1, <2>1, <2>4, ReadPipe
    <3>3. ASSUME NEW j \in 1..((i - 1) - 1), Tail(s)[j].kind = "sendAck" /\ Trace[Tail(s)[j].run] = Trace[r]
          PROVE  Tail(s)[j].run < r
      <4>1. i \in 1..Len(s) /\ j + 1 \in 1..(i - 1) /\ j \in DOMAIN Tail(s)
          BY <1>1, <2>1
      <4>2. Tail(s)[j] = s[j + 1]
          BY <1>1, <4>1, ReadPipe
      <4> QED
          BY <2>1, <3>3, <4>1, <4>2
    <3>4. AbortComes(r)'
        BY <1>2, <1>3, <2>4, <3>1, <3>2, <3>3 DEF AbortComes
    <3> QED
        BY <3>4 DEF Kept
  <2>5. CASE ShutDown(c)
    <3>1. CASE ActiveIn(c, r)
      <4>1. stopped'[r]
          BY <2>5, <3>1 DEF ShutDown
      <4> QED
          BY <4>1 DEF Kept
    <3>2. CASE worker[r] \in {"refused", "done"}
        BY <1>5, <2>5, <3>2 DEF Kept
    <3>3. CASE worker[r] = "none"
        BY <1>2, <1>5, <2>5, <3>3 DEF Kept, NeverSent
    <3> QED
        BY <3>1, <3>2, <3>3 DEF ActiveIn, Over
  <2> QED
      BY <2>3, <2>4, <2>5
<1> QED
    BY <1>1, <1>6, <1>7, <1>8, <1>9 DEF Kept

(* An abort that is raised before the adapter heard of Send.                   *)
LEMMA AbortedEarly ==
    ASSUME TypeOK, ClientSound, RetriesSound, InputSound, LeaveSound, NEW r \in Runs, Abort(r), phase[r] = "prepared"
    PROVE  ~pressed[r] /\ Kept(r)'
<1> USE TypeParts
<1>1. run[r] \in {"starting", "pending"} /\ run[r] # "new" /\ home[r] \in Helpers
    BY DEF Abort, ClientSound, StateTyped
<1>2. UNCHANGED <<child, phase, worker, home, proc, pressed>>
    BY DEF Abort, helperVars
<1>3. \A x \in Runs : Trace[x] = Trace[r] /\ run[x] # "new" => x <= r
    BY <1>1, LastWaits
<1>4. ~Left(r)
  <2>1. ASSUME LeaveOfAnother(r) PROVE FALSE
    <3>1. PICK x \in Runs : r < x /\ Trace[x] = Trace[r] /\ worker[x] = "refused"
        BY <2>1 DEF LeaveOfAnother
    <3>2. run[x] # "new"
        BY <3>1 DEF ClientSound
    <3>3. x <= r
        BY <1>3, <3>1, <3>2
    <3>4. r \in Int /\ x \in Int
        BY RunsAssumption
    <3> QED
        BY <3>1, <3>3, <3>4
  <2> QED
      BY <2>1 DEF LeaveSound
<1>5. CASE run[r] = "starting"
  <2>1. UNCHANGED <<run, input>> /\ worker[r] = "none"
      BY <1>5 DEF Abort, ClientSound
  <2>2. ASSUME NEW i \in DOMAIN input[home[r]], input[home[r]][i] = Frame("run", r) PROVE FALSE
    <3>1. Frame("run", r).kind = "run" /\ Frame("run", r).run = r
        BY FrameTyped
    <3>2. FrameSound(home[r], i)
        BY <1>1, <2>2, <3>1 DEF InputSound
    <3> QED
        BY <1>5, <2>2, <3>1, <3>2 DEF FrameSound
  <2>3. NeverSent(r)'
      BY <1>2, <1>5, <2>1, <2>2 DEF NeverSent
  <2> QED
      BY <1>2, <1>4, <2>3 DEF Kept, Left
<1>6. CASE run[r] = "pending" /\ proc[home[r]] = "dead"
    BY <1>2, <1>4, <1>6 DEF Kept, Left
<1>7. CASE run[r] = "pending" /\ home[r] = child /\ child # None
  <2> DEFINE s == input[child]
             f == Frame("abort", r)
  <2>1. s \in Seq(Frames) /\ f \in Frames /\ child \in Helpers
      BY <1>1, <1>7, FrameTyped DEF StateTyped
  <2>2. input'[child] = Append(s, f)
      BY <1>7, <2>1 DEF Abort, AbortHelper, Send, StateTyped
  <2>3. Len(s) + 1 \in DOMAIN input'[child] /\ input'[child][Len(s) + 1] = f
      BY <2>1, <2>2, WrittenPipe
  <2>4. ASSUME NEW j \in 1..((Len(s) + 1) - 1),
               input'[child][j].kind = "sendAck", Trace[input'[child][j].run] = Trace[r]
        PROVE  input'[child][j].run < r
    <3>1. j \in 1..Len(s) /\ j \in DOMAIN s
        BY <2>1
    <3>2. input'[child][j] = s[j]
        BY <2>1, <2>2, <3>1, WrittenPipe
    <3> DEFINE x == s[j].run
    <3>3. x \in Runs /\ run[x] \in {"pending", "settled"} /\ phase[x] # "prepared"
        BY <2>1, <2>4, <3>1, <3>2 DEF InputSound, FrameSound
    <3>4. Trace[x] = Trace[r]
        BY <2>4, <3>2
    <3>5. phase[x] # phase[r]
        BY <3>3
    <3>6. x <= r /\ x # r
        BY <1>3, <3>3, <3>4, <3>5
    <3> HIDE DEF x
    <3>7. x \in Int /\ r \in Int
        BY <3>3, RunsAssumption
    <3>8. x < r
        BY <3>6, <3>7
    <3> QED
        BY <3>2, <3>8 DEF x
  <2>5. worker'[r] \notin {"sending", "submitting", "answering"}
      BY <1>2, <1>4 DEF Left
  <2>6. AbortComes(r)'
      BY <1>2, <1>7, <2>3, <2>4, <2>5 DEF AbortComes
  <2> QED
      BY <1>2, <1>4, <2>6 DEF Kept, Left
<1> QED
    BY <1>1, <1>5, <1>6, <1>7 DEF ClientSound, None, Helpers

(* A step at which the helper of the run reads nothing keeps it from Send.     *)
LEMMA KeptOtherwise ==
    ASSUME TypeOK, TypeOK', ClientSound, InputSound, NEW r \in Runs, signalled[r], run[r] # "new", Kept(r), [HelperNext]_allVars,
           ~\E c \in Helpers : home[r] = c /\ (Receive(c) \/ Crash(c))
    PROVE  Kept(r)'
<1> USE TypeParts
<1>1. RunOnward(r) /\ WorkOnward(r) /\ home[r] \in Helpers /\ home'[r] = home[r]
    BY RunsGoOn, WorkGoesOn DEF RunOnward, ClientSound, StateTyped
<1>2. worker[r] \in {"refused", "done"} => worker'[r] = worker[r]
    BY <1>1 DEF WorkOnward
<1> DEFINE PipeKept == \/ input'[home[r]] = input[home[r]]
                       \/ \E f \in Frames : f # Frame("run", r) /\ input'[home[r]] = Append(input[home[r]], f)
<1>3. ASSUME UNCHANGED <<stopped, worker, proc>>, run'[r] = "pending" => run[r] = "pending", PipeKept PROVE Kept(r)'
    BY <1>1, <1>3, KeptStays
<1>4. ASSUME NEW kind \in {"run", "prompt", "sendAck", "abort"}, NEW q \in Runs, child # None, Send(kind, q),
             kind = "run" => q # r
      PROVE  PipeKept
  <2>1. Frame(kind, q) \in Frames /\ Frame(kind, q) # Frame("run", r)
      BY <1>4, FrameTyped
  <2>2. input' = [input EXCEPT ![child] = Append(@, Frame(kind, q))]
      BY <1>4 DEF Send
  <2>3. input'[home[r]] = input[home[r]] \/ input'[home[r]] = Append(input[home[r]], Frame(kind, q))
      BY <1>1, <2>2 DEF StateTyped
  <2> QED
      BY <2>1, <2>3
<1>5. ASSUME input' = [input EXCEPT ![child] = Append(@, Frame("shutdown", None))] PROVE PipeKept
  <2>1. Frame("shutdown", None) \in Frames /\ Frame("shutdown", None) # Frame("run", r)
      BY FrameTyped DEF Frame
  <2>2. input'[home[r]] = input[home[r]] \/ input'[home[r]] = Append(input[home[r]], Frame("shutdown", None))
      BY <1>1, <1>5 DEF StateTyped
  <2> QED
      BY <2>1, <2>2
<1>6. ASSUME NEW q \in Runs, Start(q) PROVE Kept(r)'
  <2>1. UNCHANGED <<stopped, worker, input>> /\ run' = [run EXCEPT ![q] = "starting"]
      BY <1>6 DEF Start
  <2>2. proc'[home[r]] = proc[home[r]]
    <3>1. CASE child # None
        BY <1>6, <3>1 DEF Start
    <3>2. CASE child = None
      <4>1. proc' = [proc EXCEPT ![spawned + 1] = "up"]
          BY <1>6, <3>2 DEF Start
      <4>2. home[r] <= spawned
          BY DEF ClientSound
      <4>3. home[r] \in Int /\ spawned \in Int
          BY <1>1, HelpersAssumption DEF StateTyped, Helpers
      <4>4. home[r] # spawned + 1
          BY <4>2, <4>3
      <4> QED
          BY <1>1, <4>1, <4>4 DEF StateTyped
    <3> QED
        BY <3>1, <3>2
  <2>3. run'[r] = "pending" => run[r] = "pending"
      BY <2>1 DEF StateTyped
  <2> QED
      BY <1>1, <2>1, <2>2, <2>3, KeptStays
<1>7. ASSUME NEW q \in Runs, Dispatch(q) PROVE Kept(r)'
  <2>1. UNCHANGED <<stopped, worker, proc, child>> /\ child # None
      BY <1>1, <1>7 DEF Dispatch, helperVars, ClientSound, StateTyped, None, Helpers
  <2>2. CASE signalled[q]
    <3>1. UNCHANGED input /\ run'[r] \in {"settled", run[r]}
        BY <1>7, <2>2 DEF Dispatch, Settle
    <3> QED
        BY <1>3, <2>1, <3>1
  <2>3. CASE ~signalled[q]
    <3>1. Send("run", q) /\ run' = [run EXCEPT ![q] = "pending"] /\ q # r
        BY <1>7, <2>3 DEF Dispatch
    <3>2. PipeKept
        BY <1>4, <2>1, <3>1
    <3>3. run'[r] = run[r]
        BY <3>1 DEF StateTyped
    <3> QED
        BY <1>3, <2>1, <3>2, <3>3
  <2> QED
      BY <2>2, <2>3
<1>8. ASSUME NEW q \in Runs, Abort(q) \/ Compiled(q) \/ CompileFails(q) PROVE Kept(r)'
  <2>1. UNCHANGED <<stopped, worker, proc>>
      BY <1>8 DEF Abort, Compiled, CompileFails, helperVars
  <2>2. run'[r] \in {run[r], "settled"}
      BY <1>8 DEF Abort, AbortHelper, Settle, Compiled, CompileFails, StateTyped
  <2>3. UNCHANGED input \/ (child # None /\ \E kind \in {"prompt", "abort"} : Send(kind, q))
      BY <1>8 DEF Abort, AbortHelper, Compiled, CompileFails
  <2>4. PipeKept
      BY <1>4, <2>3
  <2> QED
      BY <1>3, <2>1, <2>2, <2>4
<1>9. CASE Hear
  <2>1. UNCHANGED <<stopped, worker, proc>>
      BY <1>9 DEF Hear, HearReady, HearSelect, HearActivated, HearSubmitted, HearEnd, helperVars
  <2>2. run'[r] \in {run[r], "settled"}
      BY <1>9 DEF Hear, HearReady, HearSelect, HearActivated, HearSubmitted, HearEnd, Settle
  <2>3. UNCHANGED input \/ (child # None /\ \E q \in Runs : Send("sendAck", q))
    <3>1. CASE HearActivated
      <4>1. child # None /\ (UNCHANGED input \/ (Addressee # {} /\ Send("sendAck", CHOOSE q \in Addressee : TRUE)))
          BY <3>1 DEF HearActivated, Heard
      <4>2. Addressee # {} => (CHOOSE q \in Addressee : TRUE) \in Runs
          BY DEF Addressee, PendingOf
      <4> QED
          BY <4>1, <4>2
    <3>2. CASE HearReady \/ HearSelect \/ HearSubmitted \/ HearEnd
        BY <3>2 DEF HearReady, HearSelect, HearSubmitted, HearEnd
    <3> QED
        BY <1>9, <3>1, <3>2 DEF Hear
  <2>4. PipeKept
      BY <1>4, <2>3
  <2> QED
      BY <1>3, <2>1, <2>2, <2>4
<1>10. CASE HandleExit \/ ReadyTimesOut \/ Close
  <2>1. UNCHANGED <<stopped, worker, proc>>
      BY <1>10 DEF HandleExit, ReadyTimesOut, Close, helperVars
  <2>2. run'[r] \in {run[r], "settled"}
      BY <1>10 DEF HandleExit, ReadyTimesOut, Close, Settle
  <2>3. UNCHANGED input \/ input' = [input EXCEPT ![child] = Append(@, Frame("shutdown", None))]
      BY <1>10 DEF HandleExit, ReadyTimesOut, Close
  <2>4. PipeKept
      BY <1>5, <2>3
  <2> QED
      BY <1>3, <2>1, <2>2, <2>4
<1>11. ASSUME NEW q \in Runs, NEW c \in Helpers, NEW told \in BOOLEAN, ExitTold(q, c, told) PROVE Kept(r)'
  <2>1. UNCHANGED <<stopped, worker, proc, input>> /\ run'[r] \in {run[r], "settled"}
      BY <1>11 DEF ExitTold, Settle, helperVars
  <2> QED
      BY <1>3, <2>1
<1>12. ASSUME NEW c \in Helpers, Receive(c) \/ Crash(c), c # home[r] PROVE Kept(r)'
  <2>1. home[r] # c /\ UNCHANGED <<home, run>>
      BY <1>12 DEF Receive, ReceiveRun, ReceivePrompt, ReceiveSendAck, ReceiveAbort, ShutDown, Exit, Crash, Dies,
         daemonVars
  <2>2. input'[home[r]] = input[home[r]] /\ proc'[home[r]] = proc[home[r]]
    <3>1. \/ input' = [input EXCEPT ![c] = <<>>]
          \/ input' = [input EXCEPT ![c] = Tail(@)]
        BY <1>12 DEF Receive, ReceiveRun, ReceivePrompt, ReceiveSendAck, ReceiveAbort, Taken, ShutDown, Exit,
           Crash, Dies
    <3>2. UNCHANGED proc \/ \E p : proc' = [proc EXCEPT ![c] = p]
        BY <1>12 DEF Receive, ReceiveRun, ReceivePrompt, ReceiveSendAck, ReceiveAbort, ShutDown, Exit, Crash, Dies
    <3> QED
        BY <1>1, <2>1, <3>1, <3>2 DEF StateTyped
  <2>3. stopped[r] => stopped'[r]
      BY <1>12 DEF Receive, ReceiveRun, ReceivePrompt, ReceiveSendAck, ReceiveAbort, ShutDown, Exit, Crash, Dies
  <2>4. worker'[r] = worker[r]
    <3>1. CASE ReceiveRun(c)
      <4>1. Head(input[c]).run # r
          BY <2>1, <3>1, HeadIsFirst DEF ReceiveRun
      <4> QED
          BY <3>1, <4>1 DEF ReceiveRun, StateTyped
    <3>2. CASE ReceivePrompt(c) \/ ReceiveSendAck(c)
        BY <2>1, <3>2 DEF ReceivePrompt, ReceiveSendAck, Target, ActiveIn
    <3>3. CASE ReceiveAbort(c) \/ ShutDown(c) \/ Exit(c) \/ Crash(c)
        BY <3>3 DEF ReceiveAbort, ShutDown, Exit, Crash, Dies
    <3> QED
        BY <1>12, <3>1, <3>2, <3>3 DEF Receive
  <2> QED
      BY <1>1, <2>1, <2>2, <2>3, <2>4, KeptStays
<1>13. ASSUME NEW q \in Runs, Work(q) PROVE Kept(r)'
  <2>1. UNCHANGED <<stopped, proc, run, input>>
      BY <1>13 DEF Work, Lease, LeaseRefused, Activate, Press, Accepted, Answered, Fail, UpstreamFails, EndWith,
         GiveBack, daemonVars
  <2>2. ~\E c \in Helpers : ReceiveRun(c) /\ Head(input[c]).run = r /\ home[r] = c
      BY DEF Receive
  <2>3. worker'[r] = worker[r] \/ worker[r] # "none"
      BY <2>2, BeginsByRead
  <2>4. \/ worker'[r] \notin {"sending", "submitting", "answering"}
        \/ worker[r] \in {"sending", "submitting", "answering"}
        \/ worker'[r] = worker[r]
      BY <1>13 DEF Work, Lease, LeaseRefused, Activate, Press, Accepted, Answered, Fail, UpstreamFails, EndWith,
         GiveBack, StateTyped
  <2>5. worker'[r] # "none" \/ worker'[r] = worker[r]
      BY <1>1 DEF WorkOnward
  <2> QED
      BY <1>1, <1>2, <2>1, <2>3, <2>4, <2>5, KeptStays
<1>14. CASE UNCHANGED allVars \/ \E t \in Traces : Reclaim(t)
  <2>1. UNCHANGED <<stopped, worker, proc, run, input>>
      BY <1>14 DEF allVars, Reclaim, helperVars, daemonVars
  <2> QED
      BY <1>3, <2>1
<1> QED
    BY <1>6, <1>7, <1>8, <1>9, <1>10, <1>11, <1>12, <1>13, <1>14 DEF HelperNext, Progress

(* An abort that was raised early is raised, and its run is kept from Send.    *)
LEMMA AbortStep ==
    ASSUME TypeOK, TypeOK', ClientSound, RetriesSound, InputSound, LeaveSound, AbortSound, [HelperNext]_allVars
    PROVE  AbortSound'
<1> USE TypeParts
<1> SUFFICES ASSUME NEW r \in Runs, early'[r]
             PROVE  signalled'[r] /\ ~pressed'[r] /\ run'[r] # "new" /\ Kept(r)'
    BY DEF AbortSound
<1>1. RunOnward(r)
    BY RunsGoOn
<1>2. ASSUME NEW q \in Runs, Abort(q)
      PROVE  /\ UNCHANGED pressed /\ signalled'[r] = (signalled[r] \/ q = r)
             /\ q # r => early'[r] = early[r]
             /\ q = r => ~signalled[r] /\ phase[r] = "prepared" /\ run[r] # "new"
    BY <1>2 DEF Abort, helperVars, FlagsTyped
<1>3. (\E q \in Runs : Abort(q)) \/ UNCHANGED <<early, signalled>>
  <2>1. ASSUME NEW q \in Runs, Start(q) \/ Dispatch(q) \/ Compiled(q) \/ CompileFails(q)
        PROVE  UNCHANGED <<early, signalled>>
      BY <2>1 DEF Start, Dispatch, Compiled, CompileFails
  <2>2. CASE Hear \/ HandleExit \/ ReadyTimesOut \/ Close \/ UNCHANGED allVars \/ \E t \in Traces : Reclaim(t)
      BY <2>2 DEF Hear, HearReady, HearSelect, HearActivated, HearSubmitted, HearEnd, HandleExit, ReadyTimesOut,
         Close, allVars, Reclaim, daemonVars
  <2>3. ASSUME NEW q \in Runs, NEW c \in Helpers, NEW told \in BOOLEAN, ExitTold(q, c, told)
        PROVE  UNCHANGED <<early, signalled>>
      BY <2>3 DEF ExitTold
  <2>4. ASSUME NEW c \in Helpers, Receive(c) \/ Crash(c) PROVE UNCHANGED <<early, signalled>>
      BY <2>4 DEF Receive, ReceiveRun, ReceivePrompt, ReceiveSendAck, ReceiveAbort, ShutDown, Exit, Crash, Dies,
         daemonVars
  <2>5. ASSUME NEW q \in Runs, Work(q) PROVE UNCHANGED <<early, signalled>>
      BY <2>5 DEF Work, Lease, LeaseRefused, Activate, Press, Accepted, Answered, Fail, UpstreamFails, EndWith,
         GiveBack, daemonVars
  <2> QED
      BY <2>1, <2>2, <2>3, <2>4, <2>5 DEF HelperNext, Progress
<1>4. CASE early[r]
  <2>1. signalled[r] /\ ~pressed[r] /\ run[r] # "new" /\ Kept(r)
      BY <1>4 DEF AbortSound
  <2>2. signalled'[r] /\ run'[r] # "new"
      BY <1>1, <1>2, <1>3, <2>1 DEF RunOnward
  <2>3. ~pressed'[r]
      BY <2>1, KeptFromSend
  <2>4. CASE \E c \in Helpers : home[r] = c /\ (Receive(c) \/ Crash(c))
    <3>1. PICK c \in Helpers : home[r] = c /\ (Receive(c) \/ Crash(c))
        BY <2>4
    <3>2. CASE Exit(c) \/ Crash(c)
      <4>1. proc'[c] = "dead" /\ UNCHANGED home
          BY <3>2 DEF Exit, Crash, Dies, StateTyped
      <4> QED
          BY <2>2, <2>3, <3>1, <4>1 DEF Kept
    <3>3. CASE ~(Exit(c) \/ Crash(c))
        BY <2>1, <2>2, <2>3, <3>1, <3>3, KeptRead DEF Receive
    <3> QED
        BY <3>2, <3>3
  <2>5. CASE ~\E c \in Helpers : home[r] = c /\ (Receive(c) \/ Crash(c))
      BY <2>1, <2>2, <2>3, <2>5, KeptOtherwise
  <2> QED
      BY <2>4, <2>5
<1>5. CASE ~early[r]
  <2>1. Abort(r)
      BY <1>2, <1>3, <1>5
  <2>2. phase[r] = "prepared" /\ run[r] # "new" /\ signalled'[r] /\ UNCHANGED pressed
    <3>1. UNCHANGED pressed /\ run[r] # "new" /\ signalled'[r]
        BY <1>2, <2>1
    <3>2. phase[r] = "prepared"
        BY <2>1 DEF Abort, FlagsTyped
    <3> QED
        BY <3>1, <3>2
  <2>3. ~pressed[r] /\ Kept(r)'
      BY <2>1, <2>2, AbortedEarly
  <2> QED
      BY <1>1, <2>2, <2>3 DEF RunOnward
<1> QED
    BY <1>4, <1>5

-------------------------------------------------------------------------------
(* The theorem *)

(* The invariant holds at the start.                                           *)
LEMMA HelperSoundInit == HelperInit => HelperSound
<1> SUFFICES ASSUME HelperInit PROVE HelperSound
    OBVIOUS
<1>1. StateTyped
  <2>1. \A S : <<>> \in Seq(S)
      OBVIOUS
  <2>2. input \in [Helpers -> Seq(Frames)] /\ output \in [Helpers -> Seq(Frames)]
      BY <2>1 DEF HelperInit
  <2>3. spawned \in 0..MaxHelpers /\ ending \subseteq Runs \X Helpers
      BY HelpersAssumption DEF HelperInit
  <2>4. /\ run \in [Runs -> {"new", "starting", "pending", "settled"}]
        /\ settlement \in [Runs -> {"none", "answer", "error", "upstream"}]
        /\ phase \in [Runs -> {"prepared", "send_activated", "accepted"}]
        /\ prompt \in [Runs -> {"none", "compiling", "held", "released"}]
        /\ child \in Helpers \cup {None} /\ ready \in BOOLEAN /\ closed \in BOOLEAN
      BY DEF HelperInit
  <2>5. /\ proc \in [Helpers -> {"unborn", "up", "closing", "dead"}]
        /\ home \in [Runs -> Helpers \cup {None}]
        /\ worker \in [Runs -> Working \cup Over \cup {"leasing", "ending"}]
        /\ verdict \in [Runs -> {"none", "completed", "failed", "upstream", "aborted"}]
        /\ lease \in [Traces -> Helpers \cup {None}]
      BY DEF HelperInit, Over
  <2> QED
      BY <2>2, <2>3, <2>4, <2>5 DEF StateTyped
<1>2. FlagsTyped
    BY DEF HelperInit, FlagsTyped
<1>3. TypeOK
    BY <1>1, <1>2, TypeParts
<1>4. \A c \in Helpers : input[c] = <<>>
    BY DEF HelperInit
<1>5. ClientSound
    BY <1>4 DEF HelperInit, ClientSound, None
<1>6. PromptsAreReleased /\ HandedSound /\ RetriesSound /\ OutputSound /\ RefusalsTold
    BY DEF HelperInit, PromptsAreReleased, HandedSound, RetriesSound, OutputSound, RefusalsTold
<1>7. InputSound
    BY <1>4 DEF InputSound
<1>8. WorkSound /\ LeaveSound /\ OutcomeSound /\ AbortSound
    BY DEF HelperInit, WorkSound, LeaveSound, Left, OutcomeSound, AbortSound, Over
<1> QED
    BY <1>3, <1>5, <1>6, <1>7, <1>8 DEF HelperSound

(* Every step keeps it.                                                        *)
LEMMA HelperSoundStep == HelperSound /\ [HelperNext]_allVars => HelperSound'
<1> SUFFICES ASSUME HelperSound, [HelperNext]_allVars PROVE HelperSound'
    OBVIOUS
<1> USE DEF HelperSound
<1>1. TypeOK'
    BY TypeStep
<1>2. ClientSound'
    BY <1>1, ClientStep
<1>3. PromptsAreReleased' /\ HandedSound' /\ RetriesSound' /\ InputSound'
    BY <1>1, <1>2, PromptsStep, HandedStep, RetriesStep, InputStep
<1>4. OutputSound' /\ RefusalsTold'
    BY <1>1, OutputStep, RefusalsStep
<1>5. WorkSound' /\ LeaveSound' /\ OutcomeSound' /\ AbortSound'
    BY <1>1, <1>2, WorkStep, LeaveStep, OutcomeStep, AbortStep
<1> QED
    BY <1>1, <1>2, <1>3, <1>4, <1>5

(* A run was pressed, and so was one before it: the first was answered by an   *)
(* error of ChatGPT.                                                           *)
LEMMA SubmittedOnceHolds ==
    ASSUME HelperSound
    PROVE  SubmittedOnce
<1> USE DEF HelperSound
<1> SUFFICES ASSUME NEW q \in Runs, NEW r \in Runs, q < r, Trace[q] = Trace[r], pressed[q], pressed[r]
             PROVE  settlement[q] = "upstream"
    BY DEF SubmittedOnce
<1>1. worker[r] \in {"submitting", "answering", "ending", "done"}
    BY DEF LeaveSound
<1>2. run[r] # "new"
    BY <1>1 DEF ClientSound
<1>3. Retryable(q)
    BY <1>2 DEF RetriesSound
<1>4. CASE phase[q] # "prepared"
    BY <1>3, <1>4 DEF Retryable
<1>5. CASE phase[q] = "prepared"
  <2>1. LeaveOfAnother(q)
      BY <1>5 DEF LeaveSound, Left
  <2>2. PICK x \in Runs :
           /\ q < x /\ Trace[x] = Trace[q]
           /\ worker[x] = "refused" /\ phase[x] # "prepared"
           /\ \A s \in Runs : q < s /\ s < x /\ Trace[s] = Trace[q] => worker[s] \in {"none", "refused"}
      BY <2>1 DEF LeaveOfAnother
  <2>3. q \in Int /\ r \in Int /\ x \in Int
      BY RunsAssumption
  <2>4. CASE r < x
      BY <1>1, <2>2, <2>4
  <2>5. CASE r = x
      BY <1>1, <2>2, <2>5
  <2>6. CASE x < r
    <3>1. Retryable(x)
        BY <1>2, <2>2, <2>6 DEF RetriesSound
    <3>2. settlement[x] = "upstream"
        BY <2>2, <3>1 DEF Retryable
    <3> QED
        BY <2>2, <3>2 DEF OutcomeSound
  <2> QED
      BY <2>3, <2>4, <2>5, <2>6
<1> QED
    BY <1>4, <1>5

(* A task is submitted to ChatGPT once unless ChatGPT failed it, a turn that    *)
(* was aborted before the adapter heard of Send is never submitted, a prompt    *)
(* is released when its turn is over, and an answer is told only of a tab that  *)
(* was taken back, for any number of turns, retries and helpers that die        *)
(* (launcher-helper-client.ts and browser-helper-main.ts).                      *)
THEOREM TasksReachChatGPTOnce == HelperSpec => []HelperHolds
<1>1. HelperSound => HelperHolds
  <2>1. ASSUME HelperSound PROVE AbortHolds /\ AnsweredIsReleased
      BY <2>1 DEF HelperSound, AbortHolds, AbortSound, AnsweredIsReleased, OutcomeSound
  <2> QED
      BY <2>1, SubmittedOnceHolds DEF HelperHolds, HelperSound
<1> QED
    BY <1>1, HelperSoundInit, HelperSoundStep, PTL DEF HelperSpec

--------------------------------------------------------------------------------
(* The composer *)

(* Where nothing was written yet, or everything was undone.                      *)
Quiet == {"start", "personalize", "plus", "picking", "choosing", "opening", "toggling", "judging",
          "resetting", "dismissing"}

(* Where a menu of the page may be open.                                         *)
Menued == {"choosing", "opening", "toggling", "restoring", "dismissing", "failed"}

(* What the composer holds, by the step of the attachment.                       *)
Written ==
    /\ (step \in Quiet \/ (step = "restoring" /\ failure # "persistent")) => composer = Empty
    /\ step = "proving" => composer.text \notin {"prompt", "part"}
    /\ (step = "clearing" /\ failure \in {"none", "stale"}) => composer.text \notin {"prompt", "part"}
    /\ step \in {"inserting", "verifying", "attached"} => submitted \/ composer.pill = want.connector
    /\ step = "attached" => composer.text = "prompt" /\ ~submitted

(* What was opened or changed on the page, and what will undo it.                *)
Undone ==
    /\ step \notin Menued => ~personal.menu
    /\ receipt # "none" => step \in {"toggling", "proving", "clearing", "judging", "restoring"}
    /\ step = "toggling" => receipt # "none"
    /\ step \in {"start", "plus", "picking", "personalize"} => proofs = 0
    /\ FailedIsClean

(* The connector is looked for only where it is wanted, and no step goes on      *)
(* with an error.                                                                *)
Wanted ==
    /\ step \in {"personalize", "choosing", "opening", "toggling", "proving", "judging", "plus",
                 "picking", "selecting", "activating"} => want.connector
    /\ (step = "clearing" /\ failure = "none") => want.connector
    /\ step \in Watching \cup {"unused", "attached"} => failure = "none"

(* What somebody else submitted leaves nothing behind, and is not tried again.   *)
ByHand ==
    submitted =>
        /\ step \in {"verifying", "clearing", "resetting", "restoring", "failed"}
        /\ step = "verifying" => composer = Empty
        /\ step = "clearing" => failure # "none"
        /\ failure # "stale"

ComposerSound == ComposerTypeOK /\ Written /\ Undone /\ Wanted /\ ByHand

(* The handlers, one fact for each kind of step.                                 *)
LEMMA Handlers ==
    /\ Catch["choosing"] = "dismissing" /\ Catch["opening"] = "dismissing"
    /\ Catch["toggling"] = "restoring"
    /\ \A s \in {"proving", "picking", "selecting", "activating", "inserting", "verifying"} :
          Catch[s] = "clearing"
    /\ Catch["judging"] = IF receipt # "none" THEN "restoring" ELSE "failed"
    /\ \A s \in {"start", "personalize", "plus", "resetting"} : Catch[s] = "failed"
BY DEF Catch, Steps

(* The empty composer has neither text nor connector.                             *)
LEMMA EmptyIs == Empty.text = "" /\ Empty.pill = FALSE
BY DEF Empty

(* The parts of the composer's types.                                            *)
Composers == [text : {"", "mention", "prompt", "part"}, pill : BOOLEAN]
Chats     == [control : {"labelled", "structural", "none"}, on : BOOLEAN, menu : BOOLEAN]
Wants     == [connector : BOOLEAN, menu : BOOLEAN, compaction : BOOLEAN, refresh : BOOLEAN]
Counts    == proofs \in 0..2 /\ triggers \in 0..MaxTriggers
Steady    == catalog \in {"listed", "stale", "renamed"} /\ submitted \in BOOLEAN
             /\ retryLeft \in BOOLEAN /\ halted \in BOOLEAN
Standing  == step \in Steps /\ proof \in {"none", "trying", "shown", "hidden"}
             /\ receipt \in {"none", "on", "off"} /\ failure \in Errors \cup {"none"}

(* The composer's types are the types of its parts, now and after a step.      *)
LEMMA ComposerTypes ==
    ComposerTypeOK <=> /\ composer \in Composers /\ personal \in Chats /\ want \in Wants
                       /\ Counts /\ Steady /\ Standing
BY DEF ComposerTypeOK, Composers, Chats, Wants, Counts, Steady, Standing

LEMMA ComposerTypesNext ==
    ComposerTypeOK' <=> /\ composer' \in Composers /\ personal' \in Chats /\ want' \in Wants
                        /\ Counts' /\ Steady' /\ Standing'
BY DEF ComposerTypeOK, Composers, Chats, Wants, Counts, Steady, Standing

(* What a step writes into an empty composer is a composer.                    *)
LEMMA Picked == Empty \in Composers /\ [text |-> "", pill |-> TRUE] \in Composers
BY DEF Composers, Empty

(* Each step keeps the types of the composer: what it holds,                   *)
LEMMA WritesComposer == ComposerSound /\ (ComposerStep \/ SubmittedByHand \/ Halt)
                            => composer' \in Composers
<1> USE ComposerTypes, Picked
       DEF ComposerSound, Throw, Stay, Go
<1>1. ASSUME ComposerSound, PicksRow PROVE composer' \in Composers
    BY <1>1 DEF PicksRow, Composers
<1>2. ASSUME ComposerSound, PickUnproven PROVE composer' \in Composers
    BY <1>2 DEF PickUnproven, Composers
<1>3. ASSUME ComposerSound, StepThrows \/ StartsPlain \/ StartsMenu \/ StartsMention \/ PlusOpens
           \/ MenuUnavailable \/ LabelSaysOn \/ OpensChoice
      PROVE  composer' \in Composers
    BY <1>3 DEF StepThrows, StartsPlain, StartsMenu, StartsMention, PlusOpens, MenuUnavailable,
       LabelSaysOn, OpensChoice
<1>4. ASSUME ComposerSound, Prove PROVE composer' \in Composers
    BY <1>4 DEF Prove, Composers
<1>5. ASSUME ComposerSound, ProofHides PROVE composer' \in Composers
    BY <1>5 DEF ProofHides, Composers
<1>6. ASSUME ComposerSound, Chooses \/ ProofShows \/ Proven \/ NotAvailable \/ OpensToggle \/ Toggles
           \/ ToggleUnproven \/ Restores
      PROVE  composer' \in Composers
    BY <1>6 DEF Chooses, ProofShows, Proven, NotAvailable, OpensToggle, Toggles, ToggleUnproven, Restores
<1>7. ASSUME ComposerSound, Triggers PROVE composer' \in Composers
    BY <1>7 DEF Triggers, Composers
<1>8. ASSUME ComposerSound, ActivationUnproven PROVE composer' \in Composers
    BY <1>8 DEF ActivationUnproven, Composers
<1>9. ASSUME ComposerSound, Inserts PROVE composer' \in Composers
    BY <1>9 DEF Inserts, Composers
<1>10. ASSUME ComposerSound, Dismisses \/ Clears \/ BudgetSpent \/ Activates \/ InsertRejected
           \/ ReadsBack \/ RetryBegins \/ RetryResets
      PROVE  composer' \in Composers
    BY <1>10 DEF Dismisses, Clears, BudgetSpent, Activates, InsertRejected, ReadsBack, RetryBegins,
       RetryResets
<1>11. ASSUME ComposerSound, SubmittedByHand \/ Halt
      PROVE  composer' \in Composers
    BY <1>11 DEF SubmittedByHand, Halt
<1> QED
    BY <1>1, <1>2, <1>3, <1>4, <1>5, <1>6, <1>7, <1>8, <1>9, <1>10, <1>11 DEF ComposerStep

(* what is open of the page's own menus,                                       *)
LEMMA OpensChat == ComposerSound /\ (ComposerStep \/ SubmittedByHand \/ Halt) => personal' \in Chats
<1> USE ComposerTypes
       DEF ComposerSound, Throw, Stay, Go
<1>1. ASSUME ComposerSound, StepThrows \/ StartsPlain \/ StartsMenu \/ StartsMention \/ PlusOpens
           \/ MenuUnavailable \/ PicksRow \/ PickUnproven
      PROVE  personal' \in Chats
    BY <1>1 DEF StepThrows, StartsPlain, StartsMenu, StartsMention, PlusOpens, MenuUnavailable, PicksRow,
       PickUnproven
<1>2. ASSUME ComposerSound, OpensChoice PROVE personal' \in Chats
    BY <1>2 DEF OpensChoice, Chats
<1>3. ASSUME ComposerSound, Chooses PROVE personal' \in Chats
    BY <1>3 DEF Chooses, Chats
<1>4. ASSUME ComposerSound, OpensToggle PROVE personal' \in Chats
    BY <1>4 DEF OpensToggle, Chats
<1>5. ASSUME ComposerSound, Toggles PROVE personal' \in Chats
    BY <1>5 DEF Toggles, Chats
<1>6. ASSUME ComposerSound, Restores PROVE personal' \in Chats
    BY <1>6 DEF Restores, Chats
<1>7. ASSUME ComposerSound, Dismisses PROVE personal' \in Chats
    BY <1>7 DEF Dismisses, Chats
<1>8. ASSUME ComposerSound, LabelSaysOn \/ Prove \/ ProofShows \/ ProofHides \/ Proven \/ NotAvailable
           \/ ToggleUnproven \/ Clears
      PROVE  personal' \in Chats
    BY <1>8 DEF LabelSaysOn, Prove, ProofShows, ProofHides, Proven, NotAvailable, ToggleUnproven, Clears
<1>9. ASSUME ComposerSound, Triggers \/ BudgetSpent \/ Activates \/ ActivationUnproven \/ Inserts
           \/ InsertRejected \/ ReadsBack \/ RetryBegins
      PROVE  personal' \in Chats
    BY <1>9 DEF Triggers, BudgetSpent, Activates, ActivationUnproven, Inserts, InsertRejected, ReadsBack,
       RetryBegins
<1>10. ASSUME ComposerSound, RetryResets \/ SubmittedByHand \/ Halt
      PROVE  personal' \in Chats
    BY <1>10 DEF RetryResets, SubmittedByHand, Halt
<1> QED
    BY <1>1, <1>2, <1>3, <1>4, <1>5, <1>6, <1>7, <1>8, <1>9, <1>10 DEF ComposerStep

(* the counters, within their bounds,                                          *)
LEMMA CountsKept == ComposerSound /\ (ComposerStep \/ SubmittedByHand \/ Halt) => Counts'
<1> USE ComposerTypes, TriggersAssumption
       DEF ComposerSound, Throw, Stay, Go, Counts
<1>1. ASSUME ComposerSound, StepThrows \/ StartsPlain \/ StartsMenu \/ StartsMention \/ PlusOpens
           \/ MenuUnavailable
      PROVE  Counts'
    BY <1>1 DEF StepThrows, StartsPlain, StartsMenu, StartsMention, PlusOpens, MenuUnavailable
<1>2. ASSUME ComposerSound, Prove PROVE Counts'
    BY <1>2 DEF Prove, Undone
<1>3. ASSUME ComposerSound, PicksRow \/ PickUnproven \/ LabelSaysOn \/ OpensChoice \/ Chooses
           \/ ProofShows
      PROVE  Counts'
    BY <1>3 DEF PicksRow, PickUnproven, LabelSaysOn, OpensChoice, Chooses, ProofShows
<1>4. ASSUME ComposerSound, ProofHides \/ Proven \/ NotAvailable \/ OpensToggle \/ Toggles
           \/ ToggleUnproven
      PROVE  Counts'
    BY <1>4 DEF ProofHides, Proven, NotAvailable, OpensToggle, Toggles, ToggleUnproven
<1>5. ASSUME ComposerSound, Triggers PROVE Counts'
    BY <1>5 DEF Triggers
<1>6. ASSUME ComposerSound, Restores \/ Dismisses \/ Clears \/ BudgetSpent \/ Activates
           \/ ActivationUnproven
      PROVE  Counts'
    BY <1>6 DEF Restores, Dismisses, Clears, BudgetSpent, Activates, ActivationUnproven
<1>7. ASSUME ComposerSound, Inserts \/ InsertRejected \/ ReadsBack \/ RetryBegins \/ RetryResets
           \/ SubmittedByHand
      PROVE  Counts'
    BY <1>7 DEF Inserts, InsertRejected, ReadsBack, RetryBegins, RetryResets, SubmittedByHand
<1>8. ASSUME ComposerSound, Halt PROVE Counts'
    BY <1>8 DEF Halt
<1> QED
    BY <1>1, <1>2, <1>3, <1>4, <1>5, <1>6, <1>7, <1>8 DEF ComposerStep

(* what a message wants and what the page offers,                              *)
LEMMA SteadyKept == ComposerSound /\ (ComposerStep \/ SubmittedByHand \/ Halt) => Steady' /\ want' \in Wants
<1> USE ComposerTypes
       DEF ComposerSound, Throw, Stay, Go, Steady
<1>1. ASSUME ComposerSound, StepThrows \/ StartsPlain \/ StartsMenu \/ StartsMention \/ PlusOpens
           \/ MenuUnavailable \/ PicksRow \/ PickUnproven
      PROVE  Steady' /\ want' \in Wants
    BY <1>1 DEF StepThrows, StartsPlain, StartsMenu, StartsMention, PlusOpens, MenuUnavailable, PicksRow,
       PickUnproven
<1>2. ASSUME ComposerSound, LabelSaysOn \/ OpensChoice \/ Chooses \/ Prove \/ ProofShows \/ ProofHides
           \/ Proven \/ NotAvailable
      PROVE  Steady' /\ want' \in Wants
    BY <1>2 DEF LabelSaysOn, OpensChoice, Chooses, Prove, ProofShows, ProofHides, Proven, NotAvailable
<1>3. ASSUME ComposerSound, OpensToggle \/ Toggles \/ ToggleUnproven \/ Restores \/ Dismisses \/ Clears
           \/ Triggers \/ BudgetSpent
      PROVE  Steady' /\ want' \in Wants
    BY <1>3 DEF OpensToggle, Toggles, ToggleUnproven, Restores, Dismisses, Clears, Triggers, BudgetSpent
<1>4. ASSUME ComposerSound, Activates \/ ActivationUnproven \/ Inserts \/ InsertRejected \/ ReadsBack
           \/ RetryBegins \/ RetryResets \/ SubmittedByHand
      PROVE  Steady' /\ want' \in Wants
    BY <1>4 DEF Activates, ActivationUnproven, Inserts, InsertRejected, ReadsBack, RetryBegins,
       RetryResets, SubmittedByHand
<1>5. ASSUME ComposerSound, Halt PROVE Steady' /\ want' \in Wants
    BY <1>5 DEF Halt
<1> QED
    BY <1>1, <1>2, <1>3, <1>4, <1>5 DEF ComposerStep

(* and where the attachment stands.                                            *)
LEMMA StandingKept == ComposerSound /\ (ComposerStep \/ SubmittedByHand \/ Halt) => Standing'
<1> USE ComposerTypes, Handlers
       DEF ComposerSound, Throw, Stay, Go, Standing, Steps, Errors, Watching
<1>1. ASSUME ComposerSound, StepThrows \/ StartsPlain
      PROVE  Standing'
    BY <1>1 DEF StepThrows, StartsPlain
<1>2. ASSUME ComposerSound, StartsMenu \/ StartsMention
      PROVE  Standing'
    BY <1>2 DEF StartsMenu, StartsMention
<1>3. ASSUME ComposerSound, PlusOpens \/ MenuUnavailable
      PROVE  Standing'
    BY <1>3 DEF PlusOpens, MenuUnavailable
<1>4. ASSUME ComposerSound, PicksRow \/ PickUnproven
      PROVE  Standing'
    BY <1>4 DEF PicksRow, PickUnproven
<1>5. ASSUME ComposerSound, LabelSaysOn \/ OpensChoice
      PROVE  Standing'
    BY <1>5 DEF LabelSaysOn, OpensChoice
<1>6. ASSUME ComposerSound, Chooses \/ Prove
      PROVE  Standing'
    BY <1>6 DEF Chooses, Prove
<1>7. ASSUME ComposerSound, ProofShows \/ ProofHides
      PROVE  Standing'
    BY <1>7 DEF ProofShows, ProofHides
<1>8. ASSUME ComposerSound, Proven \/ NotAvailable
      PROVE  Standing'
    BY <1>8 DEF Proven, NotAvailable
<1>9. ASSUME ComposerSound, OpensToggle \/ Toggles
      PROVE  Standing'
    BY <1>9 DEF OpensToggle, Toggles
<1>10. ASSUME ComposerSound, Restores PROVE Standing'
    BY <1>10 DEF Restores
<1>11. ASSUME ComposerSound, Dismisses PROVE Standing'
    BY <1>11 DEF Dismisses
<1>12. ASSUME ComposerSound, Clears PROVE Standing'
    BY <1>12 DEF Clears, AfterClearing
<1>13. ASSUME ComposerSound, Triggers PROVE Standing'
    BY <1>13 DEF Triggers
<1>14. ASSUME ComposerSound, ToggleUnproven \/ BudgetSpent
      PROVE  Standing'
    BY <1>14 DEF ToggleUnproven, BudgetSpent
<1>15. ASSUME ComposerSound, Activates PROVE Standing'
    BY <1>15 DEF Activates
<1>16. ASSUME ComposerSound, ActivationUnproven PROVE Standing'
    BY <1>16 DEF ActivationUnproven
<1>17. ASSUME ComposerSound, Inserts PROVE Standing'
    BY <1>17 DEF Inserts
<1>18. ASSUME ComposerSound, InsertRejected \/ ReadsBack
      PROVE  Standing'
    BY <1>18 DEF InsertRejected, ReadsBack
<1>19. ASSUME ComposerSound, RetryBegins \/ RetryResets
      PROVE  Standing'
    BY <1>19 DEF RetryBegins, RetryResets
<1>20. ASSUME ComposerSound, SubmittedByHand \/ Halt
      PROVE  Standing'
    BY <1>20 DEF SubmittedByHand, Halt
<1> QED
    BY <1>1, <1>2, <1>3, <1>4, <1>5, <1>6, <1>7, <1>8, <1>9, <1>10, <1>11, <1>12, <1>13, <1>14, <1>15,
       <1>16, <1>17, <1>18, <1>19, <1>20 DEF ComposerStep

(* After each step the composer holds what its step says;                      *)
LEMMA WrittenKeeps == ComposerSound /\ (ComposerStep \/ SubmittedByHand \/ Halt) => Written'
<1> USE Handlers
       DEF Written, Wanted, Undone, ByHand, FailedIsClean, Quiet, Watching, Empty, ComposerSound, Throw,
           Stay, Go
<1>1. ASSUME ComposerSound, StepThrows PROVE Written'
    BY <1>1 DEF StepThrows
<1>2. ASSUME ComposerSound, StartsPlain PROVE Written'
    BY <1>2 DEF StartsPlain, ComposerTypeOK
<1>3. ASSUME ComposerSound, StartsMenu \/ StartsMention
      PROVE  Written'
    BY <1>3 DEF StartsMenu, StartsMention
<1>4. ASSUME ComposerSound, PlusOpens \/ MenuUnavailable
      PROVE  Written'
    BY <1>4 DEF PlusOpens, MenuUnavailable
<1>5. ASSUME ComposerSound, PicksRow \/ PickUnproven
      PROVE  Written'
    BY <1>5 DEF PicksRow, PickUnproven
<1>6. ASSUME ComposerSound, LabelSaysOn \/ OpensChoice
      PROVE  Written'
    BY <1>6 DEF LabelSaysOn, OpensChoice
<1>7. ASSUME ComposerSound, Chooses \/ Prove
      PROVE  Written'
    BY <1>7 DEF Chooses, Prove, ComposerTypeOK
<1>8. ASSUME ComposerSound, ProofShows \/ ProofHides
      PROVE  Written'
    BY <1>8 DEF ProofShows, ProofHides
<1>9. ASSUME ComposerSound, Proven \/ NotAvailable
      PROVE  Written'
    BY <1>9 DEF Proven, NotAvailable
<1>10. ASSUME ComposerSound, OpensToggle \/ Toggles
      PROVE  Written'
    BY <1>10 DEF OpensToggle, Toggles
<1>11. ASSUME ComposerSound, ToggleUnproven \/ Restores
      PROVE  Written'
    BY <1>11 DEF ToggleUnproven, Restores, ComposerTypeOK
<1>12. ASSUME ComposerSound, Dismisses \/ Clears
      PROVE  Written'
    BY <1>12 DEF Dismisses, Clears, ComposerTypeOK, AfterClearing
<1>13. ASSUME ComposerSound, Triggers PROVE Written'
    BY <1>13 DEF Triggers, ComposerTypeOK
<1>14. ASSUME ComposerSound, Activates PROVE Written'
    BY <1>14 DEF Activates
<1>15. ASSUME ComposerSound, ActivationUnproven PROVE Written'
    BY <1>15 DEF ActivationUnproven
<1>16. ASSUME ComposerSound, Inserts PROVE Written'
    BY <1>16 DEF Inserts
<1>17. ASSUME ComposerSound, BudgetSpent \/ InsertRejected
      PROVE  Written'
    BY <1>17 DEF BudgetSpent, InsertRejected
<1>18. ASSUME ComposerSound, ReadsBack PROVE Written'
  <2>0. composer = Empty => composer.text = ""
      BY EmptyIs
  <2>1. CASE composer.text = "prompt"
    <3>1. ~submitted
        BY <1>18, <2>0, <2>1 DEF ReadsBack, Written, ByHand
    <3> QED
        BY <1>18, <2>1, <3>1 DEF ReadsBack
  <2>2. CASE composer.text # "prompt"
      BY <1>18, <2>2 DEF ReadsBack
  <2> QED
      BY <2>1, <2>2
<1>19. ASSUME ComposerSound, RetryBegins PROVE Written'
    BY <1>19 DEF RetryBegins
<1>20. ASSUME ComposerSound, RetryResets \/ SubmittedByHand
      PROVE  Written'
    BY <1>20 DEF RetryResets, SubmittedByHand
<1>21. ASSUME ComposerSound, Halt PROVE Written'
    BY <1>21 DEF Halt
<1> QED
    BY <1>1, <1>2, <1>3, <1>4, <1>5, <1>6, <1>7, <1>8, <1>9, <1>10, <1>11, <1>12, <1>13, <1>14, <1>15,
       <1>16, <1>17, <1>18, <1>19, <1>20, <1>21 DEF ComposerStep

(* what was changed on the page is undone, or will be;                         *)
LEMMA UndoneKeeps == ComposerSound /\ (ComposerStep \/ SubmittedByHand \/ Halt) => Undone'
<1> USE Handlers
       DEF Written, Wanted, Undone, FailedIsClean, Quiet, Menued, Watching, Empty, ComposerSound, Throw,
           Stay, Go
<1>1. ASSUME ComposerSound, StepThrows PROVE Undone'
    BY <1>1 DEF StepThrows
<1>2. ASSUME ComposerSound, StartsPlain PROVE Undone'
    BY <1>2 DEF StartsPlain, ComposerTypeOK
<1>3. ASSUME ComposerSound, StartsMenu \/ StartsMention
      PROVE  Undone'
    BY <1>3 DEF StartsMenu, StartsMention
<1>4. ASSUME ComposerSound, PlusOpens \/ MenuUnavailable
      PROVE  Undone'
    BY <1>4 DEF PlusOpens, MenuUnavailable
<1>5. ASSUME ComposerSound, PicksRow \/ PickUnproven
      PROVE  Undone'
    BY <1>5 DEF PicksRow, PickUnproven
<1>6. ASSUME ComposerSound, LabelSaysOn \/ OpensChoice
      PROVE  Undone'
    BY <1>6 DEF LabelSaysOn, OpensChoice
<1>7. ASSUME ComposerSound, Chooses \/ Prove
      PROVE  Undone'
    BY <1>7 DEF Chooses, Prove, ComposerTypeOK
<1>8. ASSUME ComposerSound, ProofShows \/ ProofHides
      PROVE  Undone'
    BY <1>8 DEF ProofShows, ProofHides
<1>9. ASSUME ComposerSound, Proven \/ NotAvailable
      PROVE  Undone'
    BY <1>9 DEF Proven, NotAvailable
<1>10. ASSUME ComposerSound, OpensToggle \/ Toggles
      PROVE  Undone'
    BY <1>10 DEF OpensToggle, Toggles
<1>11. ASSUME ComposerSound, ToggleUnproven \/ Restores
      PROVE  Undone'
    BY <1>11 DEF ToggleUnproven, Restores, ComposerTypeOK
<1>12. ASSUME ComposerSound, Dismisses \/ Clears
      PROVE  Undone'
    BY <1>12 DEF Dismisses, Clears, ComposerTypeOK, AfterClearing
<1>13. ASSUME ComposerSound, Triggers PROVE Undone'
    BY <1>13 DEF Triggers, ComposerTypeOK
<1>14. ASSUME ComposerSound, Activates PROVE Undone'
    BY <1>14 DEF Activates
<1>15. ASSUME ComposerSound, ActivationUnproven PROVE Undone'
    BY <1>15 DEF ActivationUnproven
<1>16. ASSUME ComposerSound, Inserts PROVE Undone'
    BY <1>16 DEF Inserts
<1>17. ASSUME ComposerSound, BudgetSpent \/ InsertRejected
      PROVE  Undone'
    BY <1>17 DEF BudgetSpent, InsertRejected
<1>18. ASSUME ComposerSound, RetryBegins PROVE Undone'
    BY <1>18 DEF RetryBegins
<1>19. ASSUME ComposerSound, ReadsBack \/ RetryResets
      PROVE  Undone'
    BY <1>19 DEF ReadsBack, RetryResets, ComposerTypeOK
<1>20. ASSUME ComposerSound, SubmittedByHand \/ Halt
      PROVE  Undone'
    BY <1>20 DEF SubmittedByHand, Halt
<1> QED
    BY <1>1, <1>2, <1>3, <1>4, <1>5, <1>6, <1>7, <1>8, <1>9, <1>10, <1>11, <1>12, <1>13, <1>14, <1>15,
       <1>16, <1>17, <1>18, <1>19, <1>20 DEF ComposerStep

(* the connector is looked for only where it is wanted;                        *)
LEMMA WantedKeeps == ComposerSound /\ (ComposerStep \/ SubmittedByHand \/ Halt) => Wanted'
<1> USE Handlers
       DEF Wanted, Watching, ComposerSound, Throw, Stay, Go
<1>1. ASSUME ComposerSound, StepThrows PROVE Wanted'
    BY <1>1 DEF StepThrows
<1>2. ASSUME ComposerSound, StartsPlain PROVE Wanted'
    BY <1>2 DEF StartsPlain, ComposerTypeOK
<1>3. ASSUME ComposerSound, StartsMenu \/ StartsMention
      PROVE  Wanted'
    BY <1>3 DEF StartsMenu, StartsMention
<1>4. ASSUME ComposerSound, PlusOpens \/ MenuUnavailable
      PROVE  Wanted'
    BY <1>4 DEF PlusOpens, MenuUnavailable
<1>5. ASSUME ComposerSound, PicksRow \/ PickUnproven
      PROVE  Wanted'
    BY <1>5 DEF PicksRow, PickUnproven
<1>6. ASSUME ComposerSound, LabelSaysOn \/ OpensChoice
      PROVE  Wanted'
    BY <1>6 DEF LabelSaysOn, OpensChoice
<1>7. ASSUME ComposerSound, Chooses \/ Prove
      PROVE  Wanted'
    BY <1>7 DEF Chooses, Prove, ComposerTypeOK
<1>8. ASSUME ComposerSound, ProofShows \/ ProofHides
      PROVE  Wanted'
    BY <1>8 DEF ProofShows, ProofHides
<1>9. ASSUME ComposerSound, Proven \/ NotAvailable
      PROVE  Wanted'
    BY <1>9 DEF Proven, NotAvailable
<1>10. ASSUME ComposerSound, OpensToggle \/ Toggles
      PROVE  Wanted'
    BY <1>10 DEF OpensToggle, Toggles
<1>11. ASSUME ComposerSound, ToggleUnproven \/ Restores
      PROVE  Wanted'
    BY <1>11 DEF ToggleUnproven, Restores, ComposerTypeOK
<1>12. ASSUME ComposerSound, Dismisses \/ Clears
      PROVE  Wanted'
    BY <1>12 DEF Dismisses, Clears, ComposerTypeOK, AfterClearing
<1>13. ASSUME ComposerSound, Triggers PROVE Wanted'
    BY <1>13 DEF Triggers, ComposerTypeOK
<1>14. ASSUME ComposerSound, Activates PROVE Wanted'
    BY <1>14 DEF Activates
<1>15. ASSUME ComposerSound, ActivationUnproven PROVE Wanted'
    BY <1>15 DEF ActivationUnproven
<1>16. ASSUME ComposerSound, Inserts PROVE Wanted'
    BY <1>16 DEF Inserts
<1>17. ASSUME ComposerSound, BudgetSpent \/ InsertRejected
      PROVE  Wanted'
    BY <1>17 DEF BudgetSpent, InsertRejected
<1>18. ASSUME ComposerSound, RetryBegins PROVE Wanted'
    BY <1>18 DEF RetryBegins
<1>19. ASSUME ComposerSound, ReadsBack \/ RetryResets
      PROVE  Wanted'
    BY <1>19 DEF ReadsBack, RetryResets, ComposerTypeOK
<1>20. ASSUME ComposerSound, SubmittedByHand \/ Halt
      PROVE  Wanted'
    BY <1>20 DEF SubmittedByHand, Halt
<1> QED
    BY <1>1, <1>2, <1>3, <1>4, <1>5, <1>6, <1>7, <1>8, <1>9, <1>10, <1>11, <1>12, <1>13, <1>14, <1>15,
       <1>16, <1>17, <1>18, <1>19, <1>20 DEF ComposerStep

(* and what somebody else submitted stays so.                                  *)
LEMMA ByHandKeeps == ComposerSound /\ (ComposerStep \/ SubmittedByHand \/ Halt) => ByHand'
<1> USE Handlers
       DEF Written, Wanted, ByHand, Quiet, Watching, Undone, FailedIsClean, Empty, ComposerSound, Throw,
           Stay, Go
<1>1. ASSUME ComposerSound, StepThrows PROVE ByHand'
    BY <1>1 DEF StepThrows
<1>2. ASSUME ComposerSound, StartsPlain PROVE ByHand'
    BY <1>2 DEF StartsPlain, ComposerTypeOK
<1>3. ASSUME ComposerSound, StartsMenu \/ StartsMention
      PROVE  ByHand'
    BY <1>3 DEF StartsMenu, StartsMention
<1>4. ASSUME ComposerSound, PlusOpens \/ MenuUnavailable
      PROVE  ByHand'
    BY <1>4 DEF PlusOpens, MenuUnavailable
<1>5. ASSUME ComposerSound, PicksRow \/ PickUnproven
      PROVE  ByHand'
    BY <1>5 DEF PicksRow, PickUnproven
<1>6. ASSUME ComposerSound, LabelSaysOn \/ OpensChoice
      PROVE  ByHand'
    BY <1>6 DEF LabelSaysOn, OpensChoice
<1>7. ASSUME ComposerSound, Chooses \/ Prove
      PROVE  ByHand'
    BY <1>7 DEF Chooses, Prove, ComposerTypeOK
<1>8. ASSUME ComposerSound, ProofShows \/ ProofHides
      PROVE  ByHand'
    BY <1>8 DEF ProofShows, ProofHides
<1>9. ASSUME ComposerSound, Proven \/ NotAvailable
      PROVE  ByHand'
    BY <1>9 DEF Proven, NotAvailable
<1>10. ASSUME ComposerSound, OpensToggle \/ Toggles
      PROVE  ByHand'
    BY <1>10 DEF OpensToggle, Toggles
<1>11. ASSUME ComposerSound, ToggleUnproven \/ Restores
      PROVE  ByHand'
    BY <1>11 DEF ToggleUnproven, Restores, ComposerTypeOK
<1>12. ASSUME ComposerSound, Dismisses \/ Clears
      PROVE  ByHand'
    BY <1>12 DEF Dismisses, Clears, ComposerTypeOK, AfterClearing
<1>13. ASSUME ComposerSound, Triggers PROVE ByHand'
    BY <1>13 DEF Triggers, ComposerTypeOK
<1>14. ASSUME ComposerSound, Activates PROVE ByHand'
    BY <1>14 DEF Activates
<1>15. ASSUME ComposerSound, ActivationUnproven PROVE ByHand'
    BY <1>15 DEF ActivationUnproven
<1>16. ASSUME ComposerSound, Inserts PROVE ByHand'
    BY <1>16 DEF Inserts
<1>17. ASSUME ComposerSound, BudgetSpent \/ InsertRejected
      PROVE  ByHand'
    BY <1>17 DEF BudgetSpent, InsertRejected
<1>18. ASSUME ComposerSound, ReadsBack PROVE ByHand'
  <2>0. composer = Empty => composer.text = ""
      BY EmptyIs
  <2>1. CASE composer.text = "prompt"
    <3>1. ~submitted
        BY <1>18, <2>0, <2>1 DEF ReadsBack, Written, ByHand
    <3> QED
        BY <1>18, <2>1, <3>1 DEF ReadsBack
  <2>2. CASE composer.text # "prompt"
      BY <1>18, <2>2 DEF ReadsBack
  <2> QED
      BY <2>1, <2>2
<1>19. ASSUME ComposerSound, RetryBegins PROVE ByHand'
    BY <1>19 DEF RetryBegins
<1>20. ASSUME ComposerSound, RetryResets \/ SubmittedByHand
      PROVE  ByHand'
    BY <1>20 DEF RetryResets, SubmittedByHand
<1>21. ASSUME ComposerSound, Halt PROVE ByHand'
    BY <1>21 DEF Halt
<1> QED
    BY <1>1, <1>2, <1>3, <1>4, <1>5, <1>6, <1>7, <1>8, <1>9, <1>10, <1>11, <1>12, <1>13, <1>14, <1>15,
       <1>16, <1>17, <1>18, <1>19, <1>20, <1>21 DEF ComposerStep

(* So a step of the composer, or of somebody else at it, keeps what holds of it. *)
LEMMA ComposerStepKeeps == ComposerSound /\ (ComposerStep \/ SubmittedByHand \/ Halt) => ComposerSound'
<1> SUFFICES ASSUME ComposerSound, ComposerStep \/ SubmittedByHand \/ Halt PROVE ComposerSound'
    OBVIOUS
<1>1. ComposerTypeOK'
    BY WritesComposer, OpensChat, CountsKept, SteadyKept, StandingKept, ComposerTypesNext
<1>2. Written' /\ Undone' /\ Wanted' /\ ByHand'
    BY WrittenKeeps, UndoneKeeps, WantedKeeps, ByHandKeeps
<1> QED
    BY <1>1, <1>2 DEF ComposerSound

(* A step of the turn that leaves the composer alone keeps it too.             *)
LEMMA ComposerStays == ComposerSound /\ UNCHANGED composerVars => ComposerSound'
<1> SUFFICES ASSUME ComposerSound, UNCHANGED composerVars PROVE ComposerSound'
    OBVIOUS
<1>1. ComposerTypeOK'
    BY ComposerTypes, ComposerTypesNext DEF ComposerSound, composerVars, Counts, Steady, Standing
<1>2. Written' /\ Undone'
    BY DEF ComposerSound, composerVars, Written, Undone, FailedIsClean
<1>3. Wanted' /\ ByHand'
    BY DEF ComposerSound, composerVars, Wanted, ByHand
<1> QED
    BY <1>1, <1>2, <1>3 DEF ComposerSound

--------------------------------------------------------------------------------
(* The turn *)

Early  == {"idle", "selecting", "preparing", "acquiring", "opening"}
Before == Early \cup {"effort", "attaching", "refreshing", "filing", "sending", "activating", "pressing"}
Answering == {"binding", "looking", "reconciling", "reading", "judging", "fencing", "finishing"}
Underway == Before \cup {"accepting"} \cup Answering
Closing == {"releasing", "ending", "done"}

(* Where the messages of the turn stand.                                         *)
Counted ==
    /\ message.presses <= message.part
    /\ at \in Early => message.part = 1
    /\ at \in Before => message.presses + 1 = message.part
    /\ at \in {"accepting"} \cup Answering => message.presses = message.part
    /\ at \in {"attaching", "filing", "sending", "activating", "pressing"} =>
          message.effort = EffortOf(message.part)

(* Until Enter nothing of the message is on the page; with it the composer is    *)
(* empty, and what is new on the page is new because of it.                      *)
Quieted ==
    /\ at \in Before => ~page.inflight
    /\ page.inflight => reply.gen = "none"
    /\ at \in Before \ {"effort"} => reply.gen = "none"
    /\ reply.gen # "none" => composer = Empty
    /\ at \in Answering => reply.gen # "none"
    /\ (at \in Underway /\ (page.users # {} \/ page.node # "none" \/ page.other)) => reply.gen # "none"
    /\ (at \in {"activating", "pressing", "accepting"} /\ reply.gen = "none") =>
          calls.batches = message.initial

(* The attachment and the phases around it.                                      *)
Composed ==
    /\ at # "attaching" => step \in {"unused", "failed"} /\ receipt = "none"
    /\ step = "unused" \/ at \in {"attaching", "effort", "refreshing", "failing"} \cup Closing
    /\ at \in Early \cup {"effort"} => composer = Empty
    /\ at = "effort" => ~personal.menu
    /\ (at \in Underway /\ submitted) => at = "attaching"
    /\ at = "attaching" => step # "unused" /\ want.connector = (Final /\ config.connector)
    /\ AttachedIsWhole

(* What the turn holds, by its phase.                                            *)
Holding ==
    /\ own.lease = "held" => config.hosted /\ at \notin {"idle", "done"}
    /\ own.beat => own.lease = "held"
    /\ at = "selecting" => own.lease = "held"
    /\ own.prompt = "held" => at \notin {"idle", "selecting", "preparing", "ending", "done"}
    /\ own.link = "open" => at \notin {"idle", "selecting", "preparing", "acquiring", "ending", "done"}

(* The launcher learns of a connector that the whole message had.                *)
Told ==
    /\ own.pill => Final
    /\ ended.bound => ended.status = "completed" /\ Final

(* What may run was noted, and is stopped or said not to be.                     *)
Stopping ==
    /\ (reply.gen # "none" \/ page.inflight) => message.mayRun \/ at \in Closing
    /\ at \in {"activating", "pressing"} => message.mayRun
    /\ (at \in {"releasing", "ending"} /\ outcome # "completed") =>
           \/ Status = "completed" \/ cleanup \in {"unconfirmed", "closed", "idle"}
           \/ reply.gen # "running" /\ ~page.inflight

(* What was seen of the answer is what the bound answer shows.                   *)
Followed ==
    /\ reply.action => reply.gen = "over"
    /\ at \in {"attaching", "refreshing", "filing", "sending", "activating", "pressing", "accepting",
               "binding"} => watch.node = "none"
    /\ at \in {"attaching", "refreshing", "filing", "sending", "activating", "pressing", "accepting",
               "binding", "looking", "reconciling"} => ~seen.action
    /\ seen.action => reply.gen = "over" /\ (watch.node # "other" => seen.text = reply.text)
    /\ at \in {"fencing", "finishing"} => seen.action /\ seen.text # watch.base
    /\ page.other => "other" \in page.users

(* The batches that were observed, and the revision that the fence gave.         *)
Fencing ==
    /\ watch.batch <= calls.batches
    /\ (at \in {"judging", "fencing", "finishing"} /\ Watched) =>
          watch.batch = calls.batches \/ calls.open = 1
    /\ calls.rev # "none" => Watched /\ Final /\ at \notin Before \cup {"accepting", "binding"}
    /\ (at \in {"looking", "reconciling", "reading", "judging", "fencing"} /\ calls.rev = "current") =>
          calls.open = 0
    /\ (at \in {"judging", "fencing"} /\ calls.rev = "current") => watch.batch = calls.batches
    /\ (at = "finishing" /\ Watched /\ Final) =>
          calls.rev = "committed" /\ calls.open = 0 /\ watch.batch = calls.batches

(* The records of the turn.                                                      *)
Owns     == [lease : {"none", "held", "ended"}, beat : BOOLEAN, prompt : {"none", "held"},
             link : {"none", "open", "orphan"}, pill : BOOLEAN]
Messages == [part : Nat, effort : {"none", "cheap", "asked"}, mayRun : BOOLEAN, presses : Nat,
             refresh : BOOLEAN, initial : Nat]
Pages    == [users : SUBSET {"ours", "other"}, node : {"none", "first", "lost", "second"},
             ids : {"none", "kept", "fresh"}, other : BOOLEAN, inflight : BOOLEAN,
             closed : BOOLEAN, hung : BOOLEAN, left : Nat]
Replies  == [gen : {"none", "running", "over"}, text : Nat, action : BOOLEAN, asking : BOOLEAN]
Calls == [batches : Nat, open : 0..1, live : BOOLEAN, rev : {"none", "current", "stale", "committed"}]
Watches  == [node : {"none", "first", "second", "other"}, ids : BOOLEAN,
             accepted : SUBSET {"ours", "other"}, batch : Nat, base : Nat]
Sights   == [present : BOOLEAN, text : Nat, action : BOOLEAN, open : 0..1, live : BOOLEAN]
Windows  == [missing : BOOLEAN, empty : BOOLEAN, post : BOOLEAN, bare : Nat, stable : Nat]
Attempts == [rebinds : Nat, faults : Nat]

(* What is known of an answer before it is bound, and after the loop is left.     *)
LEMMA Fresh ==
    /\ Unbound.node = "none" /\ Unbound.batch = 0 /\ ~Unseen.action
    /\ Silent.gen = "none" /\ ~Silent.action
BY DEF Unbound, Unseen, Silent

(* The records of the turn are of their types.                                 *)
LEMMA TurnTypes ==
    TurnTypeOK => /\ own \in Owns /\ message \in Messages /\ page \in Pages /\ reply \in Replies
                  /\ calls \in Calls /\ watch \in Watches /\ seen \in Sights /\ waits \in Windows
                  /\ tries \in Attempts /\ config \in Turns /\ config.stages \in Nat /\ at \in Phases
<1> SUFFICES ASSUME TurnTypeOK
             PROVE  /\ own \in Owns /\ message \in Messages /\ page \in Pages /\ reply \in Replies
                    /\ calls \in Calls /\ watch \in Watches /\ seen \in Sights /\ waits \in Windows
                    /\ tries \in Attempts /\ config \in Turns /\ config.stages \in Nat /\ at \in Phases
    OBVIOUS
<1>1. config \in Turns /\ config.stages \in Nat /\ config.mishaps \in Nat /\ at \in Phases
    BY TurnAssumption DEF TurnTypeOK
<1>2. MaxText \in Nat /\ MaxBatches \in Nat /\ MaxRebinds \in Nat /\ MaxFaults \in Nat
    BY TurnAssumption
<1>3. own \in Owns
    BY DEF TurnTypeOK, Owns
<1>4. message \in Messages
    BY <1>1, <1>2 DEF TurnTypeOK, Messages
<1>5. page \in Pages
    BY <1>1 DEF TurnTypeOK, Pages
<1>6. reply \in Replies
    BY <1>2 DEF TurnTypeOK, Replies
<1>7. calls \in Calls
    BY <1>2 DEF TurnTypeOK, Calls
<1>8. watch \in Watches
    BY <1>2 DEF TurnTypeOK, Watches
<1>9. seen \in Sights
    BY <1>2 DEF TurnTypeOK, Sights
<1>10. waits \in Windows
    BY <1>2 DEF TurnTypeOK, Windows
<1>11. tries \in Attempts
    BY <1>2 DEF TurnTypeOK, Attempts
<1> QED
    BY <1>1, <1>3, <1>4, <1>5, <1>6, <1>7, <1>8, <1>9, <1>10, <1>11

OwnKind      == own \in Owns
MessageKind  == /\ message \in Messages /\ message.part \in 1..(config.stages + 1)
                /\ message.initial \in 0..MaxBatches
PageKind     == page \in Pages /\ page.left \in 0..config.mishaps
ReplyKind    == reply \in Replies /\ reply.text \in 0..MaxText
CallsKind == calls \in Calls /\ calls.batches \in 0..MaxBatches
WatchKind    == watch \in Watches /\ watch.batch \in 0..MaxBatches /\ watch.base \in 0..(MaxText + 1)
SightKind    == seen \in Sights /\ seen.text \in 0..MaxText
WindowKind   == waits \in Windows /\ waits.bare \in 0..MaxText /\ waits.stable \in 0..MaxText
AttemptKind  == tries \in Attempts /\ tries.rebinds \in 0..MaxRebinds /\ tries.faults \in 0..MaxFaults
EndKind      == /\ config \in Turns /\ at \in Phases
                /\ aborted \in {"no", "abort", "handoff"}
                /\ outcome \in {"none", "completed", "failed", "aborted"}
                /\ cleanup \in {"none", "stopped", "idle", "closed", "unconfirmed"}
                /\ ended \in [status : {"none", "completed", "failed", "aborted"}, bound : BOOLEAN]
Kinds == /\ OwnKind /\ MessageKind /\ PageKind /\ ReplyKind /\ CallsKind /\ WatchKind /\ SightKind
         /\ WindowKind /\ AttemptKind /\ EndKind

(* The type invariant says just that of each record, with its bounds.          *)
LEMMA TurnTypeParts == TurnTypeOK <=> Kinds
<1> USE TurnAssumption
<1>1. EndKind => config.stages \in Nat /\ config.mishaps \in Nat
    BY DEF EndKind
<1>2. TurnTypeOK => EndKind
    BY DEF TurnTypeOK, EndKind
<1> SUFFICES ASSUME EndKind PROVE TurnTypeOK <=> Kinds
    BY <1>2 DEF Kinds
<1>3. OwnKind <=> own \in [lease : {"none", "held", "ended"}, beat : BOOLEAN, prompt : {"none", "held"},
                           link : {"none", "open", "orphan"}, pill : BOOLEAN]
    BY DEF OwnKind, Owns
<1>4. MessageKind <=>
        message \in [part : 1..(config.stages + 1), effort : {"none", "cheap", "asked"},
                     mayRun : BOOLEAN, presses : Nat, refresh : BOOLEAN, initial : 0..MaxBatches]
    BY <1>1 DEF MessageKind, Messages
<1>5. PageKind <=>
        page \in [users : SUBSET {"ours", "other"}, node : {"none", "first", "lost", "second"},
                  ids : {"none", "kept", "fresh"}, other : BOOLEAN, inflight : BOOLEAN,
                  closed : BOOLEAN, hung : BOOLEAN, left : 0..config.mishaps]
    BY <1>1 DEF PageKind, Pages
<1>6. ReplyKind <=> reply \in [gen : {"none", "running", "over"}, text : 0..MaxText, action : BOOLEAN,
                               asking : BOOLEAN]
    BY DEF ReplyKind, Replies
<1>7. CallsKind <=> calls \in [batches : 0..MaxBatches, open : 0..1, live : BOOLEAN,
                                  rev : {"none", "current", "stale", "committed"}]
    BY DEF CallsKind, Calls
<1>8. WatchKind <=> watch \in [node : {"none", "first", "second", "other"}, ids : BOOLEAN,
                               accepted : SUBSET {"ours", "other"}, batch : 0..MaxBatches,
                               base : 0..(MaxText + 1)]
    BY DEF WatchKind, Watches
<1>9. SightKind <=> seen \in [present : BOOLEAN, text : 0..MaxText, action : BOOLEAN, open : 0..1,
                              live : BOOLEAN]
    BY DEF SightKind, Sights
<1>10. WindowKind <=> waits \in [missing : BOOLEAN, empty : BOOLEAN, post : BOOLEAN, bare : 0..MaxText,
                                 stable : 0..MaxText]
    BY DEF WindowKind, Windows
<1>11. AttemptKind <=> tries \in [rebinds : 0..MaxRebinds, faults : 0..MaxFaults]
    BY DEF AttemptKind, Attempts
<1> QED
    BY <1>3, <1>4, <1>5, <1>6, <1>7, <1>8, <1>9, <1>10, <1>11 DEF TurnTypeOK, Kinds, EndKind

(* What a step makes of the page is a page.                                      *)
LEMMA PageChanges ==
    ASSUME NEW p \in Pages
    PROVE  /\ [p EXCEPT !.users = @ \cup {"other"}] \in Pages
           /\ [p EXCEPT !.users = @ \cup {"other"}].left = p.left
           /\ [p EXCEPT !.closed = TRUE] \in Pages /\ [p EXCEPT !.closed = TRUE].left = p.left
           /\ [p EXCEPT !.hung = TRUE] \in Pages /\ [p EXCEPT !.hung = TRUE].left = p.left
           /\ [p EXCEPT !.node = "lost"] \in Pages /\ [p EXCEPT !.node = "lost"].left = p.left
           /\ [p EXCEPT !.ids = "kept"] \in Pages /\ [p EXCEPT !.ids = "kept"].left = p.left
           /\ [p EXCEPT !.other = TRUE] \in Pages /\ [p EXCEPT !.other = TRUE].left = p.left
           /\ \A n \in {"first", "second"}, i \in {"none", "kept", "fresh"} :
                 /\ [p EXCEPT !.node = n, !.ids = i] \in Pages
                 /\ [p EXCEPT !.node = n, !.ids = i].left = p.left
<1>1. /\ [p EXCEPT !.users = @ \cup {"other"}] \in Pages
      /\ [p EXCEPT !.users = @ \cup {"other"}].left = p.left
    BY DEF Pages
<1>2. /\ [p EXCEPT !.closed = TRUE] \in Pages /\ [p EXCEPT !.closed = TRUE].left = p.left
      /\ [p EXCEPT !.hung = TRUE] \in Pages /\ [p EXCEPT !.hung = TRUE].left = p.left
      /\ [p EXCEPT !.other = TRUE] \in Pages /\ [p EXCEPT !.other = TRUE].left = p.left
    BY DEF Pages
<1>3. /\ [p EXCEPT !.node = "lost"] \in Pages /\ [p EXCEPT !.node = "lost"].left = p.left
      /\ [p EXCEPT !.ids = "kept"] \in Pages /\ [p EXCEPT !.ids = "kept"].left = p.left
    BY DEF Pages
<1>4. ASSUME NEW n \in {"first", "second"}, NEW i \in {"none", "kept", "fresh"}
      PROVE  /\ [p EXCEPT !.node = n, !.ids = i] \in Pages
             /\ [p EXCEPT !.node = n, !.ids = i].left = p.left
    BY DEF Pages
<1> QED
    BY <1>1, <1>2, <1>3, <1>4

(* A mishap leaves one less.                                                     *)
LEMMA MishapKind ==
    ASSUME PageKind, config.mishaps \in Nat, UNCHANGED config,
           NEW p \in Pages, p.left = page.left, Mishap(p)
    PROVE  PageKind'
<1>1. [p EXCEPT !.left = @ - 1] \in Pages /\ [p EXCEPT !.left = @ - 1].left = page.left - 1
    BY DEF Mishap, PageKind, Pages
<1> QED
    BY <1>1 DEF Mishap, PageKind

(* The broker's progress after some activity.                                    *)
LEMMA ActiveKind ==
    ASSUME NEW c \in Calls
    PROVE  /\ Active(c) \in Calls /\ Active(c).batches = c.batches
           /\ [Active(c) EXCEPT !.open = 0] \in Calls
           /\ [Active(c) EXCEPT !.open = 0].batches = c.batches
           /\ [Active(c) EXCEPT !.batches = @ + 1, !.open = 1] \in Calls
           /\ [Active(c) EXCEPT !.batches = @ + 1, !.open = 1].batches = c.batches + 1
<1>1. Active(c) \in Calls /\ Active(c).batches = c.batches
    BY DEF Active, Calls
<1>2. ASSUME NEW d \in Calls
      PROVE  [d EXCEPT !.open = 0] \in Calls /\ [d EXCEPT !.open = 0].batches = d.batches
    BY DEF Calls
<1>3. ASSUME NEW d \in Calls, NEW b \in Nat
      PROVE  /\ [d EXCEPT !.batches = b, !.open = 1] \in Calls
             /\ [d EXCEPT !.batches = b, !.open = 1].batches = b
  <2>1. [d EXCEPT !.batches = b] \in Calls
      BY DEF Calls
  <2>2. ASSUME NEW e \in Calls PROVE [e EXCEPT !.open = 1] \in Calls
      BY DEF Calls
  <2>3. [d EXCEPT !.batches = b, !.open = 1] = [[d EXCEPT !.batches = b] EXCEPT !.open = 1]
      BY DEF Calls
  <2>4. [d EXCEPT !.batches = b, !.open = 1].batches = b
      BY DEF Calls
  <2> QED
      BY <2>1, <2>2, <2>3, <2>4
<1>4. Active(c).batches + 1 \in Nat
    BY <1>1 DEF Calls
<1> QED
    BY <1>1, <1>2, <1>3, <1>4

LEMMA TurnTypePartsNext == TurnTypeOK' <=> Kinds'
BY TurnTypeParts, PTL

(* Each step keeps the type of what the turn owns,                             *)
LEMMA OwnTyped == TurnTypeOK /\ [Next]_vars => OwnKind'
<1> SUFFICES ASSUME TurnTypeOK, [Next]_vars PROVE OwnKind'
    OBVIOUS
<1>0. own \in Owns /\ message \in Messages /\ config.connector \in BOOLEAN /\ config.stages \in Nat
    BY TurnAssumption, TurnTypeParts DEF OwnKind, Owns, Kinds, MessageKind, EndKind, Final
<1> USE <1>0 DEF OwnKind, Owns, Kinds, MessageKind, EndKind, Final, Goes, Leaves, Fails, Completes,
       Interrupts, Still, Outside, pageVars, readVars, endVars, turnVars
<1>1. ASSUME Leases \/ Selects PROVE OwnKind'
    BY <1>1 DEF Leases, Selects
<1>2. ASSUME Prepares PROVE OwnKind'
    BY <1>2 DEF Prepares
<1>3. ASSUME Acquires \/ AcquiresLate \/ OrphanCloses PROVE OwnKind'
    BY <1>3 DEF Acquires, AcquiresLate, OrphanCloses
<1>4. ASSUME Attached PROVE OwnKind'
    BY <1>4 DEF Attached
<1>5. ASSUME RebindFails PROVE OwnKind'
    BY <1>5 DEF RebindFails
<1>6. ASSUME Releases PROVE OwnKind'
    BY <1>6 DEF Releases, Released
<1>7. ASSUME Ends PROVE OwnKind'
    BY <1>7 DEF Ends
<1>8. ASSUME Refused \/ PrepareFails \/ Opens \/ SelectsEffort \/ AttachmentFails \/ Refreshes
             \/ Files \/ Sends \/ Activated \/ Presses \/ ObservesEarly \/ Accepts \/ Binds
             \/ GivesUp \/ Confirms \/ Looks \/ Rebinds \/ Reconciles \/ Reads \/ Begins
             \/ Commits \/ Finishes \/ ClosedStops \/ SignalStops \/ Cleans \/ Attaching
             \/ AttachmentTimesOut \/ Faults \/ StageFails \/ AlertStops
             \/ (\E elapsed \in BOOLEAN : Judges(elapsed)) \/ Aborts \/ Submits \/ AnswerMoves
             \/ Intrudes \/ PageCloses \/ Hangs \/ Writes \/ Asks \/ ReplyEnds \/ ActionShows
             \/ CallArrives \/ CallReturns \/ Lapses
      PROVE  UNCHANGED <<own, config>>
    BY <1>8 DEF Refused, PrepareFails, Opens, SelectsEffort, AttachmentFails, Refreshes, Files, Sends,
       Activated, Presses, ObservesEarly, Accepts, Binds, GivesUp, Confirms, Looks, Rebinds,
       Reconciles, Reads, Begins, Commits, Finishes, ClosedStops, SignalStops, Cleans,
       Attaching, AttachmentTimesOut, Faults, StageFails, AlertStops, Judges, Aborts, Submits,
       AnswerMoves, Intrudes, PageCloses, Hangs, Writes, Asks, ReplyEnds, ActionShows,
       CallArrives, CallReturns, Lapses
<1>9. CASE UNCHANGED <<own, config>>
    BY <1>9
<1> QED
    BY <1>1, <1>2, <1>3, <1>4, <1>5, <1>6, <1>7, <1>8, <1>9 DEF Next, WorkerStep, vars, turnVars

(* of the message it is at,                                                    *)
LEMMA MessageTyped == TurnTypeOK /\ [Next]_vars => MessageKind'
<1> SUFFICES ASSUME TurnTypeOK, [Next]_vars PROVE MessageKind'
    OBVIOUS
<1>0. message \in Messages /\ config.stages \in Nat /\ MaxBatches \in Nat
      /\ calls.batches \in 0..MaxBatches /\ message.part \in 1..(config.stages + 1)
      /\ message.initial \in 0..MaxBatches
    BY TurnAssumption, TurnTypeParts DEF MessageKind, Messages, Kinds, EndKind, CallsKind, Final, EffortOf
<1> USE <1>0 DEF MessageKind, Messages, Kinds, EndKind, CallsKind, Final, EffortOf, Goes, Leaves,
       Fails, Completes, Interrupts, Still, Outside, pageVars, readVars, endVars, turnVars
<1>1. ASSUME Prepares PROVE MessageKind'
    BY <1>1 DEF Prepares
<1>2. ASSUME SelectsEffort PROVE MessageKind'
    BY <1>2 DEF SelectsEffort
<1>3. ASSUME Attached PROVE MessageKind'
    BY <1>3 DEF Attached
<1>4. ASSUME AttachmentFails PROVE MessageKind'
    BY <1>4 DEF AttachmentFails
<1>5. ASSUME Sends PROVE MessageKind'
  <2>1. message' = [message EXCEPT !.mayRun = TRUE, !.initial = calls.batches] /\ UNCHANGED config
      BY <1>5 DEF Sends
  <2>2. message' \in Messages /\ message'.part = message.part /\ message'.initial = calls.batches
    <3>1. calls.batches \in Nat
        OBVIOUS
    <3> QED
        BY <2>1, <3>1 DEF Messages
  <2> QED
      BY <2>1, <2>2
<1>6. ASSUME Presses PROVE MessageKind'
    BY <1>6 DEF Presses
<1>7. ASSUME Finishes PROVE MessageKind'
  <2>1. CASE UNCHANGED message
      BY <1>7, <2>1 DEF Finishes
  <2>2. CASE message' = [message EXCEPT !.mayRun = FALSE]
      BY <1>7, <2>2 DEF Finishes
  <2>3. CASE ~Final /\ message' = [message EXCEPT !.part = @ + 1]
    <3>1. message.part + 1 \in 1..(config.stages + 1)
        BY <2>3
    <3> QED
        BY <1>7, <2>3, <3>1 DEF Finishes
  <2> QED
      BY <1>7, <2>1, <2>2, <2>3 DEF Finishes
<1>8. ASSUME Refused \/ Leases \/ Selects \/ PrepareFails \/ Acquires \/ AcquiresLate
             \/ OrphanCloses \/ Opens \/ Refreshes \/ Files \/ Activated \/ ObservesEarly
             \/ Accepts \/ Binds \/ GivesUp \/ Confirms \/ Looks \/ Rebinds \/ Reconciles
             \/ Reads \/ Begins \/ Commits \/ ClosedStops \/ SignalStops \/ Cleans \/ Releases
             \/ Ends \/ Attaching \/ AttachmentTimesOut \/ Faults \/ RebindFails \/ StageFails
             \/ AlertStops \/ (\E elapsed \in BOOLEAN : Judges(elapsed)) \/ Aborts \/ Submits
             \/ AnswerMoves \/ Intrudes \/ PageCloses \/ Hangs \/ Writes \/ Asks \/ ReplyEnds
             \/ ActionShows \/ CallArrives \/ CallReturns \/ Lapses
      PROVE  UNCHANGED <<message, config>>
    BY <1>8 DEF Refused, Leases, Selects, PrepareFails, Acquires, AcquiresLate, OrphanCloses, Opens,
       Refreshes, Files, Activated, ObservesEarly, Accepts, Binds, GivesUp, Confirms, Looks,
       Rebinds, Reconciles, Reads, Begins, Commits, ClosedStops, SignalStops, Cleans, Releases,
       Ends, Attaching, AttachmentTimesOut, Faults, RebindFails, StageFails, AlertStops,
       Judges, Aborts, Submits, AnswerMoves, Intrudes, PageCloses, Hangs, Writes, Asks,
       ReplyEnds, ActionShows, CallArrives, CallReturns, Lapses
<1>9. CASE UNCHANGED <<message, config>>
    BY <1>9
<1> QED
    BY <1>1, <1>2, <1>3, <1>4, <1>5, <1>6, <1>7, <1>8, <1>9 DEF Next, WorkerStep, vars, turnVars

(* of the page,                                                                *)
LEMMA PageTyped == TurnTypeOK /\ [Next]_vars => PageKind'
<1> SUFFICES ASSUME TurnTypeOK, [Next]_vars PROVE PageKind'
    OBVIOUS
<1>0. page \in Pages /\ config.mishaps \in Nat /\ page.left \in 0..config.mishaps
    BY TurnAssumption, TurnTypeParts DEF PageKind, Kinds, EndKind
<1> USE <1>0 DEF PageKind, Kinds, EndKind, Goes, Leaves, Fails, Completes, Interrupts, Still, Outside,
       pageVars, readVars, endVars, turnVars
<1>1. ASSUME SelectsEffort PROVE PageKind'
    BY <1>1 DEF SelectsEffort, Pages
<1>2. ASSUME Presses PROVE PageKind'
    BY <1>2 DEF Presses, Pages
<1>3. ASSUME Rebinds PROVE PageKind'
    BY <1>3 DEF Rebinds, Pages
<1>4. ASSUME Faults \/ RebindFails \/ AlertStops \/ Aborts PROVE PageKind'
  <2>1. Mishap(page) \/ UNCHANGED page
      BY <1>4 DEF Faults, RebindFails, AlertStops, Aborts
  <2>2. UNCHANGED config
      BY <1>4 DEF Faults, RebindFails, AlertStops, Aborts
  <2> QED
      BY <2>1, <2>2, MishapKind
<1>5. ASSUME Submits PROVE PageKind'
    BY <1>5 DEF Submits, Pages
<1>6. ASSUME AnswerMoves PROVE PageKind'
  <2>1. UNCHANGED config
      BY <1>6 DEF AnswerMoves
  <2>2. CASE Mishap([page EXCEPT !.node = "lost"])
      BY <2>1, <2>2, PageChanges, MishapKind
  <2>3. CASE page' = [page EXCEPT !.ids = "kept"]
      BY <2>1, <2>3, PageChanges
  <2>4. CASE \E n \in {"first", "second"}, ids \in {"none", "kept", "fresh"} :
                page' = [page EXCEPT !.node = n, !.ids = ids]
    <3>1. PICK n \in {"first", "second"}, ids \in {"none", "kept", "fresh"} :
             page' = [page EXCEPT !.node = n, !.ids = ids]
        BY <2>4
    <3>2. page' \in Pages /\ page'.left = page.left
        BY <3>1, PageChanges
    <3> QED
        BY <2>1, <3>2
  <2> QED
      BY <1>6, <2>2, <2>3, <2>4 DEF AnswerMoves
<1>7. ASSUME Intrudes PROVE PageKind'
  <2>1. UNCHANGED config
      BY <1>7 DEF Intrudes
  <2>2. CASE Mishap([page EXCEPT !.users = @ \cup {"other"}])
      BY <2>1, <2>2, PageChanges, MishapKind
  <2>3. CASE page' = [page EXCEPT !.other = TRUE]
      BY <2>1, <2>3, PageChanges
  <2> QED
      BY <1>7, <2>2, <2>3 DEF Intrudes
<1>8. ASSUME PageCloses \/ Hangs PROVE PageKind'
  <2>1. UNCHANGED config
      BY <1>8 DEF PageCloses, Hangs
  <2>2. CASE Mishap([page EXCEPT !.closed = TRUE])
      BY <2>1, <2>2, PageChanges, MishapKind
  <2>3. CASE Mishap([page EXCEPT !.hung = TRUE])
      BY <2>1, <2>3, PageChanges, MishapKind
  <2> QED
      BY <1>8, <2>2, <2>3 DEF PageCloses, Hangs
<1>9. ASSUME Refused \/ Leases \/ Selects \/ Prepares \/ PrepareFails \/ Acquires
             \/ AcquiresLate \/ OrphanCloses \/ Opens \/ Attached \/ AttachmentFails
             \/ Refreshes \/ Files \/ Sends \/ Activated \/ ObservesEarly \/ Accepts \/ Binds
             \/ GivesUp \/ Confirms \/ Looks \/ Reconciles \/ Reads \/ Begins \/ Commits
             \/ Finishes \/ ClosedStops \/ SignalStops \/ Cleans \/ Releases \/ Ends
             \/ Attaching \/ AttachmentTimesOut \/ StageFails
             \/ (\E elapsed \in BOOLEAN : Judges(elapsed)) \/ Writes \/ Asks \/ ReplyEnds
             \/ ActionShows \/ CallArrives \/ CallReturns \/ Lapses
      PROVE  UNCHANGED <<page, config>>
    BY <1>9 DEF Refused, Leases, Selects, Prepares, PrepareFails, Acquires, AcquiresLate, OrphanCloses,
       Opens, Attached, AttachmentFails, Refreshes, Files, Sends, Activated, ObservesEarly,
       Accepts, Binds, GivesUp, Confirms, Looks, Reconciles, Reads, Begins, Commits, Finishes,
       ClosedStops, SignalStops, Cleans, Releases, Ends, Attaching, AttachmentTimesOut,
       StageFails, Judges, Writes, Asks, ReplyEnds, ActionShows, CallArrives, CallReturns,
       Lapses
<1>10. CASE UNCHANGED <<page, config>>
    BY <1>10
<1> QED
    BY <1>1, <1>2, <1>3, <1>4, <1>5, <1>6, <1>7, <1>8, <1>9, <1>10 DEF Next, WorkerStep, vars, turnVars

(* of the answer as the page has it,                                           *)
LEMMA ReplyTyped == TurnTypeOK /\ [Next]_vars => ReplyKind'
<1> SUFFICES ASSUME TurnTypeOK, [Next]_vars PROVE ReplyKind'
    OBVIOUS
<1>0. reply \in Replies /\ MaxText \in Nat /\ reply.text \in 0..MaxText
    BY TurnAssumption, TurnTypeParts DEF ReplyKind, Replies, Kinds, Silent
<1> USE <1>0 DEF ReplyKind, Replies, Kinds, Silent, Goes, Leaves, Fails, Completes, Interrupts, Still,
       Outside, pageVars, readVars, endVars, turnVars
<1>1. ASSUME SelectsEffort PROVE ReplyKind'
    BY <1>1 DEF SelectsEffort
<1>2. ASSUME Confirms PROVE ReplyKind'
    BY <1>2 DEF Confirms
<1>3. ASSUME Cleans PROVE ReplyKind'
    BY <1>3 DEF Cleans
<1>4. ASSUME Submits PROVE ReplyKind'
    BY <1>4 DEF Submits
<1>5. ASSUME Writes PROVE ReplyKind'
    BY <1>5 DEF Writes
<1>6. ASSUME Asks \/ ReplyEnds \/ ActionShows PROVE ReplyKind'
    BY <1>6 DEF Asks, ReplyEnds, ActionShows
<1>7. ASSUME Refused \/ Leases \/ Selects \/ Prepares \/ PrepareFails \/ Acquires
             \/ AcquiresLate \/ OrphanCloses \/ Opens \/ Attached \/ AttachmentFails
             \/ Refreshes \/ Files \/ Sends \/ Activated \/ Presses \/ ObservesEarly
             \/ Accepts \/ Binds \/ GivesUp \/ Looks \/ Rebinds \/ Reconciles \/ Reads
             \/ Begins \/ Commits \/ Finishes \/ ClosedStops \/ SignalStops \/ Releases
             \/ Ends \/ Attaching \/ AttachmentTimesOut \/ Faults \/ RebindFails \/ StageFails
             \/ AlertStops \/ (\E elapsed \in BOOLEAN : Judges(elapsed)) \/ Aborts
             \/ AnswerMoves \/ Intrudes \/ PageCloses \/ Hangs \/ CallArrives \/ CallReturns
             \/ Lapses
      PROVE  UNCHANGED <<reply, config>>
    BY <1>7 DEF Refused, Leases, Selects, Prepares, PrepareFails, Acquires, AcquiresLate, OrphanCloses,
       Opens, Attached, AttachmentFails, Refreshes, Files, Sends, Activated, Presses,
       ObservesEarly, Accepts, Binds, GivesUp, Looks, Rebinds, Reconciles, Reads, Begins,
       Commits, Finishes, ClosedStops, SignalStops, Releases, Ends, Attaching,
       AttachmentTimesOut, Faults, RebindFails, StageFails, AlertStops, Judges, Aborts,
       AnswerMoves, Intrudes, PageCloses, Hangs, CallArrives, CallReturns, Lapses
<1>8. CASE UNCHANGED <<reply, config>>
    BY <1>8
<1> QED
    BY <1>1, <1>2, <1>3, <1>4, <1>5, <1>6, <1>7, <1>8 DEF Next, WorkerStep, vars, turnVars

(* of the calls that the broker counted,                                       *)
LEMMA CallsTyped == TurnTypeOK /\ [Next]_vars => CallsKind'
<1> SUFFICES ASSUME TurnTypeOK, [Next]_vars PROVE CallsKind'
    OBVIOUS
<1>0. calls \in Calls /\ MaxBatches \in Nat /\ calls.batches \in 0..MaxBatches
    BY TurnAssumption, TurnTypeParts DEF CallsKind, Kinds
<1> USE <1>0 DEF CallsKind, Kinds, Goes, Leaves, Fails, Completes, Interrupts, Still, Outside,
       pageVars, readVars, endVars, turnVars
<1>1. ASSUME NEW elapsed \in BOOLEAN, Judges(elapsed) PROVE CallsKind'
    BY <1>1 DEF Judges, Calls
<1>2. ASSUME Begins PROVE CallsKind'
    BY <1>2 DEF Begins, Calls
<1>3. ASSUME Commits PROVE CallsKind'
    BY <1>3 DEF Commits, Calls
<1>4. ASSUME CallArrives PROVE CallsKind'
  <2>1. calls.batches < MaxBatches /\ calls' = [Active(calls) EXCEPT !.batches = @ + 1, !.open = 1]
      BY <1>4 DEF CallArrives
  <2>2. calls' \in Calls /\ calls'.batches = calls.batches + 1
      BY <2>1, ActiveKind
  <2> QED
      BY <2>1, <2>2
<1>5. ASSUME CallReturns PROVE CallsKind'
  <2>1. calls' = [Active(calls) EXCEPT !.open = 0]
      BY <1>5 DEF CallReturns
  <2> QED
      BY <2>1, ActiveKind
<1>6. ASSUME Lapses PROVE CallsKind'
    BY <1>6 DEF Lapses, Calls
<1>7. ASSUME Refused \/ Leases \/ Selects \/ Prepares \/ PrepareFails \/ Acquires
             \/ AcquiresLate \/ OrphanCloses \/ Opens \/ SelectsEffort \/ Attached
             \/ AttachmentFails \/ Refreshes \/ Files \/ Sends \/ Activated \/ Presses
             \/ ObservesEarly \/ Accepts \/ Binds \/ GivesUp \/ Confirms \/ Looks \/ Rebinds
             \/ Reconciles \/ Reads \/ Finishes \/ ClosedStops \/ SignalStops \/ Cleans
             \/ Releases \/ Ends \/ Attaching \/ AttachmentTimesOut \/ Faults \/ RebindFails
             \/ StageFails \/ AlertStops \/ Aborts \/ Submits \/ AnswerMoves \/ Intrudes
             \/ PageCloses \/ Hangs \/ Writes \/ Asks \/ ReplyEnds \/ ActionShows
      PROVE  UNCHANGED <<calls, config>>
    BY <1>7 DEF Refused, Leases, Selects, Prepares, PrepareFails, Acquires, AcquiresLate, OrphanCloses,
       Opens, SelectsEffort, Attached, AttachmentFails, Refreshes, Files, Sends, Activated,
       Presses, ObservesEarly, Accepts, Binds, GivesUp, Confirms, Looks, Rebinds, Reconciles,
       Reads, Finishes, ClosedStops, SignalStops, Cleans, Releases, Ends, Attaching,
       AttachmentTimesOut, Faults, RebindFails, StageFails, AlertStops, Aborts, Submits,
       AnswerMoves, Intrudes, PageCloses, Hangs, Writes, Asks, ReplyEnds, ActionShows
<1>8. CASE UNCHANGED <<calls, config>>
    BY <1>8
<1> QED
    BY <1>1, <1>2, <1>3, <1>4, <1>5, <1>6, <1>7, <1>8 DEF Next, WorkerStep, vars, turnVars

(* What is forgotten when the loop is left is of its kind.                       *)
LEMMA LoopLeft ==
    /\ Unbound \in Watches /\ Unbound.batch \in 0..MaxBatches /\ Unbound.base \in 0..(MaxText + 1)
    /\ Unseen \in Sights /\ Unseen.text \in 0..MaxText
    /\ Nothing \in Windows /\ Nothing.bare \in 0..MaxText /\ Nothing.stable \in 0..MaxText
    /\ [rebinds |-> 0, faults |-> 0] \in Attempts
BY TurnAssumption DEF Unbound, Watches, Unseen, Sights, Nothing, Windows, Attempts

(* The windows that follow a look are windows.                                   *)
LEMMA NextWindowsKind ==
    ASSUME WindowKind, SightKind, MaxText \in Nat
    PROVE  NextWindows \in Windows /\ NextWindows.bare \in 0..MaxText /\ NextWindows.stable \in 0..MaxText
<1> DEFINE H == Health
           Q == Settling
<1>1. Health.missing \in BOOLEAN /\ Health.empty \in BOOLEAN /\ Health.bare \in 0..MaxText
    BY DEF Health, SightKind, Sights, Stopped
<1>2. Settling.post \in BOOLEAN /\ Settling.stable \in 0..MaxText
    BY DEF Settling, SightKind, Sights, Complete, Stopped, Outstanding, Unanswered
<1>3. CASE seen.present
    BY <1>1, <1>2, <1>3 DEF NextWindows, Windows
<1>4. CASE ~seen.present
    BY <1>1, <1>4 DEF NextWindows, Windows, WindowKind
<1> QED
    BY <1>3, <1>4

(* of the answer it follows,                                                   *)
LEMMA WatchTyped == TurnTypeOK /\ [Next]_vars => WatchKind'
<1> SUFFICES ASSUME TurnTypeOK, [Next]_vars PROVE WatchKind'
    OBVIOUS
<1>0. watch \in Watches /\ MaxText \in Nat \ {0} /\ MaxBatches \in Nat /\ watch.batch \in 0..MaxBatches
      /\ watch.base \in 0..(MaxText + 1) /\ page \in Pages
      /\ calls.batches \in 0..MaxBatches /\ reply.text \in 0..MaxText /\ seen.text \in 0..MaxText
    BY TurnAssumption, TurnTypeParts DEF WatchKind, Kinds, PageKind, CallsKind, ReplyKind, SightKind
<1> USE <1>0 DEF WatchKind, Kinds, PageKind, CallsKind, ReplyKind, SightKind, Goes, Leaves, Fails,
       Completes, Interrupts, Still, Outside, pageVars, readVars, endVars, turnVars
<1>1. ASSUME Prepares \/ AcquiresLate \/ SelectsEffort \/ AttachmentFails \/ Presses \/ Accepts \/ GivesUp
           \/ Faults \/ Rebinds \/ RebindFails \/ Finishes \/ StageFails \/ AlertStops \/ ClosedStops
           \/ SignalStops
      PROVE  WatchKind'
  <2>1. UNCHANGED watch \/ watch' = Unbound
      BY <1>1 DEF Prepares, AcquiresLate, SelectsEffort, AttachmentFails, Presses, Accepts, GivesUp,
             Faults, Rebinds, RebindFails, Finishes, StageFails, AlertStops, ClosedStops,
             SignalStops
  <2> QED
      BY <2>1, LoopLeft
<1>2. ASSUME NEW elapsed \in BOOLEAN, Judges(elapsed) PROVE WatchKind'
  <2>1. UNCHANGED watch \/ watch' = Unbound
      BY <1>2 DEF Judges
  <2> QED
      BY <2>1, LoopLeft
<1>3. ASSUME Binds PROVE WatchKind'
  <2>1. CASE watch' = Unbound
      BY <2>1, LoopLeft
  <2>2. CASE UNCHANGED watch
      BY <2>2
  <2>3. CASE \E n \in Answers :
            watch' = [watch EXCEPT !.node = n, !.ids = page.ids # "none", !.accepted = page.users]
    <3>1. Answers \subseteq {"first", "second", "other"} /\ page.users \in SUBSET {"ours", "other"}
        BY DEF Answers, Pages
    <3>2. PICK n \in {"first", "second", "other"} :
             watch' = [watch EXCEPT !.node = n, !.ids = page.ids # "none", !.accepted = page.users]
        BY <2>3, <3>1
    <3>3. (page.ids # "none") \in BOOLEAN
        BY DEF Watches
    <3>4. watch' \in Watches /\ watch'.batch = watch.batch /\ watch'.base = watch.base
        BY <3>1, <3>2, <3>3 DEF Watches
    <3> QED
        BY <3>4
  <2> QED
      BY <1>3, <2>1, <2>2, <2>3 DEF Binds
<1>4. ASSUME Reconciles PROVE WatchKind'
  <2>1. CASE watch' = Unbound
      BY <2>1, LoopLeft
  <2>2. CASE UNCHANGED watch
      BY <2>2
  <2>3. CASE \E n \in Answers :
            watch' = [watch EXCEPT !.node = n, !.ids = watch.ids \/ page.ids # "none",
                                           !.accepted = page.users]
    <3>1. Answers \subseteq {"first", "second", "other"} /\ page.users \in SUBSET {"ours", "other"}
        BY DEF Answers, Pages
    <3>2. PICK n \in {"first", "second", "other"} :
             watch' = [watch EXCEPT !.node = n, !.ids = watch.ids \/ page.ids # "none",
                                           !.accepted = page.users]
        BY <2>3, <3>1
    <3>3. (watch.ids \/ page.ids # "none") \in BOOLEAN
        BY DEF Watches
    <3>4. watch' \in Watches /\ watch'.batch = watch.batch /\ watch'.base = watch.base
        BY <3>1, <3>2, <3>3 DEF Watches
    <3> QED
        BY <3>4
  <2>4. Replacement \subseteq Answers
      BY DEF Replacement, Answers
  <2>5. UNCHANGED watch \/ watch' = Unbound
        \/ (\E n \in Replacement :
              watch' = [watch EXCEPT !.node = n, !.ids = watch.ids \/ page.ids # "none",
                                           !.accepted = page.users])
      BY <1>4 DEF Reconciles
  <2> QED
      BY <2>1, <2>2, <2>3, <2>4, <2>5
<1>5. ASSUME ObservesEarly PROVE WatchKind'
  <2>1. 0 \in 0..MaxText /\ reply.text \in 0..MaxText
      OBVIOUS
  <2> DEFINE shown == IF page.node \in {"first", "second"} THEN reply.text ELSE 0
  <2>a. watch' = [watch EXCEPT !.batch = calls.batches, !.base = shown]
      BY <1>5 DEF ObservesEarly, Observes
  <2>b. shown \in 0..MaxText
      BY <2>1
  <2> HIDE DEF shown
  <2>2. shown \in Nat /\ calls.batches \in Nat
      BY <2>b
  <2>3. watch' \in Watches /\ watch'.batch = calls.batches /\ watch'.base = shown
      BY <2>a, <2>2 DEF Watches
  <2> QED
      BY <2>3, <2>b
<1>6. ASSUME Looks PROVE WatchKind'
  <2>1. CASE UNCHANGED watch
      BY <2>1
  <2>2. CASE watch' = [watch EXCEPT !.ids = @ \/ page.ids # "none"]
    <3>1. (watch.ids \/ page.ids # "none") \in BOOLEAN
        BY DEF Watches
    <3>2. watch' = [watch EXCEPT !.ids = (watch.ids \/ page.ids # "none")]
        BY <2>2
    <3>3. watch' \in Watches /\ watch'.batch = watch.batch /\ watch'.base = watch.base
        BY <3>1, <3>2 DEF Watches
    <3> QED
        BY <3>3
  <2> QED
      BY <1>6, <2>1, <2>2 DEF Looks
<1>7. ASSUME Reads PROVE WatchKind'
  <2>1. CASE UNCHANGED watch
      BY <2>1
  <2>2. CASE watch' = [watch EXCEPT !.batch = calls.batches, !.base = seen.text]
    <3>1. seen.text \in Nat /\ calls.batches \in Nat
        OBVIOUS
    <3>2. watch' \in Watches /\ watch'.batch = calls.batches /\ watch'.base = seen.text
        BY <2>2, <3>1 DEF Watches
    <3> QED
        BY <3>2
  <2> QED
      BY <1>7, <2>1, <2>2 DEF Reads, Observes
<1>8. ASSUME Refused \/ Leases \/ Selects \/ PrepareFails \/ Acquires \/ OrphanCloses \/ Opens
             \/ Attached \/ Refreshes \/ Files \/ Sends \/ Activated \/ Confirms \/ Begins
             \/ Commits \/ Cleans \/ Releases \/ Ends \/ Attaching \/ AttachmentTimesOut
             \/ Aborts \/ Submits \/ AnswerMoves \/ Intrudes \/ PageCloses \/ Hangs \/ Writes
             \/ Asks \/ ReplyEnds \/ ActionShows \/ CallArrives \/ CallReturns \/ Lapses
      PROVE  UNCHANGED <<watch, config>>
    BY <1>8 DEF Refused, Leases, Selects, PrepareFails, Acquires, OrphanCloses, Opens, Attached,
       Refreshes, Files, Sends, Activated, Confirms, Begins, Commits, Cleans, Releases, Ends,
       Attaching, AttachmentTimesOut, Aborts, Submits, AnswerMoves, Intrudes, PageCloses,
       Hangs, Writes, Asks, ReplyEnds, ActionShows, CallArrives, CallReturns, Lapses
<1>9. CASE UNCHANGED <<watch, config>>
    BY <1>9
<1> QED
    BY <1>1, <1>2, <1>3, <1>4, <1>5, <1>6, <1>7, <1>8, <1>9 DEF Next, WorkerStep, vars, turnVars

(* of what it saw of it,                                                       *)
LEMMA SightTyped == TurnTypeOK /\ [Next]_vars => SightKind'
<1> SUFFICES ASSUME TurnTypeOK, [Next]_vars PROVE SightKind'
    OBVIOUS
<1>0. seen \in Sights /\ MaxText \in Nat \ {0} /\ reply \in Replies /\ calls \in Calls
      /\ reply.text \in 0..MaxText /\ seen.text \in 0..MaxText
    BY TurnAssumption, TurnTypeParts DEF SightKind, Kinds, ReplyKind, CallsKind
<1> USE <1>0 DEF SightKind, Kinds, ReplyKind, CallsKind, Goes, Leaves, Fails, Completes, Interrupts,
       Still, Outside, pageVars, readVars, endVars, turnVars
<1>1. ASSUME Prepares \/ AcquiresLate \/ SelectsEffort \/ AttachmentFails \/ Presses \/ Accepts \/ GivesUp
           \/ Faults \/ Rebinds \/ RebindFails \/ Finishes \/ StageFails \/ AlertStops \/ ClosedStops
           \/ SignalStops
      PROVE  SightKind'
  <2>1. UNCHANGED seen \/ seen' = Unseen
      BY <1>1 DEF Prepares, AcquiresLate, SelectsEffort, AttachmentFails, Presses, Accepts, GivesUp,
             Faults, Rebinds, RebindFails, Finishes, StageFails, AlertStops, ClosedStops,
             SignalStops
  <2> QED
      BY <2>1, LoopLeft
<1>2. ASSUME NEW elapsed \in BOOLEAN, Judges(elapsed) PROVE SightKind'
  <2>1. UNCHANGED seen \/ seen' = Unseen
      BY <1>2 DEF Judges
  <2> QED
      BY <2>1, LoopLeft
<1>3. ASSUME Begins \/ Commits PROVE SightKind'
  <2>1. UNCHANGED seen \/ seen' = Unseen
      BY <1>3 DEF Begins, Commits
  <2> QED
      BY <2>1, LoopLeft
<1>4. ASSUME Binds \/ Reconciles PROVE SightKind'
  <2>1. UNCHANGED seen \/ seen' = Unseen
      BY <1>4 DEF Binds, Reconciles
  <2> QED
      BY <2>1, LoopLeft
<1>5. ASSUME Looks PROVE SightKind'
  <2>1. CASE UNCHANGED seen
      BY <2>1
  <2>2. CASE seen' = [Unseen EXCEPT !.present = TRUE, !.text = TextSeen, !.action = reply.action]
    <3>1. TextSeen \in 0..MaxText
        BY DEF TextSeen
    <3>2. reply.action \in BOOLEAN
        BY DEF Replies
    <3>3. seen' = [present |-> TRUE, text |-> TextSeen, action |-> reply.action, open |-> 0, live |-> FALSE]
        BY <2>2 DEF Unseen
    <3> QED
        BY <3>1, <3>2, <3>3 DEF Sights
  <2> QED
      BY <1>5, <2>1, <2>2 DEF Looks
<1>6. ASSUME Reads PROVE SightKind'
  <2>1. calls.open \in 0..1 /\ calls.live \in BOOLEAN
      BY DEF Calls
  <2>2. seen' = [seen EXCEPT !.open = IF Watched THEN calls.open ELSE 0, !.live = Watched /\ calls.live]
      BY <1>6 DEF Reads
  <2>3. (IF Watched THEN calls.open ELSE 0) \in 0..1 /\ (Watched /\ calls.live) \in BOOLEAN
      BY <2>1
  <2> QED
      BY <2>2, <2>3 DEF Sights
<1>7. ASSUME Refused \/ Leases \/ Selects \/ PrepareFails \/ Acquires \/ OrphanCloses \/ Opens
             \/ Attached \/ Refreshes \/ Files \/ Sends \/ Activated \/ ObservesEarly
             \/ Confirms \/ Cleans \/ Releases \/ Ends \/ Attaching \/ AttachmentTimesOut
             \/ Aborts \/ Submits \/ AnswerMoves \/ Intrudes \/ PageCloses \/ Hangs \/ Writes
             \/ Asks \/ ReplyEnds \/ ActionShows \/ CallArrives \/ CallReturns \/ Lapses
      PROVE  UNCHANGED <<seen, config>>
    BY <1>7 DEF Refused, Leases, Selects, PrepareFails, Acquires, OrphanCloses, Opens, Attached,
       Refreshes, Files, Sends, Activated, ObservesEarly, Confirms, Cleans, Releases, Ends,
       Attaching, AttachmentTimesOut, Aborts, Submits, AnswerMoves, Intrudes, PageCloses,
       Hangs, Writes, Asks, ReplyEnds, ActionShows, CallArrives, CallReturns, Lapses
<1>8. CASE UNCHANGED <<seen, config>>
    BY <1>8
<1> QED
    BY <1>1, <1>2, <1>3, <1>4, <1>5, <1>6, <1>7, <1>8 DEF Next, WorkerStep, vars, turnVars

(* of the windows that run,                                                    *)
LEMMA WindowTyped == TurnTypeOK /\ [Next]_vars => WindowKind'
<1> SUFFICES ASSUME TurnTypeOK, [Next]_vars PROVE WindowKind'
    OBVIOUS
<1>0. waits \in Windows /\ MaxText \in Nat \ {0} /\ waits.bare \in 0..MaxText
      /\ waits.stable \in 0..MaxText /\ seen \in Sights /\ seen.text \in 0..MaxText
    BY TurnAssumption, TurnTypeParts DEF WindowKind, Kinds, SightKind
<1> USE <1>0 DEF WindowKind, Kinds, SightKind, Goes, Leaves, Fails, Completes, Interrupts, Still,
       Outside, pageVars, readVars, endVars, turnVars
<1>1. ASSUME Prepares \/ AcquiresLate \/ SelectsEffort \/ AttachmentFails \/ Presses \/ Accepts \/ GivesUp
           \/ Faults \/ Rebinds \/ RebindFails \/ Finishes \/ StageFails \/ AlertStops \/ ClosedStops
           \/ SignalStops
      PROVE  WindowKind'
  <2>1. UNCHANGED waits \/ waits' = Nothing
      BY <1>1 DEF Prepares, AcquiresLate, SelectsEffort, AttachmentFails, Presses, Accepts, GivesUp,
             Faults, Rebinds, RebindFails, Finishes, StageFails, AlertStops, ClosedStops,
             SignalStops
  <2> QED
      BY <2>1, LoopLeft
<1>2. ASSUME NEW elapsed \in BOOLEAN, Judges(elapsed) PROVE WindowKind'
  <2>1. CASE waits' = Nothing
      BY <2>1, LoopLeft
  <2>2. CASE waits' = NextWindows
    <3>1. NextWindows \in Windows /\ NextWindows.bare \in 0..MaxText /\ NextWindows.stable \in 0..MaxText
        BY NextWindowsKind
    <3> QED
        BY <2>2, <3>1
  <2> QED
      BY <1>2, <2>1, <2>2 DEF Judges
<1>3. ASSUME Binds \/ Reconciles PROVE WindowKind'
  <2>1. UNCHANGED waits \/ waits' = Nothing
      BY <1>3 DEF Binds, Reconciles
  <2> QED
      BY <2>1, LoopLeft
<1>4. ASSUME Reads PROVE WindowKind'
  <2>1. CASE UNCHANGED waits
      BY <2>1
  <2>2. CASE waits' = [waits EXCEPT !.post = FALSE, !.stable = 0]
    <3>1. waits' \in Windows
        BY <2>2 DEF Windows
    <3>2. waits'.bare = waits.bare /\ waits'.stable = 0
        BY <2>2 DEF Windows
    <3> QED
        BY <3>1, <3>2
  <2> QED
      BY <1>4, <2>1, <2>2 DEF Reads
<1>5. ASSUME Refused \/ Leases \/ Selects \/ PrepareFails \/ Acquires \/ OrphanCloses \/ Opens
             \/ Attached \/ Refreshes \/ Files \/ Sends \/ Activated \/ ObservesEarly
             \/ Confirms \/ Looks \/ Begins \/ Commits \/ Cleans \/ Releases \/ Ends
             \/ Attaching \/ AttachmentTimesOut \/ Aborts \/ Submits \/ AnswerMoves
             \/ Intrudes \/ PageCloses \/ Hangs \/ Writes \/ Asks \/ ReplyEnds \/ ActionShows
             \/ CallArrives \/ CallReturns \/ Lapses
      PROVE  UNCHANGED <<waits, config>>
    BY <1>5 DEF Refused, Leases, Selects, PrepareFails, Acquires, OrphanCloses, Opens, Attached,
       Refreshes, Files, Sends, Activated, ObservesEarly, Confirms, Looks, Begins, Commits,
       Cleans, Releases, Ends, Attaching, AttachmentTimesOut, Aborts, Submits, AnswerMoves,
       Intrudes, PageCloses, Hangs, Writes, Asks, ReplyEnds, ActionShows, CallArrives,
       CallReturns, Lapses
<1>6. CASE UNCHANGED <<waits, config>>
    BY <1>6
<1> QED
    BY <1>1, <1>2, <1>3, <1>4, <1>5, <1>6 DEF Next, WorkerStep, vars, turnVars

(* of its retries,                                                             *)
LEMMA AttemptTyped == TurnTypeOK /\ [Next]_vars => AttemptKind'
<1> SUFFICES ASSUME TurnTypeOK, [Next]_vars PROVE AttemptKind'
    OBVIOUS
<1>0. tries \in Attempts /\ MaxRebinds \in Nat /\ MaxFaults \in Nat /\ tries.rebinds \in 0..MaxRebinds
      /\ tries.faults \in 0..MaxFaults
    BY TurnAssumption, TurnTypeParts DEF AttemptKind, Kinds, Attempts
<1> USE <1>0 DEF AttemptKind, Kinds, Attempts, Goes, Leaves, Fails, Completes, Interrupts, Still,
       Outside, pageVars, readVars, endVars, turnVars
<1>1. ASSUME Prepares \/ AcquiresLate \/ SelectsEffort \/ AttachmentFails \/ Presses \/ GivesUp
           \/ RebindFails \/ Finishes \/ StageFails \/ AlertStops \/ ClosedStops \/ SignalStops
      PROVE  AttemptKind'
    BY <1>1 DEF Prepares, AcquiresLate, SelectsEffort, AttachmentFails, Presses, GivesUp, RebindFails,
       Finishes, StageFails, AlertStops, ClosedStops, SignalStops
<1>2. ASSUME NEW elapsed \in BOOLEAN, Judges(elapsed) PROVE AttemptKind'
    BY <1>2 DEF Judges
<1>3. ASSUME Accepts \/ Binds \/ Reconciles PROVE AttemptKind'
  <2>1. UNCHANGED tries \/ tries' = [tries EXCEPT !.rebinds = 0] \/ tries' = [rebinds |-> 0, faults |-> 0]
      BY <1>3 DEF Accepts, Binds, Reconciles
  <2> QED
      BY <2>1
<1>4. ASSUME Faults PROVE AttemptKind'
    BY <1>4 DEF Faults
<1>5. ASSUME Rebinds PROVE AttemptKind'
    BY <1>5 DEF Rebinds
<1>6. ASSUME Reads PROVE AttemptKind'
    BY <1>6 DEF Reads
<1>7. ASSUME Refused \/ Leases \/ Selects \/ PrepareFails \/ Acquires \/ OrphanCloses \/ Opens
             \/ Attached \/ Refreshes \/ Files \/ Sends \/ Activated \/ ObservesEarly
             \/ Confirms \/ Looks \/ Begins \/ Commits \/ Cleans \/ Releases \/ Ends
             \/ Attaching \/ AttachmentTimesOut \/ Aborts \/ Submits \/ AnswerMoves
             \/ Intrudes \/ PageCloses \/ Hangs \/ Writes \/ Asks \/ ReplyEnds \/ ActionShows
             \/ CallArrives \/ CallReturns \/ Lapses
      PROVE  UNCHANGED <<tries, config>>
    BY <1>7 DEF Refused, Leases, Selects, PrepareFails, Acquires, OrphanCloses, Opens, Attached,
       Refreshes, Files, Sends, Activated, ObservesEarly, Confirms, Looks, Begins, Commits,
       Cleans, Releases, Ends, Attaching, AttachmentTimesOut, Aborts, Submits, AnswerMoves,
       Intrudes, PageCloses, Hangs, Writes, Asks, ReplyEnds, ActionShows, CallArrives,
       CallReturns, Lapses
<1>8. CASE UNCHANGED <<tries, config>>
    BY <1>8
<1> QED
    BY <1>1, <1>2, <1>3, <1>4, <1>5, <1>6, <1>7, <1>8 DEF Next, WorkerStep, vars, turnVars

(* and of its configuration, phase and end.                                    *)
LEMMA EndTyped == TurnTypeOK /\ [Next]_vars => EndKind'
<1> SUFFICES ASSUME TurnTypeOK, [Next]_vars PROVE EndKind'
    OBVIOUS
<1>0. EndKind /\ config.hosted \in BOOLEAN /\ own.pill \in BOOLEAN
    BY TurnAssumption, TurnTypeParts DEF Kinds, EndKind, OwnKind, Owns
<1> USE <1>0 DEF EndKind, Phases, Mishap, Goes, Leaves, Fails, Completes, Interrupts, Still, Outside,
   pageVars, readVars, endVars,
       turnVars
<1>1. ASSUME Refused \/ PrepareFails PROVE EndKind'
    BY <1>1 DEF Refused, PrepareFails
<1>2. ASSUME Leases \/ Selects \/ Prepares PROVE EndKind'
    BY <1>2 DEF Leases, Selects, Prepares
<1>3. ASSUME Acquires \/ AcquiresLate \/ OrphanCloses PROVE EndKind'
    BY <1>3 DEF Acquires, AcquiresLate, OrphanCloses
<1>4. ASSUME Opens \/ Files \/ Activated PROVE EndKind'
    BY <1>4 DEF Opens, Files, Activated
<1>5. ASSUME SelectsEffort \/ Attached \/ AttachmentFails \/ Refreshes PROVE EndKind'
    BY <1>5 DEF SelectsEffort, Attached, AttachmentFails, Refreshes
<1>6. ASSUME Attaching \/ AttachmentTimesOut PROVE EndKind'
    BY <1>6 DEF Attaching, AttachmentTimesOut
<1>7. ASSUME Sends \/ Presses \/ ObservesEarly PROVE EndKind'
    BY <1>7 DEF Sends, Presses, ObservesEarly
<1>8. ASSUME Accepts \/ Binds \/ Confirms PROVE EndKind'
    BY <1>8 DEF Accepts, Binds, Confirms
<1>9. ASSUME Looks \/ Reads \/ Begins \/ Commits PROVE EndKind'
    BY <1>9 DEF Looks, Reads, Begins, Commits
<1>10. ASSUME Rebinds \/ RebindFails PROVE EndKind'
    BY <1>10 DEF Rebinds, RebindFails, ResumeAt
<1>11. ASSUME Reconciles PROVE EndKind'
    BY <1>11 DEF Reconciles
<1>12. ASSUME NEW elapsed \in BOOLEAN, Judges(elapsed) PROVE EndKind'
    BY <1>12 DEF Judges
<1>13. ASSUME Finishes \/ Faults PROVE EndKind'
    BY <1>13 DEF Finishes, Faults
<1>14. ASSUME GivesUp \/ StageFails \/ ClosedStops \/ SignalStops PROVE EndKind'
    BY <1>14 DEF GivesUp, StageFails, ClosedStops, SignalStops
<1>15. ASSUME AlertStops PROVE EndKind'
    BY <1>15 DEF AlertStops
<1>16. ASSUME Cleans \/ Releases PROVE EndKind'
    BY <1>16 DEF Cleans, Releases
<1>17. ASSUME Ends PROVE EndKind'
  <2>1. Status \in {"none", "completed", "failed", "aborted"}
      BY DEF Status
  <2>2. (own.pill /\ Status = "completed") \in BOOLEAN
      OBVIOUS
  <2>3. ended' \in [status : {"none", "completed", "failed", "aborted"}, bound : BOOLEAN]
      BY <1>17, <2>1, <2>2 DEF Ends
  <2> QED
      BY <1>17, <2>3 DEF Ends
<1>18. ASSUME Aborts PROVE EndKind'
    BY <1>18 DEF Aborts
<1>19. ASSUME Submits \/ AnswerMoves \/ Intrudes \/ PageCloses \/ Hangs PROVE EndKind'
    BY <1>19 DEF Submits, AnswerMoves, Intrudes, PageCloses, Hangs
<1>20. ASSUME Writes \/ Asks \/ ReplyEnds \/ ActionShows PROVE EndKind'
    BY <1>20 DEF Writes, Asks, ReplyEnds, ActionShows
<1>21. ASSUME CallArrives \/ CallReturns \/ Lapses PROVE EndKind'
    BY <1>21 DEF CallArrives, CallReturns, Lapses
<1>22. CASE UNCHANGED vars
    BY <1>22 DEF vars
<1> QED
    BY <1>1, <1>2, <1>3, <1>4, <1>5, <1>6, <1>7, <1>8, <1>9, <1>10, <1>11, <1>12, <1>13, <1>14, <1>15,
       <1>16, <1>17, <1>18, <1>19, <1>20, <1>21, <1>22 DEF Next, WorkerStep

(* Every step of the turn keeps what holds of the composer.                    *)
LEMMA ComposerKeeps == ComposerSound /\ TurnTypeOK /\ Quieted /\ Composed /\ [Next]_vars => ComposerSound'
<1> SUFFICES ASSUME ComposerSound /\ TurnTypeOK /\ Quieted /\ Composed, [Next]_vars PROVE ComposerSound'
    OBVIOUS
<1>0. ComposerTypeOK
    BY DEF ComposerSound
<1>1. ASSUME SelectsEffort PROVE ComposerSound'
  <2>1. /\ at = "effort" /\ composer = Empty /\ ~personal.menu /\ ~submitted
      BY <1>1 DEF SelectsEffort, Composed, Underway, Before, Early
  <2>2. /\ want' \in Wants /\ retryLeft' \in BOOLEAN /\ halted' \in BOOLEAN
      BY <1>1, TurnAssumption, TurnTypeParts DEF SelectsEffort, Attach, Wants, Kinds, EndKind,
         MessageKind, Messages,
         Final, Signalled
  <2>3. /\ step' = "start" /\ proof' = "none" /\ proofs' = 0 /\ receipt' = "none" /\ failure' = "none"
        /\ UNCHANGED <<composer, personal, catalog, submitted, triggers>>
      BY <1>1 DEF SelectsEffort, Attach
  <2>4. ComposerTypeOK'
      BY <1>0, <2>2, <2>3, ComposerTypes, ComposerTypesNext DEF Counts, Steady, Standing, Steps, Errors
  <2>5. Written' /\ Undone' /\ Wanted' /\ ByHand'
      BY <2>1, <2>3 DEF Written, Undone, Wanted, ByHand, FailedIsClean, Quiet, Menued, Watching
  <2> QED
      BY <2>4, <2>5 DEF ComposerSound
<1>2. ASSUME Attached PROVE ComposerSound'
  <2>1. step = "attached" /\ ~submitted /\ ~personal.menu
      BY <1>2 DEF Attached, ComposerSound, Written, Undone, Menued
  <2>2. /\ want' \in Wants /\ retryLeft' = FALSE /\ halted' = FALSE
      BY <1>2 DEF Attached, AttemptEnds, Wants
  <2>3. /\ step' = "unused" /\ proof' = "none" /\ proofs' = 0 /\ receipt' = "none" /\ failure' = "none"
        /\ triggers' = 0 /\ UNCHANGED <<composer, personal, catalog, submitted>>
      BY <1>2 DEF Attached, AttemptEnds
  <2>4. ComposerTypeOK'
    <3>1. Counts'
        BY <2>3, TriggersAssumption DEF Counts
    <3>2. Steady'
        BY <1>0, <2>2, <2>3, ComposerTypes DEF Steady
    <3>3. Standing'
        BY <2>3 DEF Standing, Steps, Errors
    <3> QED
        BY <1>0, <2>2, <2>3, <3>1, <3>2, <3>3, ComposerTypes, ComposerTypesNext
  <2>5. Written' /\ Undone' /\ Wanted' /\ ByHand'
      BY <2>1, <2>3 DEF Written, Undone, Wanted, ByHand, FailedIsClean, Quiet, Menued, Watching
  <2> QED
      BY <2>4, <2>5 DEF ComposerSound
<1>3. ASSUME Refreshes PROVE ComposerSound'
  <2>1. step \in {"unused", "failed"} /\ ~submitted /\ receipt = "none"
      BY <1>3 DEF Refreshes, Composed, Underway, Before
  <2>2. personal' = [personal EXCEPT !.menu = FALSE] /\ composer' = Empty
        /\ (catalog' = catalog \/ catalog' = "listed")
        /\ UNCHANGED <<submitted, want, step, proof, proofs, receipt, triggers, retryLeft, halted, failure>>
      BY <1>3 DEF Refreshes
  <2>3. personal' \in Chats /\ ~personal'.menu
      BY <1>0, <2>2, ComposerTypes DEF Chats
  <2>4. ComposerTypeOK'
      BY <1>0, <2>2, <2>3, ComposerTypes, ComposerTypesNext, Picked DEF Counts, Steady, Standing
  <2>5. Written' /\ Undone' /\ Wanted' /\ ByHand'
      BY <2>1, <2>2, <2>3 DEF ComposerSound, Written, Undone, Wanted, ByHand, FailedIsClean, Quiet,
         Watching
  <2> QED
      BY <2>4, <2>5 DEF ComposerSound
<1>4. ASSUME Attaching \/ AttachmentTimesOut PROVE ComposerSound'
    BY <1>4, ComposerStepKeeps DEF Attaching, AttachmentTimesOut
<1>5. ASSUME Aborts PROVE ComposerSound'
  <2>1. /\ UNCHANGED <<composer, personal, catalog, submitted, want, step, proof, proofs, receipt, triggers,
                       retryLeft, failure>>
        /\ halted' \in BOOLEAN
      BY <1>0, <1>5, ComposerTypes DEF Aborts, Steady
  <2>2. ComposerTypeOK'
      BY <1>0, <2>1, ComposerTypes, ComposerTypesNext DEF Counts, Steady, Standing
  <2>3. Written' /\ Undone'
      BY <2>1 DEF ComposerSound, Written, Undone, FailedIsClean
  <2>4. Wanted' /\ ByHand'
      BY <2>1 DEF ComposerSound, Wanted, ByHand
  <2> QED
      BY <2>2, <2>3, <2>4 DEF ComposerSound
<1>6. ASSUME Submits PROVE ComposerSound'
  <2>1. step \in {"unused", "failed"}
      BY <1>6 DEF Submits, Quieted, Composed, Before
  <2>2. /\ composer' = Empty
        /\ UNCHANGED <<personal, catalog, submitted, want, step, proof, proofs, receipt, triggers, retryLeft,
                       halted, failure>>
      BY <1>6 DEF Submits
  <2>3. ComposerTypeOK'
      BY <1>0, <2>2, ComposerTypes, ComposerTypesNext, Picked DEF Counts, Steady, Standing
  <2>4. Written' /\ Undone' /\ Wanted' /\ ByHand'
      BY <2>1, <2>2 DEF ComposerSound, Written, Undone, Wanted, ByHand, FailedIsClean, Quiet, Watching
  <2> QED
      BY <2>3, <2>4 DEF ComposerSound
<1>7. ASSUME Refused \/ Leases \/ Selects \/ Prepares \/ PrepareFails \/ Acquires
             \/ AcquiresLate \/ OrphanCloses \/ Opens \/ AttachmentFails \/ Files \/ Sends
             \/ Activated \/ Presses \/ ObservesEarly \/ Accepts \/ Binds \/ GivesUp
             \/ Confirms \/ Looks \/ Rebinds \/ Reconciles \/ Reads \/ Begins \/ Commits
             \/ Finishes \/ ClosedStops \/ SignalStops \/ Cleans \/ Releases \/ Ends \/ Faults
             \/ RebindFails \/ StageFails \/ AlertStops
             \/ (\E elapsed \in BOOLEAN : Judges(elapsed)) \/ AnswerMoves \/ Intrudes
             \/ PageCloses \/ Hangs \/ Writes \/ Asks \/ ReplyEnds \/ ActionShows
             \/ CallArrives \/ CallReturns \/ Lapses
      PROVE  UNCHANGED composerVars
    BY <1>7 DEF Refused, Leases, Selects, Prepares, PrepareFails, Acquires, AcquiresLate, OrphanCloses,
       Opens, AttachmentFails, Files, Sends, Activated, Presses, ObservesEarly, Accepts, Binds,
       GivesUp, Confirms, Looks, Rebinds, Reconciles, Reads, Begins, Commits, Finishes,
       ClosedStops, SignalStops, Cleans, Releases, Ends, Faults, RebindFails, StageFails,
       AlertStops, Judges, AnswerMoves, Intrudes, PageCloses, Hangs, Writes, Asks, ReplyEnds,
       ActionShows, CallArrives, CallReturns, Lapses, Goes, Leaves, Fails, Completes,
       Interrupts, Still, Outside
<1>8. CASE UNCHANGED composerVars
    BY <1>8, ComposerStays
<1> QED
    BY <1>1, <1>2, <1>3, <1>4, <1>5, <1>6, <1>7, <1>8 DEF Next, WorkerStep, vars

(* Every step keeps the count of messages: one press of Enter for each.        *)
LEMMA CountedKeeps == TurnTypeOK /\ Counted /\ [Next]_vars => Counted'
<1> SUFFICES ASSUME TurnTypeOK /\ Counted, [Next]_vars PROVE Counted'
    OBVIOUS
<1>0. message \in Messages /\ config.stages \in Nat
    BY TurnTypes
<1> USE <1>0, Fresh DEF Counted, EffortOf, Final, Early, Before, Answering, Messages, Goes, Leaves, Fails,
   Completes, Interrupts, Still, Outside, Mishap, pageVars, readVars, endVars, turnVars, composerVars
<1>1. ASSUME Refused \/ PrepareFails PROVE Counted'
    BY <1>1 DEF Refused, PrepareFails
<1>2. ASSUME Leases PROVE Counted'
    BY <1>2 DEF Leases
<1>3. ASSUME Selects PROVE Counted'
    BY <1>3 DEF Selects
<1>4. ASSUME Prepares PROVE Counted'
    BY <1>4 DEF Prepares
<1>5. ASSUME Acquires PROVE Counted'
    BY <1>5 DEF Acquires
<1>6. ASSUME AcquiresLate \/ OrphanCloses PROVE Counted'
    BY <1>6 DEF AcquiresLate, OrphanCloses
<1>7. ASSUME Opens \/ Files \/ Activated PROVE Counted'
    BY <1>7 DEF Opens, Files, Activated
<1>8. ASSUME SelectsEffort PROVE Counted'
    BY <1>8 DEF SelectsEffort, Attach
<1>9. ASSUME Attaching \/ AttachmentTimesOut PROVE Counted'
    BY <1>9 DEF Attaching, AttachmentTimesOut, Halt
<1>10. ASSUME Attached PROVE Counted'
    BY <1>10 DEF Attached, AttemptEnds
<1>11. ASSUME AttachmentFails PROVE Counted'
    BY <1>11 DEF AttachmentFails
<1>12. ASSUME Refreshes PROVE Counted'
    BY <1>12 DEF Refreshes
<1>13. ASSUME Sends PROVE Counted'
    BY <1>13 DEF Sends
<1>14. ASSUME Presses PROVE Counted'
    BY <1>14 DEF Presses
<1>15. ASSUME ObservesEarly PROVE Counted'
    BY <1>15 DEF ObservesEarly
<1>16. ASSUME Accepts PROVE Counted'
    BY <1>16 DEF Accepts
<1>17. ASSUME Binds PROVE Counted'
    BY <1>17 DEF Binds
<1>18. ASSUME Confirms PROVE Counted'
    BY <1>18 DEF Confirms
<1>19. ASSUME Looks PROVE Counted'
    BY <1>19 DEF Looks
<1>20. ASSUME Rebinds PROVE Counted'
    BY <1>20 DEF Rebinds, ResumeAt
<1>21. ASSUME RebindFails PROVE Counted'
    BY <1>21 DEF RebindFails
<1>22. ASSUME Reconciles PROVE Counted'
    BY <1>22 DEF Reconciles
<1>23. ASSUME Reads PROVE Counted'
    BY <1>23 DEF Reads
<1>24. ASSUME NEW elapsed \in BOOLEAN, Judges(elapsed) PROVE Counted'
    BY <1>24 DEF Judges
<1>25. ASSUME Begins PROVE Counted'
    BY <1>25 DEF Begins
<1>26. ASSUME Commits PROVE Counted'
    BY <1>26 DEF Commits
<1>27. ASSUME Finishes PROVE Counted'
    BY <1>27 DEF Finishes
<1>28. ASSUME Faults PROVE Counted'
    BY <1>28 DEF Faults
<1>29. ASSUME GivesUp \/ StageFails \/ ClosedStops \/ SignalStops PROVE Counted'
    BY <1>29 DEF GivesUp, StageFails, ClosedStops, SignalStops, Staged
<1>30. ASSUME AlertStops PROVE Counted'
    BY <1>30 DEF AlertStops
<1>31. ASSUME Cleans PROVE Counted'
    BY <1>31 DEF Cleans
<1>32. ASSUME Releases PROVE Counted'
    BY <1>32 DEF Releases, Released
<1>33. ASSUME Ends PROVE Counted'
    BY <1>33 DEF Ends
<1>34. ASSUME Aborts PROVE Counted'
    BY <1>34 DEF Aborts
<1>35. ASSUME Submits PROVE Counted'
    BY <1>35 DEF Submits
<1>36. ASSUME AnswerMoves \/ Intrudes \/ PageCloses \/ Hangs PROVE Counted'
    BY <1>36 DEF AnswerMoves, Intrudes, PageCloses, Hangs
<1>37. ASSUME Writes \/ Asks \/ ReplyEnds \/ ActionShows PROVE Counted'
    BY <1>37 DEF Writes, Asks, ReplyEnds, ActionShows
<1>38. ASSUME CallArrives \/ CallReturns \/ Lapses PROVE Counted'
    BY <1>38 DEF CallArrives, CallReturns, Lapses
<1>39. CASE UNCHANGED vars
    BY <1>39 DEF vars
<1> QED
    BY <1>1, <1>2, <1>3, <1>4, <1>5, <1>6, <1>7, <1>8, <1>9, <1>10, <1>11, <1>12, <1>13, <1>14, <1>15,
       <1>16, <1>17, <1>18, <1>19, <1>20, <1>21, <1>22, <1>23, <1>24, <1>25, <1>26, <1>27, <1>28, <1>29,
       <1>30, <1>31, <1>32, <1>33, <1>34, <1>35, <1>36, <1>37, <1>38, <1>39 DEF Next, WorkerStep

(* Nothing of a message is on the page before its Enter.                       *)
LEMMA QuietedKeeps == TurnTypeOK /\ Quieted /\ [Next]_vars => Quieted'
<1> SUFFICES ASSUME TurnTypeOK /\ Quieted, [Next]_vars PROVE Quieted'
    OBVIOUS
<1>0. page \in Pages /\ reply \in Replies /\ message \in Messages /\ calls \in Calls
    BY TurnTypes
<1> USE <1>0, Fresh DEF Quieted, Before, Early, Underway, Answering, Pages, Replies, Messages, Calls,
   Goes, Leaves, Fails, Completes, Interrupts, Still, Outside, Mishap, pageVars, readVars, endVars,
   turnVars, composerVars
<1>1. ASSUME Refused \/ PrepareFails PROVE Quieted'
    BY <1>1 DEF Refused, PrepareFails
<1>2. ASSUME Leases PROVE Quieted'
    BY <1>2 DEF Leases
<1>3. ASSUME Selects PROVE Quieted'
    BY <1>3 DEF Selects
<1>4. ASSUME Prepares PROVE Quieted'
    BY <1>4 DEF Prepares
<1>5. ASSUME Acquires PROVE Quieted'
    BY <1>5 DEF Acquires
<1>6. ASSUME AcquiresLate \/ OrphanCloses PROVE Quieted'
    BY <1>6 DEF AcquiresLate, OrphanCloses
<1>7. ASSUME Opens \/ Files \/ Activated PROVE Quieted'
    BY <1>7 DEF Opens, Files, Activated
<1>8. ASSUME SelectsEffort PROVE Quieted'
    BY <1>8 DEF SelectsEffort, Attach
<1>9. ASSUME Attaching \/ AttachmentTimesOut PROVE Quieted'
    BY <1>9 DEF Attaching, AttachmentTimesOut, Halt
<1>10. ASSUME Attached PROVE Quieted'
    BY <1>10 DEF Attached, AttemptEnds
<1>11. ASSUME AttachmentFails PROVE Quieted'
    BY <1>11 DEF AttachmentFails
<1>12. ASSUME Refreshes PROVE Quieted'
    BY <1>12 DEF Refreshes
<1>13. ASSUME Sends PROVE Quieted'
    BY <1>13 DEF Sends
<1>14. ASSUME Presses PROVE Quieted'
    BY <1>14 DEF Presses
<1>15. ASSUME ObservesEarly PROVE Quieted'
    BY <1>15 DEF ObservesEarly
<1>16. ASSUME Accepts PROVE Quieted'
    BY <1>16 DEF Accepts, Evident, Answers
<1>17. ASSUME Binds PROVE Quieted'
    BY <1>17 DEF Binds
<1>18. ASSUME Confirms PROVE Quieted'
    BY <1>18 DEF Confirms
<1>19. ASSUME Looks PROVE Quieted'
    BY <1>19 DEF Looks
<1>20. ASSUME Rebinds PROVE Quieted'
    BY <1>20 DEF Rebinds, ResumeAt
<1>21. ASSUME RebindFails PROVE Quieted'
    BY <1>21 DEF RebindFails
<1>22. ASSUME Reconciles PROVE Quieted'
    BY <1>22 DEF Reconciles
<1>23. ASSUME Reads PROVE Quieted'
    BY <1>23 DEF Reads
<1>24. ASSUME NEW elapsed \in BOOLEAN, Judges(elapsed) PROVE Quieted'
    BY <1>24 DEF Judges
<1>25. ASSUME Begins PROVE Quieted'
    BY <1>25 DEF Begins
<1>26. ASSUME Commits PROVE Quieted'
    BY <1>26 DEF Commits
<1>27. ASSUME Finishes PROVE Quieted'
    BY <1>27 DEF Finishes
<1>28. ASSUME Faults PROVE Quieted'
    BY <1>28 DEF Faults
<1>29. ASSUME GivesUp \/ StageFails \/ ClosedStops \/ SignalStops PROVE Quieted'
    BY <1>29 DEF GivesUp, StageFails, ClosedStops, SignalStops, Staged
<1>30. ASSUME AlertStops PROVE Quieted'
    BY <1>30 DEF AlertStops
<1>31. ASSUME Cleans PROVE Quieted'
    BY <1>31 DEF Cleans
<1>32. ASSUME Releases PROVE Quieted'
    BY <1>32 DEF Releases, Released
<1>33. ASSUME Ends PROVE Quieted'
    BY <1>33 DEF Ends
<1>34. ASSUME Aborts PROVE Quieted'
    BY <1>34 DEF Aborts
<1>35. ASSUME Submits PROVE Quieted'
    BY <1>35 DEF Submits
<1>36. ASSUME AnswerMoves PROVE Quieted'
    BY <1>36 DEF AnswerMoves
<1>37. ASSUME Intrudes PROVE Quieted'
    BY <1>37 DEF Intrudes
<1>38. ASSUME PageCloses PROVE Quieted'
    BY <1>38 DEF PageCloses
<1>39. ASSUME Hangs PROVE Quieted'
    BY <1>39 DEF Hangs
<1>40. ASSUME Writes \/ Asks \/ ReplyEnds \/ ActionShows PROVE Quieted'
    BY <1>40 DEF Writes, Asks, ReplyEnds, ActionShows
<1>41. ASSUME CallArrives PROVE Quieted'
    BY <1>41 DEF CallArrives, Active
<1>42. ASSUME CallReturns PROVE Quieted'
    BY <1>42 DEF CallReturns, Active
<1>43. ASSUME Lapses PROVE Quieted'
    BY <1>43 DEF Lapses
<1>44. CASE UNCHANGED vars
    BY <1>44 DEF vars
<1> QED
    BY <1>1, <1>2, <1>3, <1>4, <1>5, <1>6, <1>7, <1>8, <1>9, <1>10, <1>11, <1>12, <1>13, <1>14, <1>15,
       <1>16, <1>17, <1>18, <1>19, <1>20, <1>21, <1>22, <1>23, <1>24, <1>25, <1>26, <1>27, <1>28, <1>29,
       <1>30, <1>31, <1>32, <1>33, <1>34, <1>35, <1>36, <1>37, <1>38, <1>39, <1>40, <1>41, <1>42, <1>43,
       <1>44 DEF Next, WorkerStep

(* How a step of the attachment moves the turn.                                *)
LEMMA AttachmentMoves ==
    ComposerTypeOK /\ step # "unused" /\ (ComposerStep \/ SubmittedByHand \/ Halt) =>
        step' # "unused" /\ UNCHANGED want
<1> USE Handlers DEF ComposerTypeOK, Throw, Stay, Go, Watching
<1>1. ASSUME ComposerTypeOK, step # "unused", StepThrows PROVE step' # "unused" /\ UNCHANGED want
    BY <1>1 DEF StepThrows
<1>2. ASSUME ComposerTypeOK, step # "unused", StartsPlain PROVE step' # "unused" /\ UNCHANGED want
    BY <1>2 DEF StartsPlain
<1>3. ASSUME ComposerTypeOK, step # "unused", StartsMenu PROVE step' # "unused" /\ UNCHANGED want
    BY <1>3 DEF StartsMenu
<1>4. ASSUME ComposerTypeOK, step # "unused", StartsMention PROVE step' # "unused" /\ UNCHANGED want
    BY <1>4 DEF StartsMention
<1>5. ASSUME ComposerTypeOK, step # "unused", PlusOpens PROVE step' # "unused" /\ UNCHANGED want
    BY <1>5 DEF PlusOpens
<1>6. ASSUME ComposerTypeOK, step # "unused", MenuUnavailable PROVE step' # "unused" /\ UNCHANGED want
    BY <1>6 DEF MenuUnavailable
<1>7. ASSUME ComposerTypeOK, step # "unused", PicksRow PROVE step' # "unused" /\ UNCHANGED want
    BY <1>7 DEF PicksRow
<1>8. ASSUME ComposerTypeOK, step # "unused", PickUnproven PROVE step' # "unused" /\ UNCHANGED want
    BY <1>8 DEF PickUnproven
<1>9. ASSUME ComposerTypeOK, step # "unused", LabelSaysOn PROVE step' # "unused" /\ UNCHANGED want
    BY <1>9 DEF LabelSaysOn
<1>10. ASSUME ComposerTypeOK, step # "unused", OpensChoice PROVE step' # "unused" /\ UNCHANGED want
    BY <1>10 DEF OpensChoice
<1>11. ASSUME ComposerTypeOK, step # "unused", Chooses PROVE step' # "unused" /\ UNCHANGED want
    BY <1>11 DEF Chooses
<1>12. ASSUME ComposerTypeOK, step # "unused", Prove PROVE step' # "unused" /\ UNCHANGED want
    BY <1>12 DEF Prove
<1>13. ASSUME ComposerTypeOK, step # "unused", ProofShows PROVE step' # "unused" /\ UNCHANGED want
    BY <1>13 DEF ProofShows
<1>14. ASSUME ComposerTypeOK, step # "unused", ProofHides PROVE step' # "unused" /\ UNCHANGED want
    BY <1>14 DEF ProofHides
<1>15. ASSUME ComposerTypeOK, step # "unused", Proven PROVE step' # "unused" /\ UNCHANGED want
    BY <1>15 DEF Proven
<1>16. ASSUME ComposerTypeOK, step # "unused", NotAvailable PROVE step' # "unused" /\ UNCHANGED want
    BY <1>16 DEF NotAvailable
<1>17. ASSUME ComposerTypeOK, step # "unused", OpensToggle PROVE step' # "unused" /\ UNCHANGED want
    BY <1>17 DEF OpensToggle
<1>18. ASSUME ComposerTypeOK, step # "unused", Toggles PROVE step' # "unused" /\ UNCHANGED want
    BY <1>18 DEF Toggles
<1>19. ASSUME ComposerTypeOK, step # "unused", ToggleUnproven PROVE step' # "unused" /\ UNCHANGED want
    BY <1>19 DEF ToggleUnproven
<1>20. ASSUME ComposerTypeOK, step # "unused", Restores PROVE step' # "unused" /\ UNCHANGED want
    BY <1>20 DEF Restores
<1>21. ASSUME ComposerTypeOK, step # "unused", Dismisses PROVE step' # "unused" /\ UNCHANGED want
    BY <1>21 DEF Dismisses
<1>22. ASSUME ComposerTypeOK, step # "unused", Clears PROVE step' # "unused" /\ UNCHANGED want
    BY <1>22 DEF Clears, AfterClearing
<1>23. ASSUME ComposerTypeOK, step # "unused", Triggers PROVE step' # "unused" /\ UNCHANGED want
    BY <1>23 DEF Triggers
<1>24. ASSUME ComposerTypeOK, step # "unused", BudgetSpent PROVE step' # "unused" /\ UNCHANGED want
    BY <1>24 DEF BudgetSpent
<1>25. ASSUME ComposerTypeOK, step # "unused", Activates PROVE step' # "unused" /\ UNCHANGED want
    BY <1>25 DEF Activates
<1>26. ASSUME ComposerTypeOK, step # "unused", ActivationUnproven PROVE step' # "unused" /\ UNCHANGED want
    BY <1>26 DEF ActivationUnproven
<1>27. ASSUME ComposerTypeOK, step # "unused", Inserts PROVE step' # "unused" /\ UNCHANGED want
    BY <1>27 DEF Inserts
<1>28. ASSUME ComposerTypeOK, step # "unused", InsertRejected PROVE step' # "unused" /\ UNCHANGED want
    BY <1>28 DEF InsertRejected
<1>29. ASSUME ComposerTypeOK, step # "unused", ReadsBack PROVE step' # "unused" /\ UNCHANGED want
    BY <1>29 DEF ReadsBack
<1>30. ASSUME ComposerTypeOK, step # "unused", RetryBegins PROVE step' # "unused" /\ UNCHANGED want
    BY <1>30 DEF RetryBegins
<1>31. ASSUME ComposerTypeOK, step # "unused", RetryResets PROVE step' # "unused" /\ UNCHANGED want
    BY <1>31 DEF RetryResets
<1>32. ASSUME ComposerTypeOK, step # "unused", SubmittedByHand PROVE step' # "unused" /\ UNCHANGED want
    BY <1>32 DEF SubmittedByHand
<1>33. ASSUME ComposerTypeOK, step # "unused", Halt PROVE step' # "unused" /\ UNCHANGED want
    BY <1>33 DEF Halt
<1> QED
    BY <1>1, <1>2, <1>3, <1>4, <1>5, <1>6, <1>7, <1>8, <1>9, <1>10, <1>11, <1>12, <1>13, <1>14, <1>15,
       <1>16, <1>17, <1>18, <1>19, <1>20, <1>21, <1>22, <1>23, <1>24, <1>25, <1>26, <1>27, <1>28, <1>29,
       <1>30, <1>31, <1>32, <1>33 DEF ComposerStep

(* The attachment stands where the phase of the turn says.                     *)
LEMMA ComposedKeeps == ComposerSound /\ TurnTypeOK /\ Quieted /\ Composed /\ [Next]_vars => Composed'
<1> SUFFICES ASSUME ComposerSound /\ TurnTypeOK /\ Quieted /\ Composed, [Next]_vars PROVE Composed'
    OBVIOUS
<1>0. message \in Messages /\ ComposerSound /\ config.stages \in Nat
    BY TurnTypes
<1> USE <1>0, Fresh DEF Composed, Quieted, Early, Before, Underway, Answering, Closing, Final,
   AttachedIsWhole, Messages, Goes, Leaves, Fails, Completes, Interrupts, Still, Outside, Mishap,
   pageVars, readVars, endVars, turnVars, composerVars
<1>1. ASSUME Refused \/ PrepareFails PROVE Composed'
    BY <1>1 DEF Refused, PrepareFails
<1>2. ASSUME Leases PROVE Composed'
    BY <1>2 DEF Leases
<1>3. ASSUME Selects PROVE Composed'
    BY <1>3 DEF Selects
<1>4. ASSUME Prepares PROVE Composed'
    BY <1>4 DEF Prepares
<1>5. ASSUME Acquires PROVE Composed'
    BY <1>5 DEF Acquires
<1>6. ASSUME AcquiresLate \/ OrphanCloses PROVE Composed'
    BY <1>6 DEF AcquiresLate, OrphanCloses
<1>7. ASSUME Opens PROVE Composed'
  <2>1. at = "opening" /\ at' = "effort" /\ UNCHANGED composerVars
      BY <1>7 DEF Opens
  <2>2. step = "unused" /\ receipt = "none" /\ composer = Empty /\ ~submitted
      BY <2>1
  <2>3. ~personal.menu
      BY <2>2 DEF ComposerSound, Undone, Menued
  <2> QED
      BY <2>1, <2>2, <2>3
<1>8. ASSUME Files \/ Activated PROVE Composed'
    BY <1>8 DEF Files, Activated
<1>9. ASSUME SelectsEffort PROVE Composed'
    BY <1>9 DEF SelectsEffort, Attach
<1>10. ASSUME Attaching \/ AttachmentTimesOut PROVE Composed'
  <2>1. at = "attaching" /\ UNCHANGED turnVars
      BY <1>10 DEF Attaching, AttachmentTimesOut
  <2>2. ComposerTypeOK /\ step # "unused"
      BY <2>1 DEF ComposerSound
  <2>3. ComposerStep \/ SubmittedByHand \/ Halt
      BY <1>10 DEF Attaching, AttachmentTimesOut
  <2>4. step' # "unused" /\ UNCHANGED want
      BY <2>2, <2>3, AttachmentMoves
  <2> QED
      BY <2>1, <2>4
<1>11. ASSUME Attached PROVE Composed'
  <2>1. composer.text = "prompt" /\ ~submitted /\ composer.pill = want.connector
      BY <1>11 DEF Attached, ComposerSound, Written
  <2>2. /\ at = "attaching" /\ at' \in {"filing", "sending"}
        /\ UNCHANGED <<config, composer, submitted>> /\ step' = "unused" /\ receipt' = "none"
      BY <1>11 DEF Attached, AttemptEnds
  <2>3. message'.part = message.part
      BY <1>11 DEF Attached
  <2> QED
      BY <2>1, <2>2, <2>3
<1>12. ASSUME AttachmentFails PROVE Composed'
  <2>1. /\ at = "attaching" /\ at' \in {"refreshing", "failing"} /\ step = "failed"
        /\ UNCHANGED composerVars
      BY <1>12 DEF AttachmentFails
  <2>2. at' = "refreshing" => ~submitted
      BY <1>12 DEF AttachmentFails, ComposerSound, ByHand
  <2>3. receipt = "none"
      BY <2>1 DEF ComposerSound, Undone
  <2> QED
      BY <2>1, <2>2, <2>3
<1>13. ASSUME Refreshes PROVE Composed'
    BY <1>13 DEF Refreshes
<1>14. ASSUME Sends PROVE Composed'
    BY <1>14 DEF Sends
<1>15. ASSUME Presses PROVE Composed'
    BY <1>15 DEF Presses
<1>16. ASSUME ObservesEarly PROVE Composed'
    BY <1>16 DEF ObservesEarly
<1>17. ASSUME Accepts PROVE Composed'
    BY <1>17 DEF Accepts
<1>18. ASSUME Binds PROVE Composed'
    BY <1>18 DEF Binds
<1>19. ASSUME Confirms PROVE Composed'
    BY <1>19 DEF Confirms
<1>20. ASSUME Looks PROVE Composed'
    BY <1>20 DEF Looks
<1>21. ASSUME Rebinds PROVE Composed'
    BY <1>21 DEF Rebinds, ResumeAt
<1>22. ASSUME RebindFails PROVE Composed'
    BY <1>22 DEF RebindFails
<1>23. ASSUME Reconciles PROVE Composed'
    BY <1>23 DEF Reconciles
<1>24. ASSUME Reads PROVE Composed'
    BY <1>24 DEF Reads
<1>25. ASSUME NEW elapsed \in BOOLEAN, Judges(elapsed) PROVE Composed'
    BY <1>25 DEF Judges
<1>26. ASSUME Begins PROVE Composed'
    BY <1>26 DEF Begins
<1>27. ASSUME Commits PROVE Composed'
    BY <1>27 DEF Commits
<1>28. ASSUME Finishes PROVE Composed'
  <2>1. at = "finishing" /\ at' \in {"failing", "releasing", "effort"} /\ UNCHANGED composerVars
      BY <1>28 DEF Finishes
  <2>2. step = "unused" /\ receipt = "none" /\ composer = Empty /\ ~submitted
      BY <2>1
  <2>3. ~personal.menu
      BY <2>2 DEF ComposerSound, Undone, Menued
  <2> QED
      BY <2>1, <2>2, <2>3
<1>29. ASSUME Faults PROVE Composed'
    BY <1>29 DEF Faults
<1>30. ASSUME GivesUp \/ StageFails \/ ClosedStops \/ SignalStops PROVE Composed'
    BY <1>30 DEF GivesUp, StageFails, ClosedStops, SignalStops, Staged
<1>31. ASSUME AlertStops PROVE Composed'
    BY <1>31 DEF AlertStops
<1>32. ASSUME Cleans PROVE Composed'
    BY <1>32 DEF Cleans
<1>33. ASSUME Releases PROVE Composed'
    BY <1>33 DEF Releases, Released
<1>34. ASSUME Ends PROVE Composed'
    BY <1>34 DEF Ends
<1>35. ASSUME Aborts PROVE Composed'
    BY <1>35 DEF Aborts
<1>36. ASSUME Submits PROVE Composed'
    BY <1>36 DEF Submits
<1>37. ASSUME AnswerMoves \/ Intrudes \/ PageCloses \/ Hangs PROVE Composed'
    BY <1>37 DEF AnswerMoves, Intrudes, PageCloses, Hangs
<1>38. ASSUME Writes \/ Asks \/ ReplyEnds \/ ActionShows PROVE Composed'
    BY <1>38 DEF Writes, Asks, ReplyEnds, ActionShows
<1>39. ASSUME CallArrives \/ CallReturns \/ Lapses PROVE Composed'
    BY <1>39 DEF CallArrives, CallReturns, Lapses
<1>40. CASE UNCHANGED vars
    BY <1>40 DEF vars
<1> QED
    BY <1>1, <1>2, <1>3, <1>4, <1>5, <1>6, <1>7, <1>8, <1>9, <1>10, <1>11, <1>12, <1>13, <1>14, <1>15,
       <1>16, <1>17, <1>18, <1>19, <1>20, <1>21, <1>22, <1>23, <1>24, <1>25, <1>26, <1>27, <1>28, <1>29,
       <1>30, <1>31, <1>32, <1>33, <1>34, <1>35, <1>36, <1>37, <1>38, <1>39, <1>40 DEF Next, WorkerStep

(* What the turn holds, it may hold in its phase.                              *)
LEMMA HoldingKeeps == TurnTypeOK /\ Holding /\ [Next]_vars => Holding'
<1> SUFFICES ASSUME TurnTypeOK /\ Holding, [Next]_vars PROVE Holding'
    OBVIOUS
<1>0. own \in Owns
    BY TurnTypes
<1> USE <1>0, Fresh DEF Holding, Owns, Goes, Leaves, Fails, Completes, Interrupts, Still, Outside, Mishap,
   pageVars, readVars, endVars, turnVars, composerVars
<1>1. ASSUME Refused \/ PrepareFails PROVE Holding'
    BY <1>1 DEF Refused, PrepareFails
<1>2. ASSUME Leases PROVE Holding'
    BY <1>2 DEF Leases
<1>3. ASSUME Selects PROVE Holding'
    BY <1>3 DEF Selects
<1>4. ASSUME Prepares PROVE Holding'
    BY <1>4 DEF Prepares
<1>5. ASSUME Acquires PROVE Holding'
    BY <1>5 DEF Acquires
<1>6. ASSUME AcquiresLate \/ OrphanCloses PROVE Holding'
    BY <1>6 DEF AcquiresLate, OrphanCloses
<1>7. ASSUME Opens \/ Files \/ Activated PROVE Holding'
    BY <1>7 DEF Opens, Files, Activated
<1>8. ASSUME SelectsEffort PROVE Holding'
    BY <1>8 DEF SelectsEffort, Attach
<1>9. ASSUME Attaching \/ AttachmentTimesOut PROVE Holding'
    BY <1>9 DEF Attaching, AttachmentTimesOut, Halt
<1>10. ASSUME Attached PROVE Holding'
    BY <1>10 DEF Attached, AttemptEnds
<1>11. ASSUME AttachmentFails PROVE Holding'
    BY <1>11 DEF AttachmentFails
<1>12. ASSUME Refreshes PROVE Holding'
    BY <1>12 DEF Refreshes
<1>13. ASSUME Sends PROVE Holding'
    BY <1>13 DEF Sends
<1>14. ASSUME Presses PROVE Holding'
    BY <1>14 DEF Presses
<1>15. ASSUME ObservesEarly PROVE Holding'
    BY <1>15 DEF ObservesEarly
<1>16. ASSUME Accepts PROVE Holding'
    BY <1>16 DEF Accepts
<1>17. ASSUME Binds PROVE Holding'
    BY <1>17 DEF Binds
<1>18. ASSUME Confirms PROVE Holding'
    BY <1>18 DEF Confirms
<1>19. ASSUME Looks PROVE Holding'
    BY <1>19 DEF Looks
<1>20. ASSUME Rebinds PROVE Holding'
    BY <1>20 DEF Rebinds, ResumeAt
<1>21. ASSUME RebindFails PROVE Holding'
    BY <1>21 DEF RebindFails
<1>22. ASSUME Reconciles PROVE Holding'
    BY <1>22 DEF Reconciles
<1>23. ASSUME Reads PROVE Holding'
    BY <1>23 DEF Reads
<1>24. ASSUME NEW elapsed \in BOOLEAN, Judges(elapsed) PROVE Holding'
    BY <1>24 DEF Judges
<1>25. ASSUME Begins PROVE Holding'
    BY <1>25 DEF Begins
<1>26. ASSUME Commits PROVE Holding'
    BY <1>26 DEF Commits
<1>27. ASSUME Finishes PROVE Holding'
    BY <1>27 DEF Finishes
<1>28. ASSUME Faults PROVE Holding'
    BY <1>28 DEF Faults
<1>29. ASSUME GivesUp \/ StageFails \/ ClosedStops \/ SignalStops PROVE Holding'
    BY <1>29 DEF GivesUp, StageFails, ClosedStops, SignalStops, Staged
<1>30. ASSUME AlertStops PROVE Holding'
    BY <1>30 DEF AlertStops
<1>31. ASSUME Cleans PROVE Holding'
    BY <1>31 DEF Cleans
<1>32. ASSUME Releases PROVE Holding'
    BY <1>32 DEF Releases, Released
<1>33. ASSUME Ends PROVE Holding'
    BY <1>33 DEF Ends
<1>34. ASSUME Aborts PROVE Holding'
    BY <1>34 DEF Aborts
<1>35. ASSUME Submits PROVE Holding'
    BY <1>35 DEF Submits
<1>36. ASSUME AnswerMoves \/ Intrudes \/ PageCloses \/ Hangs PROVE Holding'
    BY <1>36 DEF AnswerMoves, Intrudes, PageCloses, Hangs
<1>37. ASSUME Writes \/ Asks \/ ReplyEnds \/ ActionShows PROVE Holding'
    BY <1>37 DEF Writes, Asks, ReplyEnds, ActionShows
<1>38. ASSUME CallArrives \/ CallReturns \/ Lapses PROVE Holding'
    BY <1>38 DEF CallArrives, CallReturns, Lapses
<1>39. CASE UNCHANGED vars
    BY <1>39 DEF vars
<1> QED
    BY <1>1, <1>2, <1>3, <1>4, <1>5, <1>6, <1>7, <1>8, <1>9, <1>10, <1>11, <1>12, <1>13, <1>14, <1>15,
       <1>16, <1>17, <1>18, <1>19, <1>20, <1>21, <1>22, <1>23, <1>24, <1>25, <1>26, <1>27, <1>28, <1>29,
       <1>30, <1>31, <1>32, <1>33, <1>34, <1>35, <1>36, <1>37, <1>38, <1>39 DEF Next, WorkerStep

(* The launcher is told of a connector that the whole message had.             *)
LEMMA ToldKeeps == TurnTypeOK /\ Told /\ [Next]_vars => Told'
<1> SUFFICES ASSUME TurnTypeOK /\ Told, [Next]_vars PROVE Told'
    OBVIOUS
<1>0. own \in Owns /\ message \in Messages
    BY TurnTypes
<1> USE <1>0, Fresh DEF Told, Owns, Messages, Final, Goes, Leaves, Fails, Completes, Interrupts, Still,
   Outside, Mishap, pageVars, readVars, endVars, turnVars, composerVars
<1>1. ASSUME Refused \/ PrepareFails PROVE Told'
    BY <1>1 DEF Refused, PrepareFails
<1>2. ASSUME Leases PROVE Told'
    BY <1>2 DEF Leases
<1>3. ASSUME Selects PROVE Told'
    BY <1>3 DEF Selects
<1>4. ASSUME Prepares PROVE Told'
    BY <1>4 DEF Prepares
<1>5. ASSUME Acquires PROVE Told'
    BY <1>5 DEF Acquires
<1>6. ASSUME AcquiresLate \/ OrphanCloses PROVE Told'
    BY <1>6 DEF AcquiresLate, OrphanCloses
<1>7. ASSUME Opens \/ Files \/ Activated PROVE Told'
    BY <1>7 DEF Opens, Files, Activated
<1>8. ASSUME SelectsEffort PROVE Told'
    BY <1>8 DEF SelectsEffort, Attach
<1>9. ASSUME Attaching \/ AttachmentTimesOut PROVE Told'
    BY <1>9 DEF Attaching, AttachmentTimesOut, Halt
<1>10. ASSUME Attached PROVE Told'
    BY <1>10 DEF Attached, AttemptEnds
<1>11. ASSUME AttachmentFails PROVE Told'
    BY <1>11 DEF AttachmentFails
<1>12. ASSUME Refreshes PROVE Told'
    BY <1>12 DEF Refreshes
<1>13. ASSUME Sends PROVE Told'
    BY <1>13 DEF Sends
<1>14. ASSUME Presses PROVE Told'
    BY <1>14 DEF Presses
<1>15. ASSUME ObservesEarly PROVE Told'
    BY <1>15 DEF ObservesEarly
<1>16. ASSUME Accepts PROVE Told'
    BY <1>16 DEF Accepts
<1>17. ASSUME Binds PROVE Told'
    BY <1>17 DEF Binds
<1>18. ASSUME Confirms PROVE Told'
    BY <1>18 DEF Confirms
<1>19. ASSUME Looks PROVE Told'
    BY <1>19 DEF Looks
<1>20. ASSUME Rebinds PROVE Told'
    BY <1>20 DEF Rebinds, ResumeAt
<1>21. ASSUME RebindFails PROVE Told'
    BY <1>21 DEF RebindFails
<1>22. ASSUME Reconciles PROVE Told'
    BY <1>22 DEF Reconciles
<1>23. ASSUME Reads PROVE Told'
    BY <1>23 DEF Reads
<1>24. ASSUME NEW elapsed \in BOOLEAN, Judges(elapsed) PROVE Told'
    BY <1>24 DEF Judges
<1>25. ASSUME Begins PROVE Told'
    BY <1>25 DEF Begins
<1>26. ASSUME Commits PROVE Told'
    BY <1>26 DEF Commits
<1>27. ASSUME Finishes PROVE Told'
    BY <1>27 DEF Finishes
<1>28. ASSUME Faults PROVE Told'
    BY <1>28 DEF Faults
<1>29. ASSUME GivesUp \/ StageFails \/ ClosedStops \/ SignalStops PROVE Told'
    BY <1>29 DEF GivesUp, StageFails, ClosedStops, SignalStops, Staged
<1>30. ASSUME AlertStops PROVE Told'
    BY <1>30 DEF AlertStops
<1>31. ASSUME Cleans PROVE Told'
    BY <1>31 DEF Cleans
<1>32. ASSUME Releases PROVE Told'
    BY <1>32 DEF Releases, Released
<1>33. ASSUME Ends PROVE Told'
    BY <1>33 DEF Ends
<1>34. ASSUME Aborts PROVE Told'
    BY <1>34 DEF Aborts
<1>35. ASSUME Submits PROVE Told'
    BY <1>35 DEF Submits
<1>36. ASSUME AnswerMoves \/ Intrudes \/ PageCloses \/ Hangs PROVE Told'
    BY <1>36 DEF AnswerMoves, Intrudes, PageCloses, Hangs
<1>37. ASSUME Writes \/ Asks \/ ReplyEnds \/ ActionShows PROVE Told'
    BY <1>37 DEF Writes, Asks, ReplyEnds, ActionShows
<1>38. ASSUME CallArrives \/ CallReturns \/ Lapses PROVE Told'
    BY <1>38 DEF CallArrives, CallReturns, Lapses
<1>39. CASE UNCHANGED vars
    BY <1>39 DEF vars
<1> QED
    BY <1>1, <1>2, <1>3, <1>4, <1>5, <1>6, <1>7, <1>8, <1>9, <1>10, <1>11, <1>12, <1>13, <1>14, <1>15,
       <1>16, <1>17, <1>18, <1>19, <1>20, <1>21, <1>22, <1>23, <1>24, <1>25, <1>26, <1>27, <1>28, <1>29,
       <1>30, <1>31, <1>32, <1>33, <1>34, <1>35, <1>36, <1>37, <1>38, <1>39 DEF Next, WorkerStep

(* What may run is stopped, or said not to be.                                 *)
LEMMA StoppingKeeps == TurnTypeOK /\ Quieted /\ Stopping /\ [Next]_vars => Stopping'
<1> SUFFICES ASSUME TurnTypeOK /\ Quieted /\ Stopping, [Next]_vars PROVE Stopping'
    OBVIOUS
<1>0. reply \in Replies /\ page \in Pages /\ message \in Messages
    BY TurnTypes
<1> USE <1>0, Fresh DEF Stopping, Quieted, Closing, Status, Stoppable, Before, Early, Replies, Pages,
   Messages, Goes, Leaves, Fails, Completes, Interrupts, Still, Outside, Mishap, pageVars, readVars,
   endVars, turnVars, composerVars
<1>1. ASSUME Refused \/ PrepareFails PROVE Stopping'
    BY <1>1 DEF Refused, PrepareFails
<1>2. ASSUME Leases PROVE Stopping'
    BY <1>2 DEF Leases
<1>3. ASSUME Selects PROVE Stopping'
    BY <1>3 DEF Selects
<1>4. ASSUME Prepares PROVE Stopping'
    BY <1>4 DEF Prepares
<1>5. ASSUME Acquires PROVE Stopping'
    BY <1>5 DEF Acquires
<1>6. ASSUME AcquiresLate \/ OrphanCloses PROVE Stopping'
    BY <1>6 DEF AcquiresLate, OrphanCloses
<1>7. ASSUME Opens \/ Files \/ Activated PROVE Stopping'
    BY <1>7 DEF Opens, Files, Activated
<1>8. ASSUME SelectsEffort PROVE Stopping'
    BY <1>8 DEF SelectsEffort, Attach
<1>9. ASSUME Attaching \/ AttachmentTimesOut PROVE Stopping'
    BY <1>9 DEF Attaching, AttachmentTimesOut, Halt
<1>10. ASSUME Attached PROVE Stopping'
    BY <1>10 DEF Attached, AttemptEnds
<1>11. ASSUME AttachmentFails PROVE Stopping'
    BY <1>11 DEF AttachmentFails
<1>12. ASSUME Refreshes PROVE Stopping'
    BY <1>12 DEF Refreshes
<1>13. ASSUME Sends PROVE Stopping'
    BY <1>13 DEF Sends
<1>14. ASSUME Presses PROVE Stopping'
    BY <1>14 DEF Presses
<1>15. ASSUME ObservesEarly PROVE Stopping'
    BY <1>15 DEF ObservesEarly
<1>16. ASSUME Accepts PROVE Stopping'
    BY <1>16 DEF Accepts
<1>17. ASSUME Binds PROVE Stopping'
    BY <1>17 DEF Binds
<1>18. ASSUME Confirms PROVE Stopping'
    BY <1>18 DEF Confirms
<1>19. ASSUME Looks PROVE Stopping'
    BY <1>19 DEF Looks
<1>20. ASSUME Rebinds PROVE Stopping'
    BY <1>20 DEF Rebinds, ResumeAt
<1>21. ASSUME RebindFails PROVE Stopping'
    BY <1>21 DEF RebindFails
<1>22. ASSUME Reconciles PROVE Stopping'
    BY <1>22 DEF Reconciles
<1>23. ASSUME Reads PROVE Stopping'
    BY <1>23 DEF Reads
<1>24. ASSUME NEW elapsed \in BOOLEAN, Judges(elapsed) PROVE Stopping'
    BY <1>24 DEF Judges
<1>25. ASSUME Begins PROVE Stopping'
    BY <1>25 DEF Begins
<1>26. ASSUME Commits PROVE Stopping'
    BY <1>26 DEF Commits
<1>27. ASSUME Finishes PROVE Stopping'
    BY <1>27 DEF Finishes
<1>28. ASSUME Faults PROVE Stopping'
    BY <1>28 DEF Faults
<1>29. ASSUME GivesUp \/ StageFails \/ ClosedStops \/ SignalStops PROVE Stopping'
    BY <1>29 DEF GivesUp, StageFails, ClosedStops, SignalStops, Staged
<1>30. ASSUME AlertStops PROVE Stopping'
    BY <1>30 DEF AlertStops
<1>31. ASSUME Cleans PROVE Stopping'
    BY <1>31 DEF Cleans
<1>32. ASSUME Releases PROVE Stopping'
    BY <1>32 DEF Releases, Released
<1>33. ASSUME Ends PROVE Stopping'
    BY <1>33 DEF Ends
<1>34. ASSUME Aborts PROVE Stopping'
    BY <1>34 DEF Aborts
<1>35. ASSUME Submits PROVE Stopping'
    BY <1>35 DEF Submits
<1>36. ASSUME AnswerMoves \/ Intrudes \/ PageCloses \/ Hangs PROVE Stopping'
    BY <1>36 DEF AnswerMoves, Intrudes, PageCloses, Hangs
<1>37. ASSUME Writes \/ Asks \/ ReplyEnds \/ ActionShows PROVE Stopping'
    BY <1>37 DEF Writes, Asks, ReplyEnds, ActionShows
<1>38. ASSUME CallArrives \/ CallReturns \/ Lapses PROVE Stopping'
    BY <1>38 DEF CallArrives, CallReturns, Lapses
<1>39. CASE UNCHANGED vars
    BY <1>39 DEF vars
<1> QED
    BY <1>1, <1>2, <1>3, <1>4, <1>5, <1>6, <1>7, <1>8, <1>9, <1>10, <1>11, <1>12, <1>13, <1>14, <1>15,
       <1>16, <1>17, <1>18, <1>19, <1>20, <1>21, <1>22, <1>23, <1>24, <1>25, <1>26, <1>27, <1>28, <1>29,
       <1>30, <1>31, <1>32, <1>33, <1>34, <1>35, <1>36, <1>37, <1>38, <1>39 DEF Next, WorkerStep

(* What was seen of the answer is what the bound answer shows.                 *)
LEMMA FollowedKeeps == TurnTypeOK /\ Quieted /\ Followed /\ [Next]_vars => Followed'
<1> SUFFICES ASSUME TurnTypeOK /\ Quieted /\ Followed, [Next]_vars PROVE Followed'
    OBVIOUS
<1>0. reply \in Replies /\ page \in Pages /\ watch \in Watches /\ seen \in Sights
    BY TurnTypes
<1> USE <1>0, Fresh DEF Followed, Quieted, Answers, Before, Early, Replies, Pages, Watches, Sights, Goes,
   Leaves, Fails, Completes, Interrupts, Still, Outside, Mishap, pageVars, readVars, endVars, turnVars,
   composerVars
<1>1. ASSUME Refused \/ PrepareFails PROVE Followed'
    BY <1>1 DEF Refused, PrepareFails
<1>2. ASSUME Leases PROVE Followed'
    BY <1>2 DEF Leases
<1>3. ASSUME Selects PROVE Followed'
    BY <1>3 DEF Selects
<1>4. ASSUME Prepares PROVE Followed'
    BY <1>4 DEF Prepares
<1>5. ASSUME Acquires PROVE Followed'
    BY <1>5 DEF Acquires
<1>6. ASSUME AcquiresLate \/ OrphanCloses PROVE Followed'
    BY <1>6 DEF AcquiresLate, OrphanCloses
<1>7. ASSUME Opens \/ Files \/ Activated PROVE Followed'
    BY <1>7 DEF Opens, Files, Activated
<1>8. ASSUME SelectsEffort PROVE Followed'
    BY <1>8 DEF SelectsEffort, Attach
<1>9. ASSUME Attaching \/ AttachmentTimesOut PROVE Followed'
    BY <1>9 DEF Attaching, AttachmentTimesOut, Halt
<1>10. ASSUME Attached PROVE Followed'
    BY <1>10 DEF Attached, AttemptEnds
<1>11. ASSUME AttachmentFails PROVE Followed'
    BY <1>11 DEF AttachmentFails
<1>12. ASSUME Refreshes PROVE Followed'
    BY <1>12 DEF Refreshes
<1>13. ASSUME Sends PROVE Followed'
    BY <1>13 DEF Sends
<1>14. ASSUME Presses PROVE Followed'
    BY <1>14 DEF Presses
<1>15. ASSUME ObservesEarly PROVE Followed'
    BY <1>15 DEF ObservesEarly, Observes
<1>16. ASSUME Accepts PROVE Followed'
    BY <1>16 DEF Accepts
<1>17. ASSUME Binds PROVE Followed'
    BY <1>17 DEF Binds
<1>18. ASSUME Confirms PROVE Followed'
    BY <1>18 DEF Confirms
<1>19. ASSUME Looks PROVE Followed'
  <2>1. reply' = reply /\ page' = page /\ at = "looking" /\ at' \in {"reading", "reconciling"}
      BY <1>19 DEF Looks
  <2>2. CASE Shown /\ ~page.hung
    <3>1. seen'.action = reply.action /\ seen'.text = TextSeen
        BY <1>19, <2>2 DEF Looks, Unseen
    <3>2. watch'.node = watch.node /\ at' = "reading"
        BY <1>19, <2>2 DEF Looks
    <3> QED
        BY <2>1, <3>1, <3>2 DEF TextSeen
  <2>3. CASE UNCHANGED <<seen, watch>>
      BY <2>1, <2>3
  <2> QED
      BY <1>19, <2>2, <2>3 DEF Looks
<1>20. ASSUME Rebinds PROVE Followed'
    BY <1>20 DEF Rebinds, ResumeAt
<1>21. ASSUME RebindFails PROVE Followed'
    BY <1>21 DEF RebindFails
<1>22. ASSUME Reconciles PROVE Followed'
    BY <1>22 DEF Reconciles, Replacement, Overtaken, Shown
<1>23. ASSUME Reads PROVE Followed'
    BY <1>23 DEF Reads, Observes
<1>24. ASSUME NEW elapsed \in BOOLEAN, Judges(elapsed) PROVE Followed'
    BY <1>24 DEF Judges, Ready, Settling, Complete, Unanswered
<1>25. ASSUME Begins PROVE Followed'
    BY <1>25 DEF Begins
<1>26. ASSUME Commits PROVE Followed'
    BY <1>26 DEF Commits
<1>27. ASSUME Finishes PROVE Followed'
    BY <1>27 DEF Finishes
<1>28. ASSUME Faults PROVE Followed'
    BY <1>28 DEF Faults
<1>29. ASSUME GivesUp \/ StageFails \/ ClosedStops \/ SignalStops PROVE Followed'
    BY <1>29 DEF GivesUp, StageFails, ClosedStops, SignalStops, Staged
<1>30. ASSUME AlertStops PROVE Followed'
    BY <1>30 DEF AlertStops
<1>31. ASSUME Cleans PROVE Followed'
    BY <1>31 DEF Cleans
<1>32. ASSUME Releases PROVE Followed'
    BY <1>32 DEF Releases, Released
<1>33. ASSUME Ends PROVE Followed'
    BY <1>33 DEF Ends
<1>34. ASSUME Aborts PROVE Followed'
    BY <1>34 DEF Aborts
<1>35. ASSUME Submits PROVE Followed'
    BY <1>35 DEF Submits
<1>36. ASSUME AnswerMoves PROVE Followed'
    BY <1>36 DEF AnswerMoves
<1>37. ASSUME Intrudes PROVE Followed'
    BY <1>37 DEF Intrudes
<1>38. ASSUME PageCloses PROVE Followed'
    BY <1>38 DEF PageCloses
<1>39. ASSUME Hangs PROVE Followed'
    BY <1>39 DEF Hangs
<1>40. ASSUME Writes \/ Asks \/ ReplyEnds \/ ActionShows PROVE Followed'
    BY <1>40 DEF Writes, Asks, ReplyEnds, ActionShows
<1>41. ASSUME CallArrives PROVE Followed'
    BY <1>41 DEF CallArrives
<1>42. ASSUME CallReturns PROVE Followed'
    BY <1>42 DEF CallReturns
<1>43. ASSUME Lapses PROVE Followed'
    BY <1>43 DEF Lapses
<1>44. CASE UNCHANGED vars
    BY <1>44 DEF vars
<1> QED
    BY <1>1, <1>2, <1>3, <1>4, <1>5, <1>6, <1>7, <1>8, <1>9, <1>10, <1>11, <1>12, <1>13, <1>14, <1>15,
       <1>16, <1>17, <1>18, <1>19, <1>20, <1>21, <1>22, <1>23, <1>24, <1>25, <1>26, <1>27, <1>28, <1>29,
       <1>30, <1>31, <1>32, <1>33, <1>34, <1>35, <1>36, <1>37, <1>38, <1>39, <1>40, <1>41, <1>42, <1>43,
       <1>44 DEF Next, WorkerStep

(* The fence gave its revision with every batch of calls observed.             *)
LEMMA FencingKeeps == TurnTypeOK /\ Fencing /\ [Next]_vars => Fencing'
<1> SUFFICES ASSUME TurnTypeOK /\ Fencing, [Next]_vars PROVE Fencing'
    OBVIOUS
<1>0. calls \in Calls /\ watch \in Watches /\ message \in Messages
    BY TurnTypes
<1> USE <1>0, Fresh DEF Fencing, Before, Early, Final, Watched, Calls, Watches, Messages, Goes, Leaves,
   Fails, Completes, Interrupts, Still, Outside, Mishap, pageVars, readVars, endVars, turnVars,
   composerVars
<1>1. ASSUME Refused \/ PrepareFails PROVE Fencing'
    BY <1>1 DEF Refused, PrepareFails
<1>2. ASSUME Leases PROVE Fencing'
    BY <1>2 DEF Leases
<1>3. ASSUME Selects PROVE Fencing'
    BY <1>3 DEF Selects
<1>4. ASSUME Prepares PROVE Fencing'
    BY <1>4 DEF Prepares
<1>5. ASSUME Acquires PROVE Fencing'
    BY <1>5 DEF Acquires
<1>6. ASSUME AcquiresLate \/ OrphanCloses PROVE Fencing'
    BY <1>6 DEF AcquiresLate, OrphanCloses
<1>7. ASSUME Opens \/ Files \/ Activated PROVE Fencing'
    BY <1>7 DEF Opens, Files, Activated
<1>8. ASSUME SelectsEffort PROVE Fencing'
    BY <1>8 DEF SelectsEffort, Attach
<1>9. ASSUME Attaching \/ AttachmentTimesOut PROVE Fencing'
    BY <1>9 DEF Attaching, AttachmentTimesOut, Halt
<1>10. ASSUME Attached PROVE Fencing'
    BY <1>10 DEF Attached, AttemptEnds
<1>11. ASSUME AttachmentFails PROVE Fencing'
    BY <1>11 DEF AttachmentFails
<1>12. ASSUME Refreshes PROVE Fencing'
    BY <1>12 DEF Refreshes
<1>13. ASSUME Sends PROVE Fencing'
    BY <1>13 DEF Sends
<1>14. ASSUME Presses PROVE Fencing'
    BY <1>14 DEF Presses
<1>15. ASSUME ObservesEarly PROVE Fencing'
    BY <1>15 DEF ObservesEarly, Observes, Unobserved
<1>16. ASSUME Accepts PROVE Fencing'
    BY <1>16 DEF Accepts
<1>17. ASSUME Binds PROVE Fencing'
  <2>1. watch'.batch = watch.batch \/ watch' = Unbound
      BY <1>17 DEF Binds
  <2>2. calls' = calls /\ UNCHANGED <<message, config>>
      BY <1>17 DEF Binds
  <2>3. at = "binding" /\ at' \in {"looking", "failing"}
      BY <1>17 DEF Binds
  <2> QED
      BY <2>1, <2>2, <2>3
<1>18. ASSUME Confirms PROVE Fencing'
    BY <1>18 DEF Confirms
<1>19. ASSUME Looks PROVE Fencing'
    BY <1>19 DEF Looks
<1>20. ASSUME Rebinds PROVE Fencing'
    BY <1>20 DEF Rebinds, ResumeAt
<1>21. ASSUME RebindFails PROVE Fencing'
    BY <1>21 DEF RebindFails
<1>22. ASSUME Reconciles PROVE Fencing'
  <2>1. watch'.batch = watch.batch \/ watch' = Unbound
      BY <1>22 DEF Reconciles
  <2>2. calls' = calls /\ UNCHANGED <<message, config>>
      BY <1>22 DEF Reconciles
  <2>3. at = "reconciling" /\ at' \in {"reading", "looking", "failing"}
      BY <1>22 DEF Reconciles
  <2> QED
      BY <2>1, <2>2, <2>3
<1>23. ASSUME Reads PROVE Fencing'
  <2>1. calls' = calls /\ UNCHANGED <<message, config>> /\ at = "reading" /\ at' = "judging"
      BY <1>23 DEF Reads
  <2>2. CASE Unobserved
    <3>1. watch'.batch = calls.batches
        BY <1>23, <2>2 DEF Reads, Observes
    <3>2. calls.batches \in Nat
        OBVIOUS
    <3> QED
        BY <2>1, <3>1, <3>2
  <2>3. CASE ~Unobserved
    <3>1. UNCHANGED watch
        BY <1>23, <2>3 DEF Reads
    <3>2. Watched => watch.batch = calls.batches
        BY <2>3 DEF Unobserved
    <3> QED
        BY <2>1, <3>1, <3>2
  <2> QED
      BY <2>2, <2>3
<1>24. ASSUME NEW elapsed \in BOOLEAN, Judges(elapsed) PROVE Fencing'
    BY <1>24 DEF Judges
<1>25. ASSUME Begins PROVE Fencing'
    BY <1>25 DEF Begins
<1>26. ASSUME Commits PROVE Fencing'
    BY <1>26 DEF Commits, Fenced
<1>27. ASSUME Finishes PROVE Fencing'
    BY <1>27 DEF Finishes
<1>28. ASSUME Faults PROVE Fencing'
    BY <1>28 DEF Faults
<1>29. ASSUME GivesUp \/ StageFails \/ ClosedStops \/ SignalStops PROVE Fencing'
    BY <1>29 DEF GivesUp, StageFails, ClosedStops, SignalStops, Staged
<1>30. ASSUME AlertStops PROVE Fencing'
    BY <1>30 DEF AlertStops
<1>31. ASSUME Cleans PROVE Fencing'
    BY <1>31 DEF Cleans
<1>32. ASSUME Releases PROVE Fencing'
    BY <1>32 DEF Releases, Released
<1>33. ASSUME Ends PROVE Fencing'
    BY <1>33 DEF Ends
<1>34. ASSUME Aborts PROVE Fencing'
    BY <1>34 DEF Aborts
<1>35. ASSUME Submits PROVE Fencing'
    BY <1>35 DEF Submits
<1>36. ASSUME AnswerMoves PROVE Fencing'
    BY <1>36 DEF AnswerMoves
<1>37. ASSUME Intrudes PROVE Fencing'
    BY <1>37 DEF Intrudes
<1>38. ASSUME PageCloses PROVE Fencing'
    BY <1>38 DEF PageCloses
<1>39. ASSUME Hangs PROVE Fencing'
    BY <1>39 DEF Hangs
<1>40. ASSUME Writes \/ Asks \/ ReplyEnds \/ ActionShows PROVE Fencing'
    BY <1>40 DEF Writes, Asks, ReplyEnds, ActionShows
<1>41. ASSUME CallArrives PROVE Fencing'
  <2>1. calls'.batches = calls.batches + 1 /\ calls'.open = 1
        /\ calls'.rev \notin {"current", "committed"}
        /\ (calls'.rev = "none" <=> calls.rev = "none")
      BY <1>41 DEF CallArrives, Active
  <2>2. calls.rev # "committed" /\ UNCHANGED <<at, message, config, watch>>
      BY <1>41 DEF CallArrives
  <2> QED
      BY <2>1, <2>2
<1>42. ASSUME CallReturns PROVE Fencing'
  <2>1. calls'.batches = calls.batches /\ calls'.open = 0 /\ calls'.rev # "current"
        /\ (calls'.rev = "none" <=> calls.rev = "none")
        /\ (calls'.rev = "committed" <=> calls.rev = "committed")
      BY <1>42 DEF CallReturns, Active
  <2>2. calls.open = 1 /\ watch.batch = calls.batches
      BY <1>42 DEF CallReturns
  <2>3. UNCHANGED <<at, message, config, watch>>
      BY <1>42 DEF CallReturns
  <2> QED
      BY <2>1, <2>2, <2>3
<1>43. ASSUME Lapses PROVE Fencing'
    BY <1>43 DEF Lapses
<1>44. CASE UNCHANGED vars
    BY <1>44 DEF vars
<1> QED
    BY <1>1, <1>2, <1>3, <1>4, <1>5, <1>6, <1>7, <1>8, <1>9, <1>10, <1>11, <1>12, <1>13, <1>14, <1>15,
       <1>16, <1>17, <1>18, <1>19, <1>20, <1>21, <1>22, <1>23, <1>24, <1>25, <1>26, <1>27, <1>28, <1>29,
       <1>30, <1>31, <1>32, <1>33, <1>34, <1>35, <1>36, <1>37, <1>38, <1>39, <1>40, <1>41, <1>42, <1>43,
       <1>44 DEF Next, WorkerStep

(* The inductive invariant.                                                      *)
TurnSound == /\ ComposerSound /\ TurnTypeOK /\ Counted /\ Quieted /\ Composed /\ Holding /\ Told
             /\ Stopping /\ Followed /\ Fencing

(* A turn begins sound.                                                        *)
LEMMA TurnStarts == Init => TurnSound
<1> SUFFICES ASSUME Init PROVE TurnSound
    OBVIOUS
<1>1. ComposerSound
  <2>1. composer = Empty /\ personal \in Chats /\ ~personal.menu /\ want \in Wants
      BY DEF Init, ComposerInit, Chats, Wants
  <2>2. /\ submitted = FALSE /\ catalog \in {"listed", "stale", "renamed"}
        /\ step = "unused" /\ proof = "none" /\ proofs = 0 /\ receipt = "none" /\ triggers = 0
        /\ retryLeft = FALSE /\ halted = FALSE /\ failure = "none"
      BY DEF Init, ComposerInit
  <2>3. Counts /\ Steady /\ Standing
    <3>1. Counts
        BY <2>2, TriggersAssumption DEF Counts
    <3>2. Steady
        BY <2>2 DEF Steady
    <3>3. Standing
        BY <2>2 DEF Standing, Steps, Errors
    <3> QED
        BY <3>1, <3>2, <3>3
  <2>4. ComposerTypeOK
      BY <2>1, <2>3, Picked, ComposerTypes
  <2>5. Written /\ Undone /\ Wanted /\ ByHand
      BY <2>1, <2>2 DEF Written, Undone, Wanted, ByHand, FailedIsClean, Quiet, Menued, Watching
  <2> QED
      BY <2>4, <2>5 DEF ComposerSound
<1>2. TurnTypeOK
  <2>1. config \in Turns /\ config.stages \in Nat /\ config.mishaps \in Nat
      BY TurnAssumption DEF Init, TurnInit
  <2>2. OwnKind /\ EndKind
      BY <2>1 DEF Init, TurnInit, OwnKind, Owns, EndKind, Phases
  <2>3. MessageKind
      BY <2>1, TurnAssumption DEF Init, TurnInit, MessageKind, Messages
  <2>4. PageKind
    <3> DEFINE l == IF Ordinary THEN config.mishaps ELSE 0
    <3>1. page = [users |-> {}, node |-> "none", ids |-> "none", other |-> FALSE, inflight |-> FALSE,
                  closed |-> FALSE, hung |-> FALSE, left |-> l]
        BY DEF Init, TurnInit
    <3>2. l \in Nat /\ l \in 0..config.mishaps
        BY <2>1
    <3> HIDE DEF l
    <3>3. page \in Pages /\ page.left = l
        BY <3>1, <3>2 DEF Pages
    <3> QED
        BY <3>2, <3>3 DEF PageKind
  <2>5. ReplyKind /\ CallsKind
      BY TurnAssumption DEF Init, TurnInit, ReplyKind, Replies, Silent, CallsKind, Calls
  <2>6. WatchKind /\ SightKind /\ WindowKind
      BY LoopLeft DEF Init, TurnInit, WatchKind, SightKind, WindowKind
  <2>7. AttemptKind
      BY TurnAssumption DEF Init, TurnInit, AttemptKind, Attempts
  <2> QED
      BY <2>2, <2>3, <2>4, <2>5, <2>6, <2>7, TurnTypeParts DEF Kinds
<1>3. Counted /\ Composed
  <2>1. Counted
      BY DEF Init, TurnInit, Counted, Early, Before, Answering
  <2>2. Composed
      BY DEF Init, TurnInit, ComposerInit, Composed, AttachedIsWhole, Early
  <2> QED
      BY <2>1, <2>2
<1>4. Quieted /\ Holding /\ Told
    BY DEF Init, TurnInit, ComposerInit, Quieted, Holding, Told, Silent, Early, Before, Answering,
       Underway
<1>5. Stopping
    BY DEF Init, TurnInit, Stopping, Silent
<1>6. Followed
    BY Fresh DEF Init, TurnInit, Followed
<1>7. Fencing
    BY Fresh DEF Init, TurnInit, Fencing
<1> QED
    BY <1>1, <1>2, <1>3, <1>4, <1>5, <1>6, <1>7 DEF TurnSound

(* Every step keeps the type invariant.                                        *)
LEMMA TurnTypesKeep == TurnTypeOK /\ [Next]_vars => TurnTypeOK'
BY TurnTypePartsNext, OwnTyped, MessageTyped, PageTyped, ReplyTyped, CallsTyped, WatchTyped, SightTyped,
   WindowTyped, AttemptTyped, EndTyped DEF Kinds

(* Every step of the turn, its page or the outside keeps the invariant.        *)
LEMMA TurnStepKeeps == TurnSound /\ [Next]_vars => TurnSound'
<1> SUFFICES ASSUME TurnSound, [Next]_vars PROVE TurnSound'
    OBVIOUS
<1>1. ComposerSound' /\ TurnTypeOK'
    BY ComposerKeeps, TurnTypesKeep DEF TurnSound
<1>2. Counted' /\ Quieted' /\ Composed' /\ Holding'
    BY CountedKeeps, QuietedKeeps, ComposedKeeps, HoldingKeeps DEF TurnSound
<1>3. Told' /\ Stopping' /\ Followed' /\ Fencing'
    BY ToldKeeps, StoppingKeeps, FollowedKeeps, FencingKeeps DEF TurnSound
<1> QED
    BY <1>1, <1>2, <1>3 DEF TurnSound

(* So the invariant holds throughout.                                          *)
LEMMA TurnStaysSound == Spec => []TurnSound
BY TurnStarts, TurnStepKeeps, PTL DEF Spec

(* What is sent and what is taken for the answer is whole, on a page that may    *)
(* lose, delay or replace any of it.                                             *)
THEOREM ExchangesAreWhole == Spec => []ExchangeIsWhole
<1>1. TurnSound => ExchangeIsWhole
  <2> SUFFICES ASSUME TurnSound PROVE ExchangeIsWhole
      OBVIOUS
  <2>1. ComposerTypeOK /\ TurnTypeOK /\ AttachedIsWhole
      BY DEF TurnSound, ComposerSound, Composed
  <2>2. SentInOrder
    <3>1. message.presses \in Nat /\ message.part \in Nat /\ config.stages \in Nat
        BY TurnTypes DEF TurnSound, Messages
    <3> QED
        BY <3>1 DEF TurnSound, Counted, SentInOrder, Final, EffortOf, Before
  <2>3. CompletedIsWhole
      BY DEF TurnSound, Followed, Fencing, CompletedIsWhole
  <2> QED
      BY <2>1, <2>2, <2>3 DEF ExchangeIsWhole
<1> QED
    BY <1>1, TurnStaysSound, PTL

(* However a turn ends, its page, its prompt, its connection and its lease are   *)
(* given back, and ChatGPT is stopped or said not to be.                         *)
THEOREM TurnsEndCleanly == Spec => []EndIsClean
<1>1. TurnSound => EndIsClean
  <2> SUFFICES ASSUME TurnSound PROVE EndIsClean
      OBVIOUS
  <2>1. FailedIsClean
      BY DEF TurnSound, ComposerSound, Undone
  <2>2. at = "done" => own.prompt = "none" /\ own.link # "open" /\ own.lease # "held" /\ ~own.beat
    <3>1. own.prompt \in {"none", "held"}
        BY TurnTypes DEF TurnSound, Owns
    <3> QED
        BY <3>1 DEF TurnSound, Holding
  <2>3. ended.bound => ended.status = "completed" /\ Final
      BY DEF TurnSound, Told
  <2>4. (at \in {"releasing", "ending"} /\ outcome # "completed" /\ reply.gen = "running") =>
            Status = "completed" \/ cleanup \in {"unconfirmed", "closed", "idle"}
      BY DEF TurnSound, Stopping
  <2> QED
      BY <2>1, <2>2, <2>3, <2>4 DEF EndIsClean
<1> QED
    BY <1>1, TurnStaysSound, PTL

(* The worker never follows to the answer of a message that was sent after it    *)
(* bound its own.                                                                *)
THEOREM AnswersAreOwn == Spec => OwnAnswerOnly
<1> DEFINE Strays == watch.node \in {"first", "second"} /\ watch'.node = "other"
<1>1. TurnSound /\ [Next]_vars => (Strays => "other" \in watch.accepted)
  <2> SUFFICES ASSUME TurnSound, [Next]_vars, Strays PROVE "other" \in watch.accepted
      OBVIOUS
  <2>0. watch \in Watches
      BY TurnTypes DEF TurnSound
  <2>1. ASSUME Prepares \/ AcquiresLate \/ SelectsEffort \/ AttachmentFails \/ Presses
               \/ Accepts \/ GivesUp \/ Faults \/ Rebinds \/ RebindFails \/ Finishes
               \/ StageFails \/ AlertStops \/ ClosedStops \/ SignalStops
               \/ (\E elapsed \in BOOLEAN : Judges(elapsed))
        PROVE  FALSE
    <3>1. UNCHANGED watch \/ watch' = Unbound
        BY <2>1 DEF Prepares, AcquiresLate, SelectsEffort, AttachmentFails, Presses, Accepts, GivesUp,
           Faults, Rebinds, RebindFails, Finishes, StageFails, AlertStops, ClosedStops,
           SignalStops, Judges, Goes, Leaves, Fails, Interrupts, Completes, Still, readVars
    <3> QED
        BY <3>1, Fresh
  <2>2. ASSUME Looks \/ Reads \/ ObservesEarly
        PROVE  FALSE
    <3>1. watch'.node = watch.node
        BY <2>0, <2>2 DEF Looks, Reads, ObservesEarly, Observes, Goes, Watches
    <3> QED
        BY <3>1
  <2>3. CASE Binds
    <3>1. at = "binding"
        BY <2>3 DEF Binds
    <3> QED
        BY <3>1 DEF TurnSound, Followed
  <2>4. CASE Reconciles
    <3>1. CASE UNCHANGED watch \/ watch' = Unbound
        BY <3>1, Fresh
    <3>2. CASE ~Overtaken /\ \E n \in Replacement : watch'.node = n
      <4>1. "other" \in Replacement /\ page.users \subseteq watch.accepted
          BY <3>2 DEF Overtaken
      <4>2. page.other
          BY <4>1 DEF Replacement, Answers
      <4> QED
          BY <4>1, <4>2 DEF TurnSound, Followed
    <3>3. ASSUME NEW n, watch' = [watch EXCEPT !.node = n, !.accepted = page.users,
                                              !.ids = @ \/ page.ids # "none"]
          PROVE  watch'.node = n
        BY <2>0, <3>3 DEF Watches
    <3> QED
        BY <2>4, <3>1, <3>2, <3>3 DEF Reconciles, Goes, Leaves, Fails, readVars
  <2>5. ASSUME Refused \/ Leases \/ Selects \/ PrepareFails \/ Acquires \/ OrphanCloses \/ Opens
               \/ Attached \/ Refreshes \/ Files \/ Sends \/ Activated \/ Confirms \/ Begins
               \/ Commits \/ Cleans \/ Releases \/ Ends \/ Attaching \/ AttachmentTimesOut
               \/ Aborts \/ Submits \/ AnswerMoves \/ Intrudes \/ PageCloses \/ Hangs \/ Writes
               \/ Asks \/ ReplyEnds \/ ActionShows \/ CallArrives \/ CallReturns \/ Lapses
        PROVE  UNCHANGED watch
      BY <2>5 DEF Refused, Leases, Selects, PrepareFails, Acquires, OrphanCloses, Opens, Attached,
         Refreshes, Files, Sends, Activated, Confirms, Begins, Commits, Cleans, Releases, Ends,
         Attaching, AttachmentTimesOut, Aborts, Submits, AnswerMoves, Intrudes, PageCloses,
         Hangs, Writes, Asks, ReplyEnds, ActionShows, CallArrives, CallReturns, Lapses, Goes,
         Leaves, Fails, Completes, Interrupts, Still, Outside, readVars, turnVars
  <2>6. CASE UNCHANGED watch
      BY <2>6
  <2> QED
      BY <2>1, <2>2, <2>3, <2>4, <2>5, <2>6 DEF Next, WorkerStep, vars, turnVars
<1> QED
    BY <1>1, TurnStaysSound, PTL DEF Spec, OwnAnswerOnly
================================================================================
