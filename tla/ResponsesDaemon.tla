--------------------------- MODULE ResponsesDaemon ---------------------------
(* The HTTP side of the daemon (src/server.ts, src/bridge.ts,                *)
(* src/event-queue.ts, src/responses/state.ts) around one round of one       *)
(* native turn: Codex posts it, may lose the connection and post the same    *)
(* round again.  Every request is tracked by the HTTP turn counter, runs the *)
(* adapter, whose events pass through a bounded queue into the server-sent   *)
(* events of the response; the adapter journals the round in the browser     *)
(* session, so that the next request replays it.  The launcher drains,       *)
(* resumes and shuts the daemon down, the interrupt hook and the closed tab  *)
(* cancel the turn, the client leaves, the stall timer fires, and the        *)
(* process may crash and come back with the snapshot of the responses that   *)
(* it remembered.                                                            *)
(*                                                                           *)
(* JavaScript runs a callback and the continuations it wakes to the end      *)
(* before the next timer or message: a step is one such run.  Headers,       *)
(* parsing and the text of an event are left out, and with them heartbeats   *)
(* and events that make no frame, which only restart the stall timer.        *)
EXTENDS Naturals, Sequences, FiniteSets, SequencesExt

CONSTANTS
    Posts,     \* the posts of the round: the first and its reconnects
    MaxBuffered,  \* the backlog an event queue holds (10,000)
    MaxStored,    \* the responses the store holds (1,000)
    MaxEvents,    \* how many text events the browser produces: a bound of the model
    MaxLives      \* how often the daemon is started: a bound of the model

ASSUME PostsAssumption == IsFiniteSet(Posts) /\ Posts # {}
ASSUME BoundsAssumption ==
    {MaxBuffered, MaxStored, MaxEvents, MaxLives} \subseteq Nat \ {0}

VARIABLES
    accepting,    \* the daemon is not draining
    leaving,      \* the daemon's shutdown: "no", "scheduled" by an acknowledged
                  \* request, "overtaken" by a resume after it, "closing", "gone"
    lives,        \* how often the daemon was started
    interrupted,  \* the interrupt of this turn is remembered
    streamed,     \* the round asks for a stream, and does so when posted again
    http,         \* request -> where its HTTP exchange stands
    aborted,      \* request -> its tracked abort signal fired
    adapter,      \* request -> the run of the adapter
    joined,       \* request -> the session its adapter joined, 0 when none
    pipe,         \* request -> event queue and bridge of the response
    sessions,     \* the browser sessions of the round, in the order they began
    current,      \* the one that is registered, 0 when none
    stored,       \* the responses that are remembered, oldest first
    loaded,       \* the snapshot was read since the daemon started
    unsaved,      \* the timer that writes the snapshot is armed
    snapshot      \* responses-state.json

daemonVars == <<accepting, leaving, lives, interrupted, streamed>>
httpVars   == <<http, aborted>>
roundVars  == <<adapter, joined, sessions, current>>
storeVars  == <<stored, loaded, unsaved, snapshot>>
responseVars == <<daemonVars, httpVars, roundVars, storeVars, pipe>>

Delta(n)  == [kind |-> "delta", n |-> n]
Mark(k)   == [kind |-> k, n |-> 0]
Done      == Mark("done")
Error     == Mark("error")
Events    == {Delta(n) : n \in 1..MaxEvents} \cup {Done, Error}
Terminals == {Mark("completed"), Mark("failed"), Mark("incomplete")}
Closing   == Mark("[DONE]")
InFlight    == {"reading", "collecting", "replying", "streaming"}

NoPipe == [backlog |-> <<>>, shut |-> FALSE, step |-> "none",
           sent |-> <<>>, told |-> FALSE]

DaemonTypeOK ==
    /\ {accepting, interrupted, streamed, loaded, unsaved} \subseteq BOOLEAN
    /\ leaving \in {"no", "scheduled", "overtaken", "closing", "gone"}
    /\ lives \in 1..MaxLives
    /\ http \in [Posts -> InFlight \cup {"unsent", "refused", "over"}]
    /\ aborted \in [Posts -> BOOLEAN]
    /\ adapter \in [Posts -> {"off", "starting", "waiting", "live", "ended"}]
    /\ joined \in [Posts -> 0..Len(sessions)] /\ current \in 0..Len(sessions)
    /\ \A q \in Posts :
         /\ pipe[q].backlog \in BoundedSeq(Events, MaxBuffered)
         /\ pipe[q].step \in {"none", "gated", "waiting", "closed"}
         /\ {pipe[q].shut, pipe[q].told} \subseteq BOOLEAN
    /\ \A s \in DOMAIN sessions :
         sessions[s].state \in {"active", "final", "error", "cancelled", "retiring", "gone"}
    /\ {Range(stored), Range(snapshot)} \subseteq SUBSET Posts
    /\ Len(stored) <= MaxStored

DaemonInit ==
    /\ accepting = TRUE /\ leaving = "no" /\ lives = 1
    /\ interrupted = FALSE /\ streamed \in BOOLEAN
    /\ http = [q \in Posts |-> "unsent"]
    /\ aborted = [q \in Posts |-> FALSE]
    /\ adapter = [q \in Posts |-> "off"]
    /\ joined = [q \in Posts |-> 0]
    /\ pipe = [q \in Posts |-> NoPipe]
    /\ sessions = <<>> /\ current = 0
    /\ stored = <<>> /\ loaded = FALSE /\ unsaved = FALSE /\ snapshot = <<>>

-----------------------------------------------------------------------------
(* The store of responses                                                    *)

\* What the store holds once the snapshot was read, newest MaxStored only.
PruneResponses(s) == IF Len(s) <= MaxStored THEN s ELSE SubSeq(s, Len(s) - MaxStored + 1, Len(s))

\* Mutant: the store forgets to read its snapshot first.
LoadedNot == stored

Loaded == IF loaded THEN stored ELSE PruneResponses(snapshot)

Remember(qs) ==
    IF qs = <<>> THEN UNCHANGED storeVars
    ELSE /\ stored' = PruneResponses(Loaded \o qs)
         /\ loaded' = TRUE /\ unsaved' = TRUE
         /\ UNCHANGED snapshot

\* A request that names an earlier response makes the store load its snapshot.
ExpandPrevious ==
    /\ leaving # "gone" /\ ~loaded /\ snapshot # <<>>
    /\ stored' = Loaded /\ loaded' = TRUE
    /\ UNCHANGED <<daemonVars, httpVars, roundVars, pipe, unsaved, snapshot>>

Persisted == snapshot' = stored /\ unsaved' = FALSE /\ UNCHANGED <<stored, loaded>>

PersistTimer ==
    /\ leaving # "gone" /\ unsaved /\ Persisted
    /\ UNCHANGED <<daemonVars, httpVars, roundVars, pipe>>

-----------------------------------------------------------------------------
(* The pipe of a response: the queue the adapter pushes into and the step    *)
(* that pulls one event, emits its frame and rests until the client pulls    *)

\* The stream ends with one terminal frame: the adapter is told to stop and
\* the iterator is returned, which closes the queue.
Ends(p, f) == [sent |-> p.sent \o <<f, Closing>>, step |-> "closed",
               told |-> TRUE, shut |-> TRUE, backlog |-> <<>>]

Handle(p, e) ==
    CASE e = Done  -> Ends(p, Mark("completed"))
      [] e = Error -> Ends(p, Mark("failed"))
      [] OTHER     -> [p EXCEPT !.sent = Append(@, e), !.step = "gated"]

\* The adapter stopped without a terminal event.
Eof(p) == [p EXCEPT !.sent = @ \o <<Mark("incomplete"), Closing>>, !.step = "closed"]

\* A batch is pushed in one go: a waiting step gets its first event, the rest
\* is the backlog, and what the backlog cannot hold throws into the adapter.
Backlog(p, batch) ==
    p.backlog \o (IF p.step = "waiting" THEN Tail(batch) ELSE batch)
Overflows(p, batch) ==
    /\ batch # <<>> /\ ~p.shut
    /\ Len(Backlog(p, batch)) > MaxBuffered
Feed(p, batch) ==
    IF p.shut \/ batch = <<>> THEN p
    ELSE LET all  == Backlog(p, batch)
             held == [p EXCEPT !.backlog =
                        IF Len(all) <= MaxBuffered THEN all ELSE SubSeq(all, 1, MaxBuffered)]
         IN  IF p.step = "waiting" THEN Handle(held, Head(batch)) ELSE held

\* The run of the adapter is over and closes the queue.
Close(p) == IF p.step = "waiting" /\ ~p.shut THEN Eof([p EXCEPT !.shut = TRUE])
                                             ELSE [p EXCEPT !.shut = TRUE]

\* The client is gone: nothing is emitted any more, the adapter is told.
CancelPipe(p) == [sent |-> p.sent, step |-> "closed", told |-> TRUE, shut |-> TRUE, backlog |-> <<>>]

Completed(p) == Mark("completed") \in Range(p.sent)

\* The requests whose response a step completes are remembered.
PipesBecome(new) ==
    /\ pipe' = new
    /\ Remember(SetToSeq({q \in Posts : Completed(new[q]) /\ ~Completed(pipe[q])}))
PipeBecomes(q, p) == PipesBecome([pipe EXCEPT ![q] = p])

\* The client reads: the step takes an event from the backlog, ends with the
\* queue, or waits for the adapter.
Pull(q) ==
    /\ http[q] = "streaming" /\ pipe[q].step = "gated"
    /\ LET p == pipe[q] IN
       PipeBecomes(q, IF p.backlog # <<>>
                        THEN Handle([p EXCEPT !.backlog = Tail(@)], Head(p.backlog))
                      ELSE IF p.shut THEN Eof(p)
                      ELSE [p EXCEPT !.step = "waiting"])
    /\ UNCHANGED <<daemonVars, httpVars, roundVars>>

\* The heartbeat timer finds the adapter silent for the whole stall budget.
StallOut(p) == Ends(p, Mark("incomplete"))
Stall(q) ==
    /\ http[q] = "streaming" /\ pipe[q].step = "waiting"
    /\ PipeBecomes(q, StallOut(pipe[q]))
    /\ UNCHANGED <<daemonVars, httpVars, roundVars>>

-----------------------------------------------------------------------------
(* The tracked HTTP exchange                                                 *)

\* An abort of the tracked request: the adapter is told; a stream is
\* cancelled and its request released, any other exchange once it ends.
AbortHttp(qs) ==
    /\ aborted' = [q \in Posts |-> aborted[q] \/ q \in qs]
    /\ http' = [q \in Posts |->
                  IF q \in qs /\ http[q] \in {"streaming", "replying"} THEN "over" ELSE http[q]]
PipeOfAborted(q) ==
    IF http[q] = "streaming" THEN CancelPipe(pipe[q]) ELSE [pipe[q] EXCEPT !.told = TRUE]
AbortPipes(qs) ==
    pipe' = [q \in Posts |-> IF q \in qs THEN PipeOfAborted(q) ELSE pipe[q]]

\* Codex posts the round, and posts it again once its last request is over.
Unsent == {q \in Posts : http[q] = "unsent"}
NextRequest == CHOOSE q \in Unsent : TRUE
Arrives(q) ==
    /\ Unsent # {} /\ q = NextRequest /\ leaving # "gone"
    /\ \A p \in Posts : http[p] \notin InFlight \/ aborted[p]
    /\ http' = [http EXCEPT ![q] = IF accepting THEN "reading" ELSE "refused"]
    /\ UNCHANGED <<daemonVars, roundVars, storeVars, pipe, aborted>>

\* Mutant: an interrupt that came before the body is not remembered.
Unbound(q) == aborted[q]

\* The body names the turn: a remembered interrupt aborts the request at once.
Bound(q) == aborted[q] \/ interrupted

Tombstone == current # 0 /\ sessions[current].state = "cancelled"

\* The body was read.  A malformed request, and one for a turn whose tab was
\* closed, is answered with an error; else the adapter starts, and the stream
\* of a request that is aborted by now is cancelled before the client has it.
BodyRead(q) ==
    /\ http[q] = "reading"
    /\ aborted' = [aborted EXCEPT ![q] = Bound(q)]
    /\ \/ /\ http' = [http EXCEPT ![q] = IF Bound(q) THEN "over" ELSE "replying"]
          /\ UNCHANGED <<adapter, pipe>>
       \/ /\ ~Tombstone
          /\ adapter' = [adapter EXCEPT ![q] = "starting"]
          /\ pipe' = [pipe EXCEPT ![q] =
               IF ~streamed THEN [@ EXCEPT !.told = Bound(q)]
               ELSE IF Bound(q) THEN CancelPipe(@) ELSE [@ EXCEPT !.step = "gated"]]
          /\ http' = [http EXCEPT ![q] =
               IF ~streamed THEN "collecting" ELSE IF Bound(q) THEN "over" ELSE "streaming"]
    /\ UNCHANGED <<daemonVars, storeVars, joined, sessions, current>>

\* A response that is not streamed is built from the events once the adapter
\* ended: an error makes it failed, else it counts as completed.
Built(p) ==
    LET bad == Error \in Range(p.backlog)
    IN  [p EXCEPT !.backlog = <<>>,
                  !.sent = SelectSeq(p.backlog, LAMBDA e : e.kind = "delta")
                             \o <<Mark(IF bad THEN "failed" ELSE "completed")>>]
Collected(q) ==
    /\ http[q] = "collecting" /\ adapter[q] = "ended"
    /\ PipeBecomes(q, Built(pipe[q]))
    /\ http' = [http EXCEPT ![q] = IF aborted[q] THEN "over" ELSE "replying"]
    /\ UNCHANGED <<daemonVars, aborted, roundVars>>

\* The client has read the response to its end and the request is released.
Drained(q) ==
    /\ \/ http[q] = "replying"
       \/ http[q] = "streaming" /\ pipe[q].step = "closed"
    /\ http' = [http EXCEPT ![q] = "over"]
    /\ UNCHANGED <<daemonVars, aborted, roundVars, storeVars, pipe>>

ClientLeaves(q) ==
    /\ http[q] \in InFlight /\ ~aborted[q]
    /\ AbortHttp({q}) /\ AbortPipes({q})
    /\ UNCHANGED <<daemonVars, roundVars, storeVars>>

-----------------------------------------------------------------------------
(* The adapter and the browser session of the round                          *)

Session(q)   == sessions[joined[q]]
NewBrowserSession   == [state |-> "active", text |-> 0, journal |-> <<>>, round |-> "open"]
Ended(qs)    == [q \in Posts |-> IF q \in qs THEN "ended" ELSE adapter[q]]

\* The session leaves the registry and its browser is told to stop.
RetireSession(s, ss) ==
    IF current = s /\ s # 0
      THEN /\ current' = 0
           /\ sessions' = [ss EXCEPT ![s].state = "retiring"]
      ELSE /\ UNCHANGED current /\ sessions' = ss

\* The run ends: it pushes a last batch and closes the queue.
RunEnds(q, batch) ==
    /\ adapter' = Ended({q})
    /\ PipeBecomes(q, Close(Feed(pipe[q], batch)))

\* Joins the registered session, or begins one when every earlier browser of
\* the round is gone; without one, an aborted request begins nothing.
MayBegin(q) ==
    /\ \A s \in DOMAIN sessions : sessions[s].state = "gone"
    /\ ~pipe[q].told
Join(q) ==
    /\ adapter[q] = "starting"
    /\ adapter' = [adapter EXCEPT ![q] = "waiting"]
    /\ \/ /\ current # 0
          /\ joined' = [joined EXCEPT ![q] = current]
          /\ UNCHANGED <<sessions, current>>
       \/ /\ current = 0 /\ MayBegin(q)
          /\ sessions' = Append(sessions, NewBrowserSession)
          /\ current' = Len(sessions) + 1
          /\ joined' = [joined EXCEPT ![q] = Len(sessions) + 1]
    /\ UNCHANGED <<daemonVars, httpVars, storeVars, pipe>>

\* An aborted request stops waiting for the browser that is still going.
JoinAborted(q) ==
    /\ adapter[q] = "starting" /\ current = 0 /\ pipe[q].told
    /\ RunEnds(q, <<Error>>)
    /\ UNCHANGED <<daemonVars, httpVars, joined, sessions, current>>

\* Mutant: a run that was aborted keeps its place in the session.
BusyAfterFailure(s) ==
    \E p \in Posts :
        joined[p] = s /\ (adapter[p] = "live" \/ (adapter[p] = "ended" /\ aborted[p]))

Busy(s) == \E p \in Posts : adapter[p] = "live" /\ joined[p] = s

\* The run fails with an error of its own: the session is retired, the round
\* failed for every run that waits behind it, and the error pushed.
Breaks(q, batch) ==
    /\ RetireSession(joined[q], [sessions EXCEPT ![joined[q]].round = "failed"])
    /\ RunEnds(q, batch)
    /\ UNCHANGED <<daemonVars, httpVars, joined>>

\* The requests of a session run one at a time; each replays the journal.
ReplayOf(q)    == Session(q).journal
HasTerminal(j) == {Done, Error} \cap Range(j) # {}
GoLive(q) ==
    /\ adapter[q] = "waiting" /\ ~Busy(joined[q])
    /\ \/ /\ Overflows(pipe[q], ReplayOf(q))
          /\ Breaks(q, ReplayOf(q))
       \/ /\ ~Overflows(pipe[q], ReplayOf(q))
          /\ \/ /\ Session(q).round = "open" /\ ~HasTerminal(ReplayOf(q))
                /\ adapter' = [adapter EXCEPT ![q] = "live"]
                /\ PipeBecomes(q, Feed(pipe[q], ReplayOf(q)))
             \/ /\ Session(q).round = "completed" \/ HasTerminal(ReplayOf(q))
                /\ Session(q).round # "failed"
                /\ RunEnds(q, ReplayOf(q))
             \/ /\ Session(q).round = "failed"
                /\ RunEnds(q, Append(ReplayOf(q), Error))
          /\ UNCHANGED <<daemonVars, httpVars, joined, sessions, current>>

TextOf(batch) == Cardinality({i \in DOMAIN batch : batch[i].kind = "delta"})

\* A batch of the round, with the text drained from the browser, is
\* journalled before any of it is pushed.
Journalled(q, batch) ==
    [sessions EXCEPT ![joined[q]].journal = @ \o batch, ![joined[q]].text = @ + TextOf(batch)]

NextDelta(q) == Delta(Session(q).text + 1)

\* The run relays what the browser produced.
Relay(q) ==
    /\ adapter[q] = "live" /\ Session(q).state = "active"
    /\ Session(q).text < MaxEvents
    /\ LET batch == <<NextDelta(q)>> IN
       \/ /\ ~Overflows(pipe[q], batch)
          /\ sessions' = Journalled(q, batch)
          /\ PipeBecomes(q, Feed(pipe[q], batch))
          /\ UNCHANGED <<daemonVars, httpVars, adapter, joined, current>>
       \/ /\ Overflows(pipe[q], batch)
          /\ RetireSession(joined[q], [Journalled(q, batch) EXCEPT ![joined[q]].round = "failed"])
          /\ RunEnds(q, batch)
          /\ UNCHANGED <<daemonVars, httpVars, joined>>

\* The browser's answer is in: its last text and the completion are one batch.
LastBatch(q) ==
    IF Session(q).text < MaxEvents THEN <<NextDelta(q), Done>> ELSE <<Done>>
Finish(q) ==
    /\ adapter[q] = "live" /\ Session(q).state = "final"
    /\ LET batch == LastBatch(q) IN
       \/ /\ ~Overflows(pipe[q], batch)
          /\ sessions' = [Journalled(q, batch) EXCEPT ![joined[q]].round = "completed"]
          /\ RunEnds(q, batch)
          /\ UNCHANGED <<daemonVars, httpVars, joined, current>>
       \/ /\ Overflows(pipe[q], batch)
          /\ RetireSession(joined[q], [Journalled(q, batch) EXCEPT ![joined[q]].round = "failed"])
          /\ RunEnds(q, batch)
          /\ UNCHANGED <<daemonVars, httpVars, joined>>

\* The browser failed.  A failure that must not be repeated is journalled and
\* kept for the next request, a passing one retires the session, and an error
\* of another kind breaks the run.
Failed(q) ==
    LET told == Journalled(q, <<Error>>)
    IN  IF Overflows(pipe[q], <<Error>>) THEN told
        ELSE [told EXCEPT ![joined[q]].round = "completed"]
Fail(q) ==
    /\ adapter[q] = "live"
    /\ Session(q).state \in {"error", "cancelled", "retiring", "gone"}
    /\ \/ /\ \/ sessions' = Failed(q) /\ UNCHANGED current
             \/ RetireSession(joined[q], Failed(q))
          /\ RunEnds(q, <<Error>>)
          /\ UNCHANGED <<daemonVars, httpVars, joined>>
       \/ Breaks(q, <<Error>>)

\* The run of an aborted request ends; the session goes on for a reconnect.
AbortRun(q) ==
    /\ adapter[q] = "live" /\ pipe[q].told
    /\ RunEnds(q, <<Error>>)
    /\ UNCHANGED <<daemonVars, httpVars, joined, sessions, current>>

BrowserSettles ==
    /\ \E s \in DOMAIN sessions :
         \/ /\ sessions[s].state = "active"
            /\ \E o \in {"final", "error"} : sessions' = [sessions EXCEPT ![s].state = o]
         \/ /\ sessions[s].state = "retiring"
            /\ sessions' = [sessions EXCEPT ![s].state = "gone"]
    /\ UNCHANGED <<daemonVars, httpVars, storeVars, pipe, adapter, joined, current>>

-----------------------------------------------------------------------------
(* The control endpoints and the life of the process                         *)

ActiveSession == current # 0 /\ sessions[current].state = "active"
IdleHttp      == \A q \in Posts : http[q] \notin InFlight
Idle          == IdleHttp /\ ~ActiveSession

MayShutDown   == ~accepting /\ Idle

Up == leaving # "gone"

Drain ==
    /\ Up /\ accepting /\ accepting' = FALSE
    /\ UNCHANGED <<leaving, lives, interrupted, streamed, httpVars, roundVars, storeVars, pipe>>

Resume ==
    /\ Up /\ ~accepting /\ accepting' = TRUE
    /\ leaving' = IF leaving = "scheduled" THEN "overtaken" ELSE leaving
    /\ UNCHANGED <<lives, interrupted, streamed, httpVars, roundVars, storeVars, pipe>>

RetireCurrent == RetireSession(current, sessions) /\ UNCHANGED <<adapter, joined>>

\* The interrupt hook: the session is retired, the requests that named the
\* turn are aborted, and the interrupt is kept for those whose body is unread.
NamedTurn == {q \in Posts : http[q] \in InFlight \ {"reading"}}
InterruptTurn ==
    /\ Up /\ interrupted' = TRUE
    /\ RetireCurrent /\ AbortHttp(NamedTurn) /\ AbortPipes(NamedTurn)
    /\ UNCHANGED <<accepting, leaving, lives, streamed, storeVars>>

\* 1,024 interrupts of other turns push this one out.
ForgetInterrupt ==
    /\ Up /\ interrupted /\ interrupted' = FALSE
    /\ UNCHANGED <<accepting, leaving, lives, streamed, httpVars, roundVars, storeVars, pipe>>

\* The launcher cancels everything before it stops the runtime.
CancelTurns ==
    /\ Up
    /\ LET all == {q \in Posts : http[q] \in InFlight} IN AbortHttp(all) /\ AbortPipes(all)
    /\ RetireCurrent
    /\ UNCHANGED <<accepting, leaving, lives, interrupted, streamed, storeVars>>

\* The user closes the tab of the turn: its session stays as a tombstone.
CancelTurn ==
    /\ Up /\ ActiveSession
    /\ sessions' = [sessions EXCEPT ![current].state = "cancelled"]
    /\ UNCHANGED <<daemonVars, httpVars, storeVars, pipe, adapter, joined, current>>

\* A shutdown is acknowledged only for an idle daemon that drains; it then
\* begins at the next turn of the event loop.
AskShutdown ==
    /\ leaving = "no" /\ MayShutDown
    /\ leaving' = "scheduled"
    /\ UNCHANGED <<accepting, lives, interrupted, streamed, httpVars, roundVars, storeVars, pipe>>

\* The timer of the acknowledged shutdown, or a signal: the sessions are
\* cleared and a pending snapshot is written.
Shutdown ==
    /\ leaving \in {"no", "scheduled", "overtaken"}
    /\ accepting' = FALSE /\ leaving' = "closing"
    /\ RetireCurrent
    /\ IF unsaved THEN Persisted ELSE UNCHANGED storeVars
    /\ UNCHANGED <<lives, interrupted, streamed, httpVars, pipe>>

\* The process ends, at the end of its shutdown or by a crash: connections
\* break, and what it held in memory is gone.
Exit ==
    /\ Up
    /\ leaving' = "gone" /\ accepting' = FALSE /\ interrupted' = FALSE
    /\ http' = [q \in Posts |-> IF http[q] \in InFlight THEN "over" ELSE http[q]]
    /\ aborted' = [q \in Posts |-> FALSE]
    /\ pipe' = [q \in Posts |-> NoPipe]
    /\ adapter' = [q \in Posts |-> "off"] /\ joined' = [q \in Posts |-> 0]
    /\ sessions' = <<>> /\ current' = 0
    /\ stored' = <<>> /\ loaded' = FALSE /\ unsaved' = FALSE
    /\ UNCHANGED <<lives, streamed, snapshot>>

Start ==
    /\ leaving = "gone" /\ lives < MaxLives
    /\ lives' = lives + 1 /\ leaving' = "no" /\ accepting' = TRUE
    /\ UNCHANGED <<interrupted, streamed, httpVars, roundVars, storeVars, pipe>>

-----------------------------------------------------------------------------
Exchange(q) == BodyRead(q) \/ Collected(q) \/ Drained(q) \/ Pull(q)
Run(q)      == Join(q) \/ JoinAborted(q) \/ GoLive(q) \/ Finish(q) \/ Fail(q)
Progress    == BrowserSettles \/ \E q \in Posts : Exchange(q) \/ Run(q)

DaemonNext ==
    \/ Progress
    \/ \E q \in Posts :
         Arrives(q) \/ ClientLeaves(q) \/ Stall(q) \/ Relay(q) \/ AbortRun(q)
    \/ ExpandPrevious \/ PersistTimer
    \/ Drain \/ Resume
    \/ InterruptTurn \/ ForgetInterrupt \/ CancelTurns \/ CancelTurn
    \/ AskShutdown \/ Shutdown \/ Exit \/ Start

\* Codex sends its body and reads its response, the event loop runs what is
\* ready, and a browser turn comes to an end: some of that work, if there is
\* any, is always done, and each request has only so much of it.
DaemonSpec == DaemonInit /\ [][DaemonNext]_responseVars /\ WF_responseVars(Progress)

-----------------------------------------------------------------------------
(* Properties                                                                *)

\* A stream carries one terminal frame, the closing mark right behind it and
\* nothing after; a stream the daemon closed while its client was there has
\* both.  The stall timer, the end of the adapter and its last event all race
\* for that frame (bridge.ts).
OneTerminal ==
    streamed => \A q \in Posts :
        LET sent == pipe[q].sent
            ends == {i \in DOMAIN sent : sent[i] \in Terminals}
        IN  /\ \A i \in ends : i = Len(sent) - 1 /\ Last(sent) = Closing
            /\ pipe[q].step = "closed" /\ ~aborted[q] => ends # {}

\* A response that is reported as completed carries the whole text of its
\* round, in order and once, though the connection broke and the round was
\* posted again (index.ts, the journal of the round).
CompletedIsWhole ==
    \A q \in Posts :
        streamed /\ Completed(pipe[q]) =>
            LET sent == pipe[q].sent  text == Session(q).text
            IN  Len(sent) = text + 2 /\ \A i \in 1..text : sent[i] = Delta(i)

\* No request of an interrupted turn goes on, whichever of the interrupt and
\* the body of the request comes first (server.ts, the identity binding).
InterruptedIsAborted ==
    interrupted => \A q \in Posts : http[q] \in {"collecting", "streaming"} => aborted[q]

\* A released request has no adapter working for it that was not told to stop.
ReleasedIsStopped ==
    \A q \in Posts : http[q] = "over" =>
        adapter[q] \in {"off", "ended"} \/ pipe[q].told

\* An acknowledged shutdown finds no request and no browser turn, as long
\* as nothing resumed the daemon in between.
ShutdownFindsIdle == leaving = "scheduled" => Idle

\* What a client is told ends once and is complete when it is said to be
\* (bridge.ts, the journal of the round), and who tells the daemon to stop
\* something is heard, in whatever order that came with the requests
\* themselves (server.ts).
RequestsHold ==
    /\ DaemonTypeOK /\ OneTerminal /\ CompletedIsWhole
    /\ InterruptedIsAborted /\ ReleasedIsStopped /\ ShutdownFindsIdle

\* A response leaves the snapshot on disk only to make room for newer ones,
\* over crashes, restarts and the lazy reading of the snapshot.
SnapshotKeeps ==
    [][Range(snapshot) \subseteq Range(snapshot') \/ Len(snapshot') = MaxStored]_responseVars

\* A draining daemon comes to rest, unless it is resumed: no request is held
\* for ever by its stream, its adapter or a browser that was told to go.
DrainSettles == ~accepting ~> (accepting \/ Idle)
=============================================================================
