------------------------------- MODULE HostProofs -------------------------------
(***************************************************************************)
(* What the browser host keeps, for any number of turns, helpers and tabs:   *)
(* its tabs agree with the turns that lease them, and in its other mode with  *)
(* the signals of the turns that a human sends.                              *)
(***************************************************************************)
EXTENDS BrowserTabs, ManualTurns, TLAPS

--------------------------------------------------------------------------------
(* Automatic tabs *)

(* What a step makes of a tab is a tab.                                          *)
LEMMA TabChanges ==
    ASSUME NEW e \in Tab
    PROVE  /\ \A x \in BOOLEAN : [e EXCEPT !.late = x] \in Tab
           /\ [e EXCEPT !.attaching = FALSE] \in Tab
           /\ \A gone : [e EXCEPT !.older = e.older \ gone] \in Tab
           /\ \A s \in {"running", "ready", "error"} : [e EXCEPT !.status = s] \in Tab
           /\ \A s \in {"running", "ready", "error"} : [e EXCEPT !.status = s, !.late = FALSE] \in Tab
           /\ \A t \in Traces, h \in Helpers :
                [e EXCEPT !.trace = t, !.helper = h, !.status = "running", !.late = FALSE] \in Tab
<1>1. \A x \in BOOLEAN : [e EXCEPT !.late = x] \in Tab
    BY DEF Tab
<1>2. [e EXCEPT !.attaching = FALSE] \in Tab
    BY DEF Tab
<1>3. \A s \in {"running", "ready", "error"} : [e EXCEPT !.status = s] \in Tab
    BY DEF Tab
<1>4. \A s \in {"running", "ready", "error"} : [e EXCEPT !.status = s, !.late = FALSE] \in Tab
    BY DEF Tab
<1>5. \A t \in Traces, h \in Helpers :
         [e EXCEPT !.trace = t, !.helper = h, !.status = "running", !.late = FALSE] \in Tab
    BY DEF Tab
<1>6. \A gone : [e EXCEPT !.older = e.older \ gone] \in Tab
    BY DEF Tab
<1> QED
    BY <1>1, <1>2, <1>3, <1>4, <1>5, <1>6

(* The tabs are tabs.                                                            *)
TabsTyped == tabs \in [TabIds -> Tab \cup {None}]

(* A tab that is another but for its age and its clock.                          *)
SameTab(f, e) ==
    /\ f.trace = e.trace /\ f.helper = e.helper
    /\ f.status = e.status /\ f.attaching = e.attaching

(* A tab that is kept when others are removed.                                   *)
LEMMA WithoutKeeps ==
    ASSUME TabsTyped, NEW gone, NEW i \in TabIds, Without(gone)[i] # None
    PROVE  /\ i \in Open /\ i \notin gone
           /\ Without(gone)[i] \in Tab /\ SameTab(Without(gone)[i], tabs[i])
<1>1. i \notin gone /\ tabs[i] # None
    BY DEF Without
<1>2. Without(gone)[i] = [tabs[i] EXCEPT !.older = tabs[i].older \ gone]
    BY <1>1 DEF Without
<1>3. tabs[i] \in Tab
    BY <1>1 DEF TabsTyped
<1>4. [tabs[i] EXCEPT !.older = tabs[i].older \ gone] \in Tab
    BY <1>3, TabChanges
<1>5. SameTab([tabs[i] EXCEPT !.older = tabs[i].older \ gone], tabs[i])
    BY <1>3 DEF SameTab, Tab
<1> QED
    BY <1>1, <1>2, <1>4, <1>5 DEF Open

(* What is left are tabs.                                                        *)
LEMMA WithoutTyped ==
    ASSUME TabsTyped, NEW gone
    PROVE  Without(gone) \in [TabIds -> Tab \cup {None}]
<1>1. ASSUME NEW i \in TabIds, Without(gone)[i] # None PROVE Without(gone)[i] \in Tab
    BY <1>1, WithoutKeeps
<1> QED
    BY <1>1 DEF Without

(* The types of the other variables.                                             *)
RestTyped ==
    /\ userCancelled \subseteq Traces
    /\ closing \in [TabIds -> Traces \cup {None}]
    /\ operation \in BOOLEAN /\ mode \in {"automatic", "manual"}
    /\ descriptor \subseteq TabIds /\ blocker \in BOOLEAN
    /\ lateEnd \in EndRequest \cup {None} /\ alive \subseteq Helpers /\ overslept \in BOOLEAN
ErredTyped == erred \subseteq Traces
CallTyped == call \in [Traces -> [at : {"idle", "starting", "leased"}, helper : Helpers \cup {None}]]

LEMMA TabTypes ==
    /\ TypeOK <=> TabsTyped /\ RestTyped /\ CallTyped /\ ErredTyped
    /\ TypeOK' <=> TabsTyped' /\ RestTyped' /\ CallTyped' /\ ErredTyped'
BY DEF TypeOK, TabsTyped, RestTyped, CallTyped, ErredTyped

(* Tabs that are removed.                                                        *)
LEMMA RemoveTyped ==
    ASSUME TabsTyped, NEW gone, Remove(gone)
    PROVE  TabsTyped'
BY WithoutTyped DEF TabsTyped, Remove

(* The end of a turn leaves tabs.                                                *)
LEMMA EndTyped ==
    ASSUME TabsTyped, NEW e, NEW retain \in BOOLEAN, EndTurn(e, retain)
    PROVE  TabsTyped'
<1>1. CASE UNCHANGED tabs
    BY <1>1 DEF TabsTyped
<1>2. ASSUME NEW i \in First(e.trace), Remove({i}) PROVE TabsTyped'
    BY <1>2, RemoveTyped
<1>3. ASSUME NEW i \in First(e.trace), tabs' = [tabs EXCEPT ![i].status = "ready", ![i].late = FALSE]
      PROVE  TabsTyped'
  <2>1. i \in TabIds /\ tabs[i] \in Tab
      BY <1>3 DEF First, OfTrace, Open, TabsTyped
  <2> QED
      BY <1>3, <2>1, TabChanges DEF TabsTyped
<1> QED
    BY <1>1, <1>2, <1>3 DEF EndTurn

LEMMA TabsTypedStep == TypeOK /\ [Next]_vars => TabsTyped'
<1> SUFFICES ASSUME TypeOK, [Next]_vars PROVE TabsTyped'
    OBVIOUS
<1>0. TabsTyped /\ RestTyped /\ CallTyped
    BY TabTypes
<1>a. \A i \in Open : i \in TabIds /\ tabs[i] \in Tab
    BY <1>0 DEF TabsTyped, Open
<1>1. ASSUME NEW t \in Traces, NEW h \in Helpers, StartReuses(t, h) PROVE TabsTyped'
  <2>1. PICK i \in Candidates(t) :
           tabs' = [tabs EXCEPT ![i].trace = t, ![i].helper = h, ![i].status = "running",
                                ![i].late = FALSE]
      BY <1>1 DEF StartReuses
  <2>2. i \in TabIds /\ tabs[i] \in Tab
      BY <1>a DEF Candidates, Kept, First, OfTrace, Retained
  <2> QED
      BY <1>0, <2>1, <2>2, TabChanges DEF TabsTyped
<1>2. ASSUME NEW t \in Traces, NEW h \in Helpers, StartCreates(t, h) PROVE TabsTyped'
  <2>1. PICK gone \in Reclaimable :
           tabs' = [Without(gone) EXCEPT ![CHOOSE f \in FreshIds(gone) : TRUE] =
                                             NewTab(t, h, Open \ gone)]
      BY <1>2 DEF StartCreates
  <2>2. NewTab(t, h, Open \ gone) \in Tab
      BY <1>2 DEF NewTab, Tab, Open
  <2>3. Without(gone) \in [TabIds -> Tab \cup {None}]
      BY <1>0, WithoutTyped
  <2> QED
      BY <2>1, <2>2, <2>3 DEF TabsTyped
<1>3. ASSUME NEW t \in Traces, NEW i \in TabIds, Heartbeat(t, i) PROVE TabsTyped'
    BY <1>0, <1>a, <1>3, TabChanges DEF Heartbeat, TabsTyped, First, OfTrace
<1>4. ASSUME NEW t \in Traces, Ends(t) PROVE TabsTyped'
    BY <1>0, <1>4, EndTyped DEF Ends, MayRetain
<1>5. ASSUME LateEndArrives PROVE TabsTyped'
    BY <1>0, <1>5, EndTyped DEF LateEndArrives, MayRetain
<1>6. ASSUME NEW i \in TabIds, TabAttached(i) \/ MarkFails(i) \/ Lapse(i) PROVE TabsTyped'
  <2>1. tabs[i] \in Tab
      BY <1>a, <1>6 DEF TabAttached, MarkFails, Lapse
  <2>2. /\ [tabs[i] EXCEPT !.attaching = FALSE] \in Tab /\ [tabs[i] EXCEPT !.status = "error"] \in Tab
        /\ [tabs[i] EXCEPT !.late = TRUE] \in Tab
      BY <2>1, TabChanges
  <2> QED
      BY <1>0, <1>6, <2>2 DEF TabAttached, MarkFails, Lapse, TabsTyped
<1>7. ASSUME NEW i \in TabIds, AttachFails(i) \/ PageGone(i) \/ CloseIdle(i) \/ CloseAcknowledged(i)
      PROVE  TabsTyped'
  <2>1. CASE UNCHANGED tabs
      BY <1>0, <2>1 DEF TabsTyped
  <2> QED
      BY <1>0, <1>7, <2>1, RemoveTyped DEF AttachFails, PageGone, CloseIdle, CloseAcknowledged
<1>8. ASSUME NEW t \in Traces, ReleaseConversation(keyOf[t]) PROVE TabsTyped'
    BY <1>0, <1>8, RemoveTyped DEF ReleaseConversation
<1>9. ASSUME OperationEnds PROVE TabsTyped'
  <2>1. CASE UNCHANGED tabs
      BY <1>0, <2>1 DEF TabsTyped
  <2> QED
      BY <1>0, <1>9, <2>1, RemoveTyped DEF OperationEnds
<1>10. ASSUME Sleep PROVE TabsTyped'
    BY <1>0, <1>10, TabChanges DEF Sleep, TabsTyped
<1>11. ASSUME SystemResumes \/ Sweep PROVE TabsTyped'
  <2>1. CASE tabs' = Rebaselined
      BY <1>0, <2>1, TabChanges DEF Rebaselined, Running, TabsTyped
  <2> QED
      BY <1>0, <1>11, <2>1, RemoveTyped DEF SystemResumes, Sweep
<1>12. CASE UNCHANGED tabs
    BY <1>0, <1>12 DEF TabsTyped
<1> QED
    BY <1>1, <1>2, <1>3, <1>4, <1>5, <1>6, <1>7, <1>8, <1>9, <1>10, <1>11, <1>12
       DEF Next, HostStep, vars, hostVars, EndIsLate, GivesUp, CloseRunning, CloseFails, OperationStarts, HelperDies

(* The history keeps its type.                                                    *)
LEMMA ErredTypedStep == TypeOK /\ [Next]_vars => ErredTyped'
<1>1. CASE UNCHANGED vars
    BY <1>1 DEF TypeOK, ErredTyped, vars
<1>2. ASSUME TypeOK, Next PROVE ErredTyped'
  <2>1. TabsTyped'
      BY <1>2, TabsTypedStep
  <2>2. \A i \in Open' : tabs'[i].trace \in Traces
      BY <2>1 DEF TabsTyped, Open, Tab
  <2> QED
      BY <1>2, <2>2 DEF Next, TracksErrors, ErredTyped
<1> QED
    BY <1>1, <1>2

(* The other variables keep their types.                                         *)
LEMMA RestTypedStep == TypeOK /\ [Next]_vars => RestTyped' /\ CallTyped'
<1> SUFFICES ASSUME TypeOK, [Next]_vars PROVE RestTyped' /\ CallTyped'
    OBVIOUS
<1>0. TabsTyped /\ RestTyped /\ CallTyped /\ TabsTyped'
    BY TabTypes, TabsTypedStep
<1>a. \A i \in Open : i \in TabIds /\ tabs[i] \in Tab
    BY <1>0 DEF TabsTyped, Open
<1>b. \A ts : (Running(ts) # {}) \in BOOLEAN
    OBVIOUS
<1>c. \A ts : Advertise(ts) => descriptor' \subseteq TabIds
    BY DEF Advertise
<1>d. \A ts : SyncBlocker(ts) => blocker' \in BOOLEAN
    BY <1>b DEF SyncBlocker
<1>e. \A gone : Remove(gone) => descriptor' \subseteq TabIds /\ blocker' \in BOOLEAN
    BY <1>0, <1>c, <1>d DEF Remove, RestTyped
<1>f. \A h \in Helpers : Idle \in [at : {"idle", "starting", "leased"}, helper : Helpers \cup {None}]
                         /\ Starting(h) \in [at : {"idle", "starting", "leased"}, helper : Helpers \cup {None}]
                         /\ Leased(h) \in [at : {"idle", "starting", "leased"}, helper : Helpers \cup {None}]
    BY DEF Idle, Starting, Leased
<1>1. ASSUME NEW t \in Traces, NEW h \in Helpers, StartReuses(t, h) \/ StartCreates(t, h)
      PROVE  RestTyped' /\ CallTyped'
  <2>1. descriptor' \subseteq TabIds /\ blocker' \in BOOLEAN
      BY <1>0, <1>1, <1>c, <1>d DEF StartReuses, StartCreates, RestTyped
  <2>2. CallTyped'
      BY <1>0, <1>1, <1>f DEF StartReuses, StartCreates, CallTyped
  <2> QED
      BY <1>0, <1>1, <2>1, <2>2 DEF StartReuses, StartCreates, RestTyped
<1>2. ASSUME NEW t \in Traces, NEW i \in TabIds, Heartbeat(t, i) PROVE RestTyped' /\ CallTyped'
    BY <1>0, <1>2 DEF Heartbeat, clientVars, RestTyped, CallTyped
<1>g. \A e, retain : EndTurn(e, retain) => descriptor' \subseteq TabIds /\ blocker' \in BOOLEAN
    BY <1>0, <1>c, <1>d, <1>e DEF EndTurn, RestTyped
<1>h. \A t \in Traces : [call EXCEPT ![t] = Idle] \in
          [Traces -> [at : {"idle", "starting", "leased"}, helper : Helpers \cup {None}]]
    BY <1>0 DEF Idle, CallTyped
<1>3. ASSUME NEW t \in Traces, Ends(t) \/ GivesUp(t) PROVE RestTyped' /\ CallTyped'
  <2>1. descriptor' \subseteq TabIds /\ blocker' \in BOOLEAN
      BY <1>0, <1>3, <1>g DEF Ends, GivesUp, hostVars, RestTyped
  <2>2. CallTyped'
      BY <1>3, <1>h DEF Ends, GivesUp, CallTyped
  <2> QED
      BY <1>0, <1>3, <2>1, <2>2 DEF Ends, GivesUp, hostVars, RestTyped
<1>4. ASSUME NEW t \in Traces, EndIsLate(t) PROVE RestTyped' /\ CallTyped'
  <2>1. lateEnd' \in EndRequest
      BY <1>0, <1>4 DEF EndIsLate, EndOf, EndRequest, RestTyped
  <2>2. CallTyped'
      BY <1>4, <1>h DEF EndIsLate, CallTyped
  <2> QED
      BY <1>0, <1>4, <2>1, <2>2 DEF EndIsLate, hostVars, RestTyped
<1>5. ASSUME LateEndArrives PROVE RestTyped' /\ CallTyped'
  <2>1. descriptor' \subseteq TabIds /\ blocker' \in BOOLEAN
      BY <1>5, <1>g DEF LateEndArrives
  <2> QED
      BY <1>0, <1>5, <2>1 DEF LateEndArrives, RestTyped, CallTyped
<1>6. ASSUME NEW i \in TabIds, TabAttached(i) \/ AttachFails(i) PROVE RestTyped' /\ CallTyped'
  <2>1. descriptor' \subseteq TabIds /\ blocker' \in BOOLEAN
      BY <1>0, <1>6, <1>c, <1>e DEF TabAttached, AttachFails, RestTyped
  <2>2. i \in TabIds /\ tabs[i] \in Tab
      BY <1>6, <1>a DEF TabAttached, AttachFails
  <2>3. tabs[i].trace \in Traces /\ tabs[i].helper \in Helpers
      BY <2>2 DEF Tab
  <2>4. CallTyped'
      BY <1>0, <1>6, <1>f, <2>3 DEF TabAttached, AttachFails, Reply, CallTyped
  <2> QED
      BY <1>0, <1>6, <2>1, <2>4 DEF TabAttached, AttachFails, RestTyped
<1>7. ASSUME NEW i \in TabIds, MarkFails(i) \/ PageGone(i) \/ CloseIdle(i) \/ Lapse(i)
      PROVE  RestTyped' /\ CallTyped'
  <2>1. descriptor' \subseteq TabIds /\ blocker' \in BOOLEAN
      BY <1>0, <1>7, <1>d, <1>e DEF MarkFails, PageGone, CloseIdle, Lapse, RestTyped
  <2> QED
      BY <1>0, <1>7, <2>1 DEF MarkFails, PageGone, CloseIdle, Lapse, clientVars, RestTyped, CallTyped
<1>8. ASSUME NEW i \in TabIds, CloseRunning(i) PROVE RestTyped' /\ CallTyped'
  <2>1. tabs[i] \in Tab
      BY <1>0, <1>8 DEF CloseRunning, Running, TabsTyped
  <2>2. tabs[i].trace \in Traces
      BY <2>1 DEF Tab
  <2> QED
      BY <1>0, <1>8, <2>2 DEF CloseRunning, clientVars, RestTyped, CallTyped
<1>9. ASSUME NEW i \in TabIds, CloseAcknowledged(i) \/ CloseFails(i) PROVE RestTyped' /\ CallTyped'
  <2>1. descriptor' \subseteq TabIds /\ blocker' \in BOOLEAN
      BY <1>0, <1>9, <1>e DEF CloseAcknowledged, CloseFails, RestTyped
  <2> QED
      BY <1>0, <1>9, <2>1 DEF CloseAcknowledged, CloseFails, clientVars, RestTyped, CallTyped
<1>10. ASSUME NEW t \in Traces, ReleaseConversation(keyOf[t]) PROVE RestTyped' /\ CallTyped'
    BY <1>0, <1>10, <1>e DEF ReleaseConversation, clientVars, RestTyped, CallTyped
<1>11. ASSUME OperationStarts \/ OperationEnds PROVE RestTyped' /\ CallTyped'
  <2>1. descriptor' \subseteq TabIds /\ blocker' \in BOOLEAN
      BY <1>0, <1>11, <1>e DEF OperationStarts, OperationEnds, RestTyped
  <2> QED
      BY <1>0, <1>11, <2>1 DEF OperationStarts, OperationEnds, clientVars, RestTyped, CallTyped
<1>12. ASSUME Sleep \/ SystemResumes \/ Sweep PROVE RestTyped' /\ CallTyped'
  <2>1. descriptor' \subseteq TabIds /\ blocker' \in BOOLEAN
      BY <1>0, <1>12, <1>e DEF Sleep, SystemResumes, Sweep, RestTyped
  <2> QED
      BY <1>0, <1>12, <2>1 DEF Sleep, SystemResumes, Sweep, clientVars, RestTyped, CallTyped
<1>13. ASSUME NEW h \in Helpers, HelperDies(h) PROVE RestTyped' /\ CallTyped'
    BY <1>0, <1>13 DEF HelperDies, hostVars, RestTyped, CallTyped
<1>14. CASE UNCHANGED vars
    BY <1>0, <1>14 DEF vars, hostVars, clientVars, RestTyped, CallTyped
<1> QED
    BY <1>1, <1>2, <1>3, <1>4, <1>5, <1>6, <1>7, <1>8, <1>9, <1>10, <1>11, <1>12, <1>13, <1>14
       DEF Next, HostStep

(* What a step does to the tabs: it keeps them or fewer, each for its turn, and  *)
(* none begins to run; or one is taken for a turn that has no other.             *)
KeepsTabs ==
    \A i \in Open' : /\ i \in Open
                     /\ tabs'[i].trace = tabs[i].trace /\ tabs'[i].helper = tabs[i].helper
                     /\ tabs'[i].status = "running" => tabs[i].status = "running"
TakesTab(t, i) ==
    /\ mode = "automatic" /\ UNCHANGED <<mode, operation>> /\ ~operation /\ t \notin userCancelled
    /\ tabs'[i].trace = t
    /\ \A j \in Open : tabs[j].trace = t => j = i \/ t \in erred
    /\ i \in Running(tabs) => tabs'[i].helper = tabs[i].helper \/ tabs[i].helper \notin alive
    /\ \A j \in Open' : j # i => /\ j \in Open
                                /\ tabs'[j].trace = tabs[j].trace /\ tabs'[j].helper = tabs[j].helper

LEMMA RemoveKeeps ==
    ASSUME TabsTyped, NEW gone, Remove(gone)
    PROVE  KeepsTabs
<1> SUFFICES ASSUME NEW i \in Open'
             PROVE  /\ i \in Open /\ tabs'[i].trace = tabs[i].trace /\ tabs'[i].helper = tabs[i].helper
                    /\ tabs'[i].status = tabs[i].status
    BY DEF KeepsTabs
<1>1. i \in TabIds /\ tabs' = Without(gone) /\ Without(gone)[i] # None
    BY DEF Open, Remove
<1>2. i \in Open /\ SameTab(Without(gone)[i], tabs[i])
    BY <1>1, WithoutKeeps
<1> QED
    BY <1>1, <1>2 DEF SameTab

LEMMA EndKeeps ==
    ASSUME TabsTyped, NEW e, NEW retain, EndTurn(e, retain)
    PROVE  KeepsTabs
<1>1. CASE UNCHANGED tabs
    BY <1>1 DEF KeepsTabs, Open
<1>2. ASSUME NEW i \in First(e.trace), Remove({i}) PROVE KeepsTabs
    BY <1>2, RemoveKeeps
<1>3. ASSUME NEW i \in First(e.trace), tabs' = [tabs EXCEPT ![i].status = "ready", ![i].late = FALSE]
      PROVE  KeepsTabs
  <2>1. i \in TabIds /\ i \in Open /\ tabs[i] \in Tab /\ tabs \in [TabIds -> Tab \cup {None}]
      BY <1>3 DEF First, OfTrace, Open, TabsTyped
  <2>2. /\ \A j \in TabIds : j # i => tabs'[j] = tabs[j]
        /\ tabs'[i].trace = tabs[i].trace /\ tabs'[i].helper = tabs[i].helper
        /\ tabs'[i].status = "ready"
      BY <1>3, <2>1 DEF Tab
  <2> QED
      BY <2>1, <2>2 DEF KeepsTabs, Open
<1> QED
    BY <1>1, <1>2, <1>3 DEF EndTurn

(* A step that changes one tab.                                                  *)
LEMMA OneKeeps ==
    ASSUME TabsTyped, NEW i \in Open, NEW x \in BOOLEAN,
           \/ tabs' = [tabs EXCEPT ![i].status = "error"]
           \/ tabs' = [tabs EXCEPT ![i].late = x]
           \/ tabs' = [tabs EXCEPT ![i].attaching = x]
    PROVE  KeepsTabs
<1>1. i \in TabIds /\ tabs[i] \in Tab /\ tabs \in [TabIds -> Tab \cup {None}]
    BY DEF Open, TabsTyped
<1>2. /\ \A j \in TabIds : j # i => tabs'[j] = tabs[j]
      /\ tabs'[i].trace = tabs[i].trace /\ tabs'[i].helper = tabs[i].helper
      /\ tabs'[i].status \in {"error", tabs[i].status}
    BY <1>1 DEF Tab
<1> QED
    BY <1>1, <1>2 DEF KeepsTabs, Open

(* A start sees the tab of its trace, unless a tab of the trace has failed.       *)
LEMMA SeesItsTab ==
    ASSUME TypeOK, OneTabPerTrace, NEW t, NEW h, StartAllowed(t, h),
           NEW j \in Open, tabs[j].trace = t, t \notin erred
    PROVE  Candidates(t) = {j}
<1>1. OfTrace(t) = {j}
    BY DEF OneTabPerTrace, OfTrace
<1>2. First(t) = {j}
    BY <1>1 DEF First
<1>3. j \in TabIds /\ tabs[j] \in Tab
    BY DEF Open, TypeOK
<1>4. tabs[j].status # "error"
    BY <1>3 DEF OneTabPerTrace, Failed, Open
<1>5. CASE tabs[j].status = "running"
  <2>1. j \in Running(tabs)
      BY <1>5 DEF Running, Open
  <2> QED
      BY <1>2, <2>1 DEF Candidates
<1>6. CASE tabs[j].status = "ready"
  <2>1. Kept(t) = {j}
      BY <1>2, <1>6 DEF StartAllowed
  <2>2. j \notin Running(tabs)
      BY <1>6 DEF Running
  <2> QED
      BY <1>2, <2>1, <2>2 DEF Candidates
<1> QED
    BY <1>3, <1>4, <1>5, <1>6 DEF Tab

LEMMA TabsStep ==
    ASSUME TypeOK, OneTabPerTrace, [Next]_vars
    PROVE  KeepsTabs \/ \E t \in Traces, i \in TabIds : TakesTab(t, i)
<1> SUFFICES ASSUME ~KeepsTabs PROVE \E t \in Traces, i \in TabIds : TakesTab(t, i)
    OBVIOUS
<1>0. TabsTyped /\ tabs \in [TabIds -> Tab \cup {None}]
    BY TabTypes DEF TabsTyped
<1>a. \A i \in Open : i \in TabIds /\ tabs[i] \in Tab
    BY <1>0 DEF Open
<1>1. ASSUME NEW t \in Traces, NEW h \in Helpers, StartReuses(t, h)
      PROVE  \E i \in TabIds : TakesTab(t, i)
  <2>1. PICK i \in Candidates(t) :
           tabs' = [tabs EXCEPT ![i].trace = t, ![i].helper = h, ![i].status = "running",
                                ![i].late = FALSE]
      BY <1>1 DEF StartReuses
  <2>2. i \in Open /\ i \in TabIds /\ tabs[i] \in Tab
      BY <1>a DEF Candidates, Kept, First, OfTrace, Retained
  <2>3. tabs'[i].trace = t /\ tabs'[i].helper = h
      BY <1>0, <2>1, <2>2 DEF Tab
  <2>4. \A j \in TabIds : j # i => tabs'[j] = tabs[j]
      BY <1>0, <2>1, <2>2
  <2>5. StartAllowed(t, h)
      BY <1>1 DEF StartReuses, Asks
  <2>7. ASSUME NEW j \in Open, tabs[j].trace = t, t \notin erred PROVE j = i
      BY <2>5, <2>7, SeesItsTab
  <2>8. \A j \in Open' : j # i => j \in Open /\ tabs'[j] = tabs[j]
      BY <2>4 DEF Open
  <2>9. i \in Running(tabs) => tabs[i].helper = h \/ tabs[i].helper \notin alive
      BY <2>5 DEF StartAllowed
  <2> QED
      BY <1>1, <2>2, <2>3, <2>5, <2>7, <2>8, <2>9 DEF TakesTab, StartReuses, StartAllowed
<1>2. ASSUME NEW t \in Traces, NEW h \in Helpers, StartCreates(t, h)
      PROVE  \E i \in TabIds : TakesTab(t, i)
  <2>1. StartAllowed(t, h) /\ Candidates(t) = {}
      BY <1>2 DEF StartCreates, Asks
  <2>2. PICK gone \in Reclaimable :
           /\ FreshIds(gone) # {}
           /\ tabs' = [Without(gone) EXCEPT ![CHOOSE f \in FreshIds(gone) : TRUE] =
                                                NewTab(t, h, Open \ gone)]
      BY <1>2 DEF StartCreates
  <2> DEFINE i == CHOOSE f \in FreshIds(gone) : TRUE
  <2>3. i \in TabIds /\ (tabs[i] = None \/ i \in gone)
      BY <2>2 DEF FreshIds
  <2>4. i \notin Running(tabs)
      BY <2>2, <2>3 DEF Reclaimable, Running
  <2>w. Without(gone) \in [TabIds -> Tab \cup {None}]
      BY <1>0, WithoutTyped
  <2>5. tabs'[i].trace = t
      BY <2>2, <2>3, <2>w DEF NewTab
  <2>6. \A j \in Open : tabs[j].trace = t => t \in erred
      BY <2>1, SeesItsTab
  <2>7. ASSUME NEW j \in Open', j # i
        PROVE  j \in Open /\ tabs'[j].trace = tabs[j].trace /\ tabs'[j].helper = tabs[j].helper
    <3>1. j \in TabIds /\ tabs'[j] # None
        BY <2>7 DEF Open
    <3>2. tabs'[j] = Without(gone)[j]
        BY <2>2, <2>7, <2>w, <3>1
    <3>3. j \in Open /\ SameTab(Without(gone)[j], tabs[j])
        BY <1>0, <3>1, <3>2, WithoutKeeps
    <3> QED
        BY <3>2, <3>3 DEF SameTab
  <2> QED
      BY <1>2, <2>1, <2>3, <2>4, <2>5, <2>6, <2>7 DEF TakesTab, StartCreates, StartAllowed
<1>3. ASSUME NEW t \in Traces, NEW i \in TabIds, Heartbeat(t, i) PROVE FALSE
    BY <1>0, <1>3, OneKeeps DEF Heartbeat, First, OfTrace
<1>4. ASSUME NEW t \in Traces, Ends(t) PROVE FALSE
    BY <1>0, <1>4, EndKeeps DEF Ends
<1>5. ASSUME LateEndArrives PROVE FALSE
    BY <1>0, <1>5, EndKeeps DEF LateEndArrives
<1>6. ASSUME NEW i \in TabIds, TabAttached(i) \/ MarkFails(i) \/ Lapse(i) PROVE FALSE
    BY <1>0, <1>6, OneKeeps DEF TabAttached, MarkFails, Lapse
<1>7. CASE UNCHANGED tabs
    BY <1>7 DEF KeepsTabs, Open
<1>8. \A gone : ~Remove(gone)
    BY <1>0, RemoveKeeps
<1>9. ASSUME Sleep PROVE FALSE
  <2>1. \A i \in TabIds : tabs[i] # None => tabs'[i] = [tabs[i] EXCEPT !.late = TRUE]
      BY <1>9 DEF Sleep
  <2>2. \A i \in TabIds : tabs[i] = None => tabs'[i] = None
      BY <1>9 DEF Sleep
  <2>3. \A e \in Tab : LET f == [e EXCEPT !.late = TRUE]
                      IN  f.trace = e.trace /\ f.helper = e.helper /\ f.status = e.status
      BY DEF Tab
  <2> QED
      BY <1>a, <2>1, <2>2, <2>3 DEF KeepsTabs, Open
<1>10. ASSUME tabs' = Rebaselined PROVE FALSE
  <2>1. \A i \in TabIds : tabs'[i] = tabs[i] \/ (i \in Open /\ tabs'[i] = [tabs[i] EXCEPT !.late = FALSE])
      BY <1>10 DEF Rebaselined, Running, Open
  <2>2. \A e \in Tab : LET f == [e EXCEPT !.late = FALSE]
                      IN  f.trace = e.trace /\ f.helper = e.helper /\ f.status = e.status
      BY DEF Tab
  <2> QED
      BY <1>a, <2>1, <2>2 DEF KeepsTabs, Open
<1> QED
    BY <1>1, <1>2, <1>3, <1>4, <1>5, <1>6, <1>7, <1>8, <1>9, <1>10
       DEF Next, HostStep, vars, hostVars, EndIsLate, GivesUp, CloseRunning, CloseFails, OperationStarts, HelperDies,
           AttachFails, PageGone, CloseIdle, CloseAcknowledged, ReleaseConversation, OperationEnds,
           SystemResumes, Sweep

(* One tab for a trace whose tabs have not failed, and none that runs beside an  *)
(* operation of the user.                                                        *)
LEMMA RunningStep ==
    TypeOK /\ OneTabPerTrace /\ OperationsExcludeTurns /\ [Next]_vars
      => OneTabPerTrace' /\ OperationsExcludeTurns'
<1> SUFFICES ASSUME TypeOK, OneTabPerTrace, OperationsExcludeTurns, [Next]_vars
             PROVE  OneTabPerTrace' /\ OperationsExcludeTurns'
    OBVIOUS
<1>0. \A i : i \in Running(tabs)' <=> i \in Open' /\ tabs'[i].status = "running"
    BY DEF Running, Open
<1>a. \A i : i \in Running(tabs) <=> i \in Open /\ tabs[i].status = "running"
    BY DEF Running, Open
<1>b. Open' \subseteq TabIds /\ \A i \in Open' : tabs'[i].trace \in Traces
    BY TabTypes, TabsTypedStep DEF Open, TabsTyped, Tab
<1>c. CASE UNCHANGED vars
    BY <1>c DEF vars, hostVars, clientVars, OneTabPerTrace, OperationsExcludeTurns, Open, Failed, Running
<1>d. SUFFICES ASSUME TracksErrors PROVE OneTabPerTrace' /\ OperationsExcludeTurns'
    BY <1>c DEF Next
<1>e. /\ \A i \in Failed(tabs)' : tabs'[i].trace \in erred'
      /\ \A i \in Open' : tabs'[i].trace \in erred => tabs'[i].trace \in erred'
    BY <1>d DEF TracksErrors, Failed, Open
<1>1. CASE KeepsTabs
  <2>1. \A i \in Running(tabs)' : i \in Running(tabs) /\ tabs'[i].trace = tabs[i].trace
      BY <1>0, <1>a, <1>1 DEF KeepsTabs
  <2>2. OneTabPerTrace'
      BY <1>e, <1>1 DEF OneTabPerTrace, KeepsTabs
  <2>3. CASE UNCHANGED <<operation, mode>>
      BY <2>1, <2>2, <2>3 DEF OperationsExcludeTurns
  <2>4. CASE OperationStarts \/ OperationEnds
      BY <2>1, <2>2, <2>4 DEF OperationsExcludeTurns, OperationStarts, OperationEnds
  <2>5. UNCHANGED <<operation, mode>> \/ OperationStarts \/ OperationEnds
      BY DEF Next, HostStep, vars, hostVars, StartReuses, StartCreates, Heartbeat, Ends, EndIsLate, GivesUp, ReleaseConversation,
             TabAttached, AttachFails, MarkFails, PageGone, CloseRunning, CloseIdle, CloseAcknowledged,
             CloseFails, Lapse, Sleep, SystemResumes, Sweep, LateEndArrives, HelperDies
  <2> QED
      BY <2>3, <2>4, <2>5
<1>2. ASSUME NEW t \in Traces, NEW i \in TabIds, TakesTab(t, i)
      PROVE  OneTabPerTrace' /\ OperationsExcludeTurns'
  <2>1. \A j \in Open' : j # i => j \in Open /\ tabs'[j].trace = tabs[j].trace
      BY <1>2 DEF TakesTab
  <2>2. OneTabPerTrace'
      BY <1>e, <1>2, <2>1 DEF OneTabPerTrace, TakesTab
  <2>3. ~(operation' \/ mode' = "manual")
      BY <1>2 DEF TakesTab
  <2> QED
      BY <2>2, <2>3 DEF OperationsExcludeTurns
<1> QED
    BY <1>1, <1>2, TabsStep

(* What is advertised: everything that is open, or as much as before for the      *)
(* turns and the tabs that were there before.                                     *)
AdvertisesAll == UNCHANGED mode /\ (mode = "automatic" => Open' \subseteq descriptor')
GrantsNothing ==
    /\ \A t \in Traces : call'[t].at = "leased" => call[t].at = "leased"
    /\ \A i \in Open' : tabs'[i].status = "running" /\ ~tabs'[i].attaching
         => /\ i \in Open /\ tabs[i].status = "running" /\ ~tabs[i].attaching
            /\ tabs[i].trace = tabs'[i].trace
            /\ i \in descriptor => i \in descriptor'

LEMMA RemoveAdvertises ==
    ASSUME TabsTyped, NEW gone, Remove(gone), UNCHANGED mode
    PROVE  AdvertisesAll \/ UNCHANGED <<tabs, descriptor>>
<1>1. CASE gone = {}
  <2>1. \A i \in TabIds : Without(gone)[i] = tabs[i]
    <3>1. \A e \in Tab : [e EXCEPT !.older = e.older \ {}] = e
        BY DEF Tab
    <3> QED
        BY <1>1, <3>1 DEF Without, TabsTyped
  <2>2. tabs' = tabs
      BY <2>1 DEF Remove, TabsTyped, Without
  <2> QED
      BY <1>1, <2>2 DEF Remove
<1>2. CASE gone # {}
  <2>1. Advertise(tabs')
      BY <1>2 DEF Remove
  <2> QED
      BY <2>1 DEF Advertise, AdvertisesAll, Open
<1> QED
    BY <1>1, <1>2

LEMMA EndAdvertises ==
    ASSUME TabsTyped, NEW e, NEW retain, EndTurn(e, retain), UNCHANGED mode
    PROVE  AdvertisesAll \/ UNCHANGED <<tabs, descriptor>>
<1>1. ASSUME Advertise(tabs') PROVE AdvertisesAll
    BY <1>1 DEF Advertise, AdvertisesAll, Open
<1>2. ASSUME NEW i \in First(e.trace), Remove({i})
      PROVE  AdvertisesAll \/ UNCHANGED <<tabs, descriptor>>
    BY <1>2, RemoveAdvertises
<1> QED
    BY <1>1, <1>2 DEF EndTurn

(* A step in which no worker is given a tab.                                      *)
LEMMA NothingGranted ==
    ASSUME TabsTyped, UNCHANGED descriptor,
           \A t \in Traces : call'[t].at = "leased" => call[t].at = "leased",
           \A i \in Open' : /\ i \in Open /\ tabs'[i].trace = tabs[i].trace
                            /\ tabs'[i].attaching = tabs[i].attaching
                            /\ tabs'[i].status \in {"error", tabs[i].status}
    PROVE  GrantsNothing
BY DEF GrantsNothing

LEMMA DescriptorStep ==
    ASSUME TypeOK, [Next]_vars
    PROVE  AdvertisesAll \/ GrantsNothing
<1>0. TabsTyped /\ CallTyped /\ tabs \in [TabIds -> Tab \cup {None}]
    BY TabTypes DEF TabsTyped
<1>a. \A i \in Open : i \in TabIds /\ tabs[i] \in Tab
    BY <1>0 DEF Open
<1>b. ASSUME Advertise(tabs'), UNCHANGED mode PROVE AdvertisesAll
    BY <1>b DEF Advertise, AdvertisesAll, Open
<1>c. ASSUME UNCHANGED <<tabs, descriptor>>,
             \A t \in Traces : call'[t].at = "leased" => call[t].at = "leased"
      PROVE  GrantsNothing
  <2>1. Open' = Open
      BY <1>c DEF Open
  <2> QED
      BY <1>c, <2>1 DEF GrantsNothing
<1>d. \A t \in Traces : call' = [call EXCEPT ![t] = Idle]
         => \A u \in Traces : call'[u].at = "leased" => call[u].at = "leased"
    BY <1>0 DEF CallTyped, Idle
<1>1. ASSUME NEW t \in Traces, NEW h \in Helpers, StartReuses(t, h) PROVE AdvertisesAll
    BY <1>1, <1>b DEF StartReuses
<1>2. ASSUME NEW t \in Traces, NEW h \in Helpers, StartCreates(t, h) PROVE GrantsNothing
  <2>1. PICK gone \in Reclaimable :
           /\ FreshIds(gone) # {}
           /\ tabs' = [Without(gone) EXCEPT ![CHOOSE f \in FreshIds(gone) : TRUE] =
                                                NewTab(t, h, Open \ gone)]
           /\ IF gone = {} THEN UNCHANGED descriptor ELSE Advertise(Without(gone))
      BY <1>2 DEF StartCreates
  <2>2. \A u \in Traces : call'[u].at = "leased" => call[u].at = "leased"
      BY <1>0, <1>2 DEF StartCreates, CallTyped, Starting
  <2>3. ASSUME NEW i \in Open', ~tabs'[i].attaching
        PROVE  /\ i \in Open /\ i \notin gone /\ tabs'[i].trace = tabs[i].trace
               /\ tabs'[i].status = tabs[i].status /\ tabs'[i].attaching = tabs[i].attaching
    <3>1. i \in TabIds /\ tabs'[i] # None
        BY <2>3 DEF Open
    <3>2. tabs'[i] # NewTab(t, h, Open \ gone)
        BY <2>3 DEF NewTab
    <3>3. Without(gone) \in [TabIds -> Tab \cup {None}]
        BY <1>0, WithoutTyped
    <3>4. tabs'[i] = Without(gone)[i]
        BY <2>1, <3>1, <3>2, <3>3
    <3>5. i \in Open /\ i \notin gone /\ SameTab(Without(gone)[i], tabs[i])
        BY <1>0, <3>1, <3>4, WithoutKeeps
    <3> QED
        BY <3>4, <3>5 DEF SameTab
  <2>4. mode = "automatic"
      BY <1>2 DEF StartCreates, Asks, StartAllowed
  <2>5. ASSUME NEW i \in Open, i \notin gone, i \in descriptor PROVE i \in descriptor'
    <3>1. i \in TabIds /\ tabs[i] # None
        BY <2>5 DEF Open
    <3>2. tabs[i] \in Tab
        BY <1>a, <2>5
    <3>3. Without(gone)[i] \in Tab
        BY <2>5, <3>1, <3>2, TabChanges DEF Without
    <3> QED
        BY <2>1, <2>4, <2>5, <3>1, <3>3, NoneAssumption DEF Advertise
  <2> QED
      BY <2>2, <2>3, <2>5 DEF GrantsNothing
<1>3. ASSUME NEW t \in Traces, NEW i \in TabIds, Heartbeat(t, i) PROVE GrantsNothing
  <2>1. i \in Open /\ tabs[i] \in Tab
      BY <1>a, <1>3 DEF Heartbeat, First, OfTrace
  <2>2. /\ \A j \in TabIds : j # i => tabs'[j] = tabs[j]
        /\ tabs'[i].trace = tabs[i].trace /\ tabs'[i].attaching = tabs[i].attaching
        /\ tabs'[i].status = tabs[i].status
      BY <1>0, <1>3, <2>1 DEF Heartbeat, Tab
  <2> QED
      BY <1>0, <1>3, <2>1, <2>2, NothingGranted DEF Heartbeat, clientVars, Open
<1>4. ASSUME NEW t \in Traces, Ends(t) PROVE AdvertisesAll \/ GrantsNothing
    BY <1>0, <1>4, <1>c, <1>d, EndAdvertises DEF Ends
<1>5. ASSUME LateEndArrives PROVE AdvertisesAll \/ GrantsNothing
    BY <1>0, <1>5, <1>c, EndAdvertises DEF LateEndArrives
<1>6. ASSUME NEW t \in Traces, EndIsLate(t) \/ GivesUp(t) PROVE GrantsNothing
    BY <1>6, <1>c, <1>d DEF EndIsLate, GivesUp, hostVars
<1>7. ASSUME NEW t \in Traces, ReleaseConversation(keyOf[t]) PROVE AdvertisesAll \/ GrantsNothing
    BY <1>0, <1>7, <1>c, RemoveAdvertises DEF ReleaseConversation, clientVars
<1>8. ASSUME NEW i \in TabIds, TabAttached(i) PROVE AdvertisesAll
    BY <1>8, <1>b DEF TabAttached
<1>9. ASSUME NEW i \in TabIds, AttachFails(i) PROVE AdvertisesAll
  <2>1. i \in TabIds /\ tabs[i] # None
      BY <1>9 DEF AttachFails, Open
  <2>2. Advertise(tabs')
      BY <1>9, <2>1 DEF AttachFails, Remove
  <2> QED
      BY <1>9, <1>b, <2>2 DEF AttachFails
<1>10. ASSUME NEW i \in TabIds, MarkFails(i) \/ Lapse(i) PROVE GrantsNothing
  <2>1. i \in Open /\ tabs[i] \in Tab
      BY <1>a, <1>10 DEF MarkFails, Lapse
  <2>2. /\ \A j \in TabIds : j # i => tabs'[j] = tabs[j]
        /\ tabs'[i].trace = tabs[i].trace /\ tabs'[i].attaching = tabs[i].attaching
        /\ tabs'[i].status \in {"error", tabs[i].status}
      BY <1>0, <1>10, <2>1 DEF MarkFails, Lapse, Tab
  <2> QED
      BY <1>0, <1>10, <2>1, <2>2, NothingGranted DEF MarkFails, Lapse, clientVars, Open
<1>11. ASSUME NEW i \in TabIds, PageGone(i) \/ CloseIdle(i) PROVE AdvertisesAll \/ GrantsNothing
    BY <1>0, <1>11, <1>c, RemoveAdvertises DEF PageGone, CloseIdle, clientVars
<1>12. ASSUME NEW i \in TabIds, CloseAcknowledged(i) PROVE AdvertisesAll \/ GrantsNothing
    BY <1>0, <1>12, <1>c, RemoveAdvertises DEF CloseAcknowledged, clientVars
<1>13. ASSUME NEW i \in TabIds, CloseRunning(i) \/ CloseFails(i) PROVE GrantsNothing
    BY <1>13, <1>c DEF CloseRunning, CloseFails, clientVars
<1>14. ASSUME OperationStarts \/ OperationEnds PROVE AdvertisesAll \/ GrantsNothing
    BY <1>0, <1>14, <1>c, RemoveAdvertises DEF OperationStarts, OperationEnds, clientVars
<1>e. \A e \in Tab, x \in BOOLEAN : LET f == [e EXCEPT !.late = x]
                                   IN  f.trace = e.trace /\ f.attaching = e.attaching /\ f.status = e.status
    BY DEF Tab
<1>15. ASSUME Sleep PROVE GrantsNothing
  <2>1. \A i \in Open' : i \in Open /\ tabs'[i] = [tabs[i] EXCEPT !.late = TRUE]
      BY <1>15 DEF Sleep, Open
  <2> QED
      BY <1>0, <1>a, <1>e, <1>15, <2>1, NothingGranted DEF Sleep, clientVars
<1>16. ASSUME tabs' = Rebaselined, UNCHANGED <<descriptor, call>> PROVE GrantsNothing
  <2>1. \A i \in Open' : i \in Open /\ (tabs'[i] = tabs[i] \/ tabs'[i] = [tabs[i] EXCEPT !.late = FALSE])
      BY <1>16 DEF Rebaselined, Running, Open
  <2> QED
      BY <1>0, <1>a, <1>e, <1>16, <2>1, NothingGranted
<1>17. ASSUME SystemResumes \/ Sweep PROVE AdvertisesAll \/ GrantsNothing
    BY <1>0, <1>c, <1>16, <1>17, RemoveAdvertises DEF SystemResumes, Sweep, clientVars
<1>18. ASSUME NEW h \in Helpers, HelperDies(h) PROVE GrantsNothing
    BY <1>18, <1>c DEF HelperDies, hostVars
<1>19. CASE UNCHANGED vars
    BY <1>19, <1>c DEF vars, hostVars, clientVars
<1> QED
    BY <1>1, <1>2, <1>3, <1>4, <1>5, <1>6, <1>7, <1>8, <1>9, <1>10, <1>11, <1>12, <1>13, <1>14,
       <1>15, <1>17, <1>18, <1>19 DEF Next, HostStep

(* The descriptor has the tab of every worker that was given one.                 *)
LEMMA AdvertisedStep ==
    ASSUME TypeOK, LeasedIsAdvertised, OperationsExcludeTurns', [Next]_vars
    PROVE  LeasedIsAdvertised'
<1> SUFFICES ASSUME NEW t \in Traces, NEW i \in TabIds,
                    call'[t].at = "leased", i \in Open', tabs'[i].trace = t,
                    tabs'[i].status = "running", ~tabs'[i].attaching
             PROVE  i \in descriptor'
    BY DEF LeasedIsAdvertised, OfTrace, Running, Open
<1>1. CASE AdvertisesAll
  <2>1. i \in Running(tabs)'
      BY DEF Running, Open
  <2>2. mode' # "manual"
      BY <2>1 DEF OperationsExcludeTurns
  <2>3. mode = "automatic"
      BY <1>1, <2>2 DEF TypeOK, AdvertisesAll
  <2> QED
      BY <1>1, <2>3 DEF AdvertisesAll
<1>2. CASE GrantsNothing
  <2>1. /\ call[t].at = "leased" /\ i \in Open /\ tabs[i].status = "running" /\ ~tabs[i].attaching
        /\ tabs[i].trace = t /\ (i \in descriptor => i \in descriptor')
      BY <1>2 DEF GrantsNothing
  <2>2. i \in OfTrace(t) /\ i \in Running(tabs)
      BY <2>1 DEF OfTrace, Running, Open
  <2> QED
      BY <2>1, <2>2 DEF LeasedIsAdvertised
<1> QED
    BY <1>1, <1>2, DescriptorStep

(* The blocker follows the running tabs.                                          *)
LEMMA BlockerStep == TypeOK /\ BlockerHasTurn /\ [Next]_vars => BlockerHasTurn'
<1> SUFFICES ASSUME TypeOK, BlockerHasTurn, [Next]_vars PROVE BlockerHasTurn'
    OBVIOUS
<1>0. TabsTyped /\ tabs \in [TabIds -> Tab \cup {None}]
    BY TabTypes DEF TabsTyped
<1>a. \A i \in Open : i \in TabIds /\ tabs[i] \in Tab
    BY <1>0 DEF Open
<1>b. Running(tabs)' = Running(tabs')
    BY DEF Running
<1>c. ASSUME SyncBlocker(tabs') PROVE BlockerHasTurn'
    BY <1>b, <1>c DEF SyncBlocker, BlockerHasTurn
<1>d. ASSUME UNCHANGED blocker, \A i \in Running(tabs) : tabs'[i] # None /\ tabs'[i].status = "running"
      PROVE  BlockerHasTurn'
  <2>1. Running(tabs) \subseteq Running(tabs')
      BY <1>d DEF Running
  <2> QED
      BY <1>b, <1>d, <2>1 DEF BlockerHasTurn
<1>e. \A gone : Remove(gone) => SyncBlocker(tabs')
    BY DEF Remove
<1>f. CASE UNCHANGED <<tabs, blocker>>
    BY <1>d, <1>f DEF Running
<1>g. \A e, retain : EndTurn(e, retain) => SyncBlocker(tabs') \/ UNCHANGED <<tabs, blocker>>
    BY <1>e DEF EndTurn
<1>h. \A i \in Running(tabs) : i \in Open /\ tabs[i].status = "running" /\ tabs[i] \in Tab
    BY <1>a DEF Running, Open
<1>i. \A e \in Tab : e # None
    BY NoneAssumption
<1>j. ASSUME UNCHANGED blocker, NEW i \in Open, NEW x \in BOOLEAN,
             \/ tabs' = [tabs EXCEPT ![i].late = x]
             \/ tabs' = [tabs EXCEPT ![i].attaching = FALSE]
      PROVE  BlockerHasTurn'
  <2>1. i \in TabIds /\ tabs[i] \in Tab
      BY <1>a, <1>j
  <2>2. /\ \A j \in TabIds : j # i => tabs'[j] = tabs[j]
        /\ tabs'[i] = [tabs[i] EXCEPT !.late = x] \/ tabs'[i] = [tabs[i] EXCEPT !.attaching = FALSE]
      BY <1>0, <1>j, <2>1
  <2>3. tabs'[i] \in Tab
      BY <2>1, <2>2, TabChanges
  <2>4. tabs'[i].status = tabs[i].status
      BY <2>1, <2>2 DEF Tab
  <2>5. \A j \in Running(tabs) : tabs'[j] # None /\ tabs'[j].status = "running"
      BY <1>h, <1>i, <2>2, <2>3, <2>4 DEF Open
  <2> QED
      BY <1>d, <1>j, <2>5
<1>k. \A e \in Tab : LET f == [e EXCEPT !.late = FALSE] IN f \in Tab /\ f.status = e.status
    BY TabChanges DEF Tab
<1>1. ASSUME NEW t \in Traces, NEW h \in Helpers, StartReuses(t, h) PROVE BlockerHasTurn'
  <2>1. PICK i \in Candidates(t) :
           tabs' = [tabs EXCEPT ![i].trace = t, ![i].helper = h, ![i].status = "running",
                                ![i].late = FALSE]
      BY <1>1 DEF StartReuses
  <2>2. i \in TabIds /\ tabs[i] \in Tab
      BY <1>a DEF Candidates, Kept, First, OfTrace, Retained
  <2>3. /\ \A j \in TabIds : j # i => tabs'[j] = tabs[j]
        /\ tabs'[i] = [tabs[i] EXCEPT !.trace = t, !.helper = h, !.status = "running", !.late = FALSE]
      BY <1>0, <2>1, <2>2
  <2>4. tabs'[i] \in Tab
    <3>1. [tabs[i] EXCEPT !.trace = t, !.helper = h, !.status = "running", !.late = FALSE] \in Tab
        BY <2>2, TabChanges
    <3> QED
        BY <2>3, <3>1
  <2>5. tabs'[i].status = "running"
      BY <2>2, <2>3 DEF Tab
  <2>6. \A j \in Running(tabs) : tabs'[j] # None /\ tabs'[j].status = "running"
      BY <1>h, <1>i, <2>3, <2>4, <2>5 DEF Open
  <2> QED
      BY <1>1, <1>d, <2>6 DEF StartReuses
<1>2. ASSUME NEW t \in Traces, NEW h \in Helpers, StartCreates(t, h) PROVE BlockerHasTurn'
    BY <1>2, <1>c DEF StartCreates
<1>3. ASSUME NEW t \in Traces, NEW i \in TabIds, Heartbeat(t, i) PROVE BlockerHasTurn'
    BY <1>3, <1>j DEF Heartbeat, First, OfTrace
<1>4. ASSUME NEW t \in Traces, Ends(t) PROVE BlockerHasTurn'
    BY <1>4, <1>c, <1>f, <1>g DEF Ends
<1>5. ASSUME LateEndArrives PROVE BlockerHasTurn'
    BY <1>5, <1>c, <1>f, <1>g DEF LateEndArrives
<1>6. ASSUME NEW i \in TabIds, TabAttached(i) \/ Lapse(i) PROVE BlockerHasTurn'
    BY <1>6, <1>j DEF TabAttached, Lapse
<1>7. ASSUME NEW i \in TabIds, AttachFails(i) \/ MarkFails(i) \/ PageGone(i) \/ CloseIdle(i)
      PROVE  BlockerHasTurn'
    BY <1>7, <1>c, <1>e DEF AttachFails, MarkFails, PageGone, CloseIdle
<1>8. ASSUME NEW i \in TabIds, CloseAcknowledged(i) PROVE BlockerHasTurn'
    BY <1>8, <1>c, <1>e, <1>f DEF CloseAcknowledged
<1>9. ASSUME NEW t \in Traces, ReleaseConversation(keyOf[t]) PROVE BlockerHasTurn'
    BY <1>9, <1>c, <1>e DEF ReleaseConversation
<1>10. ASSUME OperationEnds PROVE BlockerHasTurn'
    BY <1>10, <1>c, <1>e, <1>f DEF OperationEnds
<1>11. ASSUME Sleep PROVE BlockerHasTurn'
  <2>1. \A i \in Open : tabs'[i] = [tabs[i] EXCEPT !.late = TRUE]
      BY <1>11 DEF Sleep, Open
  <2>2. \A e \in Tab : LET f == [e EXCEPT !.late = TRUE] IN f \in Tab /\ f.status = e.status
      BY TabChanges DEF Tab
  <2>3. \A i \in Running(tabs) : tabs'[i] # None /\ tabs'[i].status = "running"
      BY <1>h, <1>i, <2>1, <2>2
  <2> QED
      BY <1>11, <1>d, <2>3 DEF Sleep
<1>12. ASSUME tabs' = Rebaselined, UNCHANGED blocker PROVE BlockerHasTurn'
  <2>1. \A i \in Running(tabs) : tabs'[i] = [tabs[i] EXCEPT !.late = FALSE]
      BY <1>12 DEF Rebaselined, Running
  <2>2. \A i \in Running(tabs) : tabs'[i] # None /\ tabs'[i].status = "running"
      BY <1>h, <1>i, <1>k, <2>1
  <2> QED
      BY <1>12, <1>d, <2>2
<1>13. ASSUME SystemResumes \/ Sweep PROVE BlockerHasTurn'
    BY <1>13, <1>12, <1>c, <1>e DEF SystemResumes, Sweep
<1> QED
    BY <1>1, <1>2, <1>3, <1>4, <1>5, <1>6, <1>7, <1>8, <1>9, <1>10, <1>11, <1>13, <1>f
       DEF Next, HostStep, vars, hostVars, EndIsLate, GivesUp, CloseRunning, CloseFails, OperationStarts, HelperDies

(* The tabs, the descriptor, the operations of the user and the power-save        *)
(* blocker of the host agree.                                                     *)
THEOREM TabsAgree == Spec => []TabsHold
<1>1. Init => TabsHold
  <2> SUFFICES ASSUME Init PROVE TabsHold
      OBVIOUS
  <2>1. TypeOK
      BY DEF Init, TypeOK
  <2>2. Running(tabs) = {} /\ Open = {} /\ Failed(tabs) = {}
      BY DEF Init, Running, Open, Failed
  <2>3. \A t \in Traces : call[t].at # "leased"
      BY DEF Init
  <2> QED
      BY <2>1, <2>2, <2>3 DEF Init, TabsHold, OneTabPerTrace, LeasedIsAdvertised,
         OperationsExcludeTurns, BlockerHasTurn
<1>2. TabsHold /\ [Next]_vars => TabsHold'
  <2> SUFFICES ASSUME TabsHold, [Next]_vars PROVE TabsHold'
      OBVIOUS
  <2>0. TypeOK /\ OneTabPerTrace /\ LeasedIsAdvertised /\ OperationsExcludeTurns /\ BlockerHasTurn
      BY DEF TabsHold
  <2>1. TypeOK'
      BY <2>0, TabTypes, TabsTypedStep, RestTypedStep, ErredTypedStep
  <2>2. OneTabPerTrace' /\ OperationsExcludeTurns'
      BY <2>0, RunningStep
  <2>3. LeasedIsAdvertised'
      BY <2>0, <2>2, AdvertisedStep
  <2>4. BlockerHasTurn'
      BY <2>0, BlockerStep
  <2> QED
      BY <2>1, <2>2, <2>3, <2>4 DEF TabsHold
<1> QED
    BY <1>1, <1>2, PTL DEF Spec

(* No step takes a running tab from the live helper that owns it, nor gives a     *)
(* turn the user closed a tab again.                                              *)
THEOREM LeasesAreKept == Spec => LeasesHold
<1>1. TabsHold /\ [Next]_vars
        => [/\ \A i \in Running(tabs) : i \in Running(tabs)' /\ tabs[i].helper \in alive
                                          => tabs'[i].helper = tabs[i].helper
            /\ \A t \in Traces : t \in userCancelled /\ OfTrace(t) = {} => OfTrace(t)' = {}]_vars
  <2> SUFFICES ASSUME TabsHold, [Next]_vars
               PROVE  /\ \A i \in Running(tabs) : i \in Running(tabs)' /\ tabs[i].helper \in alive
                                                    => tabs'[i].helper = tabs[i].helper
                      /\ \A t \in Traces : t \in userCancelled /\ OfTrace(t) = {} => OfTrace(t)' = {}
      OBVIOUS
  <2>0. \A i : (i \in Running(tabs)' => i \in Open') /\ (i \in Running(tabs) => i \in Open)
      BY DEF Running, Open
  <2>a. \A t, i : /\ i \in OfTrace(t)' <=> i \in Open' /\ tabs'[i].trace = t
                  /\ i \in OfTrace(t) <=> i \in Open /\ tabs[i].trace = t
      BY DEF OfTrace, Open
  <2>1. CASE KeepsTabs
      BY <2>0, <2>a, <2>1 DEF KeepsTabs
  <2>2. ASSUME NEW t \in Traces, NEW i \in TabIds, TakesTab(t, i)
        PROVE  /\ \A j \in Running(tabs) : j \in Running(tabs)' /\ tabs[j].helper \in alive
                                             => tabs'[j].helper = tabs[j].helper
               /\ \A u \in Traces : u \in userCancelled /\ OfTrace(u) = {} => OfTrace(u)' = {}
    <3>1. \A j \in Running(tabs) : j \in Running(tabs)' /\ tabs[j].helper \in alive
                                     => tabs'[j].helper = tabs[j].helper
        BY <2>0, <2>2 DEF TakesTab
    <3>2. ASSUME NEW u \in Traces, u \in userCancelled, NEW j \in OfTrace(u)' PROVE j \in OfTrace(u)
        BY <2>a, <2>2, <3>2 DEF TakesTab
    <3> QED
        BY <3>1, <3>2
  <2> QED
      BY <2>1, <2>2, TabsStep DEF TabsHold
<1> QED
    BY <1>1, TabsAgree, PTL DEF Spec, LeasesHold
--------------------------------------------------------------------------------
(* Zero Risk turns *)

TerminalStates == {"timed-out", "failed", "cancelled"}
LiveStates     == {"awaiting-user", "sent", "running"}
Begun          == {"waiting", "sent", "started", "completing", "ending"}

(* Turns follow each other, and each has one tab.                                 *)
OneWorker     == \A t, u \in ManualTraces : ~At(t, {"over"}) /\ ~At(u, {"over"}) => t = u
WorkerIsOwner == \A t \in ManualTraces : ~At(t, {"over"}) => worker[t].owner # Nothing
OneTabPerTurn == \A i, j \in OpenTabs : manualTabs[i].trace = manualTabs[j].trace => i = j

(* What a tab shows of its turn, and what the host remembers of a turn's end.     *)
StatusFits ==
    \A i \in OpenTabs :
        /\ manualTabs[i].status = "error" => manualTabs[i].state \in TerminalStates
        /\ manualTabs[i].status = "ready" <=> manualTabs[i].state = "completed"
        /\ manualTabs[i].armed => manualTabs[i].state = "awaiting-user"
IsRemembered(i) == terminal[manualTabs[i].trace] # Nothing
            /\ terminal[manualTabs[i].trace].owner = manualTabs[i].owner
EndIsRemembered ==
    \A i \in OpenTabs :
        /\ manualTabs[i].state \in TerminalStates => IsRemembered(i)
        /\ manualTabs[i].state = "completed" => completion[manualTabs[i].trace] # Nothing
        /\ manualTabs[i].state \in LiveStates
             => completion[manualTabs[i].trace] = Nothing /\ ~IsRemembered(i)
ClosingIsOver ==
    manualClosing \in OpenTabs => manualTabs[manualClosing].state \in TerminalStates

(* What a worker that has begun has, and what the others may not have then.       *)
TabIsOwn ==
    \A t \in ManualTraces : At(t, Begun) =>
        \A i \in TabsOf(t) : manualTabs[i].owner = worker[t].owner /\ manualTabs[i].fresh
NotCompleted ==
    \A t \in ManualTraces :
        /\ At(t, Begun \ {"completing"}) => completion[t] = Nothing
        /\ At(t, {"completing"}) => completion[t] \in {Nothing, worker[t].owner}
NothingRetained ==
    \A t \in ManualTraces, i \in ManualTabIds :
        ~At(t, {"over"}) /\ i \in Mine(t) /\ manualTabs[i].fresh /\ completion[t] = Nothing
          => RetainedTabs = {}
SentIsKnown ==
    \A t \in ManualTraces, i \in ManualTabIds :
        At(t, {"sent", "started", "completing"}) /\ i \in Mine(t)
          => manualTabs[i].state # "awaiting-user"
NotYetPolled ==
    \A t \in ManualTraces, i \in ManualTabIds :
        At(t, {"starting"}) /\ i \in Mine(t) /\ manualTabs[i].fresh => ~manualTabs[i].polled

TabsInv == OneTabPerTurn /\ StatusFits /\ EndIsRemembered /\ ClosingIsOver /\ OneRetainedTab
WorkInv == /\ OneWorker /\ WorkerIsOwner /\ TabIsOwn /\ NotCompleted /\ NothingRetained
           /\ SentIsKnown /\ NotYetPolled /\ FateIsKnown /\ SentIsNotTimedOut /\ PollsAreAnswered
ManualInv == ManualTypeOK /\ TabsInv /\ WorkInv

(* A tab of the same turn.                                                        *)
SameTurn(e, f) == f \in ManualTab /\ f.trace = e.trace /\ f.owner = e.owner
SameRest(e, f) == f.status = e.status /\ f.keyed = e.keyed /\ f.fresh = e.fresh

(* What the host's steps make of a tab.                                           *)
LEMMA PolledTab ==
    ASSUME NEW e \in ManualTab, NEW f, f = [e EXCEPT !.polled = TRUE]
    PROVE  SameTurn(e, f) /\ SameRest(e, f) /\ f.state = e.state /\ f.armed = e.armed
BY DEF ManualTab, SameTurn, SameRest

LEMMA UnpolledTab ==
    ASSUME NEW e \in ManualTab, NEW f, f = [e EXCEPT !.polled = FALSE]
    PROVE  SameTurn(e, f) /\ SameRest(e, f) /\ f.state = e.state /\ f.armed = e.armed /\ ~f.polled
BY DEF ManualTab, SameTurn, SameRest

LEMMA UnkeyedTab ==
    ASSUME NEW e \in ManualTab, NEW f, f = [e EXCEPT !.keyed = FALSE]
    PROVE  /\ SameTurn(e, f) /\ f.status = e.status /\ f.fresh = e.fresh /\ f.state = e.state
           /\ f.armed = e.armed /\ f.polled = e.polled /\ f.keyed = FALSE
BY DEF ManualTab, SameTurn

LEMMA OldTab ==
    ASSUME NEW e \in ManualTab, NEW f, f = [e EXCEPT !.fresh = FALSE]
    PROVE  /\ SameTurn(e, f) /\ f.status = e.status /\ f.keyed = e.keyed /\ f.state = e.state
           /\ f.armed = e.armed /\ f.polled = e.polled /\ f.fresh = FALSE
BY DEF ManualTab, SameTurn

LEMMA SentTab ==
    ASSUME NEW e \in ManualTab, NEW f, f = [e EXCEPT !.state = "sent", !.armed = FALSE, !.polled = FALSE]
    PROVE  SameTurn(e, f) /\ SameRest(e, f) /\ f.state = "sent" /\ ~f.armed /\ ~f.polled
BY DEF ManualTab, States, SameTurn, SameRest

LEMMA RunningTab ==
    ASSUME NEW e \in ManualTab, NEW f, f = [e EXCEPT !.state = "running"]
    PROVE  SameTurn(e, f) /\ SameRest(e, f) /\ f.state = "running" /\ f.armed = e.armed
BY DEF ManualTab, States, SameTurn, SameRest

LEMMA CompletedTab ==
    ASSUME NEW e \in ManualTab, NEW f,
           f = [e EXCEPT !.state = "completed", !.status = "ready", !.armed = FALSE]
    PROVE  /\ SameTurn(e, f) /\ f.fresh = e.fresh
           /\ f.state = "completed" /\ f.status = "ready" /\ ~f.armed
BY DEF ManualTab, States, SameTurn

(* What the end of a turn makes of its tab.                                       *)
LEMMA SignalledTabs ==
    ASSUME NEW e \in ManualTab, NEW s \in {"timeout", "cancelled", "failed"}
    PROVE  LET f == [e EXCEPT !.state = StateOf(s), !.armed = FALSE, !.polled = FALSE]
               g == [f EXCEPT !.keyed = FALSE, !.status = "error"]
               h == [f EXCEPT !.status = "error"]
           IN  /\ SameTurn(e, f) /\ SameRest(e, f) /\ f.state \in TerminalStates /\ ~f.armed /\ ~f.polled
               /\ SameTurn(e, g) /\ g.fresh = e.fresh /\ g.status = "error" /\ g.state \in TerminalStates
               /\ ~g.armed /\ ~g.polled /\ ~g.keyed
               /\ SameTurn(e, h) /\ h.fresh = e.fresh /\ h.status = "error" /\ h.state \in TerminalStates
               /\ ~h.armed /\ ~h.polled /\ h.keyed = e.keyed
<1>1. StateOf(s) \in TerminalStates /\ StateOf(s) \in States
    BY DEF StateOf, TerminalStates, States
<1> DEFINE f == [e EXCEPT !.state = StateOf(s), !.armed = FALSE, !.polled = FALSE]
           g == [f EXCEPT !.keyed = FALSE, !.status = "error"]
           h == [f EXCEPT !.status = "error"]
<1>2. SameTurn(e, f) /\ SameRest(e, f) /\ f.state \in TerminalStates /\ ~f.armed /\ ~f.polled
    BY <1>1 DEF ManualTab, SameTurn, SameRest
<1>3. f \in ManualTab /\ f.trace = e.trace /\ f.owner = e.owner /\ f.fresh = e.fresh /\ f.keyed = e.keyed
    BY <1>2 DEF SameTurn, SameRest
<1> HIDE DEF f
<1>4. /\ SameTurn(f, g) /\ g.fresh = f.fresh /\ g.status = "error" /\ g.state = f.state
      /\ g.armed = f.armed /\ g.polled = f.polled /\ ~g.keyed
    BY <1>3 DEF ManualTab, SameTurn
<1>5. /\ SameTurn(f, h) /\ h.fresh = f.fresh /\ h.status = "error" /\ h.state = f.state
      /\ h.armed = f.armed /\ h.polled = f.polled /\ h.keyed = f.keyed
    BY <1>3 DEF ManualTab, SameTurn
<1>6. /\ SameTurn(e, g) /\ g.fresh = e.fresh /\ g.status = "error" /\ g.state \in TerminalStates
      /\ ~g.armed /\ ~g.polled /\ ~g.keyed
    BY <1>2, <1>3, <1>4 DEF SameTurn
<1>7. /\ SameTurn(e, h) /\ h.fresh = e.fresh /\ h.status = "error" /\ h.state \in TerminalStates
      /\ ~h.armed /\ ~h.polled /\ h.keyed = e.keyed
    BY <1>2, <1>3, <1>5 DEF SameTurn
<1> QED
    BY <1>2, <1>6, <1>7 DEF f

(* Where a step leaves the workers, the other tabs and the other signals.         *)
OtherWorkers(t) == \A u \in ManualTraces : u # t => worker'[u] = worker[u]
OtherTabs(i)    == \A j \in ManualTabIds : j # i => manualTabs'[j] = manualTabs[j]
OtherEnds(t)    == \A u \in ManualTraces : u # t => terminal'[u] = terminal[u]
Goes(t, stages) == OtherWorkers(t) /\ worker'[t].owner = worker[t].owner /\ worker'[t].at \in stages
Rests ==
    \A u \in ManualTraces : worker'[u].owner = worker[u].owner /\ worker'[u].at \in {"over", worker[u].at}
Hears(i) ==
    LET t == manualTabs[i].trace
    IN  /\ manualTabs[i].polled /\ worker[t].owner = manualTabs[i].owner
        /\ worker[t].at \in {"waiting", "sent", "started"}
Tells(i, stage) ==
    IF Hears(i) THEN Goes(manualTabs[i].trace, {stage}) ELSE UNCHANGED worker
WorkersTyped == worker \in [ManualTraces -> Worker]

LEMMA WorkerMoves ==
    ASSUME WorkersTyped, NEW t \in ManualTraces, NEW stage \in Stages, worker' = Step(t, stage)
    PROVE  WorkersTyped' /\ Goes(t, {stage})
<1>1. [worker[t] EXCEPT !.at = stage, !.retried = FALSE] \in Worker
    BY DEF WorkersTyped, Worker
<1>2. worker' = [worker EXCEPT ![t] = [worker[t] EXCEPT !.at = stage, !.retried = FALSE]]
    BY DEF Step
<1>3. WorkersTyped'
    BY <1>1, <1>2 DEF WorkersTyped
<1>4. worker'[t].at = stage /\ worker'[t].owner = worker[t].owner
    BY <1>2 DEF WorkersTyped, Worker
<1> QED
    BY <1>2, <1>3, <1>4 DEF Goes, OtherWorkers, WorkersTyped

LEMMA WorkerRetries ==
    ASSUME WorkersTyped, NEW t \in ManualTraces, worker' = [worker EXCEPT ![t].retried = TRUE]
    PROVE  WorkersTyped' /\ Goes(t, {worker[t].at}) /\ Rests
<1>1. [worker[t] EXCEPT !.retried = TRUE] \in Worker
    BY DEF WorkersTyped, Worker
<1>2. WorkersTyped'
    BY <1>1 DEF WorkersTyped
<1>3. worker'[t].at = worker[t].at /\ worker'[t].owner = worker[t].owner
    BY DEF WorkersTyped, Worker
<1> QED
    BY <1>2, <1>3 DEF Goes, Rests, OtherWorkers, WorkersTyped

(* A worker that is over rests.                                                   *)
LEMMA WorkerEnds ==
    ASSUME WorkersTyped, NEW t \in ManualTraces, worker' = Step(t, "over")
    PROVE  WorkersTyped' /\ Rests
<1>1. WorkersTyped' /\ Goes(t, {"over"})
    BY WorkerMoves DEF Stages
<1> QED
    BY <1>1 DEF Goes, Rests, OtherWorkers

LEMMA AnswerReaches ==
    ASSUME WorkersTyped, NEW t \in ManualTraces, NEW stage \in Stages, Acknowledged(t, stage)
    PROVE  WorkersTyped' /\ (Rests \/ Goes(t, {stage}))
BY WorkerMoves, WorkerRetries, WorkerEnds DEF Acknowledged

LEMMA WorkerHears ==
    ASSUME WorkersTyped, NEW i, manualTabs[i].trace \in ManualTraces, NEW stage \in Stages, Told(i, stage)
    PROVE  WorkersTyped' /\ Tells(i, stage)
<1>1. CASE Hears(i)
    BY <1>1, WorkerMoves DEF Told, Tells, Hears
<1>2. CASE ~Hears(i)
    BY <1>2 DEF Told, Tells, Hears, WorkersTyped
<1> QED
    BY <1>1, <1>2

(* What a step of the model does, as far as the tabs, the signals and the workers *)
(* tell it: nothing to the tabs,                                                  *)
Quiet == UNCHANGED manualHostVars /\ Rests
Advances(t) ==
    /\ UNCHANGED manualHostVars
    /\ \/ /\ At(t, {"starting"}) /\ Goes(t, {"waiting"}) /\ ~Refused(t)
          /\ \E i \in Mine(t) : manualTabs[i].fresh
       \/ /\ At(t, {"waiting"}) /\ Goes(t, {"sent"})
          /\ \E i \in Mine(t) : manualTabs[i].state \in {"sent", "running", "completed"}
       \/ At(t, {"waiting", "sent", "started"}) /\ Goes(t, {"ending"})
       \/ At(t, {"started"}) /\ Goes(t, {"completing"})
(* nothing but that the tabs of a turn that begins are old ones,                  *)
BeginsTurn(t) ==
    /\ UNCHANGED <<terminal, completion, manualClosing>>
    /\ \A u \in ManualTraces : At(u, {"over"})
    /\ OtherWorkers(t) /\ worker'[t].at = "starting" /\ worker'[t].owner \in Owners
    /\ \A j \in ManualTabIds :
        \/ manualTabs'[j] = Nothing /\ manualTabs[j] = Nothing
        \/ /\ manualTabs[j] # Nothing /\ SameTurn(manualTabs[j], manualTabs'[j])
           /\ manualTabs'[j].status = manualTabs[j].status /\ manualTabs'[j].keyed = manualTabs[j].keyed
           /\ manualTabs'[j].state = manualTabs[j].state /\ manualTabs'[j].armed = manualTabs[j].armed
           /\ manualTabs'[j].fresh => manualTabs[j].trace # t
(* a tab for a turn,                                                              *)
TakesPlace(t, i) ==
    /\ UNCHANGED <<terminal, completion, manualClosing>>
    /\ At(t, {"starting"}) /\ ~Refused(t) /\ TabsOf(t) = {} /\ RetainedTabs \subseteq {i}
    /\ OtherTabs(i) /\ manualClosing # i
    /\ manualTabs'[i] \in ManualTab /\ manualTabs'[i].trace = t /\ manualTabs'[i].owner = worker[t].owner
    /\ manualTabs'[i].status = "running" /\ manualTabs'[i].state = "awaiting-user"
    /\ manualTabs'[i].fresh /\ ~manualTabs'[i].polled
    /\ Rests \/ Goes(t, {"waiting"})
(* a turn that is lost while it starts,                                           *)
LosesTurn(t) ==
    /\ UNCHANGED <<completion, manualClosing>>
    /\ At(t, {"starting"}) /\ Goes(t, {"over"})
    /\ OtherEnds(t) /\ terminal'[t] # Nothing
    /\ \A j \in ManualTabIds : manualTabs'[j] \in {manualTabs[j], Nothing}
    /\ \A j \in ManualTabIds : manualTabs'[j] # Nothing => manualTabs[j].trace # t
(* a poll,                                                                        *)
Polls(i) ==
    /\ UNCHANGED <<terminal, completion, manualClosing, worker>>
    /\ i \in OpenTabs /\ OtherTabs(i) /\ SameTurn(manualTabs[i], manualTabs'[i])
    /\ SameRest(manualTabs[i], manualTabs'[i])
    /\ manualTabs'[i].state = manualTabs[i].state /\ manualTabs'[i].armed = manualTabs[i].armed
    /\ LET t == manualTabs[i].trace
       IN  \/ At(t, {"waiting"}) /\ manualTabs[i].state = "awaiting-user"
           \/ At(t, {"sent", "started"}) /\ ~MyTerminal(t)
(* a poll or a conversation that is over,                                         *)
Loosens(i) ==
    /\ UNCHANGED <<terminal, completion, manualClosing, worker>>
    /\ i \in OpenTabs /\ OtherTabs(i) /\ SameTurn(manualTabs[i], manualTabs'[i])
    /\ manualTabs'[i].status = manualTabs[i].status /\ manualTabs'[i].fresh = manualTabs[i].fresh
    /\ manualTabs'[i].state = manualTabs[i].state /\ manualTabs'[i].armed = manualTabs[i].armed
    /\ manualTabs'[i].keyed => manualTabs[i].keyed
    /\ manualTabs'[i].polled => manualTabs[i].polled
(* the confirmation of the user,                                                  *)
Confirms(i) ==
    /\ UNCHANGED <<terminal, completion, manualClosing>>
    /\ i \in OpenTabs /\ OtherTabs(i) /\ SameTurn(manualTabs[i], manualTabs'[i])
    /\ SameRest(manualTabs[i], manualTabs'[i])
    /\ manualTabs[i].state = "awaiting-user" /\ manualTabs'[i].state = "sent"
    /\ ~manualTabs'[i].armed /\ ~manualTabs'[i].polled
    /\ Tells(i, "sent")
(* a turn that runs,                                                              *)
RunsTurn(t, i) ==
    /\ UNCHANGED <<terminal, completion, manualClosing>>
    /\ At(t, {"sent"}) /\ i \in Mine(t)
    /\ OtherTabs(i) /\ SameTurn(manualTabs[i], manualTabs'[i]) /\ SameRest(manualTabs[i], manualTabs'[i])
    /\ manualTabs[i].state \in {"sent", "running"} /\ manualTabs'[i].state = "running"
    /\ manualTabs'[i].armed = manualTabs[i].armed
    /\ Rests \/ Goes(t, {"started"}) \/ Goes(t, {"ending"})
(* the end of one,                                                                *)
EndsTurn(i) ==
    /\ UNCHANGED completion
    /\ i \in OpenTabs /\ OtherTabs(i)
    /\ LET t == manualTabs[i].trace
       IN  /\ OtherEnds(t) /\ terminal'[t] # Nothing /\ terminal'[t].owner = manualTabs[i].owner
           /\ terminal'[t].status = "timeout" => manualTabs[i].armed
           /\ \/ Tells(i, "ending")
              \/ Rests /\ manualTabs'[i] = Nothing /\ At(t, {"ending"})
    /\ \/ manualTabs'[i] = Nothing /\ UNCHANGED manualClosing
       \/ /\ SameTurn(manualTabs[i], manualTabs'[i]) /\ manualTabs'[i].status \in {"running", "error"}
          /\ manualTabs'[i].fresh = manualTabs[i].fresh
          /\ manualTabs'[i].state \in TerminalStates /\ ~manualTabs'[i].armed /\ ~manualTabs'[i].polled
          /\ manualClosing' \in {manualClosing, i}
(* its completion, with or without its tab,                                       *)
CompletesTurn(t, i) ==
    /\ UNCHANGED <<terminal, manualClosing>>
    /\ At(t, {"completing"}) /\ completion[t] # worker[t].owner /\ i \in Mine(t) /\ OtherTabs(i)
    /\ manualTabs[i].state \in {"sent", "running"}
    /\ \A u \in ManualTraces : completion'[u] = IF u = t THEN worker[t].owner ELSE completion[u]
    /\ \/ manualTabs'[i] = Nothing
       \/ /\ SameTurn(manualTabs[i], manualTabs'[i]) /\ manualTabs'[i].fresh = manualTabs[i].fresh
          /\ manualTabs'[i].state = "completed" /\ manualTabs'[i].status = "ready" /\ ~manualTabs'[i].armed
    /\ Rests
(* and a tab that is given up.                                                    *)
GivesTabUp(i) ==
    /\ UNCHANGED <<terminal, completion, worker>>
    /\ OtherTabs(i) /\ manualTabs'[i] = Nothing /\ manualClosing' \in {manualClosing, Nothing}
    /\ i \in ManualTabIds /\ manualTabs[i] # Nothing => manualTabs[i].status = "ready" \/ i = manualClosing

TabsAreTyped == manualTabs \in [ManualTabIds -> ManualTab \cup {Nothing}]
EndsAreTyped ==
    /\ terminal \in [ManualTraces -> Signal \cup {Nothing}]
    /\ completion \in [ManualTraces -> Owners \cup {Nothing}]
    /\ manualClosing \in ManualTabIds \cup {Nothing}
    /\ latest \in ManualTraces \cup {Nothing} /\ daemons \subseteq Owners

LEMMA ManualTypes ==
    /\ ManualTypeOK <=> TabsAreTyped /\ EndsAreTyped /\ WorkersTyped
    /\ ManualTypeOK' <=> TabsAreTyped' /\ EndsAreTyped' /\ WorkersTyped'
BY DEF ManualTypeOK, TabsAreTyped, EndsAreTyped, WorkersTyped

(* The tabs that are open, and whose they are.                                    *)
LEMMA TabsInUse ==
    /\ \A i : i \in OpenTabs <=> i \in ManualTabIds /\ manualTabs[i] # Nothing
    /\ \A t, i : i \in TabsOf(t) <=> i \in OpenTabs /\ manualTabs[i].trace = t
    /\ \A t, i : i \in Mine(t) <=> i \in TabsOf(t) /\ manualTabs[i].owner = worker[t].owner
    /\ \A i : i \in RetainedTabs
          <=> i \in OpenTabs /\ manualTabs[i].status = "ready" /\ manualTabs[i].keyed
BY DEF OpenTabs, TabsOf, Mine, Owned, RetainedTabs

LEMMA OpenTyped ==
    ASSUME TabsAreTyped, NEW i \in OpenTabs
    PROVE  /\ i \in ManualTabIds /\ manualTabs[i] \in ManualTab
           /\ manualTabs[i].trace \in ManualTraces /\ manualTabs[i].owner \in Owners
BY DEF TabsAreTyped, OpenTabs, ManualTab

(* One tab that is changed, and one that is removed.                              *)
LEMMA OneTabChanges ==
    ASSUME TabsAreTyped, NEW i \in ManualTabIds, NEW e \in ManualTab \cup {Nothing},
           manualTabs' = [manualTabs EXCEPT ![i] = e]
    PROVE  TabsAreTyped' /\ OtherTabs(i) /\ manualTabs'[i] = e
BY DEF TabsAreTyped, OtherTabs

(* The steps in which the host changes nothing.                                   *)
LEMMA QuietSteps ==
    ASSUME ManualTypeOK, NEW t \in ManualTraces,
           StartRefused(t) \/ EndFindsNothing(t) \/ RequestIsLost(t)
    PROVE  ManualTypeOK' /\ Quiet
<1>0. TabsAreTyped /\ EndsAreTyped /\ WorkersTyped
    BY ManualTypes
<1>1. WorkersTyped' /\ Rests
    BY <1>0, WorkerEnds, WorkerRetries DEF StartRefused, EndFindsNothing, RequestIsLost
<1>2. UNCHANGED manualHostVars /\ UNCHANGED <<latest, daemons>>
    BY DEF StartRefused, EndFindsNothing, RequestIsLost
<1>3. TabsAreTyped' /\ EndsAreTyped'
    BY <1>0, <1>2 DEF TabsAreTyped, EndsAreTyped, manualHostVars
<1> QED
    BY <1>1, <1>2, <1>3, ManualTypes DEF Quiet

LEMMA OwnerStep ==
    ASSUME ManualTypeOK, NEW o \in Owners, OwnerDies(o)
    PROVE  ManualTypeOK' /\ Quiet
<1>0. TabsAreTyped /\ EndsAreTyped /\ WorkersTyped
    BY ManualTypes
<1>1. \A w \in Worker : LET v == [w EXCEPT !.at = "over", !.retried = FALSE]
                       IN  v \in Worker /\ v.owner = w.owner /\ v.at = "over"
    BY DEF Worker, Stages
<1>2. WorkersTyped'
    BY <1>0, <1>1 DEF OwnerDies, WorkersTyped
<1>3. Rests
    BY <1>0, <1>1 DEF OwnerDies, WorkersTyped, Rests
<1>4. TabsAreTyped' /\ EndsAreTyped'
    BY <1>0 DEF OwnerDies, TabsAreTyped, EndsAreTyped, manualHostVars
<1> QED
    BY <1>2, <1>3, <1>4, ManualTypes DEF Quiet, OwnerDies

(* A worker that goes on by itself.                                               *)
LEMMA AdvanceSteps ==
    ASSUME ManualTypeOK, NEW t \in ManualTraces, StartFound(t) \/ Answered(t) \/ Fails(t)
    PROVE  ManualTypeOK' /\ (Quiet \/ Advances(t))
<1>0. TabsAreTyped /\ EndsAreTyped /\ WorkersTyped
    BY ManualTypes
<1>1. UNCHANGED manualHostVars /\ UNCHANGED <<latest, daemons>>
    BY DEF StartFound, Answered, Fails
<1>2. TabsAreTyped' /\ EndsAreTyped'
    BY <1>0, <1>1 DEF TabsAreTyped, EndsAreTyped, manualHostVars
<1>3. CASE StartFound(t)
  <2>1. WorkersTyped' /\ (Rests \/ Goes(t, {"waiting"}))
      BY <1>0, <1>3, AnswerReaches DEF StartFound, Stages
  <2> QED
      BY <1>1, <1>2, <1>3, <2>1, ManualTypes DEF StartFound, Quiet, Advances
<1>4. CASE Answered(t)
  <2>1. WorkersTyped' /\ Goes(t, {"completing"})
      BY <1>0, <1>4, WorkerMoves DEF Answered, Stages
  <2> QED
      BY <1>1, <1>2, <1>4, <2>1, ManualTypes DEF Answered, Advances
<1>5. CASE Fails(t)
  <2>1. WorkersTyped' /\ Goes(t, {"ending"})
      BY <1>0, <1>5, WorkerMoves DEF Fails, Stages
  <2> QED
      BY <1>1, <1>2, <1>5, <2>1, ManualTypes DEF Fails, Advances
<1> QED
    BY <1>3, <1>4, <1>5

LEMMA BeginStep ==
    ASSUME ManualTypeOK, NEW t \in ManualTraces, NEW o \in Owners, Begins(t, o)
    PROVE  ManualTypeOK' /\ BeginsTurn(t)
<1>0. TabsAreTyped /\ EndsAreTyped /\ WorkersTyped
    BY ManualTypes
<1>1. [at |-> "starting", owner |-> o, retried |-> FALSE] \in Worker
    BY DEF Worker, Stages
<1>2. WorkersTyped' /\ OtherWorkers(t) /\ worker'[t].at = "starting" /\ worker'[t].owner = o
    BY <1>0, <1>1 DEF Begins, WorkersTyped, OtherWorkers
<1>3. EndsAreTyped'
    BY <1>0 DEF Begins, EndsAreTyped
<1>4. \A i \in TabsOf(t) : i \in ManualTabIds /\ manualTabs[i] \in ManualTab
    BY <1>0, OpenTyped, TabsInUse
<1>a. ASSUME NEW e \in ManualTab, NEW f, f = [e EXCEPT !.fresh = FALSE]
      PROVE  /\ f \in ManualTab /\ SameTurn(e, f) /\ f.status = e.status /\ f.keyed = e.keyed
             /\ f.state = e.state /\ f.armed = e.armed /\ f.fresh = FALSE
    BY <1>a, OldTab DEF SameTurn
<1>b. \A i \in TabsOf(t) : [manualTabs[i] EXCEPT !.fresh = FALSE] \in ManualTab
    BY <1>4, <1>a
<1>5. TabsAreTyped'
  <2>1. \A i \in ManualTabIds :
           (IF i \in TabsOf(t) THEN [manualTabs[i] EXCEPT !.fresh = FALSE] ELSE manualTabs[i])
             \in ManualTab \cup {Nothing}
      BY <1>0, <1>b DEF TabsAreTyped
  <2>2. manualTabs' = [i \in ManualTabIds |-> IF i \in TabsOf(t) THEN [manualTabs[i] EXCEPT !.fresh = FALSE]
                                             ELSE manualTabs[i]]
      BY DEF Begins
  <2> QED
      BY <2>1, <2>2 DEF TabsAreTyped
<1>6. ASSUME NEW j \in ManualTabIds
      PROVE  \/ manualTabs'[j] = Nothing /\ manualTabs[j] = Nothing
             \/ /\ manualTabs[j] # Nothing /\ SameTurn(manualTabs[j], manualTabs'[j])
                /\ manualTabs'[j].status = manualTabs[j].status /\ manualTabs'[j].keyed = manualTabs[j].keyed
                /\ manualTabs'[j].state = manualTabs[j].state /\ manualTabs'[j].armed = manualTabs[j].armed
                /\ manualTabs'[j].fresh => manualTabs[j].trace # t
  <2>1. CASE j \in TabsOf(t)
    <3>1. manualTabs'[j] = [manualTabs[j] EXCEPT !.fresh = FALSE]
        BY <2>1 DEF Begins
    <3> QED
        BY <1>4, <1>a, <2>1, <3>1, TabsInUse
  <2>2. CASE j \notin TabsOf(t)
    <3>1. manualTabs'[j] = manualTabs[j]
        BY <2>2 DEF Begins
    <3>2. manualTabs[j] # Nothing => manualTabs[j] \in ManualTab /\ manualTabs[j].trace # t
        BY <1>0, <2>2, TabsInUse DEF TabsAreTyped
    <3> QED
        BY <3>1, <3>2 DEF SameTurn
  <2> QED
      BY <2>1, <2>2
<1> QED
    BY <1>2, <1>3, <1>5, <1>6, ManualTypes DEF Begins, BeginsTurn, At

(* A tab for a turn.                                                              *)
LEMMA TakeSteps ==
    ASSUME ManualTypeOK, OneRetainedTab, StatusFits, ClosingIsOver, WorkerIsOwner,
           NEW t \in ManualTraces, ManualStartReuses(t) \/ ManualStartCreates(t)
    PROVE  ManualTypeOK' /\ \E i \in ManualTabIds : TakesPlace(t, i)
<1>0. TabsAreTyped /\ EndsAreTyped /\ WorkersTyped
    BY ManualTypes
<1>1. WorkersTyped' /\ (Rests \/ Goes(t, {"waiting"}))
    BY <1>0, AnswerReaches DEF ManualStartReuses, ManualStartCreates, Stages
<1>2. EndsAreTyped'
    BY <1>0 DEF ManualStartReuses, ManualStartCreates, EndsAreTyped
<1>3. At(t, {"starting"}) /\ ~Refused(t) /\ TabsOf(t) = {} /\ UNCHANGED <<terminal, completion, manualClosing>>
    BY DEF ManualStartReuses, ManualStartCreates, NothingToReuse
<1>4. worker[t] \in Worker /\ worker[t].owner # Nothing
    BY <1>0, <1>3 DEF WorkerIsOwner, At, WorkersTyped
<1>5. \A x \in BOOLEAN : NewManualTab(t, x) \in ManualTab
    BY <1>4 DEF NewManualTab, ManualTab, States, Worker
<1>6. \A x \in BOOLEAN : LET f == NewManualTab(t, x)
         IN  /\ f.trace = t /\ f.owner = worker[t].owner /\ f.status = "running"
             /\ f.state = "awaiting-user" /\ f.fresh /\ ~f.polled
    BY DEF NewManualTab
<1>7. PICK i \in ManualTabIds, x \in BOOLEAN :
         /\ manualTabs' = [manualTabs EXCEPT ![i] = NewManualTab(t, x)]
         /\ RetainedTabs \subseteq {i} /\ manualClosing # i
  <2>1. CASE ManualStartReuses(t)
    <3>1. PICK i \in RetainedTabs : manualTabs' = [manualTabs EXCEPT ![i] = NewManualTab(t, TRUE)]
        BY <2>1 DEF ManualStartReuses
    <3>2. i \in OpenTabs /\ i \in ManualTabIds /\ manualTabs[i].status = "ready"
        BY TabsInUse
    <3>3. manualTabs[i].state \notin TerminalStates
        BY <3>2 DEF StatusFits, TerminalStates
    <3> QED
        BY <3>1, <3>2, <3>3 DEF ClosingIsOver, OneRetainedTab
  <2>2. CASE ManualStartCreates(t)
    <3>1. \A i \in Places : i \in ManualTabIds
        BY DEF Places, OpenTabs
    <3> QED
        BY <2>2, <3>1 DEF ManualStartCreates, NothingToReuse
  <2> QED
      BY <2>1, <2>2
<1>8. TabsAreTyped' /\ OtherTabs(i) /\ manualTabs'[i] = NewManualTab(t, x)
    BY <1>0, <1>5, <1>7, OneTabChanges
<1>9. ManualTypeOK'
    BY <1>1, <1>2, <1>8, ManualTypes
<1>10. TakesPlace(t, i)
    BY <1>1, <1>3, <1>5, <1>6, <1>7, <1>8 DEF TakesPlace
<1> QED
    BY <1>9, <1>10

(* A turn that is lost while it starts.                                           *)
LEMMA LossSteps ==
    ASSUME ManualTypeOK, OneTabPerTurn, WorkerIsOwner,
           NEW t \in ManualTraces, StartForeign(t) \/ StartFails(t)
    PROVE  ManualTypeOK' /\ (Quiet \/ LosesTurn(t))
<1>0. TabsAreTyped /\ EndsAreTyped /\ WorkersTyped
    BY ManualTypes
<1>1. WorkersTyped' /\ Rests /\ Goes(t, {"over"})
    BY <1>0, WorkerMoves, WorkerEnds DEF StartForeign, StartFails, Stages
<1>2. At(t, {"starting"}) /\ UNCHANGED <<completion, manualClosing, latest, daemons>>
    BY DEF StartForeign, StartFails
<1>3. worker[t] \in Worker /\ worker[t].owner # Nothing
    BY <1>0, <1>2 DEF WorkerIsOwner, At, WorkersTyped
<1>4. [owner |-> worker[t].owner, status |-> "failed"] \in Signal
    BY <1>3 DEF Signal, Worker
<1>5. CASE UNCHANGED <<manualTabs, terminal>>
  <2>1. TabsAreTyped' /\ EndsAreTyped'
      BY <1>0, <1>2, <1>5 DEF TabsAreTyped, EndsAreTyped
  <2> QED
      BY <1>1, <1>2, <1>5, <2>1, ManualTypes DEF Quiet, manualHostVars
<1>6. ASSUME terminal' = [terminal EXCEPT ![t] = [owner |-> worker[t].owner, status |-> "failed"]],
             \/ UNCHANGED manualTabs /\ TabsOf(t) = {}
             \/ \E i \in TabsOf(t) : manualTabs' = [manualTabs EXCEPT ![i] = Nothing]
      PROVE  ManualTypeOK' /\ LosesTurn(t)
  <2>1. EndsAreTyped' /\ OtherEnds(t) /\ terminal'[t] # Nothing
    <3>1. EndsAreTyped' /\ OtherEnds(t)
        BY <1>0, <1>2, <1>4, <1>6 DEF EndsAreTyped, OtherEnds
    <3>2. terminal'[t] \in Signal
        BY <1>0, <1>4, <1>6 DEF EndsAreTyped
    <3> QED
        BY <3>1, <3>2, NothingAssumption
  <2>2. /\ TabsAreTyped' /\ \A j \in ManualTabIds : manualTabs'[j] \in {manualTabs[j], Nothing}
        /\ \A j \in ManualTabIds : manualTabs'[j] # Nothing => manualTabs[j].trace # t
    <3>1. CASE UNCHANGED manualTabs /\ TabsOf(t) = {}
        BY <1>0, <3>1, TabsInUse DEF TabsAreTyped
    <3>2. ASSUME NEW i \in TabsOf(t), manualTabs' = [manualTabs EXCEPT ![i] = Nothing]
          PROVE  /\ TabsAreTyped' /\ \A j \in ManualTabIds : manualTabs'[j] \in {manualTabs[j], Nothing}
                 /\ \A j \in ManualTabIds : manualTabs'[j] # Nothing => manualTabs[j].trace # t
      <4>1. i \in ManualTabIds /\ i \in OpenTabs /\ manualTabs[i].trace = t
          BY TabsInUse
      <4>2. TabsAreTyped' /\ OtherTabs(i) /\ manualTabs'[i] = Nothing
          BY <1>0, <3>2, <4>1, OneTabChanges
      <4>3. \A j \in OpenTabs : manualTabs[j].trace = t => j = i
          BY <4>1 DEF OneTabPerTurn
      <4> QED
          BY <4>2, <4>3, TabsInUse DEF OtherTabs
    <3> QED
        BY <1>6, <3>1, <3>2
  <2> QED
      BY <1>1, <1>2, <2>1, <2>2, ManualTypes DEF LosesTurn
<1>7. CASE StartForeign(t)
    BY <1>5, <1>6, <1>7 DEF StartForeign
<1>8. CASE StartFails(t)
    BY <1>5, <1>6, <1>8 DEF StartFails
<1> QED
    BY <1>7, <1>8

(* The polls.                                                                     *)
LEMMA PollSteps ==
    ASSUME ManualTypeOK, NEW t \in ManualTraces, AskSent(t) \/ Watch(t)
    PROVE  ManualTypeOK' /\ (Advances(t) \/ \E i \in OpenTabs : Polls(i))
<1>0. TabsAreTyped /\ EndsAreTyped /\ WorkersTyped
    BY ManualTypes
<1>1. UNCHANGED <<terminal, completion, manualClosing, latest, daemons>>
    BY DEF AskSent, Watch
<1>2. EndsAreTyped'
    BY <1>0, <1>1 DEF EndsAreTyped
<1>3. ASSUME UNCHANGED manualTabs, worker' = Step(t, "ending"), At(t, {"waiting", "sent", "started"})
      PROVE  ManualTypeOK' /\ Advances(t)
  <2>1. WorkersTyped' /\ Goes(t, {"ending"})
      BY <1>0, <1>3, WorkerMoves DEF Stages
  <2>2. TabsAreTyped'
      BY <1>0, <1>3 DEF TabsAreTyped
  <2> QED
      BY <1>1, <1>2, <1>3, <2>1, <2>2, ManualTypes DEF Advances, manualHostVars
<1>4. ASSUME UNCHANGED manualTabs, worker' = Step(t, "sent"), At(t, {"waiting"}),
             \E i \in Mine(t) : manualTabs[i].state \in {"sent", "running", "completed"}
      PROVE  ManualTypeOK' /\ Advances(t)
  <2>1. WorkersTyped' /\ Goes(t, {"sent"})
      BY <1>0, <1>4, WorkerMoves DEF Stages
  <2>2. TabsAreTyped'
      BY <1>0, <1>4 DEF TabsAreTyped
  <2> QED
      BY <1>1, <1>2, <1>4, <2>1, <2>2, ManualTypes DEF Advances, manualHostVars
<1>5. ASSUME NEW i \in Mine(t), manualTabs' = [manualTabs EXCEPT ![i].polled = TRUE], UNCHANGED worker,
             \/ At(t, {"waiting"}) /\ manualTabs[i].state = "awaiting-user"
             \/ At(t, {"sent", "started"}) /\ ~MyTerminal(t)
      PROVE  ManualTypeOK' /\ i \in OpenTabs /\ Polls(i)
  <2>1. i \in OpenTabs /\ i \in ManualTabIds /\ manualTabs[i] \in ManualTab /\ manualTabs[i].trace = t
      BY <1>0, TabsInUse, OpenTyped
  <2>2. PICK f : f = [manualTabs[i] EXCEPT !.polled = TRUE]
      OBVIOUS
  <2>3. /\ SameTurn(manualTabs[i], f) /\ SameRest(manualTabs[i], f)
        /\ f.state = manualTabs[i].state /\ f.armed = manualTabs[i].armed
      BY <2>1, <2>2, PolledTab
  <2>4. manualTabs' = [manualTabs EXCEPT ![i] = f] /\ f \in ManualTab
      BY <1>5, <2>2, <2>3 DEF SameTurn
  <2>5. TabsAreTyped' /\ OtherTabs(i) /\ manualTabs'[i] = f
      BY <1>0, <2>1, <2>4, OneTabChanges
  <2>6. ManualTypeOK'
      BY <1>0, <1>2, <1>5, <2>5, ManualTypes DEF WorkersTyped
  <2> QED
      BY <1>1, <1>5, <2>1, <2>3, <2>5, <2>6 DEF Polls
<1>6. CASE AskSent(t)
    BY <1>3, <1>4, <1>5, <1>6 DEF AskSent, At
<1>7. CASE Watch(t)
    BY <1>3, <1>5, <1>7 DEF Watch, At
<1> QED
    BY <1>6, <1>7

(* A poll that lapses, or a conversation that is given up.                        *)
LEMMA LooseSteps ==
    ASSUME ManualTypeOK, NEW i \in OpenTabs, UNCHANGED <<terminal, completion, manualClosing, worker, latest, daemons>>,
           \/ manualTabs' = [manualTabs EXCEPT ![i].polled = FALSE]
           \/ manualTabs' = [manualTabs EXCEPT ![i].keyed = FALSE]
    PROVE  ManualTypeOK' /\ Loosens(i)
<1>0. TabsAreTyped /\ EndsAreTyped /\ WorkersTyped
    BY ManualTypes
<1>1. i \in ManualTabIds /\ manualTabs[i] \in ManualTab
    BY <1>0, OpenTyped
<1>2. PICK f : /\ manualTabs' = [manualTabs EXCEPT ![i] = f]
               /\ f = [manualTabs[i] EXCEPT !.polled = FALSE] \/ f = [manualTabs[i] EXCEPT !.keyed = FALSE]
    OBVIOUS
<1>3. /\ SameTurn(manualTabs[i], f) /\ f.status = manualTabs[i].status /\ f.fresh = manualTabs[i].fresh
      /\ f.state = manualTabs[i].state /\ f.armed = manualTabs[i].armed
      /\ f.keyed => manualTabs[i].keyed
      /\ f.polled => manualTabs[i].polled
  <2>1. CASE f = [manualTabs[i] EXCEPT !.polled = FALSE]
      BY <1>1, <2>1, UnpolledTab DEF SameRest
  <2>2. CASE f = [manualTabs[i] EXCEPT !.keyed = FALSE]
      BY <1>1, <2>2, UnkeyedTab
  <2> QED
      BY <1>2, <2>1, <2>2
<1>4. f \in ManualTab
    BY <1>3 DEF SameTurn
<1>5. TabsAreTyped' /\ OtherTabs(i) /\ manualTabs'[i] = f
    BY <1>0, <1>1, <1>2, <1>4, OneTabChanges
<1>6. ManualTypeOK'
    BY <1>0, <1>5, ManualTypes DEF EndsAreTyped, WorkersTyped
<1> QED
    BY <1>3, <1>5, <1>6 DEF Loosens

(* The confirmation of the user.                                                  *)
LEMMA ConfirmStep ==
    ASSUME ManualTypeOK, NEW i \in ManualTabIds, ConfirmSent(i)
    PROVE  ManualTypeOK' /\ Confirms(i)
<1>0. TabsAreTyped /\ EndsAreTyped /\ WorkersTyped
    BY ManualTypes
<1>1. i \in OpenTabs /\ manualTabs[i] \in ManualTab /\ manualTabs[i].trace \in ManualTraces
    BY <1>0, OpenTyped DEF ConfirmSent
<1>2. PICK f : /\ manualTabs' = [manualTabs EXCEPT ![i] = f]
               /\ f = [manualTabs[i] EXCEPT !.state = "sent", !.armed = FALSE, !.polled = FALSE]
    BY <1>0 DEF ConfirmSent, TabsAreTyped
<1>3. SameTurn(manualTabs[i], f) /\ SameRest(manualTabs[i], f) /\ f.state = "sent" /\ ~f.armed /\ ~f.polled
    BY <1>1, <1>2, SentTab
<1>4. f \in ManualTab
    BY <1>3 DEF SameTurn
<1>5. TabsAreTyped' /\ OtherTabs(i) /\ manualTabs'[i] = f
    BY <1>0, <1>1, <1>2, <1>4, OneTabChanges
<1>6. WorkersTyped' /\ Tells(i, "sent")
    BY <1>0, <1>1, WorkerHears DEF ConfirmSent, Stages
<1>7. ManualTypeOK'
    BY <1>0, <1>5, <1>6, ManualTypes DEF EndsAreTyped, ConfirmSent
<1> QED
    BY <1>1, <1>3, <1>5, <1>6, <1>7 DEF Confirms, ConfirmSent

(* A turn that runs.                                                              *)
LEMMA RunStep ==
    ASSUME ManualTypeOK, OneTabPerTurn, NEW t \in ManualTraces, Started(t)
    PROVE  ManualTypeOK' /\ (Advances(t) \/ \E i \in OpenTabs : RunsTurn(t, i))
<1>0. TabsAreTyped /\ EndsAreTyped /\ WorkersTyped
    BY ManualTypes
<1>1. At(t, {"sent"}) /\ UNCHANGED <<terminal, completion, manualClosing, latest, daemons>>
    BY DEF Started
<1>2. EndsAreTyped'
    BY <1>0, <1>1 DEF EndsAreTyped
<1>3. CASE worker' = Step(t, "ending") /\ UNCHANGED manualTabs
  <2>1. WorkersTyped' /\ Goes(t, {"ending"})
      BY <1>0, <1>3, WorkerMoves DEF Stages
  <2>2. TabsAreTyped'
      BY <1>0, <1>3 DEF TabsAreTyped
  <2> QED
      BY <1>1, <1>2, <1>3, <2>1, <2>2, ManualTypes DEF Advances, manualHostVars, At
<1>4. CASE \E i \in Mine(t) : manualTabs[i].state \in {"sent", "running"}
  <2>1. PICK i \in Mine(t) : manualTabs[i].state \in {"sent", "running"}
      BY <1>4
  <2>2. i \in OpenTabs /\ i \in ManualTabIds /\ manualTabs[i] \in ManualTab /\ manualTabs[i].trace = t
      BY <1>0, TabsInUse, OpenTyped
  <2>3. \A j \in ManualTabIds : j \in Mine(t) <=> j = i
      BY <2>2, TabsInUse DEF OneTabPerTurn
  <2>4. PICK f : f = [manualTabs[i] EXCEPT !.state = "running"]
      OBVIOUS
  <2>5. SameTurn(manualTabs[i], f) /\ SameRest(manualTabs[i], f) /\ f.state = "running" /\ f.armed = manualTabs[i].armed
      BY <2>2, <2>4, RunningTab
  <2>6. manualTabs' = [j \in ManualTabIds |-> IF j \in Mine(t) THEN [manualTabs[j] EXCEPT !.state = "running"]
                                              ELSE manualTabs[j]]
      BY <1>4 DEF Started
  <2>7. manualTabs' = [manualTabs EXCEPT ![i] = f]
      BY <1>0, <2>3, <2>4, <2>6 DEF TabsAreTyped
  <2>8. f \in ManualTab
      BY <2>5 DEF SameTurn
  <2>9. TabsAreTyped' /\ OtherTabs(i) /\ manualTabs'[i] = f
      BY <1>0, <2>2, <2>7, <2>8, OneTabChanges
  <2>10. WorkersTyped' /\ (Rests \/ Goes(t, {"started"}) \/ Goes(t, {"ending"}))
      BY <1>0, <1>4, WorkerMoves, WorkerRetries DEF Started, Stages
  <2>11. ManualTypeOK'
      BY <1>2, <2>9, <2>10, ManualTypes
  <2> QED
      BY <1>1, <2>1, <2>2, <2>5, <2>9, <2>10, <2>11 DEF RunsTurn
<1> QED
    BY <1>3, <1>4 DEF Started

(* The end of a turn.                                                             *)
LEMMA EndStep ==
    ASSUME ManualTypeOK, NEW i \in OpenTabs, NEW s \in {"timeout", "cancelled", "failed"}, Remember(i, s),
           s = "timeout" => manualTabs[i].armed, UNCHANGED <<completion, latest, daemons>>,
           WorkersTyped',
           \/ Tells(i, "ending")
           \/ Rests /\ manualTabs'[i] = Nothing /\ At(manualTabs[i].trace, {"ending"}),
           NEW e, manualTabs' = [manualTabs EXCEPT ![i] = e],
           \/ e = Nothing /\ UNCHANGED manualClosing
           \/ /\ SameTurn(manualTabs[i], e) /\ e.status \in {"running", "error"}
              /\ e.fresh = manualTabs[i].fresh
              /\ e.state \in TerminalStates /\ ~e.armed /\ ~e.polled
              /\ manualClosing' \in {manualClosing, i}
    PROVE  ManualTypeOK' /\ EndsTurn(i)
<1>0. TabsAreTyped /\ EndsAreTyped /\ WorkersTyped
    BY ManualTypes
<1>1. /\ i \in ManualTabIds /\ manualTabs[i] \in ManualTab
      /\ manualTabs[i].trace \in ManualTraces /\ manualTabs[i].owner \in Owners
    BY <1>0, OpenTyped
<1>2. e \in ManualTab \cup {Nothing}
    BY DEF SameTurn
<1>3. TabsAreTyped' /\ OtherTabs(i) /\ manualTabs'[i] = e
    BY <1>0, <1>1, <1>2, OneTabChanges
<1> DEFINE t == manualTabs[i].trace
           g == [owner |-> manualTabs[i].owner, status |-> s]
<1>4. g \in Signal
    BY <1>1 DEF Signal
<1>5. terminal' = [terminal EXCEPT ![t] = g]
    BY DEF Remember
<1>6. OtherEnds(t) /\ terminal'[t] = g
    BY <1>0, <1>1, <1>5 DEF OtherEnds, EndsAreTyped
<1>7. EndsAreTyped'
  <2>1. terminal' \in [ManualTraces -> Signal \cup {Nothing}]
      BY <1>0, <1>1, <1>4, <1>5 DEF EndsAreTyped
  <2> QED
      BY <1>0, <1>1, <2>1 DEF EndsAreTyped
<1>8. terminal'[t] # Nothing /\ terminal'[t].owner = manualTabs[i].owner /\ terminal'[t].status = s
    BY <1>4, <1>6, NothingAssumption
<1>9. ManualTypeOK'
    BY <1>3, <1>7, ManualTypes
<1> QED
    BY <1>3, <1>6, <1>8, <1>9 DEF EndsTurn

(* The steps that end a turn without its worker's asking.                         *)
LEMMA EndingSteps ==
    ASSUME ManualTypeOK, StatusFits, NEW i \in ManualTabIds,
           PageFails(i) \/ Reap(i) \/ DeadlineFires(i)
    PROVE  ManualTypeOK' /\ EndsTurn(i)
<1>0. TabsAreTyped /\ EndsAreTyped /\ WorkersTyped
    BY ManualTypes
<1>1. i \in OpenTabs /\ manualTabs[i] \in ManualTab /\ manualTabs[i].trace \in ManualTraces
    BY <1>0, OpenTyped DEF PageFails, Reap, DeadlineFires
<1>2. WorkersTyped' /\ Tells(i, "ending") /\ UNCHANGED <<completion, manualClosing, latest, daemons>>
    BY <1>0, <1>1, WorkerHears DEF PageFails, Reap, DeadlineFires, FailAndRemove, Stages
<1>3. CASE PageFails(i) \/ Reap(i)
  <2>1. Remember(i, "failed") /\ manualTabs' = [manualTabs EXCEPT ![i] = Nothing]
      BY <1>3 DEF PageFails, Reap, FailAndRemove
  <2> QED
      BY <1>1, <1>2, <2>1, EndStep
<1>4. CASE DeadlineFires(i)
  <2>1. Remember(i, "timeout") /\ manualTabs[i].armed
      BY <1>4 DEF DeadlineFires
  <2>2. PICK e : e = [[manualTabs[i] EXCEPT !.state = StateOf("timeout"), !.armed = FALSE, !.polled = FALSE]
                        EXCEPT !.status = "error"]
      OBVIOUS
  <2>3. manualTabs' = [manualTabs EXCEPT ![i] = e]
      BY <1>0, <1>1, <1>4, <2>2 DEF DeadlineFires, Signalled, TabsAreTyped
  <2>4. /\ SameTurn(manualTabs[i], e) /\ e.fresh = manualTabs[i].fresh /\ e.status = "error"
        /\ e.state \in TerminalStates /\ ~e.armed /\ ~e.polled
      BY <1>1, <2>2, SignalledTabs
  <2> QED
      BY <1>1, <1>2, <2>1, <2>3, <2>4, EndStep
<1> QED
    BY <1>3, <1>4

LEMMA CloseStep ==
    ASSUME ManualTypeOK, NEW i \in ManualTabIds, CloseTab(i)
    PROVE  ManualTypeOK' /\ EndsTurn(i)
<1>0. TabsAreTyped /\ EndsAreTyped /\ WorkersTyped
    BY ManualTypes
<1>1. i \in OpenTabs /\ manualTabs[i] \in ManualTab /\ manualTabs[i].trace \in ManualTraces
    BY <1>0, OpenTyped DEF CloseTab
<1>2. /\ WorkersTyped' /\ Tells(i, "ending") /\ UNCHANGED <<completion, latest, daemons>>
      /\ Remember(i, "cancelled")
    BY <1>0, <1>1, WorkerHears DEF CloseTab, Stages
<1>3. CASE manualTabs[i].status = "running"
  <2>1. PICK e : e = [manualTabs[i] EXCEPT !.state = StateOf("cancelled"), !.armed = FALSE, !.polled = FALSE]
      OBVIOUS
  <2>2. manualTabs' = [manualTabs EXCEPT ![i] = e] /\ manualClosing' = i
      BY <1>0, <1>1, <1>3, <2>1 DEF CloseTab, Signalled, TabsAreTyped
  <2>3. /\ SameTurn(manualTabs[i], e) /\ SameRest(manualTabs[i], e)
        /\ e.state \in TerminalStates /\ ~e.armed /\ ~e.polled
      BY <1>1, <2>1, SignalledTabs
  <2>4. e.fresh = manualTabs[i].fresh /\ e.status \in {"running", "error"}
      BY <1>3, <2>3 DEF SameRest
  <2> QED
      BY <1>1, <1>2, <2>2, <2>3, <2>4, EndStep
<1>4. CASE manualTabs[i].status # "running"
  <2>1. manualTabs' = [manualTabs EXCEPT ![i] = Nothing] /\ UNCHANGED manualClosing
      BY <1>4 DEF CloseTab
  <2> QED
      BY <1>1, <1>2, <2>1, EndStep
<1> QED
    BY <1>3, <1>4

LEMMA NavigateStep ==
    ASSUME ManualTypeOK, NEW i \in ManualTabIds, Navigate(i)
    PROVE  ManualTypeOK' /\ (EndsTurn(i) \/ Loosens(i))
<1>0. TabsAreTyped /\ EndsAreTyped /\ WorkersTyped
    BY ManualTypes
<1>1. i \in OpenTabs /\ manualTabs[i] \in ManualTab /\ manualTabs[i].trace \in ManualTraces
    BY <1>0, OpenTyped DEF Navigate
<1>2. UNCHANGED <<completion, manualClosing, latest, daemons>>
    BY DEF Navigate
<1>3. CASE manualTabs[i].reused /\ manualTabs[i].status = "running"
  <2>1. Remember(i, "failed") /\ Told(i, "ending")
      BY <1>3 DEF Navigate
  <2>2. WorkersTyped' /\ Tells(i, "ending")
      BY <1>0, <1>1, <2>1, WorkerHears DEF Stages
  <2>3. PICK e : e = [[manualTabs[i] EXCEPT !.state = StateOf("failed"), !.armed = FALSE, !.polled = FALSE]
                        EXCEPT !.keyed = FALSE, !.status = "error"]
      OBVIOUS
  <2>4. manualTabs' = [manualTabs EXCEPT ![i] = e]
      BY <1>0, <1>1, <1>3, <2>3 DEF Navigate, Signalled, TabsAreTyped
  <2>5. /\ SameTurn(manualTabs[i], e) /\ e.fresh = manualTabs[i].fresh /\ e.status = "error"
        /\ e.state \in TerminalStates /\ ~e.armed /\ ~e.polled
      BY <1>1, <2>3, SignalledTabs
  <2> QED
      BY <1>1, <1>2, <2>1, <2>2, <2>4, <2>5, EndStep
<1>4. CASE ~(manualTabs[i].reused /\ manualTabs[i].status = "running")
    BY <1>1, <1>2, <1>4, LooseSteps DEF Navigate
<1> QED
    BY <1>3, <1>4

(* A turn that its worker ends, failed or complete.                               *)
LEMMA FailStep ==
    ASSUME ManualTypeOK, NEW t \in ManualTraces, EndFails(t)
    PROVE  ManualTypeOK' /\ \E i \in OpenTabs : EndsTurn(i)
<1>0. TabsAreTyped /\ EndsAreTyped /\ WorkersTyped
    BY ManualTypes
<1>1. At(t, {"ending"}) /\ UNCHANGED <<completion, manualClosing, latest, daemons>>
    BY DEF EndFails
<1>2. PICK i \in Mine(t), s \in {"cancelled", "failed"} :
         manualTabs' = [manualTabs EXCEPT ![i] = Nothing] /\ Remember(i, s)
    BY DEF EndFails
<1>3. i \in OpenTabs /\ manualTabs[i].trace = t /\ i \in ManualTabIds
    BY TabsInUse
<1>4. WorkersTyped' /\ Rests
  <2>1. WorkersTyped' /\ (Rests \/ Goes(t, {"over"}))
      BY <1>0, AnswerReaches DEF EndFails, Stages
  <2> QED
      BY <2>1 DEF Goes, Rests, OtherWorkers
<1>5. manualTabs'[i] = Nothing
    BY <1>0, <1>2, <1>3, OneTabChanges
<1> QED
    BY <1>1, <1>2, <1>3, <1>4, <1>5, EndStep

LEMMA CompleteSteps ==
    ASSUME ManualTypeOK, WorkerIsOwner, NEW t \in ManualTraces, EndRetains(t) \/ EndReleases(t)
    PROVE  ManualTypeOK' /\ \E i \in OpenTabs : CompletesTurn(t, i)
<1>0. TabsAreTyped /\ EndsAreTyped /\ WorkersTyped
    BY ManualTypes
<1>1. /\ At(t, {"completing"}) /\ completion[t] # worker[t].owner
      /\ UNCHANGED <<terminal, manualClosing, latest, daemons>>
      /\ completion' = [completion EXCEPT ![t] = worker[t].owner]
    BY DEF EndRetains, EndReleases
<1>2. WorkersTyped' /\ Rests
  <2>1. WorkersTyped' /\ (Rests \/ Goes(t, {"over"}))
      BY <1>0, AnswerReaches DEF EndRetains, EndReleases, Stages
  <2> QED
      BY <2>1 DEF Goes, Rests, OtherWorkers
<1>3. worker[t] \in Worker /\ worker[t].owner # Nothing
    BY <1>0, <1>1 DEF WorkerIsOwner, At, WorkersTyped
<1>4. worker[t].owner \in Owners
    BY <1>3 DEF Worker
<1>5. EndsAreTyped' /\ \A u \in ManualTraces : completion'[u] = IF u = t THEN worker[t].owner ELSE completion[u]
    BY <1>0, <1>1, <1>4 DEF EndsAreTyped
<1>6. PICK i \in Mine(t) :
         /\ manualTabs[i].state \in {"sent", "running"}
         /\ \/ manualTabs' = [manualTabs EXCEPT ![i] = Nothing]
            \/ manualTabs' = [manualTabs EXCEPT ![i].state = "completed", ![i].status = "ready", ![i].armed = FALSE]
    BY DEF EndRetains, EndReleases
<1>a. i \in ManualTabIds
    BY TabsInUse
<1>b. PICK e : /\ manualTabs' = [manualTabs EXCEPT ![i] = e]
               /\ \/ e = Nothing
                  \/ e = [manualTabs[i] EXCEPT !.state = "completed", !.status = "ready", !.armed = FALSE]
    BY <1>0, <1>6, <1>a DEF TabsAreTyped
<1>7. i \in OpenTabs /\ i \in ManualTabIds /\ manualTabs[i] \in ManualTab
    BY <1>0, TabsInUse, OpenTyped
<1>8. \/ e = Nothing
      \/ /\ SameTurn(manualTabs[i], e) /\ e.fresh = manualTabs[i].fresh
         /\ e.state = "completed" /\ e.status = "ready" /\ ~e.armed
    BY <1>7, <1>b, CompletedTab
<1>9. e \in ManualTab \cup {Nothing}
    BY <1>8 DEF SameTurn
<1>10. TabsAreTyped' /\ OtherTabs(i) /\ manualTabs'[i] = e
    BY <1>0, <1>7, <1>9, <1>b, OneTabChanges
<1>11. ManualTypeOK'
    BY <1>2, <1>5, <1>10, ManualTypes
<1>12. CompletesTurn(t, i)
    BY <1>1, <1>2, <1>5, <1>6, <1>8, <1>10 DEF CompletesTurn
<1> QED
    BY <1>7, <1>11, <1>12

(* A tab that is given up.                                                        *)
LEMMA GiveUpSteps ==
    ASSUME ManualTypeOK, CloseEnds \/ \E i \in ManualTabIds : RetentionEnds(i)
    PROVE  ManualTypeOK' /\ \E i \in ManualTabIds : GivesTabUp(i)
<1>0. TabsAreTyped /\ EndsAreTyped /\ WorkersTyped
    BY ManualTypes
<1>1. PICK i \in ManualTabIds :
         /\ UNCHANGED <<terminal, completion, worker, latest, daemons>>
         /\ manualTabs' = [manualTabs EXCEPT ![i] = Nothing]
         /\ manualClosing' \in {manualClosing, Nothing}
         /\ manualTabs[i].status = "ready" \/ i = manualClosing
    BY <1>0 DEF CloseEnds, RetentionEnds, EndsAreTyped
<1>2. TabsAreTyped' /\ OtherTabs(i) /\ manualTabs'[i] = Nothing
    BY <1>0, <1>1, OneTabChanges
<1>3. EndsAreTyped' /\ WorkersTyped'
    BY <1>0, <1>1 DEF EndsAreTyped, WorkersTyped
<1> QED
    BY <1>1, <1>2, <1>3, ManualTypes DEF GivesTabUp

(* Every step is one of these.                                                    *)
ManualSteps ==
    \/ Quiet
    \/ \E t \in ManualTraces : Advances(t) \/ BeginsTurn(t) \/ LosesTurn(t)
    \/ \E t \in ManualTraces, i \in ManualTabIds : TakesPlace(t, i) \/ RunsTurn(t, i) \/ CompletesTurn(t, i)
    \/ \E i \in ManualTabIds : Polls(i) \/ Loosens(i) \/ Confirms(i) \/ EndsTurn(i) \/ GivesTabUp(i)

LEMMA ManualStep == ManualInv /\ [ManualNext]_manualVars => ManualTypeOK' /\ ManualSteps
<1> SUFFICES ASSUME ManualInv, [ManualNext]_manualVars PROVE ManualTypeOK' /\ ManualSteps
    OBVIOUS
<1>0. ManualTypeOK /\ OneTabPerTurn /\ StatusFits /\ ClosingIsOver /\ OneRetainedTab /\ WorkerIsOwner
    BY DEF ManualInv, TabsInv, WorkInv
<1>a. \A i \in OpenTabs : i \in ManualTabIds
    BY DEF OpenTabs
<1>1. CASE UNCHANGED manualVars
  <2>1. TabsAreTyped /\ EndsAreTyped /\ WorkersTyped
      BY <1>0, ManualTypes
  <2>2. TabsAreTyped' /\ EndsAreTyped' /\ WorkersTyped'
      BY <1>1, <2>1 DEF manualVars, manualHostVars, TabsAreTyped, EndsAreTyped, WorkersTyped
  <2>3. Quiet
      BY <1>1 DEF Quiet, Rests, manualVars
  <2> QED
      BY <2>2, <2>3, ManualTypes DEF ManualSteps
<1>2. ASSUME NEW t \in ManualTraces, TurnStep(t) PROVE ManualTypeOK' /\ ManualSteps
  <2>1. CASE StartRefused(t) \/ EndFindsNothing(t) \/ RequestIsLost(t)
      BY <1>0, <2>1, QuietSteps DEF ManualSteps
  <2>2. CASE StartFound(t) \/ Answered(t) \/ Fails(t)
      BY <1>0, <2>2, AdvanceSteps DEF ManualSteps
  <2>3. CASE \E o \in Owners : Begins(t, o)
      BY <1>0, <2>3, BeginStep DEF ManualSteps
  <2>4. CASE ManualStartReuses(t) \/ ManualStartCreates(t)
      BY <1>0, <2>4, TakeSteps DEF ManualSteps
  <2>5. CASE StartForeign(t) \/ StartFails(t)
      BY <1>0, <2>5, LossSteps DEF ManualSteps
  <2>6. CASE AskSent(t) \/ Watch(t)
      BY <1>0, <1>a, <2>6, PollSteps DEF ManualSteps
  <2>7. CASE Started(t)
      BY <1>0, <1>a, <2>7, RunStep DEF ManualSteps
  <2>8. CASE EndFails(t)
      BY <1>0, <1>a, <2>8, FailStep DEF ManualSteps
  <2>9. CASE EndRetains(t) \/ EndReleases(t)
      BY <1>0, <1>a, <2>9, CompleteSteps DEF ManualSteps
  <2> QED
      BY <1>2, <2>1, <2>2, <2>3, <2>4, <2>5, <2>6, <2>7, <2>8, <2>9 DEF TurnStep
<1>3. ASSUME NEW i \in ManualTabIds, TabStep(i) PROVE ManualTypeOK' /\ ManualSteps
  <2>1. CASE ConfirmSent(i)
      BY <1>0, <2>1, ConfirmStep DEF ManualSteps
  <2>2. CASE CloseTab(i)
      BY <1>0, <2>2, CloseStep DEF ManualSteps
  <2>3. CASE Navigate(i)
      BY <1>0, <2>3, NavigateStep DEF ManualSteps
  <2>4. CASE PageFails(i) \/ Reap(i) \/ DeadlineFires(i)
      BY <1>0, <2>4, EndingSteps DEF ManualSteps
  <2>5. CASE RetentionEnds(i)
      BY <1>0, <2>5, GiveUpSteps DEF ManualSteps
  <2>6. CASE PollLapses(i)
      BY <1>0, <2>6, LooseSteps DEF PollLapses, ManualSteps
  <2> QED
      BY <1>3, <2>1, <2>2, <2>3, <2>4, <2>5, <2>6 DEF TabStep
<1>4. CASE CloseEnds
    BY <1>0, <1>4, GiveUpSteps DEF ManualSteps
<1>5. ASSUME NEW o \in Owners, OwnerDies(o) PROVE ManualTypeOK' /\ ManualSteps
    BY <1>0, <1>5, OwnerStep DEF ManualSteps
<1> QED
    BY <1>1, <1>2, <1>3, <1>4, <1>5 DEF ManualNext

LEMMA TabsInUseNext ==
    /\ \A i : i \in OpenTabs' <=> i \in ManualTabIds /\ manualTabs'[i] # Nothing
    /\ \A t, i : i \in TabsOf(t)' <=> i \in OpenTabs' /\ manualTabs'[i].trace = t
    /\ \A t, i : i \in Mine(t)' <=> i \in TabsOf(t)' /\ manualTabs'[i].owner = worker'[t].owner
    /\ \A i : i \in RetainedTabs'
          <=> i \in OpenTabs' /\ manualTabs'[i].status = "ready" /\ manualTabs'[i].keyed
BY DEF OpenTabs, TabsOf, Mine, Owned, RetainedTabs

(* Nothing changes but that workers stop.                                         *)
LEMMA QuietKeeps ==
    ASSUME ManualInv, Quiet
    PROVE  TabsInv' /\ WorkInv'
<1>0. TabsInv /\ WorkInv
    BY DEF ManualInv
<1>1. TabsInv'
    BY <1>0 DEF Quiet, manualHostVars, TabsInv, OneTabPerTurn, StatusFits, EndIsRemembered, IsRemembered,
       ClosingIsOver, OneRetainedTab, OpenTabs, RetainedTabs
<1>2. /\ \A t : TabsOf(t)' = TabsOf(t)
      /\ RetainedTabs' = RetainedTabs
      /\ \A t \in ManualTraces : /\ worker'[t].owner = worker[t].owner
                                 /\ worker'[t].at # "over" => worker'[t].at = worker[t].at
    BY DEF Quiet, manualHostVars, Rests, TabsOf, OpenTabs, RetainedTabs
<1>3. UNCHANGED <<manualTabs, terminal, completion>>
    BY DEF Quiet, manualHostVars
<1>4. \A t \in ManualTraces : Mine(t)' = Mine(t) /\ (MyTerminal(t)' <=> MyTerminal(t)) /\ Ended(t)' = Ended(t)
  <2>1. \A t \in ManualTraces : Mine(t)' = Mine(t)
      BY <1>2, <1>3 DEF Mine, Owned
  <2> QED
      BY <1>2, <1>3, <2>1 DEF MyTerminal, Ended
<1>5. OneWorker' /\ WorkerIsOwner' /\ TabIsOwn' /\ NotCompleted'
    BY <1>0, <1>2, <1>3 DEF WorkInv, OneWorker, WorkerIsOwner, TabIsOwn, NotCompleted, At, Begun
<1>6. NothingRetained' /\ SentIsKnown' /\ NotYetPolled'
    BY <1>0, <1>2, <1>3, <1>4 DEF WorkInv, NothingRetained, SentIsKnown, NotYetPolled, At
<1>7. FateIsKnown' /\ SentIsNotTimedOut' /\ PollsAreAnswered'
    BY <1>0, <1>2, <1>3, <1>4 DEF WorkInv, FateIsKnown, SentIsNotTimedOut, PollsAreAnswered, At
<1> QED
    BY <1>1, <1>5, <1>6, <1>7 DEF WorkInv

(* The user confirms.                                                             *)
LEMMA ConfirmKeeps ==
    ASSUME ManualInv, NEW i \in ManualTabIds, Confirms(i)
    PROVE  TabsInv' /\ WorkInv'
<1>0. TabsInv /\ WorkInv
    BY DEF ManualInv
<1>1. TabsInv'
    BY <1>0, NothingAssumption DEF Confirms, SameTurn, SameRest, OtherTabs, TabsInv, OneTabPerTurn, StatusFits, EndIsRemembered,
       IsRemembered, ClosingIsOver, OneRetainedTab, OpenTabs, RetainedTabs, TerminalStates, LiveStates
<1>2. i \in OpenTabs /\ manualTabs[i].trace \in ManualTraces
    BY OpenTyped, ManualTypes DEF Confirms, ManualInv
<1> DEFINE t == manualTabs[i].trace
<1>3. \A u \in ManualTraces :
         /\ worker'[u].owner = worker[u].owner
         /\ \/ worker'[u].at = worker[u].at
            \/ u = t /\ Hears(i) /\ worker'[u].at = "sent"
    BY <1>2 DEF Confirms, Tells, Goes, OtherWorkers
<1>4. OneWorker' /\ WorkerIsOwner'
    BY <1>0, <1>3 DEF WorkInv, OneWorker, WorkerIsOwner, At, Hears
<1>5. TabIsOwn'
    BY <1>0, <1>3, TabsInUse, TabsInUseNext
       DEF Confirms, OtherTabs, SameTurn, SameRest, WorkInv, TabIsOwn, At, Begun, Hears
<1>6. NotCompleted'
    BY <1>0, <1>3 DEF Confirms, WorkInv, NotCompleted, At, Begun, Hears
<1>7. NothingRetained'
    BY <1>0, <1>3, TabsInUse, TabsInUseNext
       DEF Confirms, OtherTabs, SameTurn, SameRest, WorkInv, NothingRetained, At, Hears
<1>8. SentIsKnown'
    BY <1>0, <1>3, TabsInUse, TabsInUseNext
       DEF Confirms, OtherTabs, SameTurn, SameRest, WorkInv, SentIsKnown, At, Hears, TabsInv, OneTabPerTurn
<1>9. NotYetPolled'
    BY <1>0, <1>3, TabsInUse, TabsInUseNext
       DEF Confirms, OtherTabs, SameTurn, SameRest, WorkInv, NotYetPolled, At, Hears
<1>a. \A u \in ManualTraces : \A j \in Mine(u) : j \in Mine(u)'
    BY <1>2, <1>3, TabsInUse, TabsInUseNext, NothingAssumption DEF Confirms, OtherTabs, SameTurn
<1>10. FateIsKnown'
    BY <1>0, <1>3, <1>a DEF Confirms, WorkInv, FateIsKnown, At, Hears, MyTerminal
<1>11. SentIsNotTimedOut'
    BY <1>0, <1>2, <1>3, TabsInUse, TabsInUseNext
       DEF Confirms, WorkInv, SentIsNotTimedOut, At, Hears, MyTerminal, Ended, TabsInv, EndIsRemembered, IsRemembered,
           LiveStates
<1>12. PollsAreAnswered'
    BY <1>0, <1>2, <1>3, TabsInUse, TabsInUseNext
       DEF Confirms, OtherTabs, SameTurn, SameRest, WorkInv, PollsAreAnswered, At, Hears, MyTerminal, TabsInv, OneTabPerTurn
<1> QED
    BY <1>1, <1>4, <1>5, <1>6, <1>7, <1>8, <1>9, <1>10, <1>11, <1>12 DEF WorkInv

(* A worker goes on.                                                              *)
LEMMA AdvanceKeeps ==
    ASSUME ManualInv, NEW t \in ManualTraces, Advances(t)
    PROVE  TabsInv' /\ WorkInv'
<1>0. TabsInv /\ WorkInv
    BY DEF ManualInv
<1>1. TabsInv'
    BY <1>0 DEF Advances, manualHostVars, TabsInv, OneTabPerTurn, StatusFits, EndIsRemembered, IsRemembered,
       ClosingIsOver, OneRetainedTab, OpenTabs, RetainedTabs
<1>2. UNCHANGED <<manualTabs, terminal, completion>>
    BY DEF Advances, manualHostVars
<1>3. \A u \in ManualTraces :
         /\ worker'[u].owner = worker[u].owner
         /\ u # t => worker'[u].at = worker[u].at
    BY DEF Advances, Goes, OtherWorkers
<1>4. \A u \in ManualTraces : /\ TabsOf(u)' = TabsOf(u) /\ Mine(u)' = Mine(u) /\ RetainedTabs' = RetainedTabs
                              /\ MyTerminal(u)' <=> MyTerminal(u)
                              /\ Ended(u)' = Ended(u)
  <2>1. \A u \in ManualTraces : TabsOf(u)' = TabsOf(u) /\ RetainedTabs' = RetainedTabs
      BY <1>2 DEF TabsOf, OpenTabs, RetainedTabs
  <2>2. \A u \in ManualTraces : Mine(u)' = Mine(u)
      BY <1>2, <1>3, <2>1 DEF Mine, Owned
  <2> QED
      BY <1>2, <1>3, <2>1, <2>2 DEF MyTerminal, Ended
<1>5. worker[t].at \in {"starting", "waiting", "sent", "started"} /\ worker'[t].at # "over"
      /\ (worker[t].at = "starting" => worker'[t].at = "waiting")
    BY DEF Advances, Goes, At
<1>6. OneWorker' /\ WorkerIsOwner'
    BY <1>0, <1>3, <1>5 DEF WorkInv, OneWorker, WorkerIsOwner, At
<1>7. ASSUME At(t, {"starting"})
      PROVE  /\ completion[t] = Nothing /\ Mine(t) # {}
             /\ \A i \in TabsOf(t) : manualTabs[i].owner = worker[t].owner /\ manualTabs[i].fresh
             /\ \A i \in Mine(t) : ~manualTabs[i].polled
    BY <1>0, <1>7, TabsInUse DEF Advances, At, Refused, WorkInv, TabsInv, NotYetPolled, OneTabPerTurn, OpenTabs
<1>8. TabIsOwn'
    BY <1>0, <1>2, <1>3, <1>4, <1>5, <1>7 DEF WorkInv, TabIsOwn, At, Begun
<1>9. NotCompleted'
    BY <1>0, <1>2, <1>3, <1>5, <1>7 DEF WorkInv, NotCompleted, At, Begun
<1>10. NothingRetained'
    BY <1>0, <1>2, <1>3, <1>4, <1>5 DEF WorkInv, NothingRetained, At
<1>11. ASSUME At(t, {"waiting"}), worker'[t].at = "sent"
       PROVE  /\ \A i \in Mine(t) : manualTabs[i].state \in {"sent", "running"} /\ ~manualTabs[i].polled
              /\ ~MyTerminal(t)
  <2>1. PICK i \in Mine(t) : manualTabs[i].state \in {"sent", "running", "completed"}
      BY <1>11 DEF Advances, Goes, At
  <2>2. i \in OpenTabs /\ manualTabs[i].trace = t /\ manualTabs[i].owner = worker[t].owner
      BY TabsInUse
  <2>3. completion[t] = Nothing
      BY <1>0, <1>11 DEF WorkInv, NotCompleted, At, Begun
  <2>4. manualTabs[i].state \in {"sent", "running"} /\ ~IsRemembered(i)
      BY <1>0, <2>1, <2>2, <2>3 DEF TabsInv, EndIsRemembered, LiveStates
  <2>5. ~MyTerminal(t)
      BY <2>2, <2>4 DEF IsRemembered, MyTerminal
  <2>6. ~manualTabs[i].polled
      BY <1>0, <1>11, <2>2, <2>4 DEF WorkInv, PollsAreAnswered, OpenTabs
  <2>7. \A j \in Mine(t) : j = i
      BY <1>0, <2>2, TabsInUse DEF TabsInv, OneTabPerTurn
  <2> QED
      BY <2>4, <2>5, <2>6, <2>7
<1>12. worker'[t].at \in {"waiting", "sent", "ending", "completing"}
       /\ (worker'[t].at = "completing" => At(t, {"started"})) /\ (worker'[t].at = "sent" => At(t, {"waiting"}))
       /\ (worker'[t].at = "waiting" => At(t, {"starting"}))
    BY DEF Advances, Goes, At
<1>13. SentIsKnown'
    BY <1>0, <1>2, <1>3, <1>4, <1>11, <1>12 DEF WorkInv, SentIsKnown, At
<1>14. NotYetPolled'
    BY <1>0, <1>2, <1>3, <1>4, <1>12 DEF WorkInv, NotYetPolled, At
<1>15. FateIsKnown'
    BY <1>0, <1>2, <1>3, <1>4, <1>7, <1>12 DEF WorkInv, FateIsKnown, At
<1>16. SentIsNotTimedOut'
    BY <1>0, <1>2, <1>3, <1>4, <1>11, <1>12 DEF WorkInv, SentIsNotTimedOut, At
<1>17. PollsAreAnswered'
    BY <1>0, <1>2, <1>3, <1>4, <1>7, <1>11, <1>12 DEF WorkInv, PollsAreAnswered, At
<1> QED
    BY <1>1, <1>6, <1>8, <1>9, <1>10, <1>13, <1>14, <1>15, <1>16, <1>17 DEF WorkInv

(* A turn begins.                                                                 *)
LEMMA BeginKeeps ==
    ASSUME ManualInv, NEW t \in ManualTraces, BeginsTurn(t)
    PROVE  TabsInv' /\ WorkInv'
<1>0. TabsInv /\ WorkInv
    BY DEF ManualInv
<1>1. TabsInv'
    BY <1>0, NothingAssumption DEF BeginsTurn, SameTurn, TabsInv, OneTabPerTurn, StatusFits, EndIsRemembered,
       IsRemembered, ClosingIsOver, OneRetainedTab, OpenTabs, RetainedTabs, TerminalStates, LiveStates
<1>2. /\ \A u \in ManualTraces : u # t => worker'[u].at = "over"
      /\ worker'[t].at = "starting" /\ worker'[t].owner # Nothing
    BY NothingAssumption DEF BeginsTurn, OtherWorkers, At
<1>3. \A i \in Mine(t)' : ~manualTabs'[i].fresh
    BY TabsInUseNext DEF BeginsTurn, SameTurn
<1>4. OneWorker' /\ WorkerIsOwner' /\ TabIsOwn' /\ NotCompleted'
    BY <1>2 DEF OneWorker, WorkerIsOwner, TabIsOwn, NotCompleted, At, Begun
<1>5. NothingRetained' /\ SentIsKnown' /\ NotYetPolled'
    BY <1>2, <1>3 DEF NothingRetained, SentIsKnown, NotYetPolled, At
<1>6. FateIsKnown' /\ SentIsNotTimedOut' /\ PollsAreAnswered'
    BY <1>2 DEF FateIsKnown, SentIsNotTimedOut, PollsAreAnswered, At
<1> QED
    BY <1>1, <1>4, <1>5, <1>6 DEF WorkInv

(* A turn that starts is lost.                                                    *)
LEMMA LossKeeps ==
    ASSUME ManualInv, NEW t \in ManualTraces, LosesTurn(t)
    PROVE  TabsInv' /\ WorkInv'
<1>0. TabsInv /\ WorkInv
    BY DEF ManualInv
<1>a. \A i \in OpenTabs' : i \in OpenTabs /\ manualTabs'[i] = manualTabs[i] /\ manualTabs[i].trace # t
    BY DEF LosesTurn, OpenTabs
<1>b. \A i \in OpenTabs : manualTabs[i].trace \in ManualTraces
    BY OpenTyped, ManualTypes DEF ManualInv
<1>1. TabsInv'
    BY <1>0, <1>a, <1>b DEF LosesTurn, OtherEnds, TabsInv, OneTabPerTurn, StatusFits, EndIsRemembered,
       IsRemembered, ClosingIsOver, OneRetainedTab, RetainedTabs
<1>2. \A u \in ManualTraces : worker'[u].at = "over"
    BY <1>0 DEF LosesTurn, Goes, OtherWorkers, WorkInv, OneWorker, At
<1>3. OneWorker' /\ WorkerIsOwner' /\ TabIsOwn' /\ NotCompleted'
    BY <1>2 DEF OneWorker, WorkerIsOwner, TabIsOwn, NotCompleted, At, Begun
<1>4. NothingRetained' /\ SentIsKnown' /\ NotYetPolled'
    BY <1>2 DEF NothingRetained, SentIsKnown, NotYetPolled, At
<1>5. FateIsKnown' /\ SentIsNotTimedOut' /\ PollsAreAnswered'
    BY <1>2 DEF FateIsKnown, SentIsNotTimedOut, PollsAreAnswered, At
<1> QED
    BY <1>1, <1>3, <1>4, <1>5 DEF WorkInv

(* A turn takes a tab.                                                            *)
LEMMA TakeKeeps ==
    ASSUME ManualInv, NEW t \in ManualTraces, NEW i \in ManualTabIds, TakesPlace(t, i)
    PROVE  TabsInv' /\ WorkInv'
<1>0. TabsInv /\ WorkInv
    BY DEF ManualInv
<1>a. manualTabs'[i] # Nothing
    BY NothingAssumption DEF TakesPlace
<1>b. \A j \in OpenTabs' : j # i => j \in OpenTabs /\ manualTabs'[j] = manualTabs[j] /\ manualTabs[j].trace # t
    BY TabsInUse, TabsInUseNext DEF TakesPlace, OtherTabs
<1>c. completion[t] = Nothing /\ ~MyTerminal(t) /\ worker[t].at = "starting"
    BY DEF TakesPlace, Refused, At
<1>1. TabsInv'
  <2>1. OneTabPerTurn'
      BY <1>0, <1>b DEF TakesPlace, TabsInv, OneTabPerTurn
  <2>2. StatusFits'
      BY <1>0, <1>b DEF TakesPlace, TabsInv, StatusFits
  <2>3. EndIsRemembered'
      BY <1>0, <1>b, <1>c DEF TakesPlace, TabsInv, EndIsRemembered, IsRemembered, LiveStates, TerminalStates, MyTerminal
  <2>4. ClosingIsOver'
      BY <1>0, <1>b DEF TakesPlace, TabsInv, ClosingIsOver
  <2>5. RetainedTabs' = {}
      BY <1>b, TabsInUse, TabsInUseNext DEF TakesPlace
  <2> QED
      BY <2>1, <2>2, <2>3, <2>4, <2>5 DEF TabsInv, OneRetainedTab
<1>2. \A u \in ManualTraces :
         /\ worker'[u].owner = worker[u].owner
         /\ u # t => worker'[u].at = "over"
    BY <1>0, <1>c DEF TakesPlace, Rests, Goes, OtherWorkers, WorkInv, OneWorker, At
<1>3. worker'[t].at \in {"over", "starting", "waiting"}
    BY <1>c DEF TakesPlace, Rests, Goes
<1>4. OneWorker' /\ WorkerIsOwner' /\ NotCompleted'
    BY <1>0, <1>c, <1>2, <1>3 DEF TakesPlace, WorkInv, OneWorker, WorkerIsOwner, NotCompleted, At, Begun
<1>5. \A j : j \in TabsOf(t)' => j = i
    BY <1>b, TabsInUseNext
<1>6. i \in Mine(t)'
    BY <1>2, <1>a, TabsInUseNext DEF TakesPlace
<1>7. TabIsOwn'
    BY <1>2, <1>3, <1>5 DEF TakesPlace, TabIsOwn, At, Begun
<1>8. RetainedTabs' = {}
    BY <1>b, TabsInUse, TabsInUseNext DEF TakesPlace
<1>9. NothingRetained' /\ SentIsKnown' /\ NotYetPolled'
  <2>1. NothingRetained'
      BY <1>8 DEF NothingRetained
  <2>2. SentIsKnown'
      BY <1>2, <1>3 DEF SentIsKnown, At
  <2>3. NotYetPolled'
      BY <1>2, <1>5, TabsInUseNext DEF TakesPlace, NotYetPolled, At
  <2> QED
      BY <2>1, <2>2, <2>3
<1>10. FateIsKnown' /\ SentIsNotTimedOut' /\ PollsAreAnswered'
  <2>1. FateIsKnown'
      BY <1>2, <1>6 DEF FateIsKnown, At
  <2>2. SentIsNotTimedOut'
      BY <1>2, <1>3 DEF SentIsNotTimedOut, At
  <2>3. PollsAreAnswered'
      BY <1>2, <1>3, <1>5, TabsInUseNext DEF TakesPlace, PollsAreAnswered, At
  <2> QED
      BY <2>1, <2>2, <2>3
<1> QED
    BY <1>1, <1>4, <1>7, <1>9, <1>10 DEF WorkInv

(* A worker polls.                                                                *)
LEMMA PollKeeps ==
    ASSUME ManualInv, NEW i \in ManualTabIds, Polls(i)
    PROVE  TabsInv' /\ WorkInv'
<1>0. TabsInv /\ WorkInv
    BY DEF ManualInv
<1>1. TabsInv'
    BY <1>0, NothingAssumption DEF Polls, SameTurn, SameRest, OtherTabs, TabsInv, OneTabPerTurn, StatusFits, EndIsRemembered,
       IsRemembered, ClosingIsOver, OneRetainedTab, OpenTabs, RetainedTabs, TerminalStates, LiveStates
<1>2. i \in OpenTabs /\ manualTabs[i].trace \in ManualTraces
    BY OpenTyped, ManualTypes DEF Polls, ManualInv
<1>3. UNCHANGED <<terminal, completion, worker>>
    BY DEF Polls
<1>4. \A j \in ManualTabIds : manualTabs[j] # Nothing \/ manualTabs'[j] # Nothing
         => /\ manualTabs[j] # Nothing /\ manualTabs'[j] # Nothing
            /\ manualTabs'[j].trace = manualTabs[j].trace /\ manualTabs'[j].owner = manualTabs[j].owner
            /\ manualTabs'[j].fresh = manualTabs[j].fresh /\ manualTabs'[j].state = manualTabs[j].state
            /\ manualTabs'[j].status = manualTabs[j].status /\ manualTabs'[j].keyed = manualTabs[j].keyed
            /\ (j # i => manualTabs'[j].polled = manualTabs[j].polled)
    BY <1>2, NothingAssumption DEF Polls, OtherTabs, SameTurn, SameRest, OpenTabs
<1>5. /\ \A u \in ManualTraces : \A j : j \in Mine(u)' <=> j \in Mine(u)
      /\ \A u \in ManualTraces : \A j : j \in TabsOf(u)' <=> j \in TabsOf(u)
      /\ \A j : j \in RetainedTabs' <=> j \in RetainedTabs
    BY <1>3, <1>4, TabsInUse, TabsInUseNext
<1>6. \A u \in ManualTraces : (MyTerminal(u)' <=> MyTerminal(u)) /\ Ended(u)' = Ended(u)
    BY <1>3 DEF MyTerminal, Ended
<1>7. OneWorker' /\ WorkerIsOwner' /\ NotCompleted'
    BY <1>0, <1>3 DEF WorkInv, OneWorker, WorkerIsOwner, NotCompleted, At
<1>8. TabIsOwn'
    BY <1>0, <1>3, <1>4, <1>5, TabsInUse DEF WorkInv, TabIsOwn, At
<1>9. NothingRetained'
    BY <1>0, <1>3, <1>4, <1>5, TabsInUse DEF WorkInv, NothingRetained, At
<1>10. SentIsKnown'
    BY <1>0, <1>3, <1>4, <1>5, TabsInUse DEF WorkInv, SentIsKnown, At
<1>11. FateIsKnown'
    BY <1>0, <1>3, <1>5, <1>6 DEF WorkInv, FateIsKnown, At
<1>12. SentIsNotTimedOut'
    BY <1>0, <1>3, <1>6 DEF WorkInv, SentIsNotTimedOut, At
<1>13. NotYetPolled'
  <2> SUFFICES ASSUME NEW u \in ManualTraces, NEW j \in ManualTabIds, worker[u].at = "starting",
                      j \in Mine(u), manualTabs[j].fresh
               PROVE  ~manualTabs'[j].polled
      BY <1>3, <1>4, <1>5, TabsInUse DEF NotYetPolled, At
  <2>1. j # i
      BY TabsInUse DEF Polls, At
  <2> QED
      BY <1>0, <1>4, <2>1, TabsInUse DEF WorkInv, NotYetPolled, At
<1>14. PollsAreAnswered'
  <2> SUFFICES ASSUME NEW u \in ManualTraces, NEW j \in ManualTabIds, j \in Mine(u), manualTabs'[j].polled
               PROVE  /\ At(u, {"waiting"}) => manualTabs[j].state = "awaiting-user"
                      /\ At(u, {"sent", "started"}) => manualTabs[j].state \in {"sent", "running"} /\ ~MyTerminal(u)
      BY <1>3, <1>4, <1>5, <1>6, TabsInUse DEF PollsAreAnswered, At
  <2>1. CASE j # i
      BY <1>0, <1>4, <2>1, TabsInUse DEF WorkInv, PollsAreAnswered
  <2>2. CASE j = i
    <3>1. manualTabs[i].trace = u /\ manualTabs[i].owner = worker[u].owner /\ manualTabs[i] \in ManualTab
        BY <2>2, TabsInUse, OpenTyped, ManualTypes DEF ManualInv
    <3>2. At(u, {"waiting"}) => manualTabs[j].state = "awaiting-user"
        BY <2>2, <3>1 DEF Polls, At
    <3>3. ASSUME At(u, {"sent", "started"})
          PROVE  manualTabs[i].state \in {"sent", "running"} /\ ~MyTerminal(u)
      <4>1. ~MyTerminal(u)
          BY <3>1, <3>3 DEF Polls, At
      <4>2. manualTabs[i].state \notin TerminalStates
          BY <1>0, <1>2, <3>1, <4>1 DEF TabsInv, EndIsRemembered, IsRemembered, MyTerminal
      <4>3. completion[u] = Nothing
          BY <1>0, <3>3 DEF WorkInv, NotCompleted, At, Begun
      <4>4. manualTabs[i].state # "completed"
          BY <1>0, <1>2, <3>1, <4>3 DEF TabsInv, EndIsRemembered
      <4>5. manualTabs[i].state # "awaiting-user"
          BY <1>0, <2>2, <3>3 DEF WorkInv, SentIsKnown, At
      <4> QED
          BY <3>1, <4>1, <4>2, <4>4, <4>5 DEF ManualTab, States, TerminalStates
    <3> QED
        BY <2>2, <3>2, <3>3
  <2> QED
      BY <2>1, <2>2
<1> QED
    BY <1>1, <1>7, <1>8, <1>9, <1>10, <1>11, <1>12, <1>13, <1>14 DEF WorkInv

(* A poll lapses, or a conversation is given up.                                  *)
LEMMA LooseKeeps ==
    ASSUME ManualInv, NEW i \in ManualTabIds, Loosens(i)
    PROVE  TabsInv' /\ WorkInv'
<1>0. TabsInv /\ WorkInv
    BY DEF ManualInv
<1>1. TabsInv'
    BY <1>0, NothingAssumption DEF Loosens, SameTurn, OtherTabs, TabsInv, OneTabPerTurn, StatusFits, EndIsRemembered,
       IsRemembered, ClosingIsOver, OneRetainedTab, OpenTabs, RetainedTabs, TerminalStates, LiveStates
<1>2. i \in OpenTabs
    BY DEF Loosens
<1>3. UNCHANGED <<terminal, completion, worker>>
    BY DEF Loosens
<1>4. \A j \in ManualTabIds : manualTabs[j] # Nothing \/ manualTabs'[j] # Nothing
         => /\ manualTabs[j] # Nothing /\ manualTabs'[j] # Nothing
            /\ manualTabs'[j].trace = manualTabs[j].trace /\ manualTabs'[j].owner = manualTabs[j].owner
            /\ manualTabs'[j].fresh = manualTabs[j].fresh /\ manualTabs'[j].state = manualTabs[j].state
            /\ manualTabs'[j].status = manualTabs[j].status
            /\ (manualTabs'[j].keyed => manualTabs[j].keyed)
            /\ (manualTabs'[j].polled => manualTabs[j].polled)
    BY <1>2, NothingAssumption DEF Loosens, OtherTabs, SameTurn, OpenTabs
<1>5. /\ \A u \in ManualTraces : \A j : j \in Mine(u)' <=> j \in Mine(u)
      /\ \A u \in ManualTraces : \A j : j \in TabsOf(u)' <=> j \in TabsOf(u)
      /\ \A j : j \in RetainedTabs' => j \in RetainedTabs
    BY <1>3, <1>4, TabsInUse, TabsInUseNext
<1>6. \A u \in ManualTraces : (MyTerminal(u)' <=> MyTerminal(u)) /\ Ended(u)' = Ended(u)
    BY <1>3 DEF MyTerminal, Ended
<1>7. OneWorker' /\ WorkerIsOwner' /\ NotCompleted'
    BY <1>0, <1>3 DEF WorkInv, OneWorker, WorkerIsOwner, NotCompleted, At
<1>8. TabIsOwn'
    BY <1>0, <1>3, <1>4, <1>5, TabsInUse DEF WorkInv, TabIsOwn, At
<1>9. NothingRetained'
    BY <1>0, <1>3, <1>4, <1>5, TabsInUse DEF WorkInv, NothingRetained, At
<1>10. SentIsKnown'
    BY <1>0, <1>3, <1>4, <1>5, TabsInUse DEF WorkInv, SentIsKnown, At
<1>11. NotYetPolled'
    BY <1>0, <1>3, <1>4, <1>5, TabsInUse DEF WorkInv, NotYetPolled, At
<1>12. FateIsKnown'
    BY <1>0, <1>3, <1>5, <1>6 DEF WorkInv, FateIsKnown, At
<1>13. SentIsNotTimedOut'
    BY <1>0, <1>3, <1>6 DEF WorkInv, SentIsNotTimedOut, At
<1>14. PollsAreAnswered'
    BY <1>0, <1>3, <1>4, <1>5, <1>6, TabsInUse DEF WorkInv, PollsAreAnswered, At
<1> QED
    BY <1>1, <1>7, <1>8, <1>9, <1>10, <1>11, <1>12, <1>13, <1>14 DEF WorkInv

(* A turn runs.                                                                   *)
LEMMA RunKeeps ==
    ASSUME ManualInv, NEW t \in ManualTraces, NEW i \in ManualTabIds, RunsTurn(t, i)
    PROVE  TabsInv' /\ WorkInv'
<1>0. TabsInv /\ WorkInv
    BY DEF ManualInv
<1>2. i \in OpenTabs /\ i \in Mine(t) /\ manualTabs[i].trace = t /\ worker[t].at = "sent"
    BY TabsInUse DEF RunsTurn, At
<1>1. TabsInv'
    BY <1>0, <1>2, NothingAssumption DEF RunsTurn, SameTurn, SameRest, OtherTabs, TabsInv, OneTabPerTurn, StatusFits, EndIsRemembered,
       IsRemembered, ClosingIsOver, OneRetainedTab, OpenTabs, RetainedTabs, TerminalStates, LiveStates
<1>3. UNCHANGED <<terminal, completion>>
    BY DEF RunsTurn
<1>4. \A j \in ManualTabIds : manualTabs[j] # Nothing \/ manualTabs'[j] # Nothing
         => /\ manualTabs[j] # Nothing /\ manualTabs'[j] # Nothing
            /\ manualTabs'[j].trace = manualTabs[j].trace /\ manualTabs'[j].owner = manualTabs[j].owner
            /\ manualTabs'[j].fresh = manualTabs[j].fresh
            /\ manualTabs'[j].status = manualTabs[j].status /\ manualTabs'[j].keyed = manualTabs[j].keyed
            /\ j # i => manualTabs'[j] = manualTabs[j]
    BY <1>2, NothingAssumption DEF RunsTurn, OtherTabs, SameTurn, SameRest, OpenTabs
<1>a. \A u \in ManualTraces : worker'[u].owner = worker[u].owner /\ (u # t => worker'[u].at = "over")
    BY <1>0, <1>2 DEF RunsTurn, Rests, Goes, OtherWorkers, WorkInv, OneWorker, At
<1>b. worker'[t].at \in {"over", "sent", "started", "ending"}
    BY <1>2 DEF RunsTurn, Rests, Goes
<1>5. /\ \A u \in ManualTraces : \A j : j \in Mine(u)' <=> j \in Mine(u)
      /\ \A u \in ManualTraces : \A j : j \in TabsOf(u)' <=> j \in TabsOf(u)
      /\ \A j : j \in RetainedTabs' <=> j \in RetainedTabs
    BY <1>4, <1>a, TabsInUse, TabsInUseNext
<1>6. \A u \in ManualTraces : (MyTerminal(u)' <=> MyTerminal(u)) /\ Ended(u)' = Ended(u)
    BY <1>3, <1>a DEF MyTerminal, Ended
<1>c. \A j \in Mine(t) : j = i
    BY <1>0, <1>2, TabsInUse DEF TabsInv, OneTabPerTurn
<1>d. ~MyTerminal(t)
    BY <1>0, <1>2, TabsInUse DEF RunsTurn, TabsInv, EndIsRemembered, IsRemembered, LiveStates, MyTerminal
<1>7. OneWorker' /\ WorkerIsOwner' /\ NotCompleted'
    BY <1>0, <1>2, <1>3, <1>a, <1>b DEF WorkInv, OneWorker, WorkerIsOwner, NotCompleted, At, Begun
<1>8. TabIsOwn'
    BY <1>0, <1>2, <1>4, <1>5, <1>a, <1>b, TabsInUse DEF WorkInv, TabIsOwn, At, Begun
<1>9. NothingRetained'
    BY <1>0, <1>2, <1>3, <1>4, <1>5, <1>a, <1>b, TabsInUse DEF WorkInv, NothingRetained, At
<1>10. SentIsKnown'
    BY <1>5, <1>a, <1>c DEF RunsTurn, SentIsKnown, At
<1>11. NotYetPolled'
    BY <1>a, <1>b DEF NotYetPolled, At
<1>12. FateIsKnown'
    BY <1>2, <1>5, <1>a DEF FateIsKnown, At
<1>13. SentIsNotTimedOut'
    BY <1>6, <1>a, <1>d DEF SentIsNotTimedOut, At
<1>14. PollsAreAnswered'
    BY <1>5, <1>6, <1>a, <1>b, <1>c, <1>d DEF RunsTurn, PollsAreAnswered, At
<1> QED
    BY <1>1, <1>7, <1>8, <1>9, <1>10, <1>11, <1>12, <1>13, <1>14 DEF WorkInv

(* A turn ends.                                                                   *)
LEMMA EndingKeeps ==
    ASSUME ManualInv, NEW i \in ManualTabIds, EndsTurn(i)
    PROVE  TabsInv' /\ WorkInv'
<1>0. TabsInv /\ WorkInv
    BY DEF ManualInv
<1>2. i \in OpenTabs /\ manualTabs[i].trace \in ManualTraces /\ manualTabs[i] \in ManualTab
    BY OpenTyped, ManualTypes DEF EndsTurn, ManualInv
<1> DEFINE t == manualTabs[i].trace
<1>3. UNCHANGED completion
    BY DEF EndsTurn
<1>4. /\ \A j \in ManualTabIds : j # i => manualTabs'[j] = manualTabs[j]
      /\ \/ manualTabs'[i] = Nothing
         \/ /\ manualTabs'[i] # Nothing /\ manualTabs'[i].trace = t /\ manualTabs'[i].owner = manualTabs[i].owner
            /\ manualTabs'[i].fresh = manualTabs[i].fresh /\ manualTabs'[i].status \in {"running", "error"}
            /\ manualTabs'[i].state \in TerminalStates /\ ~manualTabs'[i].armed /\ ~manualTabs'[i].polled
    BY NothingAssumption DEF EndsTurn, OtherTabs, SameTurn
<1>5. \A j \in OpenTabs' : j \in OpenTabs /\ manualTabs'[j].trace = manualTabs[j].trace
                           /\ manualTabs'[j].owner = manualTabs[j].owner /\ manualTabs'[j].fresh = manualTabs[j].fresh
    BY <1>2, <1>4 DEF OpenTabs
<1>6. \A j \in OpenTabs : j # i => manualTabs[j].trace # t
    BY <1>0, <1>2 DEF TabsInv, OneTabPerTurn
<1>7. /\ \A u \in ManualTraces : u # t => terminal'[u] = terminal[u]
      /\ terminal'[t] # Nothing /\ terminal'[t].owner = manualTabs[i].owner
      /\ terminal'[t].status = "timeout" => manualTabs[i].armed
    BY DEF EndsTurn, OtherEnds
<1>b. \A j \in OpenTabs : manualTabs[j].trace \in ManualTraces
    BY OpenTyped, ManualTypes DEF ManualInv
<1>1. TabsInv'
  <2>1. OneTabPerTurn'
      BY <1>0, <1>5 DEF TabsInv, OneTabPerTurn
  <2>2. StatusFits'
      BY <1>0, <1>2, <1>4, <1>5 DEF TabsInv, StatusFits, TerminalStates, OpenTabs
  <2>3. EndIsRemembered'
    <3> SUFFICES ASSUME NEW j \in OpenTabs'
                 PROVE  /\ manualTabs'[j].state \in TerminalStates => IsRemembered(j)'
                        /\ manualTabs'[j].state = "completed" => completion'[manualTabs'[j].trace] # Nothing
                        /\ manualTabs'[j].state \in LiveStates
                             => completion'[manualTabs'[j].trace] = Nothing /\ ~IsRemembered(j)'
        BY DEF EndIsRemembered
    <3>1. CASE j = i
      <4>1. manualTabs'[i].state \in TerminalStates /\ manualTabs'[i].trace = t
            /\ manualTabs'[i].owner = manualTabs[i].owner
          BY <1>4, <3>1 DEF OpenTabs
      <4> QED
          BY <1>7, <3>1, <4>1 DEF IsRemembered, TerminalStates, LiveStates
    <3>2. CASE j # i
      <4>1. j \in OpenTabs /\ manualTabs'[j] = manualTabs[j] /\ terminal'[manualTabs[j].trace] = terminal[manualTabs[j].trace]
          BY <1>4, <1>5, <1>6, <1>7, <1>b, <3>2 DEF OpenTabs
      <4> QED
          BY <1>0, <1>3, <4>1 DEF TabsInv, EndIsRemembered, IsRemembered
    <3> QED
        BY <3>1, <3>2
  <2>4. ClosingIsOver'
    <3> SUFFICES ASSUME manualClosing' \in OpenTabs' PROVE manualTabs'[manualClosing'].state \in TerminalStates
        BY DEF ClosingIsOver
    <3>1. CASE manualClosing' = i
        BY <1>4, <3>1 DEF OpenTabs
    <3>2. CASE manualClosing' # i
      <4>1. manualClosing' = manualClosing
          BY <3>2 DEF EndsTurn
      <4> QED
          BY <1>0, <1>4, <1>5, <3>2, <4>1 DEF TabsInv, ClosingIsOver, OpenTabs
    <3> QED
        BY <3>1, <3>2
  <2>5. \A j : j \in RetainedTabs' => j \in RetainedTabs
      BY <1>4, <1>5, TabsInUse, TabsInUseNext
  <2>6. OneRetainedTab'
      BY <1>0, <2>5 DEF TabsInv, OneRetainedTab
  <2> QED
      BY <2>1, <2>2, <2>3, <2>4, <2>6 DEF TabsInv
<1>8. \A j : j \in RetainedTabs' => j \in RetainedTabs
    BY <1>4, <1>5, TabsInUse, TabsInUseNext
<1>9. \A u \in ManualTraces :
         /\ worker'[u].owner = worker[u].owner
         /\ \/ worker'[u].at = worker[u].at
            \/ worker'[u].at = "over"
            \/ u = t /\ Hears(i) /\ worker'[u].at = "ending"
    BY <1>2 DEF EndsTurn, Tells, Rests, Goes, OtherWorkers
<1>10. /\ \A u \in ManualTraces : \A j : j \in Mine(u)' => j \in Mine(u)
       /\ \A u \in ManualTraces : \A j : j \in TabsOf(u)' => j \in TabsOf(u)
    BY <1>5, <1>9, TabsInUse, TabsInUseNext
<1>11. OneWorker' /\ WorkerIsOwner'
    BY <1>0, <1>9 DEF WorkInv, OneWorker, WorkerIsOwner, At, Hears
<1>12. NotCompleted'
    BY <1>0, <1>3, <1>9 DEF WorkInv, NotCompleted, At, Begun, Hears
<1>13. TabIsOwn'
    BY <1>0, <1>5, <1>9, <1>10, TabsInUse, TabsInUseNext DEF WorkInv, TabIsOwn, At, Begun, Hears
<1>14. NothingRetained'
    BY <1>0, <1>3, <1>5, <1>8, <1>9, <1>10, TabsInUse, TabsInUseNext DEF WorkInv, NothingRetained, At, Hears
<1>15. \A j \in OpenTabs' : \/ manualTabs'[j].state = manualTabs[j].state /\ manualTabs'[j].polled = manualTabs[j].polled
                            \/ manualTabs'[j].state \in TerminalStates /\ ~manualTabs'[j].polled
    BY <1>4 DEF OpenTabs
<1>16. SentIsKnown'
    BY <1>0, <1>9, <1>10, <1>15, TabsInUse, TabsInUseNext DEF WorkInv, SentIsKnown, At, TerminalStates
<1>17. NotYetPolled'
    BY <1>0, <1>5, <1>9, <1>10, <1>15, TabsInUse, TabsInUseNext DEF WorkInv, NotYetPolled, At
<1>18. FateIsKnown'
  <2> SUFFICES ASSUME NEW u \in ManualTraces, worker'[u].at \in {"waiting", "sent", "started"}
               PROVE  Mine(u)' # {} \/ MyTerminal(u)'
      BY DEF FateIsKnown, At
  <2>1. worker[u].at = worker'[u].at /\ worker'[u].owner = worker[u].owner
      BY <1>9
  <2>2. CASE u = t
    <3>1. manualTabs[i].owner = worker[u].owner
        BY <1>0, <1>2, <2>1, <2>2, TabsInUse DEF WorkInv, TabIsOwn, At, Begun
    <3> QED
        BY <1>7, <2>1, <2>2, <3>1 DEF MyTerminal
  <2>3. CASE u # t
    <3>1. \A j \in Mine(u) : j \in Mine(u)'
        BY <1>2, <1>4, <2>1, <2>3, TabsInUse, TabsInUseNext
    <3>2. MyTerminal(u) => MyTerminal(u)'
        BY <1>7, <2>1, <2>3 DEF MyTerminal
    <3>3. Mine(u) # {} \/ MyTerminal(u)
        BY <1>0, <2>1 DEF WorkInv, FateIsKnown, At
    <3> QED
        BY <3>1, <3>2, <3>3
  <2> QED
      BY <2>2, <2>3
<1>19. SentIsNotTimedOut'
  <2> SUFFICES ASSUME NEW u \in ManualTraces, worker'[u].at \in {"sent", "started", "completing"}, MyTerminal(u)'
               PROVE  terminal'[u].status # "timeout"
      BY DEF SentIsNotTimedOut, At, Ended
  <2>1. worker[u].at = worker'[u].at /\ worker'[u].owner = worker[u].owner
      BY <1>9
  <2>2. CASE u = t
    <3>1. i \in Mine(u)
        BY <1>0, <1>2, <2>1, <2>2, TabsInUse DEF WorkInv, TabIsOwn, At, Begun
    <3>2. manualTabs[i].state # "awaiting-user"
        BY <1>0, <2>1, <3>1 DEF WorkInv, SentIsKnown, At
    <3>3. ~manualTabs[i].armed
        BY <1>0, <1>2, <3>2 DEF TabsInv, StatusFits
    <3> QED
        BY <1>7, <2>2, <3>3
  <2>3. CASE u # t
      BY <1>0, <1>7, <2>1, <2>3 DEF WorkInv, SentIsNotTimedOut, At, MyTerminal, Ended
  <2> QED
      BY <2>2, <2>3
<1>20. PollsAreAnswered'
  <2> SUFFICES ASSUME NEW u \in ManualTraces, NEW j \in ManualTabIds, j \in Mine(u)', manualTabs'[j].polled
               PROVE  /\ worker'[u].at = "waiting" => manualTabs'[j].state = "awaiting-user"
                      /\ worker'[u].at \in {"sent", "started"}
                           => manualTabs'[j].state \in {"sent", "running"} /\ ~MyTerminal(u)'
      BY DEF PollsAreAnswered, At
  <2>1. j \in OpenTabs' /\ j \in OpenTabs /\ j \in Mine(u) /\ manualTabs'[j].trace = u
      BY <1>5, <1>10, TabsInUseNext
  <2>2. j # i
      BY <1>4, <2>1 DEF OpenTabs
  <2>3. manualTabs'[j] = manualTabs[j] /\ u # t
      BY <1>4, <1>6, <2>1, <2>2, TabsInUse
  <2>4. worker'[u].owner = worker[u].owner /\ worker'[u].at \in {worker[u].at, "over"}
      BY <1>9, <2>3
  <2>5. MyTerminal(u)' <=> MyTerminal(u)
      BY <1>7, <2>3, <2>4 DEF MyTerminal
  <2> QED
      BY <1>0, <2>1, <2>3, <2>4, <2>5 DEF WorkInv, PollsAreAnswered, At
<1> QED
    BY <1>1, <1>11, <1>12, <1>13, <1>14, <1>16, <1>17, <1>18, <1>19, <1>20 DEF WorkInv

(* A turn is completed.                                                           *)
LEMMA CompleteKeeps ==
    ASSUME ManualInv, NEW t \in ManualTraces, NEW i \in ManualTabIds, CompletesTurn(t, i)
    PROVE  TabsInv' /\ WorkInv'
<1>0. TabsInv /\ WorkInv
    BY DEF ManualInv
<1>2. i \in OpenTabs /\ i \in Mine(t) /\ manualTabs[i].trace = t /\ worker[t].at = "completing"
    BY TabsInUse DEF CompletesTurn, At
<1>3. UNCHANGED <<terminal, manualClosing>>
    BY DEF CompletesTurn
<1>4. /\ \A j \in ManualTabIds : j # i => manualTabs'[j] = manualTabs[j]
      /\ \/ manualTabs'[i] = Nothing
         \/ /\ manualTabs'[i] # Nothing /\ manualTabs'[i].trace = t /\ manualTabs'[i].owner = manualTabs[i].owner
            /\ manualTabs'[i].fresh = manualTabs[i].fresh /\ manualTabs'[i].status = "ready"
            /\ manualTabs'[i].state = "completed" /\ ~manualTabs'[i].armed
    BY <1>2, NothingAssumption DEF CompletesTurn, OtherTabs, SameTurn
<1>5. \A j \in OpenTabs' : j \in OpenTabs /\ manualTabs'[j].trace = manualTabs[j].trace
                           /\ manualTabs'[j].owner = manualTabs[j].owner /\ manualTabs'[j].fresh = manualTabs[j].fresh
    BY <1>2, <1>4 DEF OpenTabs
<1>6. \A j \in OpenTabs : j # i => manualTabs[j].trace # t
    BY <1>0, <1>2 DEF TabsInv, OneTabPerTurn
<1>7. worker[t].owner # Nothing /\ completion[t] = Nothing
    BY <1>0, <1>2 DEF CompletesTurn, WorkInv, WorkerIsOwner, NotCompleted, At
<1>8. /\ \A u \in ManualTraces : u # t => completion'[u] = completion[u]
      /\ completion'[t] = worker[t].owner
    BY DEF CompletesTurn
<1>b. \A j \in OpenTabs : manualTabs[j].trace \in ManualTraces
    BY OpenTyped, ManualTypes DEF ManualInv
<1>c. RetainedTabs = {}
  <2>1. manualTabs[i].fresh
      BY <1>0, <1>2, TabsInUse DEF WorkInv, TabIsOwn, At, Begun
  <2> QED
      BY <1>0, <1>2, <1>7, <2>1 DEF WorkInv, NothingRetained, At
<1>1. TabsInv'
  <2>1. OneTabPerTurn'
      BY <1>0, <1>5 DEF TabsInv, OneTabPerTurn
  <2>2. StatusFits'
      BY <1>0, <1>2, <1>4, <1>5 DEF TabsInv, StatusFits, OpenTabs
  <2>3. EndIsRemembered'
    <3> SUFFICES ASSUME NEW j \in OpenTabs'
                 PROVE  /\ manualTabs'[j].state \in TerminalStates => IsRemembered(j)'
                        /\ manualTabs'[j].state = "completed" => completion'[manualTabs'[j].trace] # Nothing
                        /\ manualTabs'[j].state \in LiveStates
                             => completion'[manualTabs'[j].trace] = Nothing /\ ~IsRemembered(j)'
        BY DEF EndIsRemembered
    <3>1. CASE j = i
        BY <1>4, <1>7, <1>8, <3>1 DEF TerminalStates, LiveStates, OpenTabs
    <3>2. CASE j # i
      <4>1. j \in OpenTabs /\ manualTabs'[j] = manualTabs[j] /\ completion'[manualTabs[j].trace] = completion[manualTabs[j].trace]
          BY <1>4, <1>5, <1>6, <1>8, <1>b, <3>2 DEF OpenTabs
      <4> QED
          BY <1>0, <1>3, <4>1 DEF TabsInv, EndIsRemembered, IsRemembered
    <3> QED
        BY <3>1, <3>2
  <2>4. ClosingIsOver'
    <3>1. manualClosing # i
        BY <1>0, <1>2 DEF CompletesTurn, TabsInv, ClosingIsOver, TerminalStates
    <3> QED
        BY <1>0, <1>3, <1>4, <1>5, <3>1 DEF TabsInv, ClosingIsOver, OpenTabs
  <2>5. \A j : j \in RetainedTabs' => j = i
      BY <1>4, <1>5, <1>c, TabsInUse, TabsInUseNext
  <2> QED
      BY <2>1, <2>2, <2>3, <2>4, <2>5 DEF TabsInv, OneRetainedTab
<1>9. \A u \in ManualTraces :
         /\ worker'[u].owner = worker[u].owner
         /\ u # t => worker'[u].at = "over"
    BY <1>0, <1>2 DEF CompletesTurn, Rests, WorkInv, OneWorker, At
<1>10. worker'[t].at \in {"over", "completing"}
    BY <1>2 DEF CompletesTurn, Rests
<1>11. /\ \A u \in ManualTraces : \A j : j \in Mine(u)' => j \in Mine(u)
       /\ \A u \in ManualTraces : \A j : j \in TabsOf(u)' => j \in TabsOf(u)
    BY <1>5, <1>9, TabsInUse, TabsInUseNext
<1>12. OneWorker' /\ WorkerIsOwner' /\ NotCompleted'
    BY <1>0, <1>7, <1>8, <1>9, <1>10 DEF WorkInv, OneWorker, WorkerIsOwner, NotCompleted, At, Begun
<1>13. TabIsOwn'
    BY <1>0, <1>2, <1>5, <1>9, <1>10, <1>11, TabsInUse, TabsInUseNext DEF WorkInv, TabIsOwn, At, Begun
<1>14. NothingRetained'
    BY <1>7, <1>8, <1>9 DEF NothingRetained, At
<1>15. SentIsKnown'
    BY <1>0, <1>2, <1>4, <1>9, <1>10, <1>11, TabsInUseNext DEF WorkInv, SentIsKnown, At, OpenTabs
<1>16. NotYetPolled' /\ FateIsKnown' /\ PollsAreAnswered'
    BY <1>9, <1>10 DEF NotYetPolled, FateIsKnown, PollsAreAnswered, At
<1>17. SentIsNotTimedOut'
    BY <1>0, <1>2, <1>3, <1>9, <1>10 DEF WorkInv, SentIsNotTimedOut, At, MyTerminal, Ended
<1> QED
    BY <1>1, <1>12, <1>13, <1>14, <1>15, <1>16, <1>17 DEF WorkInv

(* A tab is given up.                                                             *)
LEMMA GiveUpKeeps ==
    ASSUME ManualInv, NEW i \in ManualTabIds, GivesTabUp(i)
    PROVE  TabsInv' /\ WorkInv'
<1>0. TabsInv /\ WorkInv
    BY DEF ManualInv
<1>1. UNCHANGED <<terminal, completion, worker>>
    BY DEF GivesTabUp
<1>2. \A j \in OpenTabs' : j \in OpenTabs /\ j # i /\ manualTabs'[j] = manualTabs[j]
    BY DEF GivesTabUp, OtherTabs, OpenTabs
<1>3. TabsInv'
  <2>1. OneTabPerTurn' /\ StatusFits' /\ EndIsRemembered'
      BY <1>0, <1>1, <1>2 DEF TabsInv, OneTabPerTurn, StatusFits, EndIsRemembered, IsRemembered
  <2>2. ClosingIsOver'
    <3>1. Nothing \notin OpenTabs'
        BY NothingAssumption DEF OpenTabs
    <3> QED
        BY <1>0, <1>2, <3>1 DEF GivesTabUp, TabsInv, ClosingIsOver
  <2>3. OneRetainedTab'
      BY <1>0, <1>2, TabsInUse, TabsInUseNext DEF TabsInv, OneRetainedTab
  <2> QED
      BY <2>1, <2>2, <2>3 DEF TabsInv
<1>4. /\ \A u \in ManualTraces : \A j : j \in Mine(u)' => j \in Mine(u)
      /\ \A u \in ManualTraces : \A j : j \in TabsOf(u)' => j \in TabsOf(u)
      /\ \A j : j \in RetainedTabs' => j \in RetainedTabs
    BY <1>1, <1>2, TabsInUse, TabsInUseNext
<1>5. \A u \in ManualTraces : (MyTerminal(u)' <=> MyTerminal(u)) /\ Ended(u)' = Ended(u)
    BY <1>1 DEF MyTerminal, Ended
<1>6. OneWorker' /\ WorkerIsOwner' /\ NotCompleted'
    BY <1>0, <1>1 DEF WorkInv, OneWorker, WorkerIsOwner, NotCompleted, At
<1>7. TabIsOwn'
    BY <1>0, <1>1, <1>2, <1>4, TabsInUseNext DEF WorkInv, TabIsOwn, At
<1>8. NothingRetained'
    BY <1>0, <1>1, <1>2, <1>4, TabsInUseNext DEF WorkInv, NothingRetained, At
<1>9. SentIsKnown' /\ NotYetPolled'
    BY <1>0, <1>1, <1>2, <1>4, TabsInUseNext DEF WorkInv, SentIsKnown, NotYetPolled, At
<1>10. FateIsKnown'
  <2> SUFFICES ASSUME NEW u \in ManualTraces, worker[u].at \in {"waiting", "sent", "started"}, ~MyTerminal(u)
               PROVE  Mine(u)' # {}
      BY <1>1, <1>5 DEF FateIsKnown, At
  <2>1. PICK j \in Mine(u) : TRUE
      BY <1>0 DEF WorkInv, FateIsKnown, At
  <2>2. j \in OpenTabs /\ manualTabs[j].trace = u /\ manualTabs[j].owner = worker[u].owner
      BY TabsInUse
  <2>3. completion[u] = Nothing
      BY <1>0 DEF WorkInv, NotCompleted, At, Begun
  <2>4. manualTabs[j].status # "ready" /\ manualTabs[j].state \notin TerminalStates
      BY <1>0, <2>2, <2>3 DEF TabsInv, StatusFits, EndIsRemembered, IsRemembered, MyTerminal
  <2>5. j # i
      BY <1>0, <2>2, <2>4, TabsInUse DEF GivesTabUp, TabsInv, ClosingIsOver
  <2>6. j \in Mine(u)'
      BY <1>1, <2>2, <2>5, TabsInUse, TabsInUseNext DEF GivesTabUp, OtherTabs
  <2> QED
      BY <2>6
<1>11. SentIsNotTimedOut'
    BY <1>0, <1>1, <1>5 DEF WorkInv, SentIsNotTimedOut, At
<1>12. PollsAreAnswered'
    BY <1>0, <1>1, <1>2, <1>4, <1>5, TabsInUseNext DEF WorkInv, PollsAreAnswered, At
<1> QED
    BY <1>3, <1>6, <1>7, <1>8, <1>9, <1>10, <1>11, <1>12 DEF WorkInv

(* The tabs and the signals of the turns that a human sends agree: a worker that   *)
(* has a turn can learn its fate and is answered, what has ended stays ended, a    *)
(* conversation is retained once, and what was sent does not time out.             *)
THEOREM SignalsAgree == ManualSpec => []ManualTabsHold
<1>1. ManualInit => ManualInv
  <2> SUFFICES ASSUME ManualInit PROVE ManualInv
      OBVIOUS
  <2>1. OpenTabs = {} /\ \A t \in ManualTraces : worker[t].at = "over"
      BY DEF ManualInit, OpenTabs
  <2>2. ManualTypeOK
    <3>1. [at |-> "over", owner |-> Nothing, retried |-> FALSE] \in Worker
        BY DEF Worker, Stages
    <3> QED
        BY <3>1 DEF ManualInit, ManualTypeOK
  <2>3. TabsInv
      BY <2>1 DEF TabsInv, OneTabPerTurn, StatusFits, EndIsRemembered, ClosingIsOver, OneRetainedTab, RetainedTabs
  <2>4. OneWorker /\ WorkerIsOwner /\ TabIsOwn /\ NotCompleted /\ NothingRetained
      BY <2>1 DEF OneWorker, WorkerIsOwner, TabIsOwn, NotCompleted, NothingRetained, At, Begun
  <2>5. SentIsKnown /\ NotYetPolled /\ FateIsKnown /\ SentIsNotTimedOut /\ PollsAreAnswered
      BY <2>1 DEF SentIsKnown, NotYetPolled, FateIsKnown, SentIsNotTimedOut, PollsAreAnswered, At
  <2> QED
      BY <2>2, <2>3, <2>4, <2>5 DEF ManualInv, WorkInv
<1>2. ManualInv /\ [ManualNext]_manualVars => ManualInv'
  <2> SUFFICES ASSUME ManualInv, [ManualNext]_manualVars PROVE ManualInv'
      OBVIOUS
  <2>1. ManualTypeOK' /\ ManualSteps
      BY ManualStep
  <2>2. TabsInv' /\ WorkInv'
      BY <2>1, QuietKeeps, AdvanceKeeps, BeginKeeps, LossKeeps, TakeKeeps, RunKeeps, CompleteKeeps, PollKeeps,
         LooseKeeps, ConfirmKeeps, EndingKeeps, GiveUpKeeps DEF ManualSteps
  <2> QED
      BY <2>1, <2>2 DEF ManualInv
<1>3. ManualInv => ManualTabsHold
  <2> SUFFICES ASSUME ManualInv PROVE ManualTabsHold
      OBVIOUS
  <2>1. EndedTurnsStayEnded
    <3> SUFFICES ASSUME NEW i \in OpenTabs, manualTabs[i].state \in {"awaiting-user", "sent", "running"}
                 PROVE  /\ completion[manualTabs[i].trace] = Nothing
                        /\ ~(/\ terminal[manualTabs[i].trace] # Nothing
                             /\ terminal[manualTabs[i].trace].owner = manualTabs[i].owner)
        BY DEF EndedTurnsStayEnded
    <3> QED
        BY DEF ManualInv, TabsInv, EndIsRemembered, IsRemembered, LiveStates
  <2> QED
      BY <2>1 DEF ManualInv, TabsInv, WorkInv, ManualTabsHold
<1> QED
    BY <1>1, <1>2, <1>3, PTL DEF ManualSpec
================================================================================
