--------------------------- MODULE MCLauncherHost ---------------------------
(* A small instance of the launcher's browser host for TLC.  The host is in   *)
(* one interaction mode at a time and changes it only when no turn has a tab, *)
(* so an instance has either the automatic tabs or the Zero Risk turns, for a *)
(* daemon and its successor.  The automatic tabs come in two instances: two   *)
(* traces of one conversation whose tabs do not fail, with two tabs, and the  *)
(* tabs of one trace at a time, three of them, which may fail and during      *)
(* which the machine does not sleep and the user starts no operation and      *)
(* closes no running tab.                                                     *)
EXTENDS BrowserTabs, ManualTurns, TLC

CONSTANTS a, b, k

KeyOf == [t \in Traces |-> IF t \in {a, b} THEN k ELSE None]
Sym   == Permutations(Traces) \cup Permutations(Helpers)

VARIABLE instance        \* what the instance has

(* The bounds: MaxPairTabs tabs in the pair; one trace with tabs or a worker    *)
(* in the crowd.                                                               *)
MaxPairTabs == 2
Busy        == {t \in Traces : call[t].at # "idle" \/ OfTrace(t) # {}}

Auto(A) ==
    /\ instance \in {"pair", "crowd"}
    /\ A /\ TracksErrors
    /\ instance = "pair"  => Cardinality(Open') <= MaxPairTabs /\ erred' = {}
    /\ instance = "crowd" => /\ Cardinality(Busy') <= 1
                            /\ ~overslept' /\ ~operation' /\ UNCHANGED closing
    /\ UNCHANGED <<manualVars, instance>>
ByHand(A) == instance = "zeroRisk" /\ A /\ UNCHANGED <<vars, instance>>

HostInit == Init /\ ManualInit /\ instance \in {"pair", "crowd", "zeroRisk"}

HostNext ==
    \/ \E t \in Traces, h \in Helpers : Auto(StartReuses(t, h)) \/ Auto(StartCreates(t, h))
    \/ \E t \in Traces, i \in TabIds : Auto(Heartbeat(t, i))
    \/ \E t \in Traces :
        \/ Auto(Ends(t)) \/ Auto(EndIsLate(t)) \/ Auto(GivesUp(t))
        \/ Auto(ReleaseConversation(keyOf[t]))
    \/ \E i \in TabIds :
        \/ Auto(TabAttached(i)) \/ Auto(AttachFails(i)) \/ Auto(MarkFails(i))
        \/ Auto(PageGone(i)) \/ Auto(CloseRunning(i)) \/ Auto(CloseIdle(i))
        \/ Auto(CloseAcknowledged(i)) \/ Auto(CloseFails(i)) \/ Auto(Lapse(i))
    \/ Auto(OperationStarts) \/ Auto(OperationEnds)
    \/ Auto(Sleep) \/ Auto(SystemResumes) \/ Auto(Sweep) \/ Auto(LateEndArrives)
    \/ \E h \in Helpers : Auto(HelperDies(h))
    \/ \E t \in Traces, o \in Helpers : ByHand(Begins(t, o))
    \/ \E t \in Traces :
        \/ ByHand(StartRefused(t)) \/ ByHand(StartFound(t))
        \/ ByHand(StartForeign(t)) \/ ByHand(ManualStartReuses(t))
        \/ ByHand(ManualStartCreates(t)) \/ ByHand(StartFails(t))
        \/ ByHand(AskSent(t)) \/ ByHand(Watch(t)) \/ ByHand(Started(t))
        \/ ByHand(Answered(t)) \/ ByHand(Fails(t)) \/ ByHand(EndRetains(t))
        \/ ByHand(EndReleases(t)) \/ ByHand(EndFails(t))
        \/ ByHand(EndFindsNothing(t)) \/ ByHand(RequestIsLost(t))
    \/ \E i \in TabIds :
        \/ ByHand(ConfirmSent(i)) \/ ByHand(CloseTab(i)) \/ ByHand(Navigate(i))
        \/ ByHand(PageFails(i)) \/ ByHand(DeadlineFires(i)) \/ ByHand(Reap(i))
        \/ ByHand(RetentionEnds(i)) \/ ByHand(PollLapses(i))
    \/ ByHand(CloseEnds)
    \/ \E o \in Helpers : ByHand(OwnerDies(o))

HostSpec == HostInit /\ [][HostNext]_<<vars, manualVars, instance>>
=============================================================================
