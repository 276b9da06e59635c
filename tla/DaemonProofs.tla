------------------------------ MODULE DaemonProofs ------------------------------
(***************************************************************************)
(* What holds of the daemon for any number of keys, threads, conversations,  *)
(* sessions and requests.                                                    *)
(*                                                                           *)
(* The registry of browser surfaces: a thread has one live browser that the  *)
(* registry answers for, and no request waits for a response that nobody has *)
(* told to stop.                                                             *)
(*                                                                           *)
(* The HTTP side of a round: a response ends once and is whole when it says  *)
(* that it is complete, who tells the daemon to stop something is heard, and *)
(* the snapshot of the responses loses nothing but to newer ones.            *)
(***************************************************************************)
EXTENDS TurnSessions, ResponsesDaemon, FiniteSetTheorems, TLAPS

-------------------------------------------------------------------------------
(* The inductive invariant *)

(* An entry's session was started for a key of the same thread (a closed     *)
(* conversation moves it to another key); what retires under a key is among  *)
(* what the owner waits for; and that has been told to stop, or has stopped. *)
EntriesSound ==
    \A k \in Keys : entries[k] # None =>
        surface[entries[k]] # "unused" /\ Owner(entries[k]) = ownerOf[k]
RetirementsSound ==
    /\ \A k \in Keys : retirements[k] # None =>
          retirements[k] \in ownerRetirements /\ Owner(retirements[k]) = ownerOf[k]
    /\ \A s \in ownerRetirements : s \in cancelled \/ ~Active(s)

RegistrySound == RegistryHolds /\ EntriesSound /\ RetirementsSound

(* Nothing is registered when the process starts.                            *)
LEMMA RegistrySoundInit == Init => RegistrySound
BY NoneAssumption
DEF Init, RegistrySound, RegistryHolds, TypeOK, SurfacesSerialized, SupersededHasNoAnswer, NoSteeringDeadlock,
    EntriesSound, RetirementsSound, Live, Registered, Active

-------------------------------------------------------------------------------
(* Retirement *)

(* Sessions that retire are in the registry; those that are awaited are told *)
(* to stop; and nobody is awaited who has no browser.                        *)
LEMMA RetiresRegistered ==
    ASSUME NEW S \in SUBSET Sessions, TypeOK
    PROVE  /\ NewlyRetired(S) \subseteq S \cap Registered
           /\ NewlyRetired(S) \subseteq Sessions
           /\ \A k \in Keys : entries[k] \in S /\ entries[k] # None /\ retirements[k] = None
                 => entries[k] \in NewlyRetired(S)
<1>1. \A s : s \in NewlyRetired(S) <=> \E k \in Keys : entries[k] = s /\ s \in S /\ retirements[k] = None
    BY DEF NewlyRetired, KeysOf
<1>2. \A s \in S : (\E k \in Keys : entries[k] = s) => s \in Registered
    BY NoneAssumption DEF Registered
<1> QED
    BY <1>1, <1>2

(* Retiring what leaves the registry, or is superseded, keeps the books of   *)
(* who waits for whom.                                                       *)
LEMMA AwaitReleaseSound ==
    ASSUME NEW S \in SUBSET Sessions, TypeOK, EntriesSound, RetirementsSound, AwaitRelease(S),
           UNCHANGED <<surface, keyOfSession>>,
           cancelled' = cancelled \cup NewlyRetired(S),
           \A s \in Sessions : ~Active(s) => ~Active(s)'
    PROVE  /\ retirements' \in [Keys -> Live' \cup {None}]
           /\ ownerRetirements' \in SUBSET Live'
           /\ conversationRetirements' \in [Conversations -> SUBSET Live']
           /\ ownerRetirements' \subseteq ownerRetirements \cup (S \cap Registered)
           /\ RetirementsSound'
<1>1. NewlyRetired(S) \subseteq S \cap Registered /\ NewlyRetired(S) \subseteq Sessions
    BY RetiresRegistered
<1>2. Live' = Live
    BY DEF Live
<1>3. retirements' \in [Keys -> Live' \cup {None}]
    BY <1>2 DEF AwaitRelease, TypeOK
<1>4. /\ ownerRetirements' \in SUBSET Live'
      /\ ownerRetirements' \subseteq ownerRetirements \cup (S \cap Registered)
    BY <1>1, <1>2 DEF AwaitRelease, TypeOK
<1>5. conversationRetirements' \in [Conversations -> SUBSET Live']
    BY <1>2 DEF AwaitRelease, TypeOK
<1>6. ASSUME NEW k \in Keys, retirements'[k] # None
      PROVE  retirements'[k] \in ownerRetirements' /\ Owner(retirements[k])' = ownerOf[k]
  <2>1. CASE retirements'[k] = retirements[k]
      BY <1>6, <2>1 DEF AwaitRelease, RetirementsSound, Owner
  <2>2. CASE retirements'[k] # retirements[k]
    <3>1. retirements'[k] = entries[k] /\ entries[k] \in NewlyRetired(S) \cap Live
        BY <2>2 DEF AwaitRelease, TypeOK
    <3> QED
        BY <1>6, <3>1 DEF AwaitRelease, EntriesSound, Owner
  <2> QED
      BY <2>1, <2>2
<1>7. ASSUME NEW s \in ownerRetirements' PROVE s \in cancelled' \/ ~Active(s)'
  <2>1. s \in Sessions
      BY <1>1, <1>7 DEF AwaitRelease, TypeOK, Live
  <2> QED
      BY <1>7, <2>1 DEF AwaitRelease, RetirementsSound
<1> QED
    BY <1>3, <1>4, <1>5, <1>6, <1>7 DEF RetirementsSound

(* A step that starts no browser: the registry answers for no more sessions  *)
(* than before, and no request waits for more.                               *)
Shrinks ==
    /\ UNCHANGED <<surface, keyOfSession, superseded>>
    /\ awaits' = awaits
    /\ cancelled \subseteq cancelled'
    /\ \A s \in Sessions : outcome'[s] # outcome[s] => Active(s) /\ outcome'[s] = "error"
    /\ Registered' \cup ownerRetirements' \subseteq Registered \cup ownerRetirements

(* What only shrinks the registry keeps its books.                           *)
LEMMA ShrinksSound ==
    ASSUME TypeOK, TypeOK', SurfacesSerialized, SupersededHasNoAnswer, NoSteeringDeadlock, Shrinks
    PROVE  SurfacesSerialized' /\ SupersededHasNoAnswer' /\ NoSteeringDeadlock'
<1>1. SurfacesSerialized'
    BY DEF Shrinks, SurfacesSerialized, Live, Owner
<1>2. SupersededHasNoAnswer'
    BY DEF Shrinks, SupersededHasNoAnswer, TypeOK, Active
<1>3. NoSteeringDeadlock'
    BY DEF Shrinks, NoSteeringDeadlock, TypeOK, Active, Live
<1> QED
    BY <1>1, <1>2, <1>3

(* An entry that is removed, or kept.                                        *)
LEMMA RemoveSound ==
    ASSUME NEW S, TypeOK, EntriesSound, RemoveEntries(S), UNCHANGED <<surface, keyOfSession>>
    PROVE  /\ entries' \in [Keys -> Sessions \cup {None}]
           /\ EntriesSound'
           /\ Registered' \subseteq Registered
BY DEF TypeOK, EntriesSound, RemoveEntries, Owner, Registered

(* Forgetting keeps the types of what is forgotten.                          *)
LEMMA ForgetTyped ==
    ASSUME NEW S, TypeOK, ForgetHeads(S)
    PROVE  conversationHeads' \in [Conversations -> Sessions \cup {None}]
BY DEF TypeOK, ForgetHeads

(* What cancelling does to the outcomes.                                     *)
LEMMA CancelTyped ==
    ASSUME NEW S \in SUBSET Sessions, TypeOK, Cancel(S) \/ CancelWithReason(S)
    PROVE  /\ cancelled' = cancelled \cup S /\ cancelled' \in SUBSET Sessions
           /\ outcome' \in [Sessions -> {"none", "final", "error"}]
           /\ \A s \in Sessions : ~Active(s) => ~Active(s)'
           /\ \A s \in Sessions : outcome'[s] # outcome[s] => Active(s) /\ outcome'[s] = "error"
BY DEF TypeOK, Cancel, CancelWithReason, Active

(* retire(), cancelNativeTurn(), clear(), retireAbortedOwnerTurns().         *)
LEMMA RetireSound ==
    ASSUME NEW S \in SUBSET Sessions, RegistrySound, RemoveEntries(S), ForgetHeads(S), AwaitRelease(S),
           Cancel(NewlyRetired(S)) \/ CancelWithReason(NewlyRetired(S)),
           UNCHANGED <<surface, keyOfSession, superseded, attached, stale, requestVars>>
    PROVE  RegistrySound'
<1> USE DEF RegistrySound, RegistryHolds
<1>1. NewlyRetired(S) \subseteq S \cap Registered /\ NewlyRetired(S) \in SUBSET Sessions
    BY RetiresRegistered
<1>2. /\ cancelled' = cancelled \cup NewlyRetired(S) /\ cancelled' \in SUBSET Sessions
      /\ outcome' \in [Sessions -> {"none", "final", "error"}]
      /\ \A s \in Sessions : ~Active(s) => ~Active(s)'
      /\ \A s \in Sessions : outcome'[s] # outcome[s] => Active(s) /\ outcome'[s] = "error"
    BY <1>1, CancelTyped
<1>3. /\ retirements' \in [Keys -> Live' \cup {None}]
      /\ ownerRetirements' \in SUBSET Live'
      /\ conversationRetirements' \in [Conversations -> SUBSET Live']
      /\ ownerRetirements' \subseteq ownerRetirements \cup (S \cap Registered)
      /\ RetirementsSound'
    BY <1>2, AwaitReleaseSound
<1>4. /\ entries' \in [Keys -> Sessions \cup {None}]
      /\ EntriesSound'
      /\ Registered' \subseteq Registered
    BY RemoveSound
<1>5. TypeOK'
    BY <1>2, <1>3, <1>4, ForgetTyped DEF TypeOK, Live, requestVars
<1>6. Shrinks
    BY <1>2, <1>3, <1>4 DEF Shrinks, requestVars
<1> QED
    BY <1>3, <1>4, <1>5, <1>6, ShrinksSound

(* What forgets idle sessions: prune(), alone or as the start of a refusal.  *)
LEMMA PruneSound ==
    ASSUME RegistrySound, RemoveEntries(Prunable), ForgetHeads(Prunable), Cancel(Prunable),
           UNCHANGED <<retireVars, surface, keyOfSession, superseded, attached, stale, awaits>>,
           pc' \in [Requests -> {"idle", "waiting", "served", "refused", "aborted"}],
           served' \in [Requests -> Sessions \cup {None}]
    PROVE  RegistrySound'
<1> USE DEF RegistrySound, RegistryHolds
<1>1. Prunable \in SUBSET Sessions
    BY DEF Prunable, Registered, TypeOK
<1>2. /\ cancelled' = cancelled \cup Prunable /\ cancelled' \in SUBSET Sessions
      /\ outcome' = outcome
    BY <1>1 DEF Cancel, TypeOK
<1>3. /\ entries' \in [Keys -> Sessions \cup {None}]
      /\ EntriesSound'
      /\ Registered' \subseteq Registered
    BY RemoveSound
<1>4. TypeOK'
    BY <1>2, <1>3, ForgetTyped DEF TypeOK, Live, retireVars
<1>5. Shrinks
    BY <1>2, <1>3 DEF Shrinks, retireVars
<1>6. RetirementsSound'
    BY <1>2 DEF RetirementsSound, Owner, Active, retireVars
<1> QED
    BY <1>3, <1>4, <1>5, <1>6, ShrinksSound

-------------------------------------------------------------------------------
(* The steps of a request *)

(* What is in a request's way is registered, and can retire: its key waits   *)
(* for nothing, since its owner waits for nothing.                           *)
LEMMA InTheWayRetires ==
    ASSUME RegistrySound, NEW q \in Requests, NEW s \in Sessions, InTheWay(q, s)
    PROVE  s \in Live \cap Registered /\ s \in NewlyRetired({s})
<1> USE DEF RegistrySound, RegistryHolds
<1>1. keyOf[q] \in Keys
    BY KeyOfAssumption
<1>2. PICK j \in Keys : ownerOf[j] = ownerOf[keyOf[q]] /\ entries[j] = s /\ s \in Live
    BY DEF InTheWay, OwnerSurfaces
<1>3. s \in Live \cap Registered /\ s # None
    BY <1>2, NoneAssumption DEF Registered
<1>4. retirements[j] = None
    BY <1>1, <1>2 DEF InTheWay, Pending, OwnerRetirement, RetirementsSound, TypeOK
<1> QED
    BY <1>2, <1>3, <1>4, RetiresRegistered

(* A request that only looks, waits or is answered.                          *)
LEMMA LookSound ==
    ASSUME RegistrySound, NEW q \in Requests,
           UNCHANGED <<registryVars, retireVars, surface, outcome, keyOfSession, cancelled, superseded, attached>>,
           stale' \in SUBSET Sessions,
           pc' \in [Requests -> {"idle", "waiting", "served", "refused", "aborted"}],
           served' \in [Requests -> Sessions \cup {None}],
           awaits' \in [Requests -> SUBSET Live],
           \A r \in Requests : r # q => awaits'[r] = awaits[r],
           \A s \in awaits'[q] : Active(s) /\ s \notin cancelled
                => instructionOf[keyOf[q]] = instructionOf[keyOfSession[s]]
    PROVE  RegistrySound'
<1> USE DEF RegistrySound, RegistryHolds, registryVars, retireVars
<1>1. Live' = Live
    BY DEF Live
<1>2. TypeOK'
    BY <1>1 DEF TypeOK
<1>3. EntriesSound' /\ RetirementsSound'
    BY DEF EntriesSound, RetirementsSound, Owner, Active
<1>4. SurfacesSerialized' /\ SupersededHasNoAnswer'
    BY <1>1 DEF SurfacesSerialized, SupersededHasNoAnswer, Owner, Registered
<1>5. NoSteeringDeadlock'
    BY DEF NoSteeringDeadlock, Active
<1> QED
    BY <1>2, <1>3, <1>4, <1>5

(* A newer instruction preempts what is in its way: it stops, and the        *)
(* request waits for its browser.                                            *)
LEMMA SupersedeSound ==
    ASSUME RegistrySound, NEW q \in Requests, NEW s \in Sessions, Supersede(q, s)
    PROVE  RegistrySound'
<1> USE DEF RegistrySound, RegistryHolds
<1>1. s \in Live \cap Registered /\ s \in NewlyRetired({s})
    BY InTheWayRetires DEF Supersede
<1>2. NewlyRetired({s}) = {s}
    BY <1>1, RetiresRegistered
<1>3. /\ cancelled' = cancelled \cup {s} /\ cancelled' \in SUBSET Sessions
      /\ outcome' \in [Sessions -> {"none", "final", "error"}]
      /\ \A r \in Sessions : ~Active(r) => ~Active(r)'
      /\ \A r \in Sessions : outcome'[r] # outcome[r] => Active(r) /\ outcome'[r] = "error"
      /\ outcome'[s] = "error"
  <2>1. CancelWithReason({s}) /\ Active(s)
      BY <1>2 DEF Supersede, Steered
  <2>2. outcome'[s] = "error"
      BY <2>1 DEF CancelWithReason, Active
  <2> QED
      BY <2>1, <2>2, CancelTyped
<1>4. /\ retirements' \in [Keys -> Live' \cup {None}]
      /\ ownerRetirements' \in SUBSET Live'
      /\ conversationRetirements' \in [Conversations -> SUBSET Live']
      /\ ownerRetirements' \subseteq ownerRetirements \cup {s}
      /\ RetirementsSound'
    BY <1>2, <1>3, AwaitReleaseSound DEF Supersede
<1>5. Live' = Live
    BY DEF Live, Supersede
<1>6. TypeOK'
    BY <1>1, <1>3, <1>4, <1>5, ForgetTyped DEF TypeOK, Supersede, Wait
<1>7. EntriesSound' /\ Registered' = Registered
    BY DEF EntriesSound, Supersede, Owner, Registered
<1>8. SurfacesSerialized'
    BY <1>1, <1>4, <1>5, <1>7 DEF SurfacesSerialized, Supersede, Owner
<1>9. SupersededHasNoAnswer'
    BY <1>3 DEF SupersededHasNoAnswer, Supersede, TypeOK, Active
<1>10. NoSteeringDeadlock'
    BY <1>3 DEF NoSteeringDeadlock, Supersede, Wait, TypeOK, Active, Live
<1> QED
    BY <1>4, <1>6, <1>7, <1>8, <1>9, <1>10

(* A new session: nothing of its owner is registered or awaited with a       *)
(* browser, so it is the owner's only one.                                   *)
LEMMA CreateSound ==
    ASSUME RegistrySound, NEW q \in Requests, NEW s \in Sessions, Create(q, s)
    PROVE  RegistrySound'
<1> USE DEF RegistrySound, RegistryHolds
<1> DEFINE k == keyOf[q]
<1>1. k \in Keys /\ s # None
    BY KeyOfAssumption, NoneAssumption
<1>2. surface[s] = "unused" /\ surface' = [surface EXCEPT ![s] = "live"] /\ keyOfSession' = [keyOfSession EXCEPT ![s] = k]
    BY DEF Create
<1>3. Live' = Live \cup {s} /\ s \notin Live
    BY <1>2 DEF Live, TypeOK
<1>4. Prunable \in SUBSET Sessions
    BY DEF Prunable, Registered, TypeOK
<1>5. cancelled' = cancelled \cup Prunable /\ outcome' = outcome
    BY DEF Create, Cancel
<1>6. \A j \in Keys : entries'[j] = IF j = k THEN s ELSE IF entries[j] \in Prunable THEN None ELSE entries[j]
    BY DEF Create
<1>7. TypeOK'
  <2>1. /\ surface' \in [Sessions -> {"unused", "live", "released"}]
        /\ outcome' \in [Sessions -> {"none", "final", "error"}]
        /\ keyOfSession' \in [Sessions -> Keys \cup {None}]
        /\ cancelled' \in SUBSET Sessions /\ superseded' \in SUBSET Sessions
        /\ attached' \in SUBSET Sessions /\ stale' \in SUBSET Sessions
      BY <1>1, <1>2, <1>4, <1>5 DEF Create, TypeOK
  <2>2. /\ entries' \in [Keys -> Sessions \cup {None}]
        /\ conversationHeads' \in [Conversations -> Sessions \cup {None}]
      BY DEF Create, TypeOK
  <2>3. /\ retirements' \in [Keys -> Live' \cup {None}]
        /\ ownerRetirements' \in SUBSET Live'
        /\ conversationRetirements' \in [Conversations -> SUBSET Live']
      BY <1>3 DEF Create, TypeOK, retireVars
  <2>4. /\ pc' \in [Requests -> {"idle", "waiting", "served", "refused", "aborted"}]
        /\ awaits' \in [Requests -> SUBSET Live']
        /\ served' \in [Requests -> Sessions \cup {None}]
      BY <1>3 DEF Create, Answer, TypeOK
  <2> QED
      BY <2>1, <2>2, <2>3, <2>4 DEF TypeOK
<1>8. \A j \in Keys : entries'[j] # None => j = k \/ (entries[j] = entries'[j] /\ entries[j] # s)
    BY <1>2, <1>6 DEF EntriesSound
<1>9. EntriesSound'
    BY <1>1, <1>2, <1>6, <1>8 DEF EntriesSound, Owner, TypeOK
<1>10. RetirementsSound'
    BY <1>3, <1>5 DEF Create, RetirementsSound, Owner, TypeOK, Active, retireVars
<1>11. \A t \in Live \cap (Registered \cup ownerRetirements) : Owner(t) # ownerOf[k]
  <2> SUFFICES ASSUME NEW t \in Live \cap (Registered \cup ownerRetirements), Owner(t) = ownerOf[k] PROVE FALSE
      OBVIOUS
  <2>1. CASE t \in ownerRetirements
      BY <1>1, <2>1, NoneAssumption DEF Create, Unobstructed, Pending, OwnerRetirement
  <2>2. CASE t \in Registered
    <3>1. PICK j \in Keys : entries[j] = t /\ t # None
        BY <2>2 DEF Registered
    <3>2. j # k /\ ownerOf[j] = ownerOf[k]
        BY <3>1 DEF Create, Unobstructed, EntriesSound
    <3> QED
        BY <3>1, <3>2 DEF Create, Unobstructed, OwnerSurfaces
  <2> QED
      BY <2>1, <2>2
<1>12. \A t \in Live' \cap (Registered' \cup ownerRetirements') :
          t = s \/ (t # s /\ t \in Live \cap (Registered \cup ownerRetirements))
    BY <1>3, <1>6, <1>8 DEF Registered, Create, retireVars
<1>13. SurfacesSerialized'
    BY <1>1, <1>2, <1>11, <1>12 DEF SurfacesSerialized, Owner, TypeOK, Live
<1>14. SupersededHasNoAnswer'
    BY <1>5 DEF SupersededHasNoAnswer, Create
<1>15. NoSteeringDeadlock'
    BY <1>2, <1>3, <1>5 DEF NoSteeringDeadlock, Create, Answer, Active, TypeOK
<1> QED
    BY <1>7, <1>9, <1>10, <1>13, <1>14, <1>15

-------------------------------------------------------------------------------
(* The steps of a session *)

(* A browser that is released is awaited by nobody.                          *)
LEMMA ReleaseSound ==
    ASSUME RegistrySound, NEW s \in Sessions, Release(s)
    PROVE  RegistrySound'
<1> USE DEF RegistrySound, RegistryHolds, Release, ForgetRetirement
<1>1. Live' = Live \ {s}
    BY DEF Live, TypeOK
<1>2. outcome' = [outcome EXCEPT ![s] = IF Active(s) THEN "error" ELSE @]
    OBVIOUS
<1>3. outcome' \in [Sessions -> {"none", "final", "error"}]
    BY <1>2 DEF TypeOK
<1>4. TypeOK'
    BY <1>1, <1>3 DEF TypeOK, registryVars
<1>5. EntriesSound'
    BY DEF EntriesSound, Owner, registryVars, TypeOK
<1>6. \A r \in Sessions : ~Active(r) => outcome'[r] = outcome[r] /\ ~Active(r)'
    BY <1>2 DEF TypeOK, Active
<1>7. RetirementsSound'
    BY <1>6 DEF RetirementsSound, TypeOK, Owner, Live
<1>8. SurfacesSerialized'
    BY <1>1 DEF SurfacesSerialized, Registered, Owner, registryVars
<1>9. SupersededHasNoAnswer'
    BY <1>6 DEF SupersededHasNoAnswer, TypeOK, Active
<1>10. NoSteeringDeadlock'
    BY <1>6 DEF NoSteeringDeadlock, TypeOK, Live
<1> QED
    BY <1>4, <1>5, <1>7, <1>8, <1>9, <1>10

(* A session that ends, is told to stop or grows old keeps its browser.      *)
LEMMA SessionSound ==
    ASSUME RegistrySound, NEW s \in Sessions, Settle(s) \/ CancelTrace(s) \/ GrowStale(s)
    PROVE  RegistrySound'
<1> USE DEF RegistrySound, RegistryHolds, registryVars, retireVars, requestVars
<1>1. /\ outcome' \in [Sessions -> {"none", "final", "error"}]
      /\ \A r \in Sessions : ~Active(r) => outcome'[r] = outcome[r] /\ ~Active(r)'
    BY DEF TypeOK, Settle, CancelTrace, CancelWithReason, GrowStale, Active
<1>2. /\ UNCHANGED <<entries, conversationHeads, retirements, ownerRetirements, conversationRetirements, surface,
                     keyOfSession, superseded, attached, pc, awaits, served>>
      /\ cancelled \subseteq cancelled' /\ cancelled' \in SUBSET Sessions /\ stale' \in SUBSET Sessions
    BY DEF TypeOK, Settle, CancelTrace, CancelWithReason, GrowStale
<1>3. Live' = Live
    BY <1>2 DEF Live
<1>4. TypeOK'
    BY <1>1, <1>2, <1>3 DEF TypeOK
<1>5. EntriesSound'
    BY <1>2 DEF EntriesSound, Owner
<1>6. RetirementsSound'
    BY <1>1, <1>2 DEF RetirementsSound, Owner, TypeOK, Live
<1>7. SurfacesSerialized'
    BY <1>2, <1>3 DEF SurfacesSerialized, Registered, Owner
<1>8. SupersededHasNoAnswer'
    BY <1>1, <1>2 DEF SupersededHasNoAnswer, TypeOK, Active
<1>9. NoSteeringDeadlock'
    BY <1>1, <1>2 DEF NoSteeringDeadlock, TypeOK, Live
<1> QED
    BY <1>4, <1>5, <1>6, <1>7, <1>8, <1>9

(* Compaction ends a conversation: its sessions go, but for an answer that   *)
(* stays under another key of its thread.                                    *)
LEMMA CloseSound ==
    ASSUME RegistrySound, NEW c \in Conversations, NEW p \in Sessions \cup {None}, NEW target \in Keys,
           CloseConversation(c, p, target)
    PROVE  RegistrySound'
<1> USE DEF RegistrySound, RegistryHolds, CloseConversation
<1> DEFINE S == Registered \cap InConversation(c)
<1>1. S \in SUBSET Sessions /\ S \subseteq Registered
    BY DEF InConversation, TypeOK
<1>2. p # None => p \in S /\ ownerOf[target] = Owner(p) /\ p \in Sessions
    OBVIOUS
<1>3. cancelled' = cancelled \cup {s \in S : Active(s)} /\ outcome' = outcome
    BY DEF Cancel
<1>4. \A k \in Keys : entries'[k] = IF p # None /\ k = target THEN p ELSE IF entries[k] \in S THEN None ELSE entries[k]
    OBVIOUS
<1>5. Live' = Live
    BY DEF Live
<1>6. TypeOK'
  <2>1. entries' \in [Keys -> Sessions \cup {None}]
      BY <1>2 DEF TypeOK
  <2>2. conversationRetirements' \in [Conversations -> SUBSET Live']
      BY <1>5 DEF TypeOK
  <2>3. /\ cancelled' \in SUBSET Sessions /\ attached' \in SUBSET Sessions
        /\ conversationHeads' \in [Conversations -> Sessions \cup {None}]
      BY <1>1, <1>3 DEF TypeOK
  <2> QED
      BY <1>3, <1>5, <2>1, <2>2, <2>3 DEF TypeOK, requestVars
<1>7. Registered' \subseteq Registered
    BY <1>1, <1>2, <1>4 DEF Registered
<1>8. EntriesSound'
  <2>1. \A s \in Registered : surface[s] # "unused"
      BY DEF EntriesSound, Registered
  <2> QED
      BY <1>1, <1>2, <1>4, <2>1 DEF EntriesSound, Owner
<1>9. RetirementsSound'
    BY <1>3 DEF RetirementsSound, Owner, Active
<1>10. Shrinks
    BY <1>3, <1>7 DEF Shrinks, requestVars
<1> QED
    BY <1>6, <1>8, <1>9, <1>10, ShrinksSound

-------------------------------------------------------------------------------
(* The theorem *)

(* The invariant is inductive.                                               *)
LEMMA RegistrySoundStep == RegistrySound /\ [Next]_vars => RegistrySound'
<1> SUFFICES ASSUME RegistrySound, [Next]_vars PROVE RegistrySound'
    OBVIOUS
<1> USE KeyOfAssumption DEF RegistrySound, RegistryHolds
<1>1. Registered \in SUBSET Sessions
    BY DEF Registered, TypeOK
<1>2. ASSUME NEW q \in Requests, Attach(q) PROVE RegistrySound'
    BY <1>2, LookSound DEF Attach, Answer, TypeOK, NoSteeringDeadlock
<1>3. ASSUME NEW q \in Requests, RefuseSuperseded(q) \/ \E s \in Sessions : RefuseUnproven(q, s)
      PROVE  RegistrySound'
    BY <1>3, LookSound DEF RefuseSuperseded, RefuseUnproven, Answer, TypeOK, NoSteeringDeadlock, sessionVars
<1>4. ASSUME NEW q \in Requests, AwaitRetirement(q) PROVE RegistrySound'
  <2>1. Pending(keyOf[q]) \subseteq ownerRetirements
      BY DEF Pending, OwnerRetirement, RetirementsSound
  <2> QED
      BY <1>4, <2>1, LookSound DEF AwaitRetirement, Wait, TypeOK, NoSteeringDeadlock, RetirementsSound, sessionVars
<1>5. ASSUME NEW q \in Requests, NEW s \in Sessions, AwaitSettlement(q, s) PROVE RegistrySound'
  <2>1. s \in Live
      BY <1>5, InTheWayRetires DEF AwaitSettlement
  <2> QED
      BY <1>5, <2>1, LookSound DEF AwaitSettlement, Steered, Wait, TypeOK, NoSteeringDeadlock, sessionVars
<1>6. ASSUME NEW q \in Requests, NEW s \in Sessions, Supersede(q, s) \/ Create(q, s) PROVE RegistrySound'
    BY <1>6, SupersedeSound, CreateSound
<1>7. ASSUME NEW q \in Requests, RefuseFull(q) PROVE RegistrySound'
    BY <1>7, PruneSound DEF RefuseFull, Answer, TypeOK
<1>8. ASSUME NEW q \in Requests, Abort(q) PROVE RegistrySound'
    BY <1>8, LookSound DEF Abort, TypeOK, NoSteeringDeadlock, sessionVars
<1>9. CASE Prune
    BY <1>9, PruneSound DEF Prune, TypeOK, requestVars
<1>10. CASE Clear
    BY <1>1, <1>10, RetireSound DEF Clear, RetireSessions
<1>11. ASSUME NEW k \in Keys, Retire(k) PROVE RegistrySound'
    BY <1>11, RetireSound DEF Retire, RetireSessions, TypeOK
<1>12. ASSUME NEW k \in Keys, NEW turn \in NativeTurns, RetireAbortedOwnerTurns(k, turn) PROVE RegistrySound'
  <2>1. PICK S \in SUBSET Sessions : RetireSessions(S)
      BY <1>1, <1>12 DEF RetireAbortedOwnerTurns
  <2> QED
      BY <2>1, RetireSound DEF RetireSessions
<1>13. ASSUME NEW turn \in NativeTurns, CancelNativeTurn(turn) PROVE RegistrySound'
  <2> DEFINE S == {s \in Registered : turnOf[keyOfSession[s]] = turn}
  <2>1. S \in SUBSET Sessions
      BY <1>1
  <2> QED
      BY <1>13, <2>1, RetireSound DEF CancelNativeTurn
<1>14. ASSUME NEW c \in Conversations, NEW p \in Sessions \cup {None}, NEW k \in Keys, CloseConversation(c, p, k)
      PROVE  RegistrySound'
    BY <1>14, CloseSound
<1>15. ASSUME NEW s \in Sessions, SessionStep(s) PROVE RegistrySound'
    BY <1>15, ReleaseSound, SessionSound DEF SessionStep
<1>16. CASE UNCHANGED vars
    BY <1>16 DEF vars, registryVars, retireVars, sessionVars, requestVars, TypeOK, SurfacesSerialized,
       SupersededHasNoAnswer, NoSteeringDeadlock, EntriesSound, RetirementsSound, Live, Registered, Owner, Active
<1> QED
    BY <1>2, <1>3, <1>4, <1>5, <1>6, <1>7, <1>8, <1>9, <1>10, <1>11, <1>12, <1>13, <1>14, <1>15, <1>16
    DEF Next, Look, RegistryStep

(* Whatever requests raced, waited, preempted one another or were replayed,  *)
(* a thread has one live browser, a superseded response never becomes an     *)
(* answer, and a request waits only for what ends.                           *)
THEOREM RegistryIsSound == Spec => []RegistryHolds
<1>1. RegistrySound => RegistryHolds
    BY DEF RegistrySound
<1> QED
    BY <1>1, RegistrySoundInit, RegistrySoundStep, PTL DEF Spec
-------------------------------------------------------------------------------
(* The HTTP side of a round: the inductive invariant *)

(* The data of a pipe and of a session is tied together: a response that is  *)
(* open carries text of its session without a gap, its backlog goes on where *)
(* what was sent ends, and an end is queued only behind the whole text.      *)
(* What the session that a request joined has produced, and whether that has an  *)
(* end.                                                                          *)
TextIn(ss, s) == IF s = 0 THEN 0 ELSE ss[s].text
OverIn(ss, s) == s # 0 /\ Len(ss[s].journal) > ss[s].text

(* What is not yet streamed follows what was: the text by its number, the end    *)
(* behind the whole text.                                                        *)
Frames == Events \cup Terminals \cup {Closing}
IsText(s, n) == \A i \in 1..n : s[i] = Delta(i)
Follows(e, place, text, over) ==
    /\ e.kind = "delta" => e = Delta(place)
    /\ e = Done => over /\ place = text + 1
OpenSound(p, text, over) ==
    /\ p.sent \in Seq(Frames) /\ IsText(p.sent, Len(p.sent))
    /\ \A i \in 1..Len(p.backlog) : Follows(p.backlog[i], Len(p.sent) + i, text, over)
ClosedSound(p, text, over, gone) ==
    /\ p.shut /\ p.sent \in Seq(Frames)
    /\ \/ gone /\ IsText(p.sent, Len(p.sent))
       \/ /\ Len(p.sent) > 1 /\ IsText(p.sent, Len(p.sent) - 2)
          /\ p.sent[Len(p.sent)] = Closing /\ p.sent[Len(p.sent) - 1] \in Terminals
          /\ p.sent[Len(p.sent) - 1] = Mark("completed") => over /\ Len(p.sent) = text + 2

IsOpen(p) == p.step \in {"gated", "waiting"}
StreamSound(p, run, gone, text, over) ==
    /\ p.step = "none" => p.sent = <<>>
    /\ p.step = "closed" => ClosedSound(p, text, over, gone) /\ (p.told \/ run = "ended")
    /\ p.step = "waiting" => p.backlog = <<>> /\ ~p.shut
    /\ IsOpen(p) =>
        /\ OpenSound(p, text, over)
        /\ run # "ended" => ~p.shut
        /\ run \in {"off", "starting", "waiting"} => p.sent = <<>> /\ p.backlog = <<>>
        /\ run = "live" => Len(p.sent) + Len(p.backlog) = text
StreamsSound ==
    streamed => \A q \in Posts :
        StreamSound(pipe[q], adapter[q], aborted[q], TextIn(sessions, joined[q]), OverIn(sessions, joined[q]))

(* A session.                                                                    *)
JournalSound(r) ==
    /\ IsText(r.journal, r.text)
    /\ \/ Len(r.journal) = r.text
       \/ Len(r.journal) = r.text + 1 /\ r.journal[r.text + 1] \in {Done, Error}
SessionRecords ==
    [state : {"active", "final", "error", "cancelled", "retiring", "gone"},
     text : 0..MaxEvents, journal : Seq(Events), round : {"open", "completed", "failed"}]
SessionsSound ==
    /\ sessions \in Seq(SessionRecords) /\ \A s \in DOMAIN sessions : JournalSound(sessions[s])
    /\ joined \in [Posts -> 0..Len(sessions)] /\ current \in 0..Len(sessions)

(* One request runs in a session, whose round is not over.                       *)
RunsSound ==
    \A q \in Posts :
        /\ adapter[q] \in {"off", "starting"} => joined[q] = 0
        /\ adapter[q] \in {"waiting", "live"} => joined[q] # 0
        /\ adapter[q] = "live" => ~OverIn(sessions, joined[q])
OneRuns ==
    \A p, q \in Posts : adapter[p] = "live" /\ adapter[q] = "live" /\ joined[p] = joined[q] => p = q

(* The HTTP exchange.                                                            *)
Steps == {"none", "gated", "waiting", "closed"}
IsPipe(p) ==
    /\ p \in [backlog : Seq(Events), shut : BOOLEAN, step : Steps,
              sent : {p.sent}, told : BOOLEAN]
    /\ Len(p.backlog) <= MaxBuffered
PipeOf(b, shut, step, sent, told) ==
    [backlog |-> b, shut |-> shut, step |-> step, sent |-> sent, told |-> told]
WithSent(p, x)    == [p EXCEPT !.sent = x]
WithStep(p, x)    == [p EXCEPT !.step = x]
WithShut(p)       == [p EXCEPT !.shut = TRUE]
WithTold(p, x)    == [p EXCEPT !.told = x]
WithBacklog(p, x) == [p EXCEPT !.backlog = x]
PipesTyped == DOMAIN pipe = Posts /\ \A q \in Posts : IsPipe(pipe[q])
ExchangesTyped ==
    /\ accepting \in BOOLEAN /\ interrupted \in BOOLEAN /\ streamed \in BOOLEAN
    /\ leaving \in {"no", "scheduled", "overtaken", "closing", "gone"}
    /\ lives \in 1..MaxLives
    /\ http \in [Posts -> InFlight \cup {"unsent", "refused", "over"}]
    /\ aborted \in [Posts -> BOOLEAN]
    /\ adapter \in [Posts -> {"off", "starting", "waiting", "live", "ended"}]
ExchangesSound ==
    \A q \in Posts :
        /\ http[q] \in {"unsent", "reading", "refused"} => adapter[q] = "off"
        /\ http[q] \in {"unsent", "reading"} =>
              pipe[q].sent = <<>> /\ pipe[q].backlog = <<>> /\ pipe[q].step = "none" /\ ~pipe[q].shut
        /\ http[q] = "replying" => adapter[q] \in {"off", "ended"}
        /\ http[q] = "streaming" => streamed
        /\ http[q] = "collecting" => ~streamed
ShutdownSound == leaving = "scheduled" => ~accepting /\ Idle

(* The store.                                                                    *)
StoreSound ==
    /\ stored \in Seq(Posts) /\ snapshot \in Seq(Posts)
    /\ Len(stored) <= MaxStored /\ Len(snapshot) <= MaxStored
    /\ loaded \in BOOLEAN /\ unsaved \in BOOLEAN
    /\ ~loaded => stored = <<>> /\ ~unsaved
    /\ loaded => Range(snapshot) \subseteq Range(stored) \/ Len(stored) = MaxStored

RoundSound ==
    /\ ExchangesTyped /\ PipesTyped /\ SessionsSound /\ RunsSound /\ OneRuns /\ StreamsSound
    /\ ExchangesSound /\ InterruptedIsAborted /\ ReleasedIsStopped /\ ShutdownSound
DaemonSound == RoundSound /\ StoreSound

-------------------------------------------------------------------------------
(* The kinds of events and frames are different.                                 *)
LEMMA FramesDiffer ==
    /\ Done \in Events /\ Error \in Events /\ Done # Error
    /\ \A n : Delta(n) \notin Terminals /\ Delta(n) # Done /\ Delta(n) # Error /\ Delta(n).kind = "delta"
    /\ \A e \in Events : e.kind = "delta" \/ e = Done \/ e = Error
    /\ Closing \notin Terminals /\ \A n : Delta(n) # Closing
    /\ Mark("completed") \in Terminals /\ Mark("failed") \in Terminals /\ Mark("incomplete") \in Terminals
    /\ Mark("completed") # Mark("failed") /\ Mark("completed") # Mark("incomplete")
    /\ Terminals \subseteq Frames /\ Closing \in Frames /\ Events \subseteq Frames
BY DEF Done, Error, Mark, Delta, Events, Terminals, Closing, Frames

(* A pipe, field by field.                                                       *)
LEMMA PipeFields ==
    ASSUME NEW p, IsPipe(p)
    PROVE  /\ p.backlog \in Seq(Events) /\ Len(p.backlog) <= MaxBuffered
           /\ p.shut \in BOOLEAN /\ p.told \in BOOLEAN
           /\ p.step \in Steps
BY DEF IsPipe

LEMMA EmptyBacklog == <<>> \in Seq(Events) /\ Len(<<>>) <= MaxBuffered /\ MaxBuffered \in Nat /\ MaxBuffered > 0
BY BoundsAssumption

LEMMA EndsFields ==
    ASSUME NEW p, IsPipe(p), NEW f
    PROVE  /\ IsPipe(Ends(p, f)) /\ Ends(p, f).step = "closed" /\ Ends(p, f).told /\ Ends(p, f).shut
           /\ Ends(p, f).sent = p.sent \o <<f, Closing>> /\ Ends(p, f).backlog = <<>>
<1>1. PICK s, r : s = p.sent \o <<f, Closing>> /\ r = Ends(p, f)
    OBVIOUS
<1>2. r = [backlog |-> <<>>, shut |-> TRUE, step |-> "closed", sent |-> s, told |-> TRUE]
    BY <1>1 DEF Ends
<1>3. r.step = "closed" /\ r.told /\ r.shut /\ r.sent = s /\ r.backlog = <<>>
    BY <1>2
<1>4. r \in [backlog : Seq(Events), shut : BOOLEAN, step : Steps,
              sent : {s}, told : BOOLEAN]
    BY <1>2, EmptyBacklog DEF Steps
<1> QED
    BY <1>1, <1>3, <1>4, EmptyBacklog DEF IsPipe

LEMMA CancelFields ==
    ASSUME NEW p, IsPipe(p), NEW r, r = CancelPipe(p)
    PROVE  IsPipe(r) /\ r.step = "closed" /\ r.told /\ r.shut /\ r.sent = p.sent /\ r.backlog = <<>>
<1>2. r = [backlog |-> <<>>, shut |-> TRUE, step |-> "closed", sent |-> p.sent, told |-> TRUE]
    BY DEF CancelPipe
<1>3. r.step = "closed" /\ r.told /\ r.shut /\ r.sent = p.sent /\ r.backlog = <<>>
    BY <1>2
<1>4. r \in [backlog : Seq(Events), shut : BOOLEAN, step : Steps,
              sent : {p.sent}, told : BOOLEAN]
    BY <1>2, EmptyBacklog DEF Steps
<1> QED
    BY <1>3, <1>4, EmptyBacklog DEF IsPipe

(* What one field is changed to.                                                 *)
LEMMA PipeMade ==
    ASSUME NEW b \in Seq(Events), Len(b) <= MaxBuffered, NEW shut \in BOOLEAN, NEW step \in Steps, NEW sent,
           NEW told \in BOOLEAN
    PROVE  /\ IsPipe(PipeOf(b, shut, step, sent, told))
           /\ PipeOf(b, shut, step, sent, told).backlog = b
           /\ PipeOf(b, shut, step, sent, told).shut = shut
           /\ PipeOf(b, shut, step, sent, told).step = step
           /\ PipeOf(b, shut, step, sent, told).sent = sent
           /\ PipeOf(b, shut, step, sent, told).told = told
<1>1. PICK r : r = PipeOf(b, shut, step, sent, told)
    OBVIOUS
<1>2. r = [backlog |-> b, shut |-> shut, step |-> step, sent |-> sent, told |-> told]
    BY <1>1 DEF PipeOf
<1>3. r.backlog = b /\ r.shut = shut /\ r.step = step /\ r.sent = sent /\ r.told = told
    BY <1>2
<1>4. r \in [backlog : Seq(Events), shut : BOOLEAN, step : Steps, sent : {sent}, told : BOOLEAN]
    BY <1>2
<1> QED
    BY <1>1, <1>3, <1>4 DEF IsPipe

(* One field.                                                                    *)
LEMMA SentField ==
    ASSUME NEW p, IsPipe(p), NEW x
    PROVE  /\ IsPipe(WithSent(p, x)) /\ WithSent(p, x).sent = x
           /\ WithSent(p, x).backlog = p.backlog /\ WithSent(p, x).shut = p.shut
           /\ WithSent(p, x).step = p.step /\ WithSent(p, x).told = p.told
<1>1. PICK r : r = WithSent(p, x)
    OBVIOUS
<1>2. r = PipeOf(p.backlog, p.shut, p.step, x, p.told)
    BY <1>1 DEF WithSent, IsPipe, PipeOf
<1> QED
    BY <1>1, <1>2, PipeFields, PipeMade

LEMMA StepField ==
    ASSUME NEW p, IsPipe(p), NEW x \in Steps
    PROVE  /\ IsPipe(WithStep(p, x)) /\ WithStep(p, x).step = x
           /\ WithStep(p, x).backlog = p.backlog /\ WithStep(p, x).shut = p.shut
           /\ WithStep(p, x).sent = p.sent /\ WithStep(p, x).told = p.told
<1>1. PICK r : r = WithStep(p, x)
    OBVIOUS
<1>2. r = PipeOf(p.backlog, p.shut, x, p.sent, p.told)
    BY <1>1 DEF WithStep, IsPipe, PipeOf
<1> QED
    BY <1>1, <1>2, PipeFields, PipeMade

LEMMA ShutField ==
    ASSUME NEW p, IsPipe(p)
    PROVE  /\ IsPipe(WithShut(p)) /\ WithShut(p).shut
           /\ WithShut(p).backlog = p.backlog /\ WithShut(p).step = p.step
           /\ WithShut(p).sent = p.sent /\ WithShut(p).told = p.told
<1>1. PICK r : r = WithShut(p)
    OBVIOUS
<1>2. r = [backlog |-> p.backlog, shut |-> TRUE, step |-> p.step, sent |-> p.sent, told |-> p.told]
    BY <1>1 DEF WithShut, IsPipe
<1>3. r.sent = p.sent /\ r.backlog = p.backlog /\ r.shut /\ r.step = p.step /\ r.told = p.told
    BY <1>2
<1>4. r \in [backlog : Seq(Events), shut : BOOLEAN, step : Steps, sent : {p.sent}, told : BOOLEAN]
    BY <1>2, PipeFields
<1> QED
    BY <1>1, <1>2, <1>3, <1>4, PipeFields DEF IsPipe

LEMMA ToldField ==
    ASSUME NEW p, IsPipe(p), NEW x \in BOOLEAN
    PROVE  /\ IsPipe(WithTold(p, x)) /\ WithTold(p, x).told = x
           /\ WithTold(p, x).backlog = p.backlog /\ WithTold(p, x).shut = p.shut
           /\ WithTold(p, x).step = p.step /\ WithTold(p, x).sent = p.sent
<1>1. PICK r : r = WithTold(p, x)
    OBVIOUS
<1>2. r = PipeOf(p.backlog, p.shut, p.step, p.sent, x)
    BY <1>1 DEF WithTold, IsPipe, PipeOf
<1> QED
    BY <1>1, <1>2, PipeFields, PipeMade

LEMMA BacklogField ==
    ASSUME NEW p, IsPipe(p), NEW x \in Seq(Events), Len(x) <= MaxBuffered
    PROVE  /\ IsPipe(WithBacklog(p, x)) /\ WithBacklog(p, x).backlog = x
           /\ WithBacklog(p, x).shut = p.shut /\ WithBacklog(p, x).step = p.step
           /\ WithBacklog(p, x).sent = p.sent /\ WithBacklog(p, x).told = p.told
<1>1. PICK r : r = WithBacklog(p, x)
    OBVIOUS
<1>2. r = PipeOf(x, p.shut, p.step, p.sent, p.told)
    BY <1>1 DEF WithBacklog, IsPipe, PipeOf
<1> QED
    BY <1>1, <1>2, PipeFields, PipeMade

-------------------------------------------------------------------------------
(* What one event, the end of the adapter and a batch make of a pipe.            *)
LEMMA TwoMore ==
    ASSUME NEW s \in Seq(Frames), NEW f \in Frames, NEW t, t = s \o <<f, Closing>>
    PROVE  /\ t \in Seq(Frames) /\ Len(t) = Len(s) + 2 /\ Len(s) \in Nat
           /\ \A i \in 1..Len(s) : t[i] = s[i]
           /\ t[Len(s) + 1] = f /\ t[Len(s) + 2] = Closing
<1>1. Closing \in Frames
    BY FramesDiffer
<1>2. PICK u : u = <<f, Closing>>
    OBVIOUS
<1>3. u \in Seq(Frames) /\ Len(u) = 2 /\ u[1] = f /\ u[2] = Closing
    BY <1>1, <1>2
<1>4. t = s \o u
    BY <1>2
<1>5. t \in Seq(Frames) /\ Len(t) = Len(s) + 2 /\ Len(s) \in Nat /\ \A i \in 1..Len(s) : t[i] = s[i]
    BY <1>3, <1>4
<1>6. t[Len(s) + 1] = u[1] /\ t[Len(s) + 2] = u[2]
    BY <1>3, <1>4
<1> QED
    BY <1>3, <1>5, <1>6

LEMMA ClosedMade ==
    ASSUME NEW sent \in Seq(Frames), IsText(sent, Len(sent)), NEW f \in Terminals, NEW text \in Nat, NEW over, NEW gone,
           f = Mark("completed") => over /\ Len(sent) = text,
           NEW r, r.shut, r.sent = sent \o <<f, Closing>>
    PROVE  ClosedSound(r, text, over, gone)
<1>1. PICK t : t = r.sent
    OBVIOUS
<1>2. /\ t \in Seq(Frames) /\ Len(t) = Len(sent) + 2 /\ Len(sent) \in Nat
      /\ \A i \in 1..Len(sent) : t[i] = sent[i]
      /\ t[Len(sent) + 1] = f /\ t[Len(sent) + 2] = Closing
    BY <1>1, TwoMore, FramesDiffer
<1>3. Len(t) > 1 /\ Len(t) - 2 = Len(sent) /\ Len(t) - 1 = Len(sent) + 1
    BY <1>2
<1>4. IsText(t, Len(t) - 2)
    BY <1>2, <1>3 DEF IsText
<1>5. t[Len(t)] = Closing /\ t[Len(t) - 1] = f
    BY <1>2, <1>3
<1>6. f = Mark("completed") => over /\ Len(t) = text + 2
    BY <1>2
<1> QED
    BY <1>1, <1>2, <1>3, <1>4, <1>5, <1>6 DEF ClosedSound

LEMMA EofFields ==
    ASSUME NEW p, IsPipe(p), p.sent \in Seq(Frames), IsText(p.sent, Len(p.sent)), p.shut,
           NEW text \in Nat, NEW over, NEW gone
    PROVE  LET r == Eof(p)
           IN  /\ IsPipe(r) /\ r.step = "closed" /\ r.told = p.told /\ r.shut
               /\ ClosedSound(r, text, over, gone)
<1>1. PICK x, r : x = p.sent \o <<Mark("incomplete"), Closing>> /\ r = Eof(p)
    OBVIOUS
<1>2. r = WithStep(WithSent(p, x), "closed")
    BY <1>1 DEF Eof, WithStep, WithSent
<1>3. IsPipe(r) /\ r.step = "closed" /\ r.sent = x /\ r.shut = p.shut /\ r.told = p.told
  <2>1. PICK p1 : p1 = WithSent(p, x)
      OBVIOUS
  <2>2. IsPipe(p1) /\ p1.sent = x /\ p1.shut = p.shut /\ p1.told = p.told
      BY <2>1, SentField
  <2>3. r = WithStep(p1, "closed")
      BY <1>2, <2>1
  <2>4. IsPipe(r) /\ r.step = "closed" /\ r.sent = p1.sent /\ r.shut = p1.shut /\ r.told = p1.told
      BY <2>2, <2>3, StepField DEF Steps
  <2> QED
      BY <2>2, <2>4
<1>4. ClosedSound(r, text, over, gone)
    BY <1>1, <1>3, ClosedMade, FramesDiffer
<1> QED
    BY <1>1, <1>3, <1>4

LEMMA HandleSound ==
    ASSUME NEW p, IsPipe(p), NEW e \in Events, NEW text \in Nat, NEW over, NEW gone,
           p.sent \in Seq(Frames), IsText(p.sent, Len(p.sent)), Follows(e, Len(p.sent) + 1, text, over),
           \A i \in 1..Len(p.backlog) : Follows(p.backlog[i], Len(p.sent) + 1 + i, text, over)
    PROVE  LET r == Handle(p, e)
           IN  /\ IsPipe(r)
               /\ \/ /\ r.step = "gated" /\ OpenSound(r, text, over) /\ Len(r.sent) = Len(p.sent) + 1
                     /\ r.backlog = p.backlog /\ r.shut = p.shut /\ r.told = p.told
                  \/ r.step = "closed" /\ r.told /\ ClosedSound(r, text, over, gone)
<1>0. PICK r : r = Handle(p, e)
    OBVIOUS
<1>1. ASSUME NEW f \in Terminals, r = Ends(p, f), f = Mark("completed") => over /\ Len(p.sent) = text
      PROVE  IsPipe(r) /\ r.step = "closed" /\ r.told /\ ClosedSound(r, text, over, gone)
    BY <1>1, EndsFields, ClosedMade
<1>2. CASE e = Done
  <2>1. r = Ends(p, Mark("completed"))
      BY <1>0, <1>2, FramesDiffer DEF Handle
  <2>2. over /\ Len(p.sent) = text
      <3>1. over /\ Len(p.sent) + 1 = text + 1
          BY <1>2 DEF Follows
      <3>2. Len(p.sent) \in Nat
          OBVIOUS
      <3> QED
          BY <3>1, <3>2
  <2> QED
      BY <1>0, <1>1, <2>1, <2>2, FramesDiffer
<1>3. CASE e = Error
  <2>1. r = Ends(p, Mark("failed"))
      BY <1>0, <1>3, FramesDiffer DEF Handle
  <2> QED
      BY <1>0, <1>1, <2>1, FramesDiffer
<1>4. CASE e.kind = "delta"
  <2>1. PICK x : x = Append(p.sent, e)
      OBVIOUS
  <2>2. e # Done /\ e # Error
      BY <1>4 DEF Done, Error, Mark
  <2>3. r = WithStep(WithSent(p, x), "gated")
      BY <1>0, <2>1, <2>2 DEF Handle, WithStep, WithSent
  <2>4. IsPipe(r) /\ r.step = "gated" /\ r.sent = x /\ r.backlog = p.backlog /\ r.shut = p.shut /\ r.told = p.told
      BY <2>3, SentField, StepField DEF Steps
  <2>5. e = Delta(Len(p.sent) + 1) /\ e \in Frames /\ Len(p.sent) \in Nat
      BY <1>4, FramesDiffer DEF Follows
  <2>6. /\ x \in Seq(Frames) /\ Len(x) = Len(p.sent) + 1 /\ x[Len(p.sent) + 1] = e
        /\ \A i \in 1..Len(p.sent) : x[i] = p.sent[i]
      BY <2>1, <2>5
  <2>7. IsText(x, Len(x))
      BY <2>5, <2>6 DEF IsText
  <2>8. OpenSound(r, text, over)
      BY <2>4, <2>6, <2>7 DEF OpenSound
  <2> QED
      BY <1>0, <2>4, <2>6, <2>8
<1> QED
    BY <1>2, <1>3, <1>4, FramesDiffer

(* Whatever a pipe has sent, it stays a pipe, and what was told stays told.      *)
LEMMA HandleTyped ==
    ASSUME NEW p, IsPipe(p), NEW e \in Events
    PROVE  IsPipe(Handle(p, e)) /\ (p.told => Handle(p, e).told)
<1>1. CASE e = Done
    BY <1>1, FramesDiffer, EndsFields DEF Handle
<1>2. CASE e = Error
    BY <1>2, FramesDiffer, EndsFields DEF Handle
<1>3. CASE e # Done /\ e # Error
  <2>1. PICK x, p1, r : x = Append(p.sent, e) /\ p1 = WithSent(p, x) /\ r = Handle(p, e)
      OBVIOUS
  <2>2. r = WithStep(p1, "gated")
      BY <1>3, <2>1 DEF Handle, WithStep, WithSent
  <2>3. IsPipe(p1) /\ p1.told = p.told
      BY <2>1, SentField
  <2>4. IsPipe(r) /\ r.told = p1.told
      BY <2>2, <2>3, StepField DEF Steps
  <2> QED
      BY <2>1, <2>3, <2>4
<1> QED
    BY <1>1, <1>2, <1>3

Held(all) == IF Len(all) <= MaxBuffered THEN all ELSE SubSeq(all, 1, MaxBuffered)

LEMMA HeldPart ==
    ASSUME NEW all \in Seq(Events)
    PROVE  /\ Held(all) \in Seq(Events) /\ Len(Held(all)) <= MaxBuffered /\ Len(Held(all)) <= Len(all)
           /\ \A i \in 1..Len(Held(all)) : Held(all)[i] = all[i]
           /\ Len(all) <= MaxBuffered => Len(Held(all)) = Len(all)
<1>1. Len(all) \in Nat /\ MaxBuffered \in Nat
    BY EmptyBacklog
<1>2. CASE Len(all) <= MaxBuffered
    BY <1>1, <1>2 DEF Held
<1>3. CASE ~(Len(all) <= MaxBuffered)
  <2>1. PICK c : c = SubSeq(all, 1, MaxBuffered)
      OBVIOUS
  <2>2. Held(all) = c
      BY <1>3, <2>1 DEF Held
  <2>3. \A i \in 1..MaxBuffered : i \in 1..Len(all)
      BY <1>1, <1>3
  <2>4. c \in Seq(Events)
      BY <1>1, <2>1, <2>3
  <2>5. Len(c) = MaxBuffered
      BY <1>1, <2>1, EmptyBacklog
  <2>6. \A i \in 1..MaxBuffered : c[i] = all[i]
      BY <1>1, <2>1, EmptyBacklog
  <2> QED
      BY <1>1, <1>3, <2>2, <2>4, <2>5, <2>6
<1> QED
    BY <1>2, <1>3

LEMMA BatchSplits ==
    ASSUME NEW batch \in Seq(Events), batch # <<>>
    PROVE  /\ Head(batch) \in Events /\ Tail(batch) \in Seq(Events) /\ Head(batch) = batch[1]
           /\ Len(batch) \in Nat /\ Len(batch) > 0 /\ Len(Tail(batch)) = Len(batch) - 1
           /\ \A i \in 1..Len(Tail(batch)) : Tail(batch)[i] = batch[1 + i]
<1>1. Len(batch) \in Nat /\ Len(batch) > 0
    OBVIOUS
<1>2. Head(batch) = batch[1] /\ batch[1] \in Events
    BY <1>1
<1>3. Tail(batch) \in Seq(Events) /\ Len(Tail(batch)) = Len(batch) - 1
    BY <1>1
<1>4. \A i \in 1..Len(Tail(batch)) : Tail(batch)[i] = batch[1 + i]
    BY <1>1, <1>3
<1> QED
    BY <1>1, <1>2, <1>3, <1>4

LEMMA BacklogTyped ==
    ASSUME NEW p, IsPipe(p), NEW batch \in Seq(Events), batch # <<>>
    PROVE  Backlog(p, batch) \in Seq(Events)
<1>1. p.backlog \in Seq(Events) /\ Tail(batch) \in Seq(Events)
    BY PipeFields, BatchSplits
<1>2. PICK more : more = IF p.step = "waiting" THEN Tail(batch) ELSE batch
    OBVIOUS
<1>3. more \in Seq(Events) /\ Backlog(p, batch) = p.backlog \o more
    BY <1>1, <1>2 DEF Backlog
<1> QED
    BY <1>1, <1>3

LEMMA FeedIs ==
    ASSUME NEW p, IsPipe(p), NEW batch \in Seq(Events)
    PROVE  IF p.shut \/ batch = <<>> THEN Feed(p, batch) = p
           ELSE LET held == WithBacklog(p, Held(Backlog(p, batch)))
                IN  Feed(p, batch) = IF p.step = "waiting" THEN Handle(held, Head(batch)) ELSE held
BY DEF Feed, WithBacklog, Held

LEMMA FeedTyped ==
    ASSUME NEW p, IsPipe(p), NEW batch \in Seq(Events)
    PROVE  IsPipe(Feed(p, batch)) /\ (p.told => Feed(p, batch).told)
<1>1. CASE p.shut \/ batch = <<>>
    BY <1>1, FeedIs
<1>2. CASE ~p.shut /\ batch # <<>>
  <2>1. PICK c, held, r : c = Held(Backlog(p, batch)) /\ held = WithBacklog(p, c) /\ r = Feed(p, batch)
      OBVIOUS
  <2>2. c \in Seq(Events) /\ Len(c) <= MaxBuffered
      BY <1>2, <2>1, BacklogTyped, HeldPart
  <2>3. IsPipe(held) /\ held.told = p.told
      BY <2>1, <2>2, BacklogField
  <2>4. r = IF p.step = "waiting" THEN Handle(held, Head(batch)) ELSE held
      BY <1>2, <2>1, FeedIs
  <2>5. Head(batch) \in Events
      BY <1>2, BatchSplits
  <2>6. IsPipe(Handle(held, Head(batch))) /\ (held.told => Handle(held, Head(batch)).told)
      BY <2>3, <2>5, HandleTyped
  <2> QED
      BY <2>1, <2>3, <2>4, <2>6
<1> QED
    BY <1>1, <1>2

(* What a batch makes of an open stream, when each of its events follows.        *)
LEMMA FeedSound ==
    ASSUME NEW p, IsPipe(p), NEW batch \in Seq(Events), NEW text \in Nat, NEW over, NEW gone,
           IsOpen(p), OpenSound(p, text, over), p.step = "waiting" => p.backlog = <<>> /\ ~p.shut,
           \A i \in 1..Len(batch) : Follows(batch[i], Len(p.sent) + Len(p.backlog) + i, text, over)
    PROVE  LET r == Feed(p, batch)
           IN  \/ /\ IsOpen(r) /\ OpenSound(r, text, over) /\ r.shut = p.shut /\ r.told = p.told
                  /\ r.step = "waiting" => r.backlog = <<>> /\ ~r.shut
                  /\ ~p.shut /\ ~Overflows(p, batch)
                       => Len(r.sent) + Len(r.backlog) = Len(p.sent) + Len(p.backlog) + Len(batch)
               \/ r.step = "closed" /\ r.told /\ ClosedSound(r, text, over, gone)
<1>0. p.backlog \in Seq(Events) /\ Len(p.backlog) \in Nat /\ Len(batch) \in Nat
    BY PipeFields
<1>00. p.sent \in Seq(Frames) /\ Len(p.sent) \in Nat
    BY DEF OpenSound
<1>1. CASE p.shut \/ batch = <<>>
  <2>1. Feed(p, batch) = p
      BY <1>1, FeedIs
  <2>2. batch = <<>> => Len(batch) = 0
      OBVIOUS
  <2>3. \A a \in Nat : a + 0 = a
      OBVIOUS
  <2>4. Len(p.sent) + Len(p.backlog) \in Nat
    <3>1. \A a, b \in Nat : a + b \in Nat
        OBVIOUS
    <3> QED
        BY <1>0, <1>00, <3>1
  <2>5. ~p.shut => Len(p.sent) + Len(p.backlog) = Len(p.sent) + Len(p.backlog) + Len(batch)
      BY <1>1, <2>2, <2>3, <2>4
  <2> QED
      BY <2>1, <2>5
<1>2. CASE ~p.shut /\ batch # <<>>
  <2>1. PICK all, c, held, r : all = Backlog(p, batch) /\ c = Held(all) /\ held = WithBacklog(p, c) /\ r = Feed(p, batch)
      OBVIOUS
  <2>2. /\ all \in Seq(Events) /\ c \in Seq(Events) /\ Len(c) <= MaxBuffered /\ Len(c) <= Len(all) /\ Len(c) \in Nat
        /\ \A i \in 1..Len(c) : c[i] = all[i]
        /\ Len(all) <= MaxBuffered => Len(c) = Len(all)
      BY <1>2, <2>1, BacklogTyped, HeldPart
  <2>3. /\ IsPipe(held) /\ held.backlog = c /\ held.sent = p.sent /\ held.told = p.told /\ held.shut = p.shut
        /\ held.step = p.step
      BY <2>1, <2>2, BacklogField
  <2>4. r = IF p.step = "waiting" THEN Handle(held, Head(batch)) ELSE held
      BY <1>2, <2>1, FeedIs
  <2>5. ~Overflows(p, batch) => Len(c) = Len(all)
      BY <1>2, <2>1, <2>2, EmptyBacklog DEF Overflows
  <2>6. CASE p.step = "waiting"
    <3>1. p.backlog = <<>> /\ Len(p.backlog) = 0
        BY <2>6
    <3>2. /\ Head(batch) \in Events /\ Tail(batch) \in Seq(Events) /\ Head(batch) = batch[1]
          /\ Len(batch) > 0 /\ Len(Tail(batch)) = Len(batch) - 1
          /\ \A i \in 1..Len(Tail(batch)) : Tail(batch)[i] = batch[1 + i]
        BY <1>2, BatchSplits
    <3>3. PICK e, rest : e = Head(batch) /\ rest = Tail(batch)
        OBVIOUS
    <3>4. all = rest
        BY <2>1, <2>6, <3>1, <3>2, <3>3 DEF Backlog
    <3>5. Follows(e, Len(p.sent) + 1, text, over)
        BY <1>0, <1>00, <3>1, <3>2, <3>3
    <3>6. \A i \in 1..Len(c) : Follows(c[i], Len(p.sent) + 1 + i, text, over)
      <4>1. TAKE i \in 1..Len(c)
      <4>1a. Len(c) <= Len(rest) /\ Len(rest) = Len(batch) - 1 /\ Len(c) \in Nat
          BY <2>2, <3>2, <3>3, <3>4
      <4>1b. i \in 1..Len(rest)
          BY <1>0, <4>1a
      <4>1c. 1 + i \in 1..Len(batch)
          BY <1>0, <4>1a
      <4>2. c[i] = batch[1 + i]
          BY <2>2, <3>2, <3>3, <3>4, <4>1b
      <4>3. Len(p.sent) + Len(p.backlog) + (1 + i) = Len(p.sent) + 1 + i
        <5>1. \A n \in Nat : n + 0 + (1 + i) = n + 1 + i
            OBVIOUS
        <5> QED
            BY <1>00, <3>1, <5>1
      <4> QED
          BY <4>1c, <4>2, <4>3
    <3>7. IsText(held.sent, Len(held.sent))
        BY <2>3 DEF OpenSound
    <3>8. r = Handle(held, e) /\ e \in Events
        BY <2>4, <2>6, <3>2, <3>3
    <3>9. \/ /\ r.step = "gated" /\ OpenSound(r, text, over) /\ Len(r.sent) = Len(held.sent) + 1
             /\ r.backlog = held.backlog /\ r.shut = held.shut /\ r.told = held.told
          \/ r.step = "closed" /\ r.told /\ ClosedSound(r, text, over, gone)
        BY <1>00, <2>3, <3>5, <3>6, <3>7, <3>8, HandleSound
    <3>10. Len(c) = Len(all) => Len(held.sent) + 1 + Len(held.backlog) = Len(p.sent) + Len(p.backlog) + Len(batch)
        BY <1>0, <1>00, <2>2, <2>3, <3>1, <3>2, <3>3, <3>4
    <3>11. r.step = "gated" => IsOpen(r) /\ r.step # "waiting"
        BY DEF IsOpen
    <3> QED
        BY <2>1, <2>3, <2>5, <3>9, <3>10, <3>11
  <2>7. CASE p.step # "waiting"
    <3>1. all = p.backlog \o batch
        BY <2>1, <2>7 DEF Backlog
    <3>2. Len(all) = Len(p.backlog) + Len(batch)
        BY <1>0, <3>1
    <3>3. \A i \in 1..Len(all) : all[i] = IF i <= Len(p.backlog) THEN p.backlog[i] ELSE batch[i - Len(p.backlog)]
        BY <1>0, <3>1, <3>2
    <3>4. \A i \in 1..Len(c) : Follows(c[i], Len(p.sent) + i, text, over)
      <4>1. TAKE i \in 1..Len(c)
      <4>2. i \in 1..Len(all) /\ c[i] = all[i] /\ i \in Nat /\ i > 0
          BY <2>2
      <4>3. CASE i <= Len(p.backlog)
        <5>1. c[i] = p.backlog[i] /\ i \in 1..Len(p.backlog)
            BY <1>0, <3>3, <4>2, <4>3
        <5> QED
            BY <5>1 DEF OpenSound
      <4>4. CASE ~(i <= Len(p.backlog))
        <5>1. PICK j : j = i - Len(p.backlog)
            OBVIOUS
        <5>1a. i <= Len(p.backlog) + Len(batch)
            BY <3>2, <4>2
        <5>1b. j \in 1..Len(batch)
            BY <1>0, <4>2, <4>4, <5>1, <5>1a
        <5>1c. \A n, b \in Nat : n + b + (i - b) = n + i
            BY <4>2
        <5>1d. Len(p.sent) + Len(p.backlog) + j = Len(p.sent) + i
            BY <1>0, <1>00, <5>1, <5>1c
        <5>2. j \in 1..Len(batch) /\ Len(p.sent) + Len(p.backlog) + j = Len(p.sent) + i
            BY <5>1b, <5>1d
        <5>3. c[i] = batch[j]
            BY <3>3, <4>2, <4>4, <5>1
        <5> QED
            BY <5>2, <5>3
      <4> QED
          BY <4>3, <4>4
    <3>5. r = held
        BY <2>4, <2>7
    <3>6. OpenSound(r, text, over)
        BY <2>3, <3>4, <3>5 DEF OpenSound
    <3>7. IsOpen(r) /\ r.step # "waiting"
        BY <2>3, <2>7, <3>5 DEF IsOpen
    <3>8. Len(c) = Len(all) => Len(r.sent) + Len(r.backlog) = Len(p.sent) + Len(p.backlog) + Len(batch)
      <4>1. Len(c) = Len(all) => Len(r.sent) + Len(r.backlog) = Len(p.sent) + (Len(p.backlog) + Len(batch))
          BY <2>3, <3>2, <3>5
      <4>2. \A n, b, l \in Nat : n + (b + l) = n + b + l
          OBVIOUS
      <4> QED
          BY <1>0, <1>00, <4>1, <4>2
    <3> QED
        BY <2>1, <2>3, <2>5, <3>5, <3>6, <3>7, <3>8
  <2> QED
      BY <2>6, <2>7
<1> QED
    BY <1>1, <1>2

(* The run that ends closes the queue.                                           *)
LEMMA CloseTyped ==
    ASSUME NEW p, IsPipe(p)
    PROVE  IsPipe(Close(p)) /\ (p.told => Close(p).told)
<1>1. PICK s : s = WithShut(p)
    OBVIOUS
<1>2. IsPipe(s) /\ s.told = p.told
    BY <1>1, ShutField
<1>3. Close(p) = s \/ Close(p) = Eof(s)
    BY <1>1 DEF Close, WithShut
<1>4. IsPipe(Eof(s)) /\ Eof(s).told = s.told
  <2>1. PICK x, p1, r : x = s.sent \o <<Mark("incomplete"), Closing>> /\ p1 = WithSent(s, x) /\ r = Eof(s)
      OBVIOUS
  <2>2. r = WithStep(p1, "closed")
      BY <2>1 DEF Eof, WithStep, WithSent
  <2>3. IsPipe(p1) /\ p1.told = s.told
      BY <1>2, <2>1, SentField
  <2>4. IsPipe(r) /\ r.told = p1.told
      BY <2>2, <2>3, StepField DEF Steps
  <2> QED
      BY <2>1, <2>3, <2>4
<1> QED
    BY <1>2, <1>3, <1>4

LEMMA PipeCloseSound ==
    ASSUME NEW p, IsPipe(p), IsOpen(p), NEW text \in Nat, NEW over, NEW gone, OpenSound(p, text, over),
           p.step = "waiting" => p.backlog = <<>> /\ ~p.shut
    PROVE  LET r == Close(p)
           IN  \/ r.step = "gated" /\ r.shut /\ OpenSound(r, text, over)
               \/ r.step = "closed" /\ ClosedSound(r, text, over, gone)
<1>1. PICK s : s = WithShut(p)
    OBVIOUS
<1>2. IsPipe(s) /\ s.shut /\ s.sent = p.sent /\ s.backlog = p.backlog /\ s.step = p.step
    BY <1>1, ShutField
<1>3. p.sent \in Seq(Frames) /\ IsText(p.sent, Len(p.sent))
    BY DEF OpenSound
<1>4. CASE p.step = "waiting"
  <2>1. Close(p) = Eof(s)
      BY <1>1, <1>4 DEF Close, WithShut
  <2> QED
      BY <1>2, <1>3, <2>1, EofFields
<1>5. CASE p.step # "waiting"
  <2>1. Close(p) = s
      BY <1>1, <1>5 DEF Close, WithShut
  <2> QED
      BY <1>2, <1>5, <2>1 DEF IsOpen, OpenSound
<1> QED
    BY <1>4, <1>5

-------------------------------------------------------------------------------
(* A stream under a change of its run, its session and its request.              *)

(* What followed the text of a session still does when an end came.              *)
LEMMA FollowsKept ==
    ASSUME NEW p, NEW text, NEW over, NEW text2, NEW over2, over => over2 /\ text2 = text,
           OpenSound(p, text, over)
    PROVE  OpenSound(p, text2, over2)
BY DEF OpenSound, Follows

LEMMA ClosedKept ==
    ASSUME NEW p, NEW text, NEW over, NEW gone, NEW text2, NEW over2, NEW gone2,
           over => over2 /\ text2 = text, gone => gone2, ClosedSound(p, text, over, gone)
    PROVE  ClosedSound(p, text2, over2, gone2)
BY DEF ClosedSound

LEMMA StreamKept ==
    ASSUME NEW p, NEW run, NEW text, NEW over, NEW gone, NEW run2, NEW text2, NEW over2, NEW gone2,
           StreamSound(p, run, gone, text, over),
           over => over2 /\ text2 = text, gone => gone2,
           run2 = run \/ (run = "starting" /\ run2 = "waiting"),
           run = "live" => text2 = text
    PROVE  StreamSound(p, run2, gone2, text2, over2)
<1>1. p.step = "none" => p.sent = <<>>
    BY DEF StreamSound
<1>2. p.step = "closed" => ClosedSound(p, text2, over2, gone2) /\ (p.told \/ run2 = "ended")
    BY ClosedKept DEF StreamSound
<1>3. p.step = "waiting" => p.backlog = <<>> /\ ~p.shut
    BY DEF StreamSound
<1>4. IsOpen(p) => OpenSound(p, text2, over2)
    BY FollowsKept DEF StreamSound
<1>5. IsOpen(p) => (run2 # "ended" => ~p.shut)
    BY DEF StreamSound
<1>6. IsOpen(p) => (run2 \in {"off", "starting", "waiting"} => p.sent = <<>> /\ p.backlog = <<>>)
    BY DEF StreamSound
<1>7. IsOpen(p) => (run2 = "live" => Len(p.sent) + Len(p.backlog) = text2)
    BY DEF StreamSound
<1> QED
    BY <1>1, <1>2, <1>3, <1>4, <1>5, <1>6, <1>7 DEF StreamSound

(* How much of the text a stream holds that a run can still feed.                *)
Base(run, text) == IF run = "live" THEN text ELSE 0

AllOf(text2, run, text, batch) == text2 = Base(run, text) + Len(batch)

LEMMA BaseIs ==
    ASSUME NEW p, IsPipe(p), NEW run \in {"starting", "waiting", "live"}, NEW text \in Nat, NEW over, NEW gone,
           StreamSound(p, run, gone, text, over), IsOpen(p)
    PROVE  Len(p.sent) + Len(p.backlog) = Base(run, text) /\ ~p.shut
<1>1. ~p.shut
    BY DEF StreamSound
<1>2. CASE run = "live"
    BY <1>1, <1>2 DEF StreamSound, Base
<1>3. CASE run # "live"
  <2>1. p.sent = <<>> /\ p.backlog = <<>>
      BY <1>3 DEF StreamSound
  <2>2. Len(p.sent) = 0 /\ Len(p.backlog) = 0
      BY <2>1
  <2> QED
      BY <1>1, <1>3, <2>2 DEF Base
<1> QED
    BY <1>2, <1>3

(* A run that goes on feeds the stream what its session produced.                *)
LEMMA FedSound ==
    ASSUME NEW p, IsPipe(p), NEW run \in {"starting", "waiting", "live"}, NEW text \in Nat, NEW over, NEW gone,
           StreamSound(p, run, gone, text, over),
           NEW text2 \in Nat, NEW over2, over => over2 /\ text2 = text,
           NEW batch \in Seq(Events),
           \A i \in 1..Len(batch) : Follows(batch[i], Base(run, text) + i, text2, over2)
    PROVE  LET r == Feed(p, batch)
           IN  /\ StreamSound(Close(r), "ended", gone, text2, over2)
               /\ ~Overflows(p, batch) /\ AllOf(text2, run, text, batch)
                    => StreamSound(r, "live", gone, text2, over2)
<1>0. PICK r : r = Feed(p, batch)
    OBVIOUS
<1>1. IsPipe(r)
    BY <1>0, FeedTyped
<1>2. CASE IsOpen(p)
  <2>1. Len(p.sent) + Len(p.backlog) = Base(run, text) /\ ~p.shut
      BY <1>2, BaseIs
  <2>2. OpenSound(p, text2, over2)
      BY <1>2, FollowsKept DEF StreamSound
  <2>3. p.step = "waiting" => p.backlog = <<>> /\ ~p.shut
      BY DEF StreamSound
  <2>4. \A i \in 1..Len(batch) : Follows(batch[i], Len(p.sent) + Len(p.backlog) + i, text2, over2)
      BY <2>1
  <2>5. \/ /\ IsOpen(r) /\ OpenSound(r, text2, over2) /\ r.shut = p.shut /\ r.told = p.told
           /\ r.step = "waiting" => r.backlog = <<>> /\ ~r.shut
           /\ ~p.shut /\ ~Overflows(p, batch)
                => Len(r.sent) + Len(r.backlog) = Len(p.sent) + Len(p.backlog) + Len(batch)
        \/ r.step = "closed" /\ r.told /\ ClosedSound(r, text2, over2, gone)
      BY <1>0, <1>2, <2>2, <2>3, <2>4, FeedSound
  <2>6. CASE r.step = "closed" /\ r.told /\ ClosedSound(r, text2, over2, gone)
    <3>1. ~IsOpen(r) /\ r.step # "none" /\ r.step # "waiting"
        BY <2>6 DEF IsOpen
    <3>2. StreamSound(r, "live", gone, text2, over2)
        BY <2>6, <3>1 DEF StreamSound
    <3>3. Close(r) = WithShut(r)
        BY <3>1 DEF Close, WithShut
    <3>4. PICK s : s = WithShut(r)
        OBVIOUS
    <3>5. s.shut /\ s.step = "closed" /\ s.sent = r.sent
        BY <1>1, <2>6, <3>4, ShutField
    <3>6. ClosedSound(s, text2, over2, gone)
        BY <2>6, <3>5 DEF ClosedSound
    <3>7. StreamSound(s, "ended", gone, text2, over2)
        BY <3>5, <3>6 DEF StreamSound, IsOpen
    <3> QED
        BY <1>0, <3>2, <3>3, <3>4, <3>7
  <2>7. CASE /\ IsOpen(r) /\ OpenSound(r, text2, over2) /\ r.shut = p.shut
             /\ r.step = "waiting" => r.backlog = <<>> /\ ~r.shut
             /\ ~p.shut /\ ~Overflows(p, batch)
                  => Len(r.sent) + Len(r.backlog) = Len(p.sent) + Len(p.backlog) + Len(batch)
    <3>1. PICK s : s = Close(r)
        OBVIOUS
    <3>2. \/ s.step = "gated" /\ s.shut /\ OpenSound(s, text2, over2)
          \/ s.step = "closed" /\ ClosedSound(s, text2, over2, gone)
        BY <1>1, <2>7, <3>1, PipeCloseSound
    <3>3. StreamSound(s, "ended", gone, text2, over2)
        BY <3>2 DEF StreamSound, IsOpen
    <3>4. r.step # "none" /\ r.step # "closed"
        BY <2>7 DEF IsOpen
    <3>5. ASSUME ~Overflows(p, batch), AllOf(text2, run, text, batch)
          PROVE  StreamSound(r, "live", gone, text2, over2)
      <4>1. Len(r.sent) + Len(r.backlog) = text2
          BY <2>1, <2>7, <3>5 DEF AllOf
      <4>2. ~r.shut
          BY <2>1, <2>7
      <4> QED
          BY <2>7, <3>4, <4>1, <4>2 DEF StreamSound
    <3> QED
        BY <1>0, <3>1, <3>3, <3>5
  <2> QED
      BY <2>5, <2>6, <2>7
<1>3. CASE p.step = "closed"
  <2>1. p.shut /\ p.told /\ ClosedSound(p, text2, over2, gone)
      BY <1>3, ClosedKept DEF StreamSound, ClosedSound
  <2>2. r = p
      BY <1>0, <2>1, FeedIs
  <2>3. StreamSound(r, "live", gone, text2, over2)
      BY <1>3, <2>1, <2>2 DEF StreamSound, IsOpen
  <2>4. PICK s : s = WithShut(r)
      OBVIOUS
  <2>5. Close(r) = s
      BY <1>3, <2>2, <2>4 DEF Close, WithShut
  <2>6. s.shut /\ s.step = "closed" /\ s.sent = r.sent
      BY <1>1, <1>3, <2>2, <2>4, ShutField
  <2>7. ClosedSound(s, text2, over2, gone)
      BY <2>1, <2>2, <2>6 DEF ClosedSound
  <2>8. StreamSound(s, "ended", gone, text2, over2)
      BY <2>6, <2>7 DEF StreamSound, IsOpen
  <2> QED
      BY <1>0, <2>3, <2>5, <2>8
<1>4. CASE p.step = "none"
  <2>1. PICK all, c, held : all = Backlog(p, batch) /\ c = Held(all) /\ held = WithBacklog(p, c)
      OBVIOUS
  <2>2. r.step = "none" /\ r.sent = p.sent
    <3>1. CASE p.shut \/ batch = <<>>
        BY <1>0, <1>4, <3>1, FeedIs
    <3>2. CASE ~p.shut /\ batch # <<>>
      <4>1. c \in Seq(Events) /\ Len(c) <= MaxBuffered
          BY <2>1, <3>2, BacklogTyped, HeldPart
      <4>2. held.step = p.step /\ held.sent = p.sent
          BY <2>1, <4>1, BacklogField
      <4>3. r = held
          BY <1>0, <1>4, <2>1, <3>2, FeedIs
      <4> QED
          BY <1>4, <4>2, <4>3
    <3> QED
        BY <3>1, <3>2
  <2>3. p.sent = <<>>
      BY <1>4 DEF StreamSound
  <2>4. PICK s : s = WithShut(r)
      OBVIOUS
  <2>5. Close(r) = s
      BY <2>2, <2>4 DEF Close, WithShut
  <2>6. s.step = "none" /\ s.sent = r.sent
      BY <1>1, <2>2, <2>4, ShutField
  <2> QED
      BY <1>0, <2>2, <2>3, <2>5, <2>6 DEF StreamSound, IsOpen
<1> QED
    BY <1>2, <1>3, <1>4, PipeFields DEF Steps, IsOpen

(* The client pulls, is cancelled, or the stream stalls.                         *)
LEMMA CancelSound ==
    ASSUME NEW p, IsPipe(p), NEW run, NEW text, NEW over, NEW gone, StreamSound(p, run, gone, text, over)
    PROVE  IsPipe(CancelPipe(p)) /\ CancelPipe(p).told /\ StreamSound(CancelPipe(p), run, TRUE, text, over)
<1>1. PICK r : r = CancelPipe(p)
    OBVIOUS
<1>2. IsPipe(r) /\ r.step = "closed" /\ r.told /\ r.shut /\ r.sent = p.sent
    BY <1>1, CancelFields
<1>3. ClosedSound(r, text, over, TRUE)
  <2>1. CASE p.step = "none"
    <3>1. r.sent = <<>>
        BY <1>2, <2>1 DEF StreamSound
    <3>2. r.sent \in Seq(Frames) /\ Len(r.sent) = 0
        BY <3>1
    <3>3. IsText(r.sent, Len(r.sent))
        BY <3>2 DEF IsText
    <3> QED
        BY <1>2, <3>2, <3>3 DEF ClosedSound
  <2>2. CASE IsOpen(p)
      BY <1>2, <2>2 DEF ClosedSound, StreamSound, OpenSound
  <2>3. CASE p.step = "closed"
      BY <1>2, <2>3 DEF ClosedSound, StreamSound
  <2> QED
      BY <2>1, <2>2, <2>3, PipeFields DEF Steps, IsOpen
<1> QED
    BY <1>1, <1>2, <1>3 DEF StreamSound, IsOpen

LEMMA StallSound ==
    ASSUME NEW p, IsPipe(p), p.step = "waiting", NEW run, NEW text \in Nat, NEW over, NEW gone,
           StreamSound(p, run, gone, text, over)
    PROVE  /\ IsPipe(StallOut(p)) /\ StallOut(p).told
           /\ StreamSound(StallOut(p), run, gone, text, over)
<1>1. PICK r : r = StallOut(p)
    OBVIOUS
<1>2. /\ IsPipe(r) /\ r.step = "closed" /\ r.told /\ r.shut
      /\ r.sent = p.sent \o <<Mark("incomplete"), Closing>>
    BY <1>1, EndsFields DEF StallOut
<1>3. p.sent \in Seq(Frames) /\ IsText(p.sent, Len(p.sent))
    BY DEF StreamSound, OpenSound, IsOpen
<1>4. ClosedSound(r, text, over, gone)
    BY <1>2, <1>3, ClosedMade, FramesDiffer
<1> QED
    BY <1>1, <1>2, <1>4 DEF StreamSound, IsOpen

Pulled(p) == IF p.backlog # <<>> THEN Handle([p EXCEPT !.backlog = Tail(@)], Head(p.backlog))
             ELSE IF p.shut THEN Eof(p)
             ELSE [p EXCEPT !.step = "waiting"]

LEMMA PullSound ==
    ASSUME NEW p, IsPipe(p), p.step = "gated", NEW run, NEW text \in Nat, NEW over, NEW gone,
           StreamSound(p, run, gone, text, over)
    PROVE  /\ IsPipe(Pulled(p)) /\ (p.told => Pulled(p).told)
           /\ StreamSound(Pulled(p), run, gone, text, over)
<1>0. PICK r : r = Pulled(p)
    OBVIOUS
<1>1. /\ IsOpen(p) /\ OpenSound(p, text, over) /\ p.backlog \in Seq(Events) /\ Len(p.backlog) <= MaxBuffered
      /\ p.sent \in Seq(Frames) /\ IsText(p.sent, Len(p.sent)) /\ Len(p.sent) \in Nat
    BY PipeFields DEF StreamSound, OpenSound, IsOpen
<1>2. CASE p.backlog # <<>>
  <2>1. PICK b, e, rest, held : b = p.backlog /\ e = Head(b) /\ rest = Tail(b) /\ held = WithBacklog(p, rest)
      OBVIOUS
  <2>2. /\ e \in Events /\ rest \in Seq(Events) /\ e = b[1] /\ Len(b) \in Nat /\ Len(b) > 0
        /\ Len(rest) = Len(b) - 1 /\ \A i \in 1..Len(rest) : rest[i] = b[1 + i]
      BY <1>1, <1>2, <2>1, BatchSplits
  <2>3. Len(rest) <= MaxBuffered
      BY <1>1, <2>1, <2>2, EmptyBacklog
  <2>4. /\ IsPipe(held) /\ held.backlog = rest /\ held.sent = p.sent /\ held.told = p.told /\ held.shut = p.shut
      BY <2>1, <2>2, <2>3, BacklogField
  <2>5. r = Handle(held, e)
      BY <1>0, <1>2, <2>1 DEF Pulled, WithBacklog
  <2>6. Follows(e, Len(held.sent) + 1, text, over)
      BY <1>1, <2>1, <2>2, <2>4 DEF OpenSound
  <2>7. \A i \in 1..Len(rest) : Follows(rest[i], Len(p.sent) + 1 + i, text, over)
    <3>1. TAKE i \in 1..Len(rest)
    <3>2. 1 + i \in 1..Len(b)
        BY <2>2
    <3>3. Follows(b[1 + i], Len(p.sent) + (1 + i), text, over)
        BY <1>1, <2>1, <3>2 DEF OpenSound
    <3>4. \A n \in Nat : n + (1 + i) = n + 1 + i
        OBVIOUS
    <3> QED
        BY <1>1, <2>2, <3>3, <3>4
  <2>8. /\ IsPipe(r)
        /\ \/ /\ r.step = "gated" /\ OpenSound(r, text, over) /\ Len(r.sent) = Len(held.sent) + 1
              /\ r.backlog = held.backlog /\ r.shut = held.shut /\ r.told = held.told
           \/ r.step = "closed" /\ r.told /\ ClosedSound(r, text, over, gone)
      BY <1>1, <2>2, <2>4, <2>5, <2>6, <2>7, HandleSound
  <2>9. CASE r.step = "closed" /\ r.told /\ ClosedSound(r, text, over, gone)
      BY <1>0, <2>8, <2>9 DEF StreamSound, IsOpen
  <2>10. CASE /\ r.step = "gated" /\ OpenSound(r, text, over) /\ Len(r.sent) = Len(held.sent) + 1
              /\ r.backlog = held.backlog /\ r.shut = held.shut /\ r.told = held.told
    <3>1. run # "ended" => ~r.shut
        BY <1>1, <2>4, <2>10 DEF StreamSound
    <3>2. run \notin {"off", "starting", "waiting"}
        BY <1>1, <1>2 DEF StreamSound
    <3>3. Len(r.sent) + Len(r.backlog) = Len(p.sent) + Len(p.backlog)
      <4>1. \A n, m \in Nat : (n + 1) + (m - 1) = n + m
          OBVIOUS
      <4>2. Len(r.sent) = Len(p.sent) + 1 /\ Len(r.backlog) = Len(p.backlog) - 1 /\ Len(p.backlog) \in Nat
          BY <2>1, <2>2, <2>4, <2>10
      <4> QED
          BY <1>1, <4>1, <4>2
    <3>4. run = "live" => Len(r.sent) + Len(r.backlog) = text
        BY <1>1, <3>3 DEF StreamSound
    <3> QED
        BY <1>0, <2>4, <2>8, <2>10, <3>1, <3>2, <3>4 DEF StreamSound, IsOpen
  <2> QED
      BY <2>8, <2>9, <2>10
<1>3. CASE p.backlog = <<>> /\ p.shut
  <2>1. r = Eof(p)
      BY <1>0, <1>3 DEF Pulled
  <2>2. IsPipe(r) /\ r.step = "closed" /\ r.told = p.told /\ ClosedSound(r, text, over, gone)
      BY <1>1, <1>3, <2>1, EofFields
  <2>3. run = "ended"
      BY <1>1, <1>3 DEF StreamSound
  <2> QED
      BY <1>0, <2>2, <2>3 DEF StreamSound, IsOpen
<1>4. CASE p.backlog = <<>> /\ ~p.shut
  <2>1. r = WithStep(p, "waiting")
      BY <1>0, <1>4 DEF Pulled, WithStep
  <2>2. /\ IsPipe(r) /\ r.step = "waiting" /\ r.backlog = p.backlog /\ r.shut = p.shut /\ r.sent = p.sent
        /\ r.told = p.told
      BY <2>1, StepField DEF Steps
  <2>3. OpenSound(r, text, over)
      BY <1>1, <2>2 DEF OpenSound
  <2> QED
      BY <1>0, <1>1, <1>4, <2>2, <2>3 DEF StreamSound, IsOpen
<1> QED
    BY <1>2, <1>3, <1>4

-------------------------------------------------------------------------------
(* The sessions of the round.                                                    *)
WithState(ss, s, x)   == [ss EXCEPT ![s].state = x]
WithRound(ss, s, x)   == [ss EXCEPT ![s].round = x]
WithJournal(ss, s, x) == [ss EXCEPT ![s].journal = x]
WithText(ss, s, x)    == [ss EXCEPT ![s].text = x]
States == {"active", "final", "error", "cancelled", "retiring", "gone"}
Rounds == {"open", "completed", "failed"}

LEMMA SessionFields ==
    ASSUME NEW ss \in Seq(SessionRecords), NEW s \in 1..Len(ss)
    PROVE  /\ ss[s] \in SessionRecords /\ ss[s].state \in States /\ ss[s].text \in 0..MaxEvents
           /\ ss[s].text \in Nat /\ MaxEvents \in Nat
           /\ ss[s].journal \in Seq(Events) /\ Len(ss[s].journal) \in Nat /\ ss[s].round \in Rounds
<1>1. ss[s] \in SessionRecords
    OBVIOUS
<1>2. MaxEvents \in Nat
    BY BoundsAssumption
<1>3. /\ ss[s].state \in States /\ ss[s].text \in 0..MaxEvents /\ ss[s].journal \in Seq(Events)
      /\ ss[s].round \in Rounds
    BY <1>1 DEF SessionRecords, States, Rounds
<1> QED
    BY <1>1, <1>2, <1>3

LEMMA StateField ==
    ASSUME NEW ss \in Seq(SessionRecords), NEW s \in 1..Len(ss), NEW x \in States
    PROVE  /\ WithState(ss, s, x) \in Seq(SessionRecords) /\ Len(WithState(ss, s, x)) = Len(ss)
           /\ \A i \in 1..Len(ss) : i # s => WithState(ss, s, x)[i] = ss[i]
           /\ WithState(ss, s, x)[s].state = x /\ WithState(ss, s, x)[s].text = ss[s].text
           /\ WithState(ss, s, x)[s].journal = ss[s].journal /\ WithState(ss, s, x)[s].round = ss[s].round
<1>1. PICK r, r2, t : r = ss[s] /\ r2 = [r EXCEPT !.state = x] /\ t = WithState(ss, s, x)
    OBVIOUS
<1>2. r \in SessionRecords
    BY <1>1
<1>3. r2 \in SessionRecords
    BY <1>1, <1>2 DEF SessionRecords, States
<1>4. r2.state = x /\ r2.text = r.text /\ r2.journal = r.journal /\ r2.round = r.round
    BY <1>1, <1>2 DEF SessionRecords
<1>5. t = [ss EXCEPT ![s] = r2]
    BY <1>1 DEF WithState
<1>6. t \in Seq(SessionRecords) /\ Len(t) = Len(ss) /\ t[s] = r2 /\ \A i \in 1..Len(ss) : i # s => t[i] = ss[i]
    BY <1>3, <1>5
<1> QED
    BY <1>1, <1>4, <1>6

LEMMA RoundField ==
    ASSUME NEW ss \in Seq(SessionRecords), NEW s \in 1..Len(ss), NEW x \in Rounds
    PROVE  /\ WithRound(ss, s, x) \in Seq(SessionRecords) /\ Len(WithRound(ss, s, x)) = Len(ss)
           /\ \A i \in 1..Len(ss) : i # s => WithRound(ss, s, x)[i] = ss[i]
           /\ WithRound(ss, s, x)[s].round = x /\ WithRound(ss, s, x)[s].text = ss[s].text
           /\ WithRound(ss, s, x)[s].journal = ss[s].journal /\ WithRound(ss, s, x)[s].state = ss[s].state
<1>1. PICK r, r2, t : r = ss[s] /\ r2 = [r EXCEPT !.round = x] /\ t = WithRound(ss, s, x)
    OBVIOUS
<1>2. r \in SessionRecords
    BY <1>1
<1>3. r2 \in SessionRecords
    BY <1>1, <1>2 DEF SessionRecords, Rounds
<1>4. r2.round = x /\ r2.text = r.text /\ r2.journal = r.journal /\ r2.state = r.state
    BY <1>1, <1>2 DEF SessionRecords
<1>5. t = [ss EXCEPT ![s] = r2]
    BY <1>1 DEF WithRound
<1>6. t \in Seq(SessionRecords) /\ Len(t) = Len(ss) /\ t[s] = r2 /\ \A i \in 1..Len(ss) : i # s => t[i] = ss[i]
    BY <1>3, <1>5
<1> QED
    BY <1>1, <1>4, <1>6

LEMMA JournalField ==
    ASSUME NEW ss \in Seq(SessionRecords), NEW s \in 1..Len(ss), NEW x \in Seq(Events)
    PROVE  /\ WithJournal(ss, s, x) \in Seq(SessionRecords) /\ Len(WithJournal(ss, s, x)) = Len(ss)
           /\ \A i \in 1..Len(ss) : i # s => WithJournal(ss, s, x)[i] = ss[i]
           /\ WithJournal(ss, s, x)[s].journal = x /\ WithJournal(ss, s, x)[s].text = ss[s].text
           /\ WithJournal(ss, s, x)[s].round = ss[s].round /\ WithJournal(ss, s, x)[s].state = ss[s].state
<1>1. PICK r, r2, t : r = ss[s] /\ r2 = [r EXCEPT !.journal = x] /\ t = WithJournal(ss, s, x)
    OBVIOUS
<1>2. r \in SessionRecords
    BY <1>1
<1>3. r2 \in SessionRecords
    BY <1>1, <1>2 DEF SessionRecords
<1>4. r2.journal = x /\ r2.text = r.text /\ r2.round = r.round /\ r2.state = r.state
    BY <1>1, <1>2 DEF SessionRecords
<1>5. t = [ss EXCEPT ![s] = r2]
    BY <1>1 DEF WithJournal
<1>6. t \in Seq(SessionRecords) /\ Len(t) = Len(ss) /\ t[s] = r2 /\ \A i \in 1..Len(ss) : i # s => t[i] = ss[i]
    BY <1>3, <1>5
<1> QED
    BY <1>1, <1>4, <1>6

LEMMA TextField ==
    ASSUME NEW ss \in Seq(SessionRecords), NEW s \in 1..Len(ss), NEW x \in 0..MaxEvents
    PROVE  /\ WithText(ss, s, x) \in Seq(SessionRecords) /\ Len(WithText(ss, s, x)) = Len(ss)
           /\ \A i \in 1..Len(ss) : i # s => WithText(ss, s, x)[i] = ss[i]
           /\ WithText(ss, s, x)[s].text = x /\ WithText(ss, s, x)[s].journal = ss[s].journal
           /\ WithText(ss, s, x)[s].round = ss[s].round /\ WithText(ss, s, x)[s].state = ss[s].state
<1>1. PICK r, r2, t : r = ss[s] /\ r2 = [r EXCEPT !.text = x] /\ t = WithText(ss, s, x)
    OBVIOUS
<1>2. r \in SessionRecords
    BY <1>1
<1>3. r2 \in SessionRecords
    BY <1>1, <1>2 DEF SessionRecords
<1>4. r2.text = x /\ r2.journal = r.journal /\ r2.round = r.round /\ r2.state = r.state
    BY <1>1, <1>2 DEF SessionRecords
<1>5. t = [ss EXCEPT ![s] = r2]
    BY <1>1 DEF WithText
<1>6. t \in Seq(SessionRecords) /\ Len(t) = Len(ss) /\ t[s] = r2 /\ \A i \in 1..Len(ss) : i # s => t[i] = ss[i]
    BY <1>3, <1>5
<1> QED
    BY <1>1, <1>4, <1>6

(* One session may change its text and its journal; none becomes active again.   *)
SameText(ss, ss2, s) == ss2[s].text = ss[s].text /\ ss2[s].journal = ss[s].journal
Grows(ss, ss2, here) ==
    /\ ss2 \in Seq(SessionRecords) /\ Len(ss2) = Len(ss)
    /\ \A s \in 1..Len(ss) :
          /\ JournalSound(ss2[s])
          /\ ss2[s].state = "active" => ss[s].state = "active"
          /\ s # here => SameText(ss, ss2, s)

LEMMA JournalSame ==
    ASSUME NEW r, NEW r2, r2.text = r.text, r2.journal = r.journal, JournalSound(r)
    PROVE  JournalSound(r2)
BY DEF JournalSound

(* A session that is retired, or whose round is marked, keeps what it produced.  *)
LEMMA StateGrows ==
    ASSUME NEW ss, NEW ss2, NEW here, Grows(ss, ss2, here), NEW s \in 1..Len(ss),
           NEW x \in States, x # "active"
    PROVE  Grows(ss, WithState(ss2, s, x), here)
<1>1. PICK t : t = WithState(ss2, s, x)
    OBVIOUS
<1>2. /\ t \in Seq(SessionRecords) /\ Len(t) = Len(ss2)
      /\ \A i \in 1..Len(ss2) : i # s => t[i] = ss2[i]
      /\ t[s].state = x /\ t[s].text = ss2[s].text /\ t[s].journal = ss2[s].journal
    BY <1>1, StateField DEF Grows
<1>3. ASSUME NEW i \in 1..Len(ss)
      PROVE  /\ JournalSound(t[i])
             /\ t[i].state = "active" => ss[i].state = "active"
             /\ i # here => SameText(ss, t, i)
  <2>1. t[i].text = ss2[i].text /\ t[i].journal = ss2[i].journal
      BY <1>2, <1>3 DEF Grows
  <2>2. JournalSound(t[i])
      BY <1>3, <2>1, JournalSame DEF Grows
  <2>3. t[i].state = "active" => ss[i].state = "active"
      BY <1>2, <1>3 DEF Grows
  <2>4. i # here => SameText(ss, t, i)
      BY <1>3, <2>1 DEF Grows, SameText
  <2> QED
      BY <2>2, <2>3, <2>4
<1> QED
    BY <1>1, <1>2, <1>3 DEF Grows

LEMMA RoundGrows ==
    ASSUME NEW ss, NEW ss2, NEW here, Grows(ss, ss2, here), NEW s \in 1..Len(ss), NEW x \in Rounds
    PROVE  Grows(ss, WithRound(ss2, s, x), here)
<1>1. PICK t : t = WithRound(ss2, s, x)
    OBVIOUS
<1>2. /\ t \in Seq(SessionRecords) /\ Len(t) = Len(ss2)
      /\ \A i \in 1..Len(ss2) : i # s => t[i] = ss2[i]
      /\ t[s].state = ss2[s].state /\ t[s].text = ss2[s].text /\ t[s].journal = ss2[s].journal
    BY <1>1, RoundField DEF Grows
<1>3. ASSUME NEW i \in 1..Len(ss)
      PROVE  /\ JournalSound(t[i])
             /\ t[i].state = "active" => ss[i].state = "active"
             /\ i # here => SameText(ss, t, i)
  <2>1. t[i].text = ss2[i].text /\ t[i].journal = ss2[i].journal /\ t[i].state = ss2[i].state
      BY <1>2, <1>3 DEF Grows
  <2>2. JournalSound(t[i])
      BY <1>3, <2>1, JournalSame DEF Grows
  <2>3. t[i].state = "active" => ss[i].state = "active"
      BY <1>3, <2>1 DEF Grows
  <2>4. i # here => SameText(ss, t, i)
      BY <1>3, <2>1 DEF Grows, SameText
  <2> QED
      BY <2>2, <2>3, <2>4
<1> QED
    BY <1>1, <1>2, <1>3 DEF Grows

LEMMA NothingGrows ==
    ASSUME NEW ss \in Seq(SessionRecords), \A s \in 1..Len(ss) : JournalSound(ss[s]), NEW here
    PROVE  Grows(ss, ss, here)
BY DEF Grows, SameText

(* A batch that is journalled: a piece of text, the end of the answer, a last    *)
(* piece with the end, or a failure.                                             *)
IsNext(batch, text) ==
    \/ batch = <<Delta(text + 1)>>
    \/ batch = <<Done>> \/ batch = <<Error>>
    \/ batch = <<Delta(text + 1), Done>>
Pieces(batch, text) == IF batch = <<Done>> \/ batch = <<Error>> THEN 0 ELSE 1

LEMMA TextOfOne ==
    ASSUME NEW e
    PROVE  TextOf(<<e>>) = IF e.kind = "delta" THEN 1 ELSE 0
<1>1. PICK b, i1 : b = <<e>> /\ i1 = {i \in DOMAIN b : b[i].kind = "delta"}
    OBVIOUS
<1>2. DOMAIN b = {1} /\ b[1] = e
    BY <1>1
<1>3. i1 = IF e.kind = "delta" THEN {1} ELSE {}
    BY <1>1, <1>2
<1>4. TextOf(b) = Cardinality(i1)
    BY <1>1 DEF TextOf
<1> QED
    BY <1>1, <1>3, <1>4, FS_EmptySet, FS_Singleton

LEMMA TextOfLast ==
    ASSUME NEW n
    PROVE  TextOf(<<Delta(n), Done>>) = 1
<1>1. PICK b, d, i1 : d = Delta(n) /\ b = <<d, Done>> /\ i1 = {i \in DOMAIN b : b[i].kind = "delta"}
    OBVIOUS
<1>2. DOMAIN b = {1, 2} /\ b[1] = d /\ b[2] = Done
    BY <1>1
<1>3. d.kind = "delta" /\ Done.kind # "delta"
    BY <1>1 DEF Delta, Done, Mark
<1>4. i1 = {1}
    BY <1>1, <1>2, <1>3
<1>5. TextOf(b) = Cardinality(i1)
    BY <1>1 DEF TextOf
<1> QED
    BY <1>1, <1>4, <1>5, FS_Singleton

LEMMA NextIs ==
    ASSUME NEW batch, NEW text \in Nat, IsNext(batch, text), Pieces(batch, text) = 1 => text < MaxEvents
    PROVE  /\ batch \in Seq(Events) /\ TextOf(batch) = Pieces(batch, text)
           /\ \/ Len(batch) = 1 /\ Pieces(batch, text) = 1 /\ batch[1] = Delta(text + 1)
              \/ Len(batch) = 1 /\ Pieces(batch, text) = 0 /\ batch[1] \in {Done, Error}
              \/ Len(batch) = 2 /\ Pieces(batch, text) = 1 /\ batch[1] = Delta(text + 1) /\ batch[2] = Done
<1>0. MaxEvents \in Nat /\ Done \in Events /\ Error \in Events
    BY BoundsAssumption, FramesDiffer
<1>1. CASE batch = <<Done>> \/ batch = <<Error>>
  <2>1. PICK e \in {Done, Error} : batch = <<e>>
      BY <1>1
  <2>2. e.kind # "delta"
      BY <2>1 DEF Done, Error, Mark
  <2>3. Pieces(batch, text) = 0
      BY <1>1 DEF Pieces
  <2>4. TextOf(batch) = 0
      BY <2>1, <2>2, TextOfOne
  <2>5. batch \in Seq(Events) /\ Len(batch) = 1 /\ batch[1] = e
      BY <1>0, <2>1
  <2> QED
      BY <2>1, <2>3, <2>4, <2>5
<1>2. CASE batch = <<Delta(text + 1)>>
  <2>1. PICK d : d = Delta(text + 1)
      OBVIOUS
  <2>2. d.kind = "delta" /\ d # Done /\ d # Error
      BY <2>1, FramesDiffer
  <2>3. batch # <<Done>> /\ batch # <<Error>>
    <3>1. batch[1] = d
        BY <1>2, <2>1
    <3>2. <<Done>>[1] = Done /\ <<Error>>[1] = Error
        OBVIOUS
    <3> QED
        BY <2>2, <3>1, <3>2
  <2>4. Pieces(batch, text) = 1
      BY <2>3 DEF Pieces
  <2>5. d \in Events
      BY <1>0, <2>1, <2>4 DEF Events
  <2>6. TextOf(batch) = 1
      BY <1>2, <2>1, <2>2, TextOfOne
  <2>7. batch \in Seq(Events) /\ Len(batch) = 1 /\ batch[1] = d
      BY <1>2, <2>1, <2>5
  <2> QED
      BY <2>1, <2>4, <2>6, <2>7
<1>3. CASE batch = <<Delta(text + 1), Done>>
  <2>1. PICK d : d = Delta(text + 1)
      OBVIOUS
  <2>2. batch = <<d, Done>> /\ Len(batch) = 2 /\ batch[1] = d /\ batch[2] = Done
      BY <1>3, <2>1
  <2>3. batch # <<Done>> /\ batch # <<Error>>
    <3>1. Len(<<Done>>) = 1 /\ Len(<<Error>>) = 1
        OBVIOUS
    <3> QED
        BY <2>2, <3>1
  <2>4. Pieces(batch, text) = 1
      BY <2>3 DEF Pieces
  <2>5. d \in Events
      BY <1>0, <2>1, <2>4 DEF Events
  <2>6. TextOf(batch) = 1
      BY <1>3, TextOfLast
  <2>7. batch \in Seq(Events)
      BY <1>0, <2>2, <2>5
  <2> QED
      BY <2>1, <2>2, <2>4, <2>6, <2>7
<1> QED
    BY <1>1, <1>2, <1>3 DEF IsNext

(* What the batch makes of the journal and of the streams that follow it.        *)
LEMMA JournalGrows ==
    ASSUME NEW r \in SessionRecords, JournalSound(r), Len(r.journal) = r.text, NEW batch, IsNext(batch, r.text),
           Pieces(batch, r.text) = 1 => r.text < MaxEvents,
           NEW r2, r2.journal = r.journal \o batch, r2.text = r.text + TextOf(batch)
    PROVE  /\ JournalSound(r2) /\ r2.text \in 0..MaxEvents /\ r2.journal \in Seq(Events)
           /\ \A i \in 1..Len(batch) : Follows(batch[i], r.text + i, r2.text, Len(r2.journal) > r2.text)
           /\ batch = <<Delta(r.text + 1)>> => Len(r2.journal) = r2.text /\ r2.text = r.text + Len(batch)
<1>1. PICK j, text, n : j = r.journal /\ text = r.text /\ n = Pieces(batch, text)
    OBVIOUS
<1>2. j \in Seq(Events) /\ text \in 0..MaxEvents /\ text \in Nat /\ MaxEvents \in Nat /\ Len(j) = text /\ IsText(j, text)
    BY <1>1, BoundsAssumption DEF SessionRecords, JournalSound
<1>3. /\ batch \in Seq(Events) /\ TextOf(batch) = n /\ n \in {0, 1}
      /\ \/ Len(batch) = 1 /\ n = 1 /\ batch[1] = Delta(text + 1)
         \/ Len(batch) = 1 /\ n = 0 /\ batch[1] \in {Done, Error}
         \/ Len(batch) = 2 /\ n = 1 /\ batch[1] = Delta(text + 1) /\ batch[2] = Done
    BY <1>1, <1>2, NextIs DEF Pieces
<1>4. PICK j2, text2 : j2 = r2.journal /\ text2 = r2.text
    OBVIOUS
<1>5. j2 = j \o batch /\ text2 = text + n
    BY <1>1, <1>3, <1>4
<1>6. /\ j2 \in Seq(Events) /\ Len(j2) = text + Len(batch) /\ \A i \in 1..text : j2[i] = j[i]
  <2>1. batch \in Seq(Events) /\ j \in Seq(Events) /\ j2 = j \o batch
      BY <1>2, <1>3, <1>5
  <2>2. j2 \in Seq(Events) /\ Len(j2) = Len(j) + Len(batch)
      BY <2>1
  <2>3. \A i \in 1..Len(j) : j2[i] = j[i]
      BY <2>1
  <2> QED
      BY <1>2, <2>2, <2>3
<1>7. \A i \in 1..Len(batch) : j2[text + i] = batch[i]
    BY <1>2, <1>3, <1>5
<1>8. text2 \in 0..MaxEvents
    BY <1>1, <1>2, <1>3, <1>5
<1>9. IsText(j2, text)
    BY <1>2, <1>6 DEF IsText
<1>10. CASE Len(batch) = 1 /\ n = 1 /\ batch[1] = Delta(text + 1)
  <2>1. text2 = text + 1 /\ Len(j2) = text2 /\ j2[text + 1] = Delta(text + 1)
    <3>1. 1 \in 1..Len(batch)
        BY <1>10
    <3>2. j2[text + 1] = Delta(text + 1)
        BY <1>7, <1>10, <3>1
    <3> QED
        BY <1>5, <1>6, <1>10, <3>2
  <2>2. IsText(j2, text2)
    <3>1. \A i \in 1..text + 1 : i \in 1..text \/ i = text + 1
        BY <1>2
    <3> QED
        BY <1>9, <2>1, <3>1 DEF IsText
  <2>3. JournalSound(r2)
      BY <1>4, <2>1, <2>2 DEF JournalSound
  <2>4. \A i \in 1..Len(batch) : i = 1
      BY <1>10
  <2>5. Follows(batch[1], text + 1, text2, Len(j2) > text2)
    <3>1. batch[1] # Done
        BY <1>10, FramesDiffer
    <3> QED
        BY <1>10, <3>1 DEF Follows
  <2> QED
      BY <1>1, <1>4, <1>6, <1>8, <1>10, <2>1, <2>3, <2>4, <2>5
<1>11. CASE Len(batch) = 1 /\ n = 0 /\ batch[1] \in {Done, Error}
  <2>1. text2 = text /\ Len(j2) = text2 + 1 /\ j2[text2 + 1] \in {Done, Error}
      BY <1>2, <1>5, <1>6, <1>7, <1>11
  <2>2. JournalSound(r2)
      BY <1>4, <1>9, <2>1 DEF JournalSound
  <2>3. \A i \in 1..Len(batch) : i = 1
      BY <1>11
  <2>4. Len(j2) > text2
      BY <1>2, <2>1
  <2>5. Follows(batch[1], text + 1, text2, Len(j2) > text2)
    <3>1. batch[1].kind # "delta"
        BY <1>11 DEF Done, Error, Mark
    <3> QED
        BY <2>1, <2>4, <3>1 DEF Follows
  <2>6. batch # <<Delta(text + 1)>>
    <3>1. <<Delta(text + 1)>>[1] = Delta(text + 1)
        OBVIOUS
    <3> QED
        BY <1>11, <3>1, FramesDiffer
  <2> QED
      BY <1>1, <1>4, <1>6, <1>8, <2>2, <2>3, <2>5, <2>6
<1>12. CASE Len(batch) = 2 /\ n = 1 /\ batch[1] = Delta(text + 1) /\ batch[2] = Done
  <2>1. text2 = text + 1 /\ Len(j2) = text2 + 1 /\ j2[text2] = Delta(text2) /\ j2[text2 + 1] = Done
    <3>1. 1 \in 1..Len(batch) /\ 2 \in 1..Len(batch)
        BY <1>12
    <3>2. j2[text + 1] = Delta(text + 1) /\ j2[text + 2] = Done
        BY <1>7, <1>12, <3>1
    <3>3. text2 = text + 1 /\ text2 + 1 = text + 2 /\ Len(j2) = text + 2
        BY <1>2, <1>5, <1>6, <1>12
    <3> QED
        BY <3>2, <3>3
  <2>2. IsText(j2, text2)
    <3>1. \A i \in 1..text + 1 : i \in 1..text \/ i = text + 1
        BY <1>2
    <3> QED
        BY <1>9, <2>1, <3>1 DEF IsText
  <2>3. JournalSound(r2)
      BY <1>4, <2>1, <2>2 DEF JournalSound
  <2>4. \A i \in 1..Len(batch) : i = 1 \/ i = 2
      BY <1>12
  <2>5. Len(j2) > text2
      BY <1>2, <2>1
  <2>6. Follows(batch[1], text + 1, text2, Len(j2) > text2)
    <3>1. batch[1] # Done
        BY <1>12, FramesDiffer
    <3> QED
        BY <1>12, <3>1 DEF Follows
  <2>7. Follows(batch[2], text + 2, text2, Len(j2) > text2)
    <3>1. batch[2].kind # "delta"
        BY <1>12 DEF Done, Mark
    <3>2. text + 2 = text2 + 1
        BY <1>2, <2>1
    <3> QED
        BY <2>5, <3>1, <3>2 DEF Follows
  <2>8. batch # <<Delta(text + 1)>>
    <3>1. Len(<<Delta(text + 1)>>) = 1
        OBVIOUS
    <3> QED
        BY <1>12, <3>1
  <2> QED
      BY <1>1, <1>4, <1>6, <1>8, <2>3, <2>4, <2>6, <2>7, <2>8
<1> QED
    BY <1>3, <1>10, <1>11, <1>12

(* What a run journals, for its session.                                         *)
LEMMA JournalledGrows ==
    ASSUME SessionsSound, NEW q \in Posts, joined[q] # 0, ~OverIn(sessions, joined[q]), NEW batch,
           IsNext(batch, sessions[joined[q]].text),
           Pieces(batch, sessions[joined[q]].text) = 1 => sessions[joined[q]].text < MaxEvents
    PROVE  LET s == joined[q]  ss == Journalled(q, batch)
           IN  /\ batch \in Seq(Events) /\ Grows(sessions, ss, s)
               /\ \A i \in 1..Len(batch) : Follows(batch[i], sessions[s].text + i, ss[s].text, OverIn(ss, s))
               /\ batch = <<Delta(sessions[s].text + 1)>>
                    => ~OverIn(ss, s) /\ ss[s].text = sessions[s].text + Len(batch)
<1>1. PICK s, ss, r : s = joined[q] /\ ss = Journalled(q, batch) /\ r = sessions[s]
    OBVIOUS
<1>2. sessions \in Seq(SessionRecords) /\ s \in 1..Len(sessions) /\ Len(sessions) \in Nat
    BY <1>1 DEF SessionsSound
<1>3. r \in SessionRecords /\ r.text \in Nat /\ r.journal \in Seq(Events) /\ JournalSound(r)
    BY <1>1, <1>2, SessionFields DEF SessionsSound
<1>4. Len(r.journal) = r.text
  <2>1. Len(r.journal) \in Nat
      BY <1>3
  <2> QED
      BY <1>1, <1>2, <1>3, <2>1 DEF OverIn, JournalSound
<1>5. IsNext(batch, r.text) /\ (Pieces(batch, r.text) = 1 => r.text < MaxEvents)
    BY <1>1
<1>6. batch \in Seq(Events)
    BY <1>3, <1>5, NextIs
<1>7. PICK j, n, mid : j = r.journal \o batch /\ n = r.text + TextOf(batch) /\ mid = WithJournal(sessions, s, j)
    OBVIOUS
<1>8. j \in Seq(Events)
    BY <1>3, <1>6, <1>7
<1>9. /\ mid \in Seq(SessionRecords) /\ Len(mid) = Len(sessions)
      /\ \A i \in 1..Len(sessions) : i # s => mid[i] = sessions[i]
      /\ mid[s].journal = j /\ mid[s].text = r.text /\ mid[s].state = r.state
  <2>1. mid = WithJournal(sessions, s, j)
      BY <1>7
  <2>2. /\ mid \in Seq(SessionRecords) /\ Len(mid) = Len(sessions)
        /\ \A i \in 1..Len(sessions) : i # s => mid[i] = sessions[i]
        /\ mid[s].journal = j /\ mid[s].text = sessions[s].text /\ mid[s].state = sessions[s].state
      BY <1>2, <1>8, <2>1, JournalField
  <2> QED
      BY <1>1, <2>2
<1>10. ss = WithText(mid, s, n)
    BY <1>1, <1>7 DEF Journalled, WithText, WithJournal
<1>11. /\ JournalSound([text |-> n, journal |-> j]) /\ n \in 0..MaxEvents
       /\ \A i \in 1..Len(batch) : Follows(batch[i], r.text + i, n, Len(j) > n)
       /\ batch = <<Delta(r.text + 1)>> => Len(j) = n /\ n = r.text + Len(batch)
  <2>1. PICK r2 : r2 = [text |-> n, journal |-> j]
      OBVIOUS
  <2>2. r2.text = n /\ r2.journal = j
      BY <2>1
  <2>3. r2.journal = r.journal \o batch /\ r2.text = r.text + TextOf(batch)
      BY <1>7, <2>2
  <2>4. /\ JournalSound(r2) /\ r2.text \in 0..MaxEvents
        /\ \A i \in 1..Len(batch) : Follows(batch[i], r.text + i, r2.text, Len(r2.journal) > r2.text)
        /\ batch = <<Delta(r.text + 1)>> => Len(r2.journal) = r2.text /\ r2.text = r.text + Len(batch)
      BY <1>3, <1>4, <1>5, <2>3, JournalGrows
  <2> QED
      BY <2>1, <2>2, <2>4
<1>12. /\ ss \in Seq(SessionRecords) /\ Len(ss) = Len(mid)
       /\ \A i \in 1..Len(mid) : i # s => ss[i] = mid[i]
       /\ ss[s].text = n /\ ss[s].journal = mid[s].journal /\ ss[s].state = mid[s].state
    BY <1>2, <1>9, <1>10, <1>11, TextField
<1>13. JournalSound(ss[s])
  <2>1. PICK r2 : r2 = [text |-> n, journal |-> j]
      OBVIOUS
  <2>2. r2.text = n /\ r2.journal = j
      BY <2>1
  <2>3. ss[s].text = r2.text /\ ss[s].journal = r2.journal /\ JournalSound(r2)
      BY <1>9, <1>11, <1>12, <2>1, <2>2
  <2> QED
      BY <2>3, JournalSame
<1>14. Grows(sessions, ss, s)
  <2>1. ASSUME NEW i \in 1..Len(sessions)
        PROVE  /\ JournalSound(ss[i])
               /\ ss[i].state = "active" => sessions[i].state = "active"
               /\ i # s => SameText(sessions, ss, i)
    <3>1. CASE i = s
        BY <1>1, <1>9, <1>12, <1>13, <3>1
    <3>2. CASE i # s
      <4>1. ss[i] = sessions[i]
          BY <1>9, <1>12, <3>2
      <4>2. JournalSound(sessions[i])
          BY <1>2 DEF SessionsSound
      <4> QED
          BY <3>2, <4>1, <4>2 DEF SameText
    <3> QED
        BY <3>1, <3>2
  <2> QED
      BY <1>9, <1>12, <2>1 DEF Grows
<1>15. OverIn(ss, s) = (Len(j) > n)
    BY <1>2, <1>9, <1>12 DEF OverIn
<1>16. \A i \in 1..Len(batch) : Follows(batch[i], r.text + i, n, OverIn(ss, s))
    BY <1>11, <1>15 DEF Follows
<1>17. batch = <<Delta(r.text + 1)>> => ~OverIn(ss, s) /\ n = r.text + Len(batch)
  <2>1. n \in Nat
      BY <1>11, BoundsAssumption
  <2>2. ~(n > n)
      BY <2>1
  <2>3. batch = <<Delta(r.text + 1)>> => Len(j) = n /\ n = r.text + Len(batch)
      BY <1>11
  <2> QED
      BY <1>15, <2>2, <2>3
<1> QED
    BY <1>1, <1>6, <1>12, <1>14, <1>16, <1>17

-------------------------------------------------------------------------------
(* A run moves: it feeds its stream, and goes on or ends.                        *)
RunMoves(q, a, r, ss) ==
    /\ adapter[q] \in {"starting", "waiting", "live"} /\ a \in {"live", "ended"}
    /\ UNCHANGED <<daemonVars, httpVars, joined>>
    /\ sessions' = ss /\ Grows(sessions, ss, IF adapter[q] = "live" THEN joined[q] ELSE 0)
    /\ current' \in {current, 0}
    /\ adapter' = [adapter EXCEPT ![q] = a]
    /\ a = "live" => /\ adapter[q] # "starting" /\ ~OverIn(ss, joined[q])
                     /\ \A p \in Posts : adapter[p] = "live" /\ joined[p] = joined[q] => p = q
    /\ pipe' = [pipe EXCEPT ![q] = r]
    /\ IsPipe(r) /\ (pipe[q].told => r.told)
    /\ streamed => StreamSound(r, a, aborted[q], TextIn(ss, joined[q]), OverIn(ss, joined[q]))

LEMMA RunMovesSound ==
    ASSUME RoundSound, NEW q \in Posts, NEW a, NEW r, NEW ss, RunMoves(q, a, r, ss)
    PROVE  RoundSound'
<1> USE DEF RoundSound
<1>1. /\ adapter[q] \in {"starting", "waiting", "live"} /\ a \in {"live", "ended"}
      /\ http' = http /\ aborted' = aborted /\ joined' = joined /\ streamed' = streamed
      /\ accepting' = accepting /\ leaving' = leaving /\ interrupted' = interrupted /\ lives' = lives
      /\ sessions' = ss /\ current' \in {current, 0}
      /\ ss \in Seq(SessionRecords) /\ Len(ss) = Len(sessions)
    BY DEF RunMoves, Grows, daemonVars, httpVars
<1>2. /\ adapter' = [adapter EXCEPT ![q] = a] /\ adapter'[q] = a
      /\ \A p \in Posts : p # q => adapter'[p] = adapter[p]
    BY DEF RunMoves, ExchangesTyped
<1>3. /\ DOMAIN pipe' = Posts /\ pipe'[q] = r /\ \A p \in Posts : p # q => pipe'[p] = pipe[p]
    BY DEF RunMoves, PipesTyped
<1>4. a = "live" => /\ adapter[q] # "starting" /\ ~OverIn(ss, joined[q])
                    /\ \A p \in Posts : adapter[p] = "live" /\ joined[p] = joined[q] => p = q
    BY DEF RunMoves
<1>5. /\ Len(sessions) \in Nat /\ current \in 0..Len(sessions)
      /\ \A p \in Posts : joined[p] \in 0..Len(sessions)
      /\ \A s \in 1..Len(sessions) : s # 0 /\ sessions[s] \in SessionRecords
    BY DEF SessionsSound
<1>6. ASSUME NEW p \in Posts, p # q
      PROVE  /\ OverIn(sessions, joined[p])
                  => OverIn(ss, joined[p]) /\ TextIn(ss, joined[p]) = TextIn(sessions, joined[p])
             /\ adapter[p] = "live" => /\ TextIn(ss, joined[p]) = TextIn(sessions, joined[p])
                                       /\ ~OverIn(ss, joined[p])
  <2>1. CASE joined[p] = 0
      BY <2>1 DEF TextIn, OverIn, RunsSound
  <2>2. CASE joined[p] # 0 /\ adapter[q] = "live" /\ joined[p] = joined[q]
      BY <1>6, <2>2 DEF RunsSound, OneRuns
  <2>3. CASE joined[p] # 0 /\ ~(adapter[q] = "live" /\ joined[p] = joined[q])
    <3>1. joined[p] \in 1..Len(sessions)
        BY <1>5, <2>3
    <3>2. joined[p] # IF adapter[q] = "live" THEN joined[q] ELSE 0
        BY <2>3
    <3>3. SameText(sessions, ss, joined[p])
        BY <3>1, <3>2 DEF RunMoves, Grows
    <3>4. /\ TextIn(ss, joined[p]) = TextIn(sessions, joined[p])
          /\ OverIn(ss, joined[p]) = OverIn(sessions, joined[p])
        BY <3>3 DEF SameText, TextIn, OverIn
    <3>5. adapter[p] = "live" => ~OverIn(sessions, joined[p])
        BY DEF RunsSound
    <3> QED
        BY <3>4, <3>5
  <2> QED
      BY <2>1, <2>2, <2>3
<1>7. ExchangesTyped'
    BY <1>1, <1>2 DEF ExchangesTyped
<1>8. PipesTyped'
    BY <1>3 DEF PipesTyped, RunMoves
<1>9. SessionsSound'
  <2>1. \A s \in 1..Len(ss) : JournalSound(ss[s])
      BY <1>1 DEF RunMoves, Grows
  <2>2. DOMAIN ss = 1..Len(ss)
      BY <1>1
  <2> QED
      BY <1>1, <1>5, <2>1, <2>2 DEF SessionsSound
<1>10. RunsSound'
  <2>1. ASSUME NEW p \in Posts
        PROVE  /\ adapter'[p] \in {"off", "starting"} => joined[p] = 0
               /\ adapter'[p] \in {"waiting", "live"} => joined[p] # 0
               /\ adapter'[p] = "live" => ~OverIn(ss, joined[p])
    <3>1. CASE p = q
        BY <1>1, <1>2, <1>4, <3>1 DEF RunsSound
    <3>2. CASE p # q
        BY <1>2, <1>6, <3>2 DEF RunsSound
    <3> QED
        BY <3>1, <3>2
  <2> QED
      BY <1>1, <2>1 DEF RunsSound
<1>11. OneRuns'
  <2>1. ASSUME NEW p \in Posts, NEW o \in Posts, adapter'[p] = "live", adapter'[o] = "live", joined[p] = joined[o]
        PROVE  p = o
      BY <1>2, <1>4, <2>1 DEF OneRuns
  <2> QED
      BY <1>1, <2>1 DEF OneRuns
<1>12. StreamsSound'
  <2>1. ASSUME streamed, NEW p \in Posts
        PROVE  StreamSound(pipe'[p], adapter'[p], aborted[p], TextIn(ss, joined[p]), OverIn(ss, joined[p]))
    <3>1. CASE p = q
        BY <1>2, <1>3, <2>1, <3>1 DEF RunMoves
    <3>2. CASE p # q
      <4>1. StreamSound(pipe[p], adapter[p], aborted[p], TextIn(sessions, joined[p]), OverIn(sessions, joined[p]))
          BY <2>1 DEF StreamsSound
      <4>2. StreamSound(pipe[p], adapter[p], aborted[p], TextIn(ss, joined[p]), OverIn(ss, joined[p]))
          BY <1>6, <3>2, <4>1, StreamKept
      <4> QED
          BY <1>2, <1>3, <3>2, <4>2
    <3> QED
        BY <3>1, <3>2
  <2> QED
      BY <1>1, <2>1 DEF StreamsSound
<1>13. ExchangesSound'
  <2>1. ASSUME NEW p \in Posts
        PROVE  /\ http[p] \in {"unsent", "reading", "refused"} => adapter'[p] = "off"
               /\ http[p] \in {"unsent", "reading"} =>
                    pipe'[p].sent = <<>> /\ pipe'[p].backlog = <<>> /\ pipe'[p].step = "none" /\ ~pipe'[p].shut
               /\ http[p] = "replying" => adapter'[p] \in {"off", "ended"}
      BY <1>1, <1>2, <1>3 DEF ExchangesSound
  <2> QED
      BY <1>1, <2>1 DEF ExchangesSound
<1>14. InterruptedIsAborted'
    BY <1>1 DEF InterruptedIsAborted
<1>15. ReleasedIsStopped'
  <2>1. ASSUME NEW p \in Posts, http[p] = "over"
        PROVE  adapter'[p] \in {"off", "ended"} \/ pipe'[p].told
      BY <1>1, <1>2, <1>3, <2>1 DEF ReleasedIsStopped, RunMoves
  <2> QED
      BY <1>1, <2>1 DEF ReleasedIsStopped
<1>16. ShutdownSound'
  <2>1. ASSUME leaving = "scheduled", current' # 0
        PROVE  ss[current'].state # "active"
    <3>1. current' = current /\ current \in 1..Len(sessions)
        BY <1>1, <1>5, <2>1
    <3>2. sessions[current].state # "active"
        BY <2>1, <3>1 DEF ShutdownSound, Idle, ActiveSession
    <3> QED
        BY <3>1, <3>2 DEF RunMoves, Grows
  <2>2. leaving = "scheduled" => ~accepting /\ IdleHttp
      BY DEF ShutdownSound, Idle
  <2> QED
      BY <1>1, <2>1, <2>2 DEF ShutdownSound, Idle, IdleHttp, ActiveSession
<1> QED
    BY <1>7, <1>8, <1>9, <1>10, <1>11, <1>12, <1>13, <1>14, <1>15, <1>16

LEMMA TextMoves ==
    ASSUME RoundSound, NEW q \in Posts, NEW ss,
           Grows(sessions, ss, IF adapter[q] = "live" THEN joined[q] ELSE 0)
    PROVE  /\ TextIn(sessions, joined[q]) \in Nat /\ TextIn(ss, joined[q]) \in Nat
           /\ OverIn(sessions, joined[q])
                => OverIn(ss, joined[q]) /\ TextIn(ss, joined[q]) = TextIn(sessions, joined[q])
           /\ adapter[q] # "live" => /\ TextIn(ss, joined[q]) = TextIn(sessions, joined[q])
                                     /\ OverIn(ss, joined[q]) = OverIn(sessions, joined[q])
<1> USE DEF RoundSound
<1>1. CASE joined[q] = 0
    BY <1>1 DEF TextIn, OverIn
<1>2. CASE joined[q] # 0
  <2>1. joined[q] \in 1..Len(sessions) /\ sessions \in Seq(SessionRecords)
      BY <1>2 DEF SessionsSound
  <2>2. ss \in Seq(SessionRecords) /\ Len(ss) = Len(sessions)
      BY DEF Grows
  <2>3. TextIn(sessions, joined[q]) \in Nat /\ TextIn(ss, joined[q]) \in Nat
      BY <1>2, <2>1, <2>2, SessionFields DEF TextIn
  <2>4. adapter[q] = "live" => ~OverIn(sessions, joined[q])
      BY DEF RunsSound
  <2>5. adapter[q] # "live" => SameText(sessions, ss, joined[q])
      BY <1>2, <2>1 DEF Grows
  <2> QED
      BY <1>2, <2>3, <2>4, <2>5 DEF SameText, TextIn, OverIn
<1> QED
    BY <1>1, <1>2

LEMMA RunEndsSound ==
    ASSUME RoundSound, NEW q \in Posts, adapter[q] \in {"starting", "waiting", "live"},
           NEW batch \in Seq(Events), NEW ss,
           UNCHANGED <<daemonVars, httpVars, joined>>, sessions' = ss, current' \in {current, 0},
           Grows(sessions, ss, IF adapter[q] = "live" THEN joined[q] ELSE 0), RunEnds(q, batch),
           \A i \in 1..Len(batch) :
               Follows(batch[i], Base(adapter[q], TextIn(sessions, joined[q])) + i,
                       TextIn(ss, joined[q]), OverIn(ss, joined[q]))
    PROVE  RoundSound'
<1>1. PICK fed, r : fed = Feed(pipe[q], batch) /\ r = Close(fed)
    OBVIOUS
<1>2. IsPipe(pipe[q])
    BY DEF RoundSound, PipesTyped
<1>3. IsPipe(fed) /\ (pipe[q].told => fed.told)
    BY <1>1, <1>2, FeedTyped
<1>4. IsPipe(r) /\ (fed.told => r.told)
    BY <1>1, <1>3, CloseTyped
<1>5. adapter' = [adapter EXCEPT ![q] = "ended"] /\ pipe' = [pipe EXCEPT ![q] = r]
  <2>1. adapter \in [Posts -> {"off", "starting", "waiting", "live", "ended"}]
      BY DEF RoundSound, ExchangesTyped
  <2>2. adapter' = [p \in Posts |-> IF p \in {q} THEN "ended" ELSE adapter[p]]
      BY DEF RunEnds, Ended
  <2>3. adapter' = [adapter EXCEPT ![q] = "ended"]
      BY <2>1, <2>2
  <2>4. pipe' = [pipe EXCEPT ![q] = r]
      BY <1>1 DEF RunEnds, PipeBecomes, PipesBecome
  <2> QED
      BY <2>3, <2>4
<1>6. ASSUME streamed
      PROVE  StreamSound(r, "ended", aborted[q], TextIn(ss, joined[q]), OverIn(ss, joined[q]))
  <2>1. StreamSound(pipe[q], adapter[q], aborted[q], TextIn(sessions, joined[q]), OverIn(sessions, joined[q]))
      BY <1>6 DEF RoundSound, StreamsSound
  <2>2. /\ TextIn(sessions, joined[q]) \in Nat /\ TextIn(ss, joined[q]) \in Nat
        /\ OverIn(sessions, joined[q])
             => OverIn(ss, joined[q]) /\ TextIn(ss, joined[q]) = TextIn(sessions, joined[q])
      BY TextMoves
  <2>3. PICK p, run, text, text2 : /\ p = pipe[q] /\ run = adapter[q]
                                   /\ text = TextIn(sessions, joined[q]) /\ text2 = TextIn(ss, joined[q])
      OBVIOUS
  <2>4. StreamSound(p, run, aborted[q], text, OverIn(sessions, joined[q]))
      BY <2>1, <2>3
  <2>5. run \in {"starting", "waiting", "live"} /\ text \in Nat /\ text2 \in Nat /\ IsPipe(p)
      BY <1>2, <2>2, <2>3
  <2>6. OverIn(sessions, joined[q]) => OverIn(ss, joined[q]) /\ text2 = text
      BY <2>2, <2>3
  <2>7. \A i \in 1..Len(batch) : Follows(batch[i], Base(run, text) + i, text2, OverIn(ss, joined[q]))
      BY <2>3
  <2>8. StreamSound(Close(Feed(p, batch)), "ended", aborted[q], text2, OverIn(ss, joined[q]))
      BY <2>4, <2>5, <2>6, <2>7, FedSound
  <2> QED
      BY <1>1, <2>3, <2>8
<1>7. RunMoves(q, "ended", r, ss)
    BY <1>3, <1>4, <1>5, <1>6 DEF RunMoves
<1> QED
    BY <1>7, RunMovesSound

(* A session that is retired, and one whose round is marked before.              *)
LEMMA RetireGrows ==
    ASSUME SessionsSound, NEW ss, NEW here, Grows(sessions, ss, here), NEW s \in 0..Len(sessions), RetireSession(s, ss)
    PROVE  \E ss2 : /\ sessions' = ss2 /\ Grows(sessions, ss2, here) /\ current' \in {current, 0}
                    /\ \A i \in 1..Len(sessions) : SameText(ss, ss2, i)
                    /\ current' # 0 => current' # s
<1>1. Len(sessions) \in Nat /\ ss \in Seq(SessionRecords) /\ Len(ss) = Len(sessions)
    BY DEF SessionsSound, Grows
<1>2. CASE current = s /\ s # 0
  <2>1. s \in 1..Len(sessions)
      BY <1>1, <1>2
  <2>2. PICK ss2 : ss2 = WithState(ss, s, "retiring")
      OBVIOUS
  <2>3. Grows(sessions, ss2, here)
      BY <2>1, <2>2, StateGrows DEF States
  <2>4. \A i \in 1..Len(sessions) : SameText(ss, ss2, i)
    <3>1. /\ \A i \in 1..Len(ss) : i # s => ss2[i] = ss[i]
          /\ ss2[s].text = ss[s].text /\ ss2[s].journal = ss[s].journal
      <4>1. s \in 1..Len(ss) /\ "retiring" \in States
          BY <1>1, <2>1 DEF States
      <4> QED
          BY <1>1, <2>2, <4>1, StateField
    <3> QED
        BY <1>1, <3>1 DEF SameText
  <2>5. sessions' = ss2 /\ current' = 0
      BY <1>2, <2>2 DEF RetireSession, WithState
  <2> QED
      BY <2>3, <2>4, <2>5
<1>3. CASE ~(current = s /\ s # 0)
  <2>1. sessions' = ss /\ current' = current
      BY <1>3 DEF RetireSession
  <2>2. \A i \in 1..Len(sessions) : SameText(ss, ss, i)
      BY DEF SameText
  <2> QED
      BY <1>3, <2>1, <2>2
<1> QED
    BY <1>2, <1>3

LEMMA SameIn ==
    ASSUME NEW ss, NEW ss2, NEW s, s # 0 => SameText(ss, ss2, s)
    PROVE  TextIn(ss2, s) = TextIn(ss, s) /\ OverIn(ss2, s) = OverIn(ss, s)
BY DEF TextIn, OverIn, SameText

(* A run that breaks: what it pushes may be anything that follows.               *)
LEMMA RetiresSound ==
    ASSUME RoundSound, NEW q \in Posts, adapter[q] \in {"waiting", "live"},
           NEW batch \in Seq(Events), NEW ss,
           UNCHANGED <<daemonVars, httpVars, joined>>,
           Grows(sessions, ss, IF adapter[q] = "live" THEN joined[q] ELSE 0),
           RetireSession(joined[q], ss), RunEnds(q, batch),
           \A i \in 1..Len(batch) :
               Follows(batch[i], Base(adapter[q], TextIn(sessions, joined[q])) + i,
                       TextIn(ss, joined[q]), OverIn(ss, joined[q]))
    PROVE  RoundSound'
<1>1. SessionsSound /\ joined[q] \in 0..Len(sessions) /\ Len(sessions) \in Nat
    BY DEF RoundSound, SessionsSound
<1>2. PICK ss2 : /\ sessions' = ss2 /\ Grows(sessions, ss2, IF adapter[q] = "live" THEN joined[q] ELSE 0)
                 /\ current' \in {current, 0}
                 /\ \A i \in 1..Len(sessions) : SameText(ss, ss2, i)
    BY <1>1, RetireGrows
<1>3. TextIn(ss2, joined[q]) = TextIn(ss, joined[q]) /\ OverIn(ss2, joined[q]) = OverIn(ss, joined[q])
  <2>1. joined[q] # 0 => SameText(ss, ss2, joined[q])
      BY <1>1, <1>2
  <2> QED
      BY <2>1, SameIn
<1>4. \A i \in 1..Len(batch) :
          Follows(batch[i], Base(adapter[q], TextIn(sessions, joined[q])) + i,
                  TextIn(ss2, joined[q]), OverIn(ss2, joined[q]))
    BY <1>3 DEF Follows
<1> QED
    BY <1>2, <1>4, RunEndsSound

LEMMA FailedRound ==
    ASSUME SessionsSound, NEW ss, NEW here, Grows(sessions, ss, here), NEW s \in 1..Len(sessions), NEW x \in Rounds
    PROVE  /\ Grows(sessions, [ss EXCEPT ![s].round = x], here)
           /\ TextIn([ss EXCEPT ![s].round = x], s) = TextIn(ss, s)
           /\ OverIn([ss EXCEPT ![s].round = x], s) = OverIn(ss, s)
<1>1. PICK t : t = WithRound(ss, s, x)
    OBVIOUS
<1>2. ss \in Seq(SessionRecords) /\ Len(ss) = Len(sessions)
    BY DEF Grows
<1>3. t[s].text = ss[s].text /\ t[s].journal = ss[s].journal
    BY <1>1, <1>2, RoundField
<1>4. SameText(ss, t, s)
    BY <1>3 DEF SameText
<1>5. TextIn(t, s) = TextIn(ss, s) /\ OverIn(t, s) = OverIn(ss, s)
    BY <1>4, SameIn
<1>6. Grows(sessions, t, here)
    BY <1>1, RoundGrows
<1>7. t = [ss EXCEPT ![s].round = x]
    BY <1>1 DEF WithRound
<1> QED
    BY <1>5, <1>6, <1>7

LEMMA BreaksSound ==
    ASSUME RoundSound, NEW q \in Posts, adapter[q] \in {"waiting", "live"},
           NEW batch \in Seq(Events), Breaks(q, batch),
           \A i \in 1..Len(batch) :
               Follows(batch[i], Base(adapter[q], TextIn(sessions, joined[q])) + i,
                       TextIn(sessions, joined[q]), OverIn(sessions, joined[q]))
    PROVE  RoundSound'
<1>1. SessionsSound /\ joined[q] \in 1..Len(sessions) /\ sessions \in Seq(SessionRecords)
    BY DEF RoundSound, SessionsSound, RunsSound
<1>2. PICK here : here = IF adapter[q] = "live" THEN joined[q] ELSE 0
    OBVIOUS
<1>3. Grows(sessions, sessions, here)
  <2>1. \A s \in 1..Len(sessions) : JournalSound(sessions[s])
      BY <1>1 DEF SessionsSound
  <2> QED
      BY <1>1, <2>1, NothingGrows
<1>4. PICK ss : ss = [sessions EXCEPT ![joined[q]].round = "failed"]
    OBVIOUS
<1>5. /\ Grows(sessions, ss, here)
      /\ TextIn(ss, joined[q]) = TextIn(sessions, joined[q]) /\ OverIn(ss, joined[q]) = OverIn(sessions, joined[q])
    BY <1>1, <1>3, <1>4, FailedRound DEF Rounds
<1>6. \A i \in 1..Len(batch) :
          Follows(batch[i], Base(adapter[q], TextIn(sessions, joined[q])) + i,
                  TextIn(ss, joined[q]), OverIn(ss, joined[q]))
    BY <1>5 DEF Follows
<1>7. RetireSession(joined[q], ss) /\ RunEnds(q, batch) /\ UNCHANGED <<daemonVars, httpVars, joined>>
    BY <1>4 DEF Breaks
<1> QED
    BY <1>2, <1>5, <1>6, <1>7, RetiresSound

(* The run ends in a session whose round is marked.                              *)
LEMMA MarkedEnds ==
    ASSUME RoundSound, NEW q \in Posts, adapter[q] \in {"waiting", "live"},
           NEW batch \in Seq(Events), NEW ss, NEW x \in Rounds,
           UNCHANGED <<daemonVars, httpVars, joined>>,
           Grows(sessions, ss, IF adapter[q] = "live" THEN joined[q] ELSE 0), RunEnds(q, batch),
           \/ sessions' = [ss EXCEPT ![joined[q]].round = x] /\ current' = current
           \/ RetireSession(joined[q], [ss EXCEPT ![joined[q]].round = x]),
           \A i \in 1..Len(batch) :
               Follows(batch[i], Base(adapter[q], TextIn(sessions, joined[q])) + i,
                       TextIn(ss, joined[q]), OverIn(ss, joined[q]))
    PROVE  RoundSound'
<1>1. SessionsSound /\ joined[q] \in 1..Len(sessions)
    BY DEF RoundSound, SessionsSound, RunsSound
<1>2. PICK here, ss2 : /\ here = IF adapter[q] = "live" THEN joined[q] ELSE 0
                       /\ ss2 = [ss EXCEPT ![joined[q]].round = x]
    OBVIOUS
<1>3. /\ Grows(sessions, ss2, here)
      /\ TextIn(ss2, joined[q]) = TextIn(ss, joined[q]) /\ OverIn(ss2, joined[q]) = OverIn(ss, joined[q])
    BY <1>1, <1>2, FailedRound
<1>4. \A i \in 1..Len(batch) :
          Follows(batch[i], Base(adapter[q], TextIn(sessions, joined[q])) + i,
                  TextIn(ss2, joined[q]), OverIn(ss2, joined[q]))
    BY <1>3 DEF Follows
<1>5. CASE RetireSession(joined[q], ss2)
    BY <1>2, <1>3, <1>4, <1>5, RetiresSound
<1>6. CASE sessions' = ss2 /\ current' = current
  <2>1. current' \in {current, 0}
      BY <1>6
  <2> QED
      BY <1>2, <1>3, <1>4, <1>6, <2>1, RunEndsSound
<1> QED
    BY <1>2, <1>5, <1>6

-------------------------------------------------------------------------------
(* The steps of a run.                                                           *)
LEMMA ErrorFollows ==
    /\ Error \in Events
    /\ \A place, text, over : Follows(Error, place, text, over)
<1>1. Error.kind # "delta" /\ Error # Done
    BY FramesDiffer DEF Error, Mark
<1> QED
    BY <1>1, FramesDiffer DEF Follows

LEMMA ErrorBatch ==
    ASSUME NEW base, NEW text, NEW over
    PROVE  /\ <<Error>> \in Seq(Events) /\ IsNext(<<Error>>, text) /\ Pieces(<<Error>>, text) = 0
           /\ \A i \in 1..Len(<<Error>>) : Follows(<<Error>>[i], base + i, text, over)
<1>1. PICK b : b = <<Error>>
    OBVIOUS
<1>2. b \in Seq(Events) /\ Len(b) = 1 /\ b[1] = Error
    BY <1>1, ErrorFollows
<1>3. \A i \in 1..Len(b) : i = 1
    BY <1>2
<1>4. \A i \in 1..Len(b) : Follows(b[i], base + i, text, over)
    BY <1>2, <1>3, ErrorFollows
<1> QED
    BY <1>1, <1>2, <1>4 DEF IsNext, Pieces

LEMMA SessionsSame ==
    ASSUME RoundSound, NEW here
    PROVE  Grows(sessions, sessions, here) /\ SessionsSound
<1>1. \A s \in 1..Len(sessions) : JournalSound(sessions[s])
    BY DEF RoundSound, SessionsSound
<1> QED
    BY <1>1, NothingGrows DEF RoundSound, SessionsSound

LEMMA JoinAbortedSound ==
    ASSUME RoundSound, NEW q \in Posts, JoinAborted(q)
    PROVE  RoundSound'
<1>1. /\ adapter[q] \in {"starting", "waiting", "live"} /\ RunEnds(q, <<Error>>)
      /\ UNCHANGED <<daemonVars, httpVars, joined, sessions, current>>
    BY DEF JoinAborted
<1>2. Grows(sessions, sessions, IF adapter[q] = "live" THEN joined[q] ELSE 0)
    BY SessionsSame
<1>3. UNCHANGED <<daemonVars, httpVars, joined>> /\ sessions' = sessions /\ current' \in {current, 0}
    BY <1>1
<1> QED
    BY <1>1, <1>2, <1>3, ErrorBatch, RunEndsSound

LEMMA AbortRunSound ==
    ASSUME RoundSound, NEW q \in Posts, AbortRun(q)
    PROVE  RoundSound'
<1>1. /\ adapter[q] \in {"starting", "waiting", "live"} /\ RunEnds(q, <<Error>>)
      /\ UNCHANGED <<daemonVars, httpVars, joined, sessions, current>>
    BY DEF AbortRun
<1>2. Grows(sessions, sessions, IF adapter[q] = "live" THEN joined[q] ELSE 0)
    BY SessionsSame
<1>3. UNCHANGED <<daemonVars, httpVars, joined>> /\ sessions' = sessions /\ current' \in {current, 0}
    BY <1>1
<1> QED
    BY <1>1, <1>2, <1>3, ErrorBatch, RunEndsSound

(* The journal of a session follows for a stream that holds nothing yet.         *)
LEMMA ReplayFollows ==
    ASSUME RoundSound, NEW q \in Posts, adapter[q] = "waiting"
    PROVE  LET j == ReplayOf(q)  text == TextIn(sessions, joined[q])  over == OverIn(sessions, joined[q])
           IN  /\ j \in Seq(Events) /\ text \in Nat
               /\ \A i \in 1..Len(j) : Follows(j[i], Base(adapter[q], text) + i, text, over)
               /\ ~HasTerminal(j) => Len(j) = text /\ ~over
<1>1. joined[q] \in 1..Len(sessions) /\ sessions \in Seq(SessionRecords) /\ joined[q] # 0
    BY DEF RoundSound, SessionsSound, RunsSound
<1>2. PICK j, text, s : j = ReplayOf(q) /\ s = joined[q] /\ text = TextIn(sessions, s)
    OBVIOUS
<1>3. j = sessions[s].journal /\ text = sessions[s].text
    BY <1>1, <1>2 DEF ReplayOf, Session, TextIn
<1>4. j \in Seq(Events) /\ text \in Nat /\ Len(j) \in Nat
    BY <1>1, <1>2, <1>3, SessionFields
<1>5. JournalSound(sessions[s])
    BY <1>1, <1>2 DEF RoundSound, SessionsSound
<1>6. /\ IsText(j, text)
      /\ \/ Len(j) = text
         \/ Len(j) = text + 1 /\ j[text + 1] \in {Done, Error}
    BY <1>3, <1>5 DEF JournalSound
<1>7. OverIn(sessions, s) = (Len(j) > text)
    BY <1>1, <1>2, <1>3 DEF OverIn
<1>8. \A i \in 1..Len(j) : Base(adapter[q], text) + i = i
    BY DEF Base
<1>9. ASSUME NEW i \in 1..Len(j)
      PROVE  Follows(j[i], i, text, OverIn(sessions, s))
  <2>1. CASE i \in 1..text
    <3>1. j[i] = Delta(i)
        BY <1>6, <2>1 DEF IsText
    <3>2. j[i] # Done
        BY <3>1, FramesDiffer
    <3> QED
        BY <3>1, <3>2 DEF Follows
  <2>2. CASE i \notin 1..text
    <3>1. Len(j) = text + 1 /\ i = text + 1
        BY <1>4, <1>6, <2>2
    <3>2. j[i] \in {Done, Error}
        BY <1>4, <1>6, <3>1
    <3>3. j[i].kind # "delta"
        BY <3>2 DEF Done, Error, Mark
    <3>4. OverIn(sessions, s)
      <4>1. Len(j) > text
          BY <1>4, <3>1
      <4> QED
          BY <1>7, <4>1
    <3> QED
        BY <3>1, <3>3, <3>4 DEF Follows
  <2> QED
      BY <2>1, <2>2
<1>10. ASSUME ~HasTerminal(j)
       PROVE  Len(j) = text /\ ~OverIn(sessions, s)
  <2>1. Len(j) = text
    <3>1. SUFFICES ASSUME Len(j) = text + 1, j[text + 1] \in {Done, Error}
                   PROVE  FALSE
        BY <1>6
    <3>2. text + 1 \in DOMAIN j
        BY <1>4, <3>1
    <3>3. j[text + 1] \in Range(j)
        BY <3>2 DEF Range
    <3> QED
        BY <1>10, <3>1, <3>3 DEF HasTerminal
  <2>2. ~(Len(j) > text)
      BY <1>4, <2>1
  <2> QED
      BY <1>7, <2>1, <2>2
<1>11. \A i \in 1..Len(j) : Follows(j[i], Base(adapter[q], text) + i, text, OverIn(sessions, s))
    BY <1>8, <1>9
<1> QED
    BY <1>2, <1>4, <1>10, <1>11

LEMMA GoLiveSound ==
    ASSUME RoundSound, NEW q \in Posts, GoLive(q)
    PROVE  RoundSound'
<1>1. adapter[q] = "waiting" /\ adapter[q] \in {"waiting", "live"} /\ adapter[q] \in {"starting", "waiting", "live"}
    BY DEF GoLive
<1>2. PICK j : j = ReplayOf(q)
    OBVIOUS
<1>3. /\ j \in Seq(Events) /\ TextIn(sessions, joined[q]) \in Nat
      /\ \A i \in 1..Len(j) : Follows(j[i], Base(adapter[q], TextIn(sessions, joined[q])) + i,
                                      TextIn(sessions, joined[q]), OverIn(sessions, joined[q]))
      /\ ~HasTerminal(j) => Len(j) = TextIn(sessions, joined[q]) /\ ~OverIn(sessions, joined[q])
    BY <1>1, <1>2, ReplayFollows
<1>4. Grows(sessions, sessions, IF adapter[q] = "live" THEN joined[q] ELSE 0)
    BY SessionsSame
<1>5. CASE Breaks(q, j)
    BY <1>1, <1>3, <1>5, BreaksSound
<1>6. CASE /\ ~Overflows(pipe[q], j) /\ ~HasTerminal(j) /\ adapter' = [adapter EXCEPT ![q] = "live"]
           /\ PipeBecomes(q, Feed(pipe[q], j))
           /\ UNCHANGED <<daemonVars, httpVars, joined, sessions, current>> /\ ~Busy(joined[q])
  <2>1. PICK r : r = Feed(pipe[q], j)
      OBVIOUS
  <2>2. IsPipe(pipe[q])
      BY DEF RoundSound, PipesTyped
  <2>3. IsPipe(r) /\ (pipe[q].told => r.told)
      BY <1>3, <2>1, <2>2, FeedTyped
  <2>4. pipe' = [pipe EXCEPT ![q] = r]
      BY <1>6, <2>1 DEF PipeBecomes, PipesBecome
  <2>5. \A p \in Posts : adapter[p] = "live" /\ joined[p] = joined[q] => p = q
      BY <1>6 DEF Busy
  <2>6. ASSUME streamed
        PROVE  StreamSound(r, "live", aborted[q], TextIn(sessions, joined[q]), OverIn(sessions, joined[q]))
    <3>1. PICK p, run, text, over, gone :
              /\ p = pipe[q] /\ run = adapter[q] /\ gone = aborted[q]
              /\ text = TextIn(sessions, joined[q]) /\ over = OverIn(sessions, joined[q])
        OBVIOUS
    <3>2. StreamSound(p, run, gone, text, over)
        BY <2>6, <3>1 DEF RoundSound, StreamsSound
    <3>3. run \in {"starting", "waiting", "live"} /\ text \in Nat /\ IsPipe(p)
        BY <1>1, <1>3, <2>2, <3>1
    <3>4. \A i \in 1..Len(j) : Follows(j[i], Base(run, text) + i, text, over)
        BY <1>3, <3>1
    <3>5. AllOf(text, run, text, j) /\ ~Overflows(p, j)
      <4>1. Len(j) = text /\ ~Overflows(p, j) /\ run = "waiting"
          BY <1>1, <1>3, <1>6, <3>1
      <4>2. Base(run, text) = 0
          BY <4>1 DEF Base
      <4> QED
          BY <3>3, <4>1, <4>2 DEF AllOf
    <3>6. StreamSound(Feed(p, j), "live", gone, text, over)
      <4>1. over => over /\ text = text
          OBVIOUS
      <4> QED
          BY <1>3, <3>2, <3>3, <3>4, <3>5, <4>1, FedSound
    <3> QED
        BY <2>1, <3>1, <3>6
  <2>7. RunMoves(q, "live", r, sessions)
      BY <1>1, <1>3, <1>4, <1>6, <2>3, <2>4, <2>5, <2>6 DEF RunMoves
  <2> QED
      BY <2>7, RunMovesSound
<1>7. CASE RunEnds(q, j) /\ UNCHANGED <<daemonVars, httpVars, joined, sessions, current>>
  <2>1. UNCHANGED <<daemonVars, httpVars, joined>> /\ sessions' = sessions /\ current' \in {current, 0}
      BY <1>7
  <2> QED
      BY <1>1, <1>3, <1>4, <1>7, <2>1, RunEndsSound
<1>8. CASE RunEnds(q, Append(j, Error)) /\ UNCHANGED <<daemonVars, httpVars, joined, sessions, current>>
  <2>1. UNCHANGED <<daemonVars, httpVars, joined>> /\ sessions' = sessions /\ current' \in {current, 0}
      BY <1>8
  <2>2. PICK b : b = Append(j, Error)
      OBVIOUS
  <2>3. /\ b \in Seq(Events) /\ Len(b) = Len(j) + 1 /\ Len(j) \in Nat /\ b[Len(j) + 1] = Error
        /\ \A i \in 1..Len(j) : b[i] = j[i]
      BY <1>3, <2>2, ErrorFollows
  <2>4. ASSUME NEW i \in 1..Len(b)
        PROVE  Follows(b[i], Base(adapter[q], TextIn(sessions, joined[q])) + i,
                       TextIn(sessions, joined[q]), OverIn(sessions, joined[q]))
    <3>1. CASE i \in 1..Len(j)
        BY <1>3, <2>3, <3>1
    <3>2. CASE i \notin 1..Len(j)
      <4>1. i = Len(j) + 1
          BY <2>3, <3>2
      <4> QED
          BY <2>3, <4>1, ErrorFollows
    <3> QED
        BY <3>1, <3>2
  <2>5. RunEnds(q, b)
      BY <1>8, <2>2
  <2> QED
      BY <1>1, <1>4, <2>1, <2>3, <2>4, <2>5, RunEndsSound
<1> QED
    BY <1>2, <1>5, <1>6, <1>7, <1>8 DEF GoLive

(* The journal of a live run, and what its batch makes of it.                    *)
LEMMA LiveJournal ==
    ASSUME RoundSound, NEW q \in Posts, adapter[q] = "live", NEW batch,
           IsNext(batch, sessions[joined[q]].text),
           Pieces(batch, sessions[joined[q]].text) = 1 => sessions[joined[q]].text < MaxEvents
    PROVE  LET ss == Journalled(q, batch)
           IN  /\ batch \in Seq(Events) /\ Grows(sessions, ss, IF adapter[q] = "live" THEN joined[q] ELSE 0)
               /\ \A i \in 1..Len(batch) :
                     Follows(batch[i], Base(adapter[q], TextIn(sessions, joined[q])) + i,
                             TextIn(ss, joined[q]), OverIn(ss, joined[q]))
               /\ batch = <<Delta(sessions[joined[q]].text + 1)>>
                    => /\ ~OverIn(ss, joined[q])
                       /\ TextIn(ss, joined[q]) = Base(adapter[q], TextIn(sessions, joined[q])) + Len(batch)
<1>1. joined[q] # 0 /\ ~OverIn(sessions, joined[q]) /\ SessionsSound
    BY DEF RoundSound, RunsSound
<1>2. PICK s, ss : s = joined[q] /\ ss = Journalled(q, batch)
    OBVIOUS
<1>3. /\ batch \in Seq(Events) /\ Grows(sessions, ss, s)
      /\ \A i \in 1..Len(batch) : Follows(batch[i], sessions[s].text + i, ss[s].text, OverIn(ss, s))
      /\ batch = <<Delta(sessions[s].text + 1)>>
           => ~OverIn(ss, s) /\ ss[s].text = sessions[s].text + Len(batch)
    BY <1>1, <1>2, JournalledGrows
<1>4. /\ Base(adapter[q], TextIn(sessions, s)) = sessions[s].text /\ TextIn(ss, s) = ss[s].text
      /\ s = IF adapter[q] = "live" THEN joined[q] ELSE 0
    BY <1>1, <1>2 DEF Base, TextIn
<1> QED
    BY <1>2, <1>3, <1>4

LEMMA RelaySound ==
    ASSUME RoundSound, NEW q \in Posts, Relay(q)
    PROVE  RoundSound'
<1>1. PICK t, batch, ss : /\ t = sessions[joined[q]].text /\ batch = <<NextDelta(q)>>
                          /\ ss = Journalled(q, batch)
    OBVIOUS
<1>2. adapter[q] = "live" /\ t < MaxEvents /\ batch = <<Delta(t + 1)>> /\ adapter[q] \in {"waiting", "live"}
    BY <1>1 DEF Relay, NextDelta, Session
<1>3. IsNext(batch, t)
    BY <1>2 DEF IsNext
<1>4. /\ batch \in Seq(Events) /\ Grows(sessions, ss, IF adapter[q] = "live" THEN joined[q] ELSE 0)
      /\ \A i \in 1..Len(batch) :
            Follows(batch[i], Base(adapter[q], TextIn(sessions, joined[q])) + i,
                    TextIn(ss, joined[q]), OverIn(ss, joined[q]))
      /\ ~OverIn(ss, joined[q])
      /\ TextIn(ss, joined[q]) = Base(adapter[q], TextIn(sessions, joined[q])) + Len(batch)
    BY <1>1, <1>2, <1>3, LiveJournal
<1>5. CASE /\ ~Overflows(pipe[q], batch) /\ sessions' = ss /\ PipeBecomes(q, Feed(pipe[q], batch))
           /\ UNCHANGED <<daemonVars, httpVars, adapter, joined, current>>
  <2>1. PICK r : r = Feed(pipe[q], batch)
      OBVIOUS
  <2>2. IsPipe(pipe[q])
      BY DEF RoundSound, PipesTyped
  <2>3. IsPipe(r) /\ (pipe[q].told => r.told)
      BY <1>4, <2>1, <2>2, FeedTyped
  <2>4. pipe' = [pipe EXCEPT ![q] = r]
      BY <1>5, <2>1 DEF PipeBecomes, PipesBecome
  <2>5. \A p \in Posts : adapter[p] = "live" /\ joined[p] = joined[q] => p = q
      BY <1>2 DEF RoundSound, OneRuns
  <2>6. ASSUME streamed
        PROVE  StreamSound(r, "live", aborted[q], TextIn(ss, joined[q]), OverIn(ss, joined[q]))
    <3>0. batch \in Seq(Events)
        BY <1>4
    <3>1. PICK p, run, text, text2 : /\ p = pipe[q] /\ run = adapter[q]
                                     /\ text = TextIn(sessions, joined[q]) /\ text2 = TextIn(ss, joined[q])
        OBVIOUS
    <3>2. StreamSound(p, run, aborted[q], text, OverIn(sessions, joined[q]))
        BY <2>6, <3>1 DEF RoundSound, StreamsSound
    <3>3. run \in {"starting", "waiting", "live"} /\ IsPipe(p)
        BY <1>2, <2>2, <3>1
    <3>4. text \in Nat /\ text2 \in Nat /\ (OverIn(sessions, joined[q]) => OverIn(ss, joined[q]) /\ text2 = text)
        BY <1>4, <3>1, TextMoves
    <3>5. \A i \in 1..Len(batch) : Follows(batch[i], Base(run, text) + i, text2, OverIn(ss, joined[q]))
        BY <1>4, <3>1
    <3>6. AllOf(text2, run, text, batch) /\ ~Overflows(p, batch)
        BY <1>4, <1>5, <3>1 DEF AllOf
    <3>7. StreamSound(Feed(p, batch), "live", aborted[q], text2, OverIn(ss, joined[q]))
        BY <3>0, <3>2, <3>3, <3>4, <3>5, <3>6, FedSound
    <3> QED
        BY <2>1, <3>1, <3>7
  <2>7. adapter' = [adapter EXCEPT ![q] = "live"]
      BY <1>2, <1>5 DEF RoundSound, ExchangesTyped
  <2>8. RunMoves(q, "live", r, ss)
      BY <1>2, <1>4, <1>5, <2>3, <2>4, <2>5, <2>6, <2>7 DEF RunMoves
  <2> QED
      BY <2>8, RunMovesSound
<1>6. CASE /\ RetireSession(joined[q], [ss EXCEPT ![joined[q]].round = "failed"])
           /\ RunEnds(q, batch) /\ UNCHANGED <<daemonVars, httpVars, joined>>
    BY <1>2, <1>4, <1>6, MarkedEnds DEF Rounds
<1> QED
    BY <1>1, <1>5, <1>6 DEF Relay

LEMMA FinishSound ==
    ASSUME RoundSound, NEW q \in Posts, Finish(q)
    PROVE  RoundSound'
<1>1. PICK t, batch, ss : /\ t = sessions[joined[q]].text /\ batch = LastBatch(q)
                          /\ ss = Journalled(q, batch)
    OBVIOUS
<1>2. adapter[q] = "live" /\ adapter[q] \in {"waiting", "live"}
    BY DEF Finish
<1>3. IsNext(batch, t) /\ (Pieces(batch, t) = 1 => t < MaxEvents)
  <2>1. CASE t < MaxEvents
    <3>1. batch = <<Delta(t + 1), Done>>
        BY <1>1, <2>1 DEF LastBatch, NextDelta, Session
    <3> QED
        BY <2>1, <3>1 DEF IsNext
  <2>2. CASE ~(t < MaxEvents)
    <3>1. batch = <<Done>>
        BY <1>1, <2>2 DEF LastBatch, Session
    <3> QED
        BY <3>1 DEF IsNext, Pieces
  <2> QED
      BY <2>1, <2>2
<1>4. /\ batch \in Seq(Events) /\ Grows(sessions, ss, IF adapter[q] = "live" THEN joined[q] ELSE 0)
      /\ \A i \in 1..Len(batch) :
            Follows(batch[i], Base(adapter[q], TextIn(sessions, joined[q])) + i,
                    TextIn(ss, joined[q]), OverIn(ss, joined[q]))
    BY <1>1, <1>2, <1>3, LiveJournal
<1>5. CASE /\ sessions' = [ss EXCEPT ![joined[q]].round = "completed"] /\ RunEnds(q, batch)
           /\ UNCHANGED <<daemonVars, httpVars, joined, current>>
    BY <1>2, <1>4, <1>5, MarkedEnds DEF Rounds
<1>6. CASE /\ RetireSession(joined[q], [ss EXCEPT ![joined[q]].round = "failed"])
           /\ RunEnds(q, batch) /\ UNCHANGED <<daemonVars, httpVars, joined>>
    BY <1>2, <1>4, <1>6, MarkedEnds DEF Rounds
<1> QED
    BY <1>1, <1>5, <1>6 DEF Finish

LEMMA FailSound ==
    ASSUME RoundSound, NEW q \in Posts, Fail(q)
    PROVE  RoundSound'
<1>1. PICK batch, ss : batch = <<Error>> /\ ss = Journalled(q, batch)
    OBVIOUS
<1>2. adapter[q] = "live" /\ adapter[q] \in {"waiting", "live"}
    BY DEF Fail
<1>3. CASE Breaks(q, <<Error>>)
    BY <1>2, <1>3, BreaksSound, ErrorBatch
<1>4. /\ batch \in Seq(Events) /\ Grows(sessions, ss, IF adapter[q] = "live" THEN joined[q] ELSE 0)
      /\ \A i \in 1..Len(batch) :
            Follows(batch[i], Base(adapter[q], TextIn(sessions, joined[q])) + i,
                    TextIn(ss, joined[q]), OverIn(ss, joined[q]))
  <2>1. IsNext(batch, sessions[joined[q]].text) /\ Pieces(batch, sessions[joined[q]].text) = 0
      BY <1>1, ErrorBatch
  <2>2. Pieces(batch, sessions[joined[q]].text) # 1
      BY <2>1
  <2> QED
      BY <1>1, <1>2, <2>1, <2>2, LiveJournal
<1>5. PICK mark : mark = [ss EXCEPT ![joined[q]].round = "completed"]
    OBVIOUS
<1>6. Failed(q) = ss \/ Failed(q) = mark
    BY <1>1, <1>5 DEF Failed
<1>7. CASE /\ RunEnds(q, batch) /\ UNCHANGED <<daemonVars, httpVars, joined>>
           /\ \/ sessions' = ss /\ UNCHANGED current
              \/ RetireSession(joined[q], ss)
  <2>1. CASE sessions' = ss /\ UNCHANGED current
    <3>1. current' \in {current, 0}
        BY <2>1
    <3> QED
        BY <1>2, <1>4, <1>7, <2>1, <3>1, RunEndsSound
  <2>2. CASE RetireSession(joined[q], ss)
      BY <1>2, <1>4, <1>7, <2>2, RetiresSound
  <2> QED
      BY <1>7, <2>1, <2>2
<1>8. CASE /\ RunEnds(q, batch) /\ UNCHANGED <<daemonVars, httpVars, joined>>
           /\ \/ sessions' = mark /\ UNCHANGED current
              \/ RetireSession(joined[q], mark)
    BY <1>2, <1>4, <1>5, <1>8, MarkedEnds DEF Rounds
<1> QED
    BY <1>1, <1>3, <1>6, <1>7, <1>8 DEF Fail

-------------------------------------------------------------------------------
(* The steps of the process that touch no exchange.                              *)
Quiet ==
    /\ UNCHANGED <<httpVars, roundVars, pipe, streamed>>
    /\ accepting' \in BOOLEAN /\ interrupted' \in BOOLEAN /\ lives' \in 1..MaxLives
    /\ leaving' \in {"no", "scheduled", "overtaken", "closing", "gone"}
    /\ interrupted' => interrupted
    /\ leaving' = "scheduled" => ~accepting' /\ Idle

LEMMA QuietSound ==
    ASSUME RoundSound, Quiet
    PROVE  RoundSound'
<1> USE DEF RoundSound
<1>1. /\ http' = http /\ aborted' = aborted /\ adapter' = adapter /\ joined' = joined /\ sessions' = sessions
      /\ current' = current /\ pipe' = pipe /\ streamed' = streamed
    BY DEF Quiet, httpVars, roundVars
<1>2. ExchangesTyped'
    BY <1>1 DEF Quiet, ExchangesTyped
<1>3. PipesTyped' /\ SessionsSound' /\ RunsSound' /\ OneRuns'
    BY <1>1 DEF PipesTyped, SessionsSound, RunsSound, OneRuns
<1>4. StreamsSound' /\ ExchangesSound' /\ ReleasedIsStopped'
    BY <1>1 DEF StreamsSound, ExchangesSound, ReleasedIsStopped
<1>5. InterruptedIsAborted'
    BY <1>1 DEF Quiet, InterruptedIsAborted
<1>6. ShutdownSound'
    BY <1>1 DEF Quiet, ShutdownSound, Idle, IdleHttp, ActiveSession
<1> QED
    BY <1>2, <1>3, <1>4, <1>5, <1>6

LEMMA QuietSteps ==
    ASSUME RoundSound,
           \/ ExpandPrevious \/ PersistTimer \/ Drain \/ Resume \/ ForgetInterrupt \/ AskShutdown \/ Start
           \/ UNCHANGED responseVars
    PROVE  RoundSound'
<1>0. /\ accepting \in BOOLEAN /\ interrupted \in BOOLEAN /\ lives \in 1..MaxLives /\ MaxLives \in Nat
      /\ leaving \in {"no", "scheduled", "overtaken", "closing", "gone"}
      /\ leaving = "scheduled" => ~accepting /\ Idle
    BY BoundsAssumption DEF RoundSound, ExchangesTyped, ShutdownSound
<1>1. CASE ExpandPrevious
    BY <1>0, <1>1, QuietSound DEF Quiet, ExpandPrevious, daemonVars
<1>2. CASE PersistTimer
    BY <1>0, <1>2, QuietSound DEF Quiet, PersistTimer, daemonVars
<1>3. CASE Drain
    BY <1>0, <1>3, QuietSound DEF Quiet, Drain
<1>4. CASE Resume
    BY <1>0, <1>4, QuietSound DEF Quiet, Resume
<1>5. CASE ForgetInterrupt
    BY <1>0, <1>5, QuietSound DEF Quiet, ForgetInterrupt
<1>6. CASE AskShutdown
    BY <1>0, <1>6, QuietSound DEF Quiet, AskShutdown, MayShutDown
<1>7. CASE Start
    BY <1>0, <1>7, QuietSound DEF Quiet, Start
<1>8. CASE UNCHANGED responseVars
    BY <1>0, <1>8, QuietSound DEF Quiet, responseVars, daemonVars
<1> QED
    BY <1>1, <1>2, <1>3, <1>4, <1>5, <1>6, <1>7, <1>8

-------------------------------------------------------------------------------
(* The steps of a stream.                                                        *)
PipeMoves(q, r) ==
    /\ UNCHANGED <<daemonVars, httpVars, roundVars>> /\ http[q] = "streaming"
    /\ pipe' = [pipe EXCEPT ![q] = r]
    /\ IsPipe(r) /\ (pipe[q].told => r.told)
    /\ streamed => StreamSound(r, adapter[q], aborted[q], TextIn(sessions, joined[q]), OverIn(sessions, joined[q]))

LEMMA PipeMovesSound ==
    ASSUME RoundSound, NEW q \in Posts, NEW r, PipeMoves(q, r)
    PROVE  RoundSound'
<1> USE DEF RoundSound
<1>1. /\ http' = http /\ aborted' = aborted /\ adapter' = adapter /\ joined' = joined /\ sessions' = sessions
      /\ current' = current /\ streamed' = streamed
      /\ accepting' = accepting /\ leaving' = leaving /\ interrupted' = interrupted /\ lives' = lives
    BY DEF PipeMoves, daemonVars, httpVars, roundVars
<1>2. /\ DOMAIN pipe' = Posts /\ pipe'[q] = r /\ \A p \in Posts : p # q => pipe'[p] = pipe[p]
      /\ http[q] = "streaming" /\ IsPipe(r) /\ (pipe[q].told => r.told)
    BY DEF PipeMoves, PipesTyped
<1>3. ExchangesTyped' /\ SessionsSound' /\ RunsSound' /\ OneRuns' /\ InterruptedIsAborted' /\ ShutdownSound'
    BY <1>1 DEF ExchangesTyped, SessionsSound, RunsSound, OneRuns, InterruptedIsAborted, ShutdownSound,
                Idle, IdleHttp, ActiveSession
<1>4. PipesTyped'
    BY <1>2 DEF PipesTyped
<1>5. StreamsSound'
  <2>1. ASSUME streamed, NEW p \in Posts
        PROVE  StreamSound(pipe'[p], adapter[p], aborted[p], TextIn(sessions, joined[p]), OverIn(sessions, joined[p]))
    <3>1. CASE p = q
        BY <1>2, <2>1, <3>1 DEF PipeMoves
    <3>2. CASE p # q
        BY <1>2, <2>1, <3>2 DEF StreamsSound
    <3> QED
        BY <3>1, <3>2
  <2> QED
      BY <1>1, <2>1 DEF StreamsSound
<1>6. ExchangesSound'
  <2>1. ASSUME NEW p \in Posts, http[p] \in {"unsent", "reading"}
        PROVE  pipe'[p].sent = <<>> /\ pipe'[p].backlog = <<>> /\ pipe'[p].step = "none" /\ ~pipe'[p].shut
    <3>1. p # q
        BY <1>2, <2>1
    <3> QED
        BY <1>2, <2>1, <3>1 DEF ExchangesSound
  <2> QED
      BY <1>1, <2>1 DEF ExchangesSound
<1>7. ReleasedIsStopped'
  <2>1. ASSUME NEW p \in Posts, http[p] = "over"
        PROVE  adapter[p] \in {"off", "ended"} \/ pipe'[p].told
      BY <1>2, <2>1 DEF ReleasedIsStopped
  <2> QED
      BY <1>1, <2>1 DEF ReleasedIsStopped
<1> QED
    BY <1>3, <1>4, <1>5, <1>6, <1>7

LEMMA TextNat ==
    ASSUME RoundSound, NEW q \in Posts
    PROVE  TextIn(sessions, joined[q]) \in Nat
<1>1. CASE joined[q] = 0
    BY <1>1 DEF TextIn
<1>2. CASE joined[q] # 0
  <2>1. joined[q] \in 1..Len(sessions) /\ sessions \in Seq(SessionRecords)
      BY <1>2 DEF RoundSound, SessionsSound
  <2> QED
      BY <1>2, <2>1, SessionFields DEF TextIn
<1> QED
    BY <1>1, <1>2

LEMMA PullStallSound ==
    ASSUME RoundSound, NEW q \in Posts, Pull(q) \/ Stall(q)
    PROVE  RoundSound'
<1>1. PICK p, run, text : p = pipe[q] /\ run = adapter[q] /\ text = TextIn(sessions, joined[q])
    OBVIOUS
<1>2. IsPipe(p) /\ text \in Nat
    BY <1>1, TextNat DEF RoundSound, PipesTyped
<1>3. http[q] = "streaming" /\ UNCHANGED <<daemonVars, httpVars, roundVars>>
    BY DEF Pull, Stall
<1>4. streamed /\ StreamSound(p, run, aborted[q], text, OverIn(sessions, joined[q]))
    BY <1>1, <1>3 DEF RoundSound, StreamsSound, ExchangesSound
<1>5. CASE Pull(q)
  <2>1. PICK r : r = Pulled(p)
      OBVIOUS
  <2>2. p.step = "gated"
      BY <1>1, <1>5 DEF Pull
  <2>3. IsPipe(r) /\ (p.told => r.told) /\ StreamSound(r, run, aborted[q], text, OverIn(sessions, joined[q]))
      BY <1>2, <1>4, <2>1, <2>2, PullSound
  <2>4. pipe' = [pipe EXCEPT ![q] = r]
      BY <1>1, <1>5, <2>1 DEF Pull, Pulled, PipeBecomes, PipesBecome
  <2>5. PipeMoves(q, r)
      BY <1>1, <1>3, <2>3, <2>4 DEF PipeMoves
  <2> QED
      BY <2>5, PipeMovesSound
<1>6. CASE Stall(q)
  <2>1. PICK r : r = StallOut(p)
      OBVIOUS
  <2>2. p.step = "waiting"
      BY <1>1, <1>6 DEF Stall
  <2>3. IsPipe(r) /\ r.told /\ StreamSound(r, run, aborted[q], text, OverIn(sessions, joined[q]))
      BY <1>2, <1>4, <2>1, <2>2, StallSound
  <2>4. pipe' = [pipe EXCEPT ![q] = r]
      BY <1>1, <1>6, <2>1 DEF Stall, PipeBecomes, PipesBecome
  <2>5. PipeMoves(q, r)
      BY <1>1, <1>3, <2>3, <2>4 DEF PipeMoves
  <2> QED
      BY <2>5, PipeMovesSound
<1> QED
    BY <1>5, <1>6

LEMMA BuiltTyped ==
    ASSUME NEW p, IsPipe(p)
    PROVE  IsPipe(Built(p)) /\ Built(p).told = p.told
<1>1. PICK x : x = SelectSeq(p.backlog, LAMBDA e : e.kind = "delta")
                     \o <<Mark(IF Error \in Range(p.backlog) THEN "failed" ELSE "completed")>>
    OBVIOUS
<1>2. PICK p1, p2 : p1 = WithBacklog(p, <<>>) /\ p2 = WithSent(p1, x)
    OBVIOUS
<1>3. Built(p) = p2
    BY <1>1, <1>2 DEF Built, WithBacklog, WithSent
<1>4. IsPipe(p1) /\ p1.told = p.told
    BY <1>2, EmptyBacklog, BacklogField
<1>5. IsPipe(p2) /\ p2.told = p1.told
    BY <1>2, <1>4, SentField
<1> QED
    BY <1>3, <1>4, <1>5

LEMMA CollectedSound ==
    ASSUME RoundSound, NEW q \in Posts, Collected(q)
    PROVE  RoundSound'
<1> USE DEF RoundSound
<1>1. /\ aborted' = aborted /\ adapter' = adapter /\ joined' = joined /\ sessions' = sessions
      /\ current' = current /\ streamed' = streamed
      /\ accepting' = accepting /\ leaving' = leaving /\ interrupted' = interrupted /\ lives' = lives
      /\ adapter[q] = "ended" /\ http[q] = "collecting"
    BY DEF Collected, daemonVars, roundVars
<1>2. ~streamed
    BY <1>1 DEF ExchangesSound
<1>3. PICK r : r = Built(pipe[q])
    OBVIOUS
<1>4. IsPipe(r)
    BY <1>3, BuiltTyped DEF PipesTyped
<1>5. pipe' = [pipe EXCEPT ![q] = r]
    BY <1>3 DEF Collected, PipeBecomes, PipesBecome
<1>6. DOMAIN pipe' = Posts /\ pipe'[q] = r /\ \A p \in Posts : p # q => pipe'[p] = pipe[p]
    BY <1>5 DEF PipesTyped
<1>7. /\ http'[q] \in {"over", "replying"} /\ \A p \in Posts : p # q => http'[p] = http[p]
      /\ http' \in [Posts -> InFlight \cup {"unsent", "refused", "over"}]
    BY DEF Collected, ExchangesTyped, InFlight
<1>8. ExchangesTyped' /\ SessionsSound' /\ RunsSound' /\ OneRuns'
    BY <1>1, <1>7 DEF ExchangesTyped, SessionsSound, RunsSound, OneRuns
<1>9. PipesTyped' /\ StreamsSound'
    BY <1>1, <1>2, <1>4, <1>6 DEF PipesTyped, StreamsSound
<1>10. ExchangesSound'
  <2>1. ASSUME NEW p \in Posts
        PROVE  /\ http'[p] \in {"unsent", "reading", "refused"} => adapter[p] = "off"
               /\ http'[p] \in {"unsent", "reading"} =>
                    pipe'[p].sent = <<>> /\ pipe'[p].backlog = <<>> /\ pipe'[p].step = "none" /\ ~pipe'[p].shut
               /\ http'[p] = "replying" => adapter[p] \in {"off", "ended"}
               /\ http'[p] = "streaming" => streamed
               /\ http'[p] = "collecting" => ~streamed
      BY <1>1, <1>2, <1>6, <1>7 DEF ExchangesSound
  <2> QED
      BY <1>1, <2>1 DEF ExchangesSound
<1>11. InterruptedIsAborted'
    BY <1>1, <1>7 DEF InterruptedIsAborted
<1>12. ReleasedIsStopped'
    BY <1>1, <1>6, <1>7 DEF ReleasedIsStopped
<1>13. ShutdownSound'
    BY <1>1, <1>7 DEF ShutdownSound, Idle, IdleHttp, ActiveSession, InFlight
<1> QED
    BY <1>8, <1>9, <1>10, <1>11, <1>12, <1>13

-------------------------------------------------------------------------------
(* The steps of an exchange alone.                                               *)
LEMMA ArrivesDrainedSound ==
    ASSUME RoundSound, NEW q \in Posts, Arrives(q) \/ Drained(q)
    PROVE  RoundSound'
<1> USE DEF RoundSound
<1>1. /\ aborted' = aborted /\ adapter' = adapter /\ joined' = joined /\ sessions' = sessions
      /\ current' = current /\ streamed' = streamed /\ pipe' = pipe
      /\ accepting' = accepting /\ leaving' = leaving /\ interrupted' = interrupted /\ lives' = lives
    BY DEF Arrives, Drained, daemonVars, roundVars
<1>2. /\ \A p \in Posts : p # q => http'[p] = http[p]
      /\ http' \in [Posts -> InFlight \cup {"unsent", "refused", "over"}]
      /\ \/ http[q] = "unsent" /\ http'[q] = "reading" /\ accepting
         \/ http[q] = "unsent" /\ http'[q] = "refused"
         \/ http[q] = "replying" /\ http'[q] = "over"
         \/ http[q] = "streaming" /\ pipe[q].step = "closed" /\ http'[q] = "over"
  <2>1. http \in [Posts -> InFlight \cup {"unsent", "refused", "over"}] /\ accepting \in BOOLEAN
      BY DEF ExchangesTyped
  <2>2. PICK x : /\ http' = [http EXCEPT ![q] = x]
                 /\ \/ http[q] = "unsent" /\ x = "reading" /\ accepting
                    \/ http[q] = "unsent" /\ x = "refused"
                    \/ http[q] = "replying" /\ x = "over"
                    \/ http[q] = "streaming" /\ pipe[q].step = "closed" /\ x = "over"
    <3>1. CASE Drained(q)
        BY <3>1 DEF Drained
    <3>2. CASE Arrives(q)
      <4>1. http[q] = "unsent" /\ http' = [http EXCEPT ![q] = IF accepting THEN "reading" ELSE "refused"]
          BY <3>2 DEF Arrives, NextRequest, Unsent
      <4>2. CASE accepting
          BY <4>1, <4>2
      <4>3. CASE ~accepting
          BY <4>1, <4>3
      <4> QED
          BY <4>2, <4>3
    <3> QED
        BY <3>1, <3>2
  <2>3. x \in {"reading", "refused", "over"}
      BY <2>2
  <2>4. http' \in [Posts -> InFlight \cup {"unsent", "refused", "over"}]
      BY <2>1, <2>2, <2>3 DEF InFlight
  <2>5. http'[q] = x /\ \A p \in Posts : p # q => http'[p] = http[p]
      BY <2>1, <2>2
  <2> QED
      BY <2>2, <2>4, <2>5
<1>3. http[q] = "streaming" /\ pipe[q].step = "closed" => pipe[q].told \/ adapter[q] = "ended"
  <2>1. http[q] = "streaming" => streamed
      BY DEF ExchangesSound
  <2> QED
      BY <2>1 DEF StreamsSound, StreamSound
<1>4. ExchangesTyped' /\ SessionsSound' /\ RunsSound' /\ OneRuns' /\ PipesTyped' /\ StreamsSound'
    BY <1>1, <1>2 DEF ExchangesTyped, SessionsSound, RunsSound, OneRuns, PipesTyped, StreamsSound
<1>5. ExchangesSound'
  <2>1. ASSUME NEW p \in Posts
        PROVE  /\ http'[p] \in {"unsent", "reading", "refused"} => adapter[p] = "off"
               /\ http'[p] \in {"unsent", "reading"} =>
                    pipe[p].sent = <<>> /\ pipe[p].backlog = <<>> /\ pipe[p].step = "none" /\ ~pipe[p].shut
               /\ http'[p] = "replying" => adapter[p] \in {"off", "ended"}
               /\ http'[p] = "streaming" => streamed
               /\ http'[p] = "collecting" => ~streamed
      BY <1>2 DEF ExchangesSound
  <2> QED
      BY <1>1, <2>1 DEF ExchangesSound
<1>6. InterruptedIsAborted'
    BY <1>1, <1>2 DEF InterruptedIsAborted
<1>7. ReleasedIsStopped'
  <2>1. ASSUME NEW p \in Posts, http'[p] = "over"
        PROVE  adapter[p] \in {"off", "ended"} \/ pipe[p].told
      BY <1>2, <1>3, <2>1 DEF ReleasedIsStopped, ExchangesSound
  <2> QED
      BY <1>1, <2>1 DEF ReleasedIsStopped
<1>8. ShutdownSound'
    BY <1>1, <1>2 DEF ShutdownSound, Idle, IdleHttp, ActiveSession, InFlight
<1> QED
    BY <1>4, <1>5, <1>6, <1>7, <1>8

(* The sessions alone change their state.                                        *)
SessionsMove(ss) ==
    /\ UNCHANGED <<httpVars, pipe, adapter, joined, streamed, interrupted, lives>>
    /\ sessions' = ss /\ Grows(sessions, ss, 0) /\ current' \in {current, 0}
    /\ accepting' \in BOOLEAN /\ leaving' \in {"no", "scheduled", "overtaken", "closing", "gone"}
    /\ leaving' = "scheduled" => leaving = "scheduled" /\ accepting' = accepting

LEMMA SessionsMoveSound ==
    ASSUME RoundSound, NEW ss, SessionsMove(ss)
    PROVE  RoundSound'
<1> USE DEF RoundSound
<1>1. /\ http' = http /\ aborted' = aborted /\ adapter' = adapter /\ joined' = joined /\ pipe' = pipe
      /\ streamed' = streamed /\ interrupted' = interrupted /\ lives' = lives
      /\ sessions' = ss /\ current' \in {current, 0} /\ ss \in Seq(SessionRecords) /\ Len(ss) = Len(sessions)
    BY DEF SessionsMove, httpVars, Grows
<1>2. /\ Len(sessions) \in Nat /\ current \in 0..Len(sessions)
      /\ \A p \in Posts : joined[p] \in 0..Len(sessions)
    BY DEF SessionsSound
<1>3. ASSUME NEW p \in Posts
      PROVE  /\ TextIn(ss, joined[p]) = TextIn(sessions, joined[p])
             /\ OverIn(ss, joined[p]) = OverIn(sessions, joined[p])
  <2>1. joined[p] # 0 => SameText(sessions, ss, joined[p])
      BY <1>2 DEF SessionsMove, Grows
  <2> QED
      BY <2>1, SameIn
<1>4. ExchangesTyped' /\ OneRuns' /\ PipesTyped' /\ ExchangesSound' /\ InterruptedIsAborted' /\ ReleasedIsStopped'
    BY <1>1 DEF SessionsMove, ExchangesTyped, OneRuns, PipesTyped, ExchangesSound, InterruptedIsAborted,
                ReleasedIsStopped
<1>5. SessionsSound'
  <2>1. \A s \in 1..Len(ss) : JournalSound(ss[s])
      BY <1>1 DEF SessionsMove, Grows
  <2>2. DOMAIN ss = 1..Len(ss)
      BY <1>1
  <2> QED
      BY <1>1, <1>2, <2>1, <2>2 DEF SessionsSound
<1>6. RunsSound'
    BY <1>1, <1>3 DEF RunsSound
<1>7. StreamsSound'
  <2>1. ASSUME streamed, NEW p \in Posts
        PROVE  StreamSound(pipe[p], adapter[p], aborted[p], TextIn(ss, joined[p]), OverIn(ss, joined[p]))
    <3>1. StreamSound(pipe[p], adapter[p], aborted[p], TextIn(sessions, joined[p]), OverIn(sessions, joined[p]))
        BY <2>1 DEF StreamsSound
    <3> QED
        BY <1>3, <3>1, StreamKept
  <2> QED
      BY <1>1, <2>1 DEF StreamsSound
<1>8. ShutdownSound'
  <2>1. ASSUME leaving' = "scheduled"
        PROVE  ~accepting' /\ IdleHttp /\ (current' # 0 => ss[current'].state # "active")
    <3>1. leaving = "scheduled" /\ accepting' = accepting
        BY <2>1 DEF SessionsMove
    <3>2. ~accepting /\ IdleHttp /\ ~ActiveSession
        BY <3>1 DEF ShutdownSound, Idle
    <3>3. ASSUME current' # 0
          PROVE  ss[current'].state # "active"
      <4>1. current' = current /\ current \in 1..Len(sessions)
          BY <1>1, <1>2, <3>3
      <4>2. sessions[current].state # "active"
          BY <3>2, <3>3, <4>1 DEF ActiveSession
      <4> QED
          BY <4>1, <4>2 DEF SessionsMove, Grows
    <3> QED
        BY <3>1, <3>2, <3>3
  <2> QED
      BY <1>1, <2>1 DEF ShutdownSound, Idle, IdleHttp, ActiveSession
<1> QED
    BY <1>4, <1>5, <1>6, <1>7, <1>8

LEMMA SessionSteps ==
    ASSUME RoundSound, BrowserSettles \/ CancelTurn \/ Shutdown
    PROVE  RoundSound'
<1>0. /\ accepting \in BOOLEAN /\ leaving \in {"no", "scheduled", "overtaken", "closing", "gone"}
      /\ sessions \in Seq(SessionRecords) /\ Len(sessions) \in Nat /\ DOMAIN sessions = 1..Len(sessions)
      /\ current \in 0..Len(sessions) /\ SessionsSound
    BY DEF RoundSound, ExchangesTyped, SessionsSound
<1>1. Grows(sessions, sessions, 0)
    BY SessionsSame
<1>2. CASE BrowserSettles
  <2>1. PICK s \in 1..Len(sessions), x \in States : x # "active" /\ sessions' = WithState(sessions, s, x)
      BY <1>0, <1>2 DEF BrowserSettles, States, WithState
  <2>2. PICK ss : ss = WithState(sessions, s, x)
      OBVIOUS
  <2>3. Grows(sessions, ss, 0)
      BY <1>1, <2>1, <2>2, StateGrows
  <2>4. UNCHANGED <<httpVars, pipe, adapter, joined, streamed, interrupted, lives, accepting, leaving, current>>
      BY <1>2 DEF BrowserSettles, daemonVars
  <2>5. SessionsMove(ss)
      BY <1>0, <2>1, <2>2, <2>3, <2>4 DEF SessionsMove
  <2> QED
      BY <2>5, SessionsMoveSound
<1>3. CASE CancelTurn
  <2>1. current \in 1..Len(sessions) /\ "cancelled" \in States
      BY <1>0, <1>3 DEF CancelTurn, ActiveSession, States
  <2>2. PICK ss : ss = WithState(sessions, current, "cancelled")
      OBVIOUS
  <2>3. Grows(sessions, ss, 0)
      BY <1>1, <2>1, <2>2, StateGrows
  <2>4. /\ UNCHANGED <<httpVars, pipe, adapter, joined, streamed, interrupted, lives, accepting, leaving, current>>
        /\ sessions' = ss
      BY <1>3, <2>2 DEF CancelTurn, daemonVars, WithState
  <2>5. SessionsMove(ss)
      BY <1>0, <2>3, <2>4 DEF SessionsMove
  <2> QED
      BY <2>5, SessionsMoveSound
<1>4. CASE Shutdown
  <2>1. PICK ss : sessions' = ss /\ Grows(sessions, ss, 0) /\ current' \in {current, 0}
    <3>1. RetireSession(current, sessions)
        BY <1>4 DEF Shutdown, RetireCurrent
    <3> QED
        BY <1>0, <1>1, <3>1, RetireGrows
  <2>2. /\ UNCHANGED <<httpVars, pipe, adapter, joined, streamed, interrupted, lives>>
        /\ accepting' = FALSE /\ leaving' = "closing"
      BY <1>4 DEF Shutdown, RetireCurrent
  <2>3. SessionsMove(ss)
      BY <2>1, <2>2 DEF SessionsMove
  <2> QED
      BY <2>3, SessionsMoveSound
<1> QED
    BY <1>2, <1>3, <1>4

(* Requests are aborted: their streams are cancelled, the others are told.       *)
LEMMA ToldSound ==
    ASSUME NEW p, IsPipe(p), NEW run, NEW text, NEW over, NEW gone, StreamSound(p, run, gone, text, over)
    PROVE  StreamSound(WithTold(p, TRUE), run, TRUE, text, over)
<1>1. PICK r : r = WithTold(p, TRUE)
    OBVIOUS
<1>2. IsPipe(r) /\ r.told = TRUE /\ r.backlog = p.backlog /\ r.step = p.step /\ r.sent = p.sent /\ r.shut = p.shut
    BY <1>1, ToldField
<1>3. OpenSound(p, text, over) => OpenSound(r, text, over)
    BY <1>2 DEF OpenSound
<1>4. ClosedSound(p, text, over, gone) => ClosedSound(r, text, over, TRUE)
    BY <1>2 DEF ClosedSound
<1>5. r.told
    BY <1>2
<1> QED
    BY <1>1, <1>2, <1>3, <1>4, <1>5 DEF StreamSound, IsOpen

Aborts(qs, ss) ==
    /\ AbortHttp(qs) /\ AbortPipes(qs) /\ UNCHANGED <<accepting, leaving, lives, streamed, adapter, joined>>
    /\ \A q \in qs : q \in Posts /\ http[q] \in InFlight
    /\ interrupted' \in BOOLEAN /\ (interrupted' => interrupted \/ NamedTurn \subseteq qs)
    /\ sessions' = ss /\ Grows(sessions, ss, 0) /\ current' \in {current, 0}

LEMMA AbortsSound ==
    ASSUME RoundSound, NEW qs, NEW ss, Aborts(qs, ss)
    PROVE  RoundSound'
<1> USE DEF RoundSound
<1>1. /\ accepting' = accepting /\ leaving' = leaving /\ lives' = lives /\ streamed' = streamed
      /\ adapter' = adapter /\ joined' = joined
      /\ sessions' = ss /\ current' \in {current, 0} /\ ss \in Seq(SessionRecords) /\ Len(ss) = Len(sessions)
      /\ interrupted' \in BOOLEAN /\ (interrupted' => interrupted \/ NamedTurn \subseteq qs)
    BY DEF Aborts, Grows
<1>2. /\ Len(sessions) \in Nat /\ current \in 0..Len(sessions)
      /\ \A p \in Posts : joined[p] \in 0..Len(sessions)
    BY DEF SessionsSound
<1>3. ASSUME NEW p \in Posts
      PROVE  /\ TextIn(ss, joined[p]) = TextIn(sessions, joined[p])
             /\ OverIn(ss, joined[p]) = OverIn(sessions, joined[p])
  <2>1. joined[p] # 0 => SameText(sessions, ss, joined[p])
      BY <1>2 DEF Aborts, Grows
  <2> QED
      BY <2>1, SameIn
<1>4. ASSUME NEW p \in Posts
      PROVE  /\ IsPipe(pipe[p])
             /\ p \notin qs => pipe'[p] = pipe[p] /\ http'[p] = http[p] /\ aborted'[p] = aborted[p]
             /\ p \in qs => aborted'[p] = TRUE /\ http[p] \in InFlight
             /\ p \in qs /\ http[p] \in {"streaming", "replying"} => http'[p] = "over"
             /\ p \in qs /\ http[p] \notin {"streaming", "replying"} => http'[p] = http[p]
             /\ p \in qs /\ http[p] = "streaming" => pipe'[p] = CancelPipe(pipe[p])
             /\ p \in qs /\ http[p] # "streaming" => pipe'[p] = WithTold(pipe[p], TRUE)
  <2>1. IsPipe(pipe[p]) /\ aborted \in [Posts -> BOOLEAN] /\ (p \in qs => http[p] \in InFlight)
      BY DEF PipesTyped, ExchangesTyped, Aborts
  <2>2. aborted'[p] = (aborted[p] \/ p \in qs)
      BY DEF Aborts, AbortHttp
  <2>3. http'[p] = IF p \in qs /\ http[p] \in {"streaming", "replying"} THEN "over" ELSE http[p]
      BY DEF Aborts, AbortHttp
  <2>4. pipe'[p] = IF p \in qs THEN PipeOfAborted(p) ELSE pipe[p]
      BY DEF Aborts, AbortPipes
  <2>5. PipeOfAborted(p) = IF http[p] = "streaming" THEN CancelPipe(pipe[p]) ELSE WithTold(pipe[p], TRUE)
      BY DEF PipeOfAborted, WithTold
  <2>6. aborted[p] \in BOOLEAN
      BY <2>1
  <2>7. (p \in qs => aborted'[p] = TRUE) /\ (p \notin qs => aborted'[p] = aborted[p])
      BY <2>2, <2>6
  <2> QED
      BY <2>1, <2>3, <2>4, <2>5, <2>7
<1>5. ASSUME NEW p \in Posts, p \in qs
      PROVE  /\ IsPipe(pipe'[p]) /\ pipe'[p].told
             /\ streamed => StreamSound(pipe'[p], adapter[p], TRUE, TextIn(sessions, joined[p]), OverIn(sessions, joined[p]))
             /\ http[p] # "streaming" => /\ pipe'[p].sent = pipe[p].sent /\ pipe'[p].backlog = pipe[p].backlog
                                         /\ pipe'[p].step = pipe[p].step /\ pipe'[p].shut = pipe[p].shut
  <2>1. PICK o, r : o = pipe[p] /\ r = pipe'[p]
      OBVIOUS
  <2>2. IsPipe(o) /\ r = IF http[p] = "streaming" THEN CancelPipe(o) ELSE WithTold(o, TRUE)
      BY <1>4, <1>5, <2>1
  <2>3. streamed => StreamSound(o, adapter[p], aborted[p], TextIn(sessions, joined[p]), OverIn(sessions, joined[p]))
      BY <2>1 DEF StreamsSound
  <2>4. CASE http[p] = "streaming"
    <3>1. r = CancelPipe(o)
        BY <2>2, <2>4
    <3>2. IsPipe(r) /\ r.told
        BY <2>2, <3>1, CancelFields
    <3>3. streamed => StreamSound(r, adapter[p], TRUE, TextIn(sessions, joined[p]), OverIn(sessions, joined[p]))
        BY <2>2, <2>3, <3>1, CancelSound
    <3> QED
        BY <2>1, <2>4, <3>2, <3>3
  <2>5. CASE http[p] # "streaming"
    <3>1. r = WithTold(o, TRUE)
        BY <2>2, <2>5
    <3>2. /\ IsPipe(r) /\ r.told = TRUE /\ r.backlog = o.backlog /\ r.step = o.step /\ r.sent = o.sent
          /\ r.shut = o.shut
        BY <2>2, <3>1, ToldField
    <3>3. streamed => StreamSound(r, adapter[p], TRUE, TextIn(sessions, joined[p]), OverIn(sessions, joined[p]))
        BY <2>2, <2>3, <3>1, ToldSound
    <3>4. r.told
        BY <3>2
    <3> QED
        BY <2>1, <3>2, <3>3, <3>4
  <2> QED
      BY <2>4, <2>5
<1>6. ExchangesTyped'
  <2>1. DOMAIN http' = Posts /\ DOMAIN aborted' = Posts
      BY DEF Aborts, AbortHttp
  <2>2. http \in [Posts -> InFlight \cup {"unsent", "refused", "over"}] /\ aborted \in [Posts -> BOOLEAN]
      BY DEF ExchangesTyped
  <2>3. http' \in [Posts -> InFlight \cup {"unsent", "refused", "over"}]
    <3>1. http' = [p \in Posts |-> IF p \in qs /\ http[p] \in {"streaming", "replying"} THEN "over" ELSE http[p]]
        BY DEF Aborts, AbortHttp
    <3> QED
        BY <2>2, <3>1
  <2>4. aborted' \in [Posts -> BOOLEAN]
    <3>1. aborted' = [p \in Posts |-> aborted[p] \/ p \in qs]
        BY DEF Aborts, AbortHttp
    <3> QED
        BY <2>2, <3>1
  <2> QED
      BY <1>1, <2>3, <2>4 DEF ExchangesTyped
<1>7. PipesTyped'
  <2>1. DOMAIN pipe' = Posts
      BY DEF Aborts, AbortPipes
  <2> QED
      BY <1>4, <1>5, <2>1 DEF PipesTyped
<1>8. SessionsSound'
  <2>1. \A s \in 1..Len(ss) : JournalSound(ss[s])
      BY <1>1 DEF Aborts, Grows
  <2>2. DOMAIN ss = 1..Len(ss)
      BY <1>1
  <2> QED
      BY <1>1, <1>2, <2>1, <2>2 DEF SessionsSound
<1>9. RunsSound' /\ OneRuns'
    BY <1>1, <1>3 DEF RunsSound, OneRuns
<1>10. StreamsSound'
  <2>1. ASSUME streamed, NEW p \in Posts
        PROVE  StreamSound(pipe'[p], adapter[p], aborted'[p], TextIn(ss, joined[p]), OverIn(ss, joined[p]))
    <3>1. StreamSound(pipe'[p], adapter[p], aborted'[p], TextIn(sessions, joined[p]), OverIn(sessions, joined[p]))
      <4>1. CASE p \in qs
          BY <1>4, <1>5, <2>1, <4>1
      <4>2. CASE p \notin qs
          BY <1>4, <2>1, <4>2 DEF StreamsSound
      <4> QED
          BY <4>1, <4>2
    <3> QED
        BY <1>3, <3>1, StreamKept
  <2> QED
      BY <1>1, <2>1 DEF StreamsSound
<1>11. ExchangesSound'
  <2>1. ASSUME NEW p \in Posts
        PROVE  /\ http'[p] \in {"unsent", "reading", "refused"} => adapter[p] = "off"
               /\ http'[p] \in {"unsent", "reading"} =>
                    pipe'[p].sent = <<>> /\ pipe'[p].backlog = <<>> /\ pipe'[p].step = "none" /\ ~pipe'[p].shut
               /\ http'[p] = "replying" => adapter[p] \in {"off", "ended"}
               /\ http'[p] = "streaming" => streamed
               /\ http'[p] = "collecting" => ~streamed
    <3>1. CASE p \in qs
        BY <1>4, <1>5, <3>1 DEF ExchangesSound
    <3>2. CASE p \notin qs
        BY <1>4, <3>2 DEF ExchangesSound
    <3> QED
        BY <3>1, <3>2
  <2> QED
      BY <1>1, <2>1 DEF ExchangesSound
<1>12. InterruptedIsAborted'
  <2>1. ASSUME interrupted', NEW p \in Posts, http'[p] \in {"collecting", "streaming"}
        PROVE  aborted'[p]
    <3>1. CASE p \in qs
        BY <1>4, <3>1
    <3>2. CASE p \notin qs
      <4>1. http[p] \in {"collecting", "streaming"} /\ aborted'[p] = aborted[p]
          BY <1>4, <2>1, <3>2
      <4>2. interrupted
          BY <1>1, <2>1, <3>2, <4>1 DEF NamedTurn, InFlight
      <4> QED
          BY <4>1, <4>2 DEF InterruptedIsAborted
    <3> QED
        BY <3>1, <3>2
  <2> QED
      BY <2>1 DEF InterruptedIsAborted
<1>13. ReleasedIsStopped'
  <2>1. ASSUME NEW p \in Posts, http'[p] = "over"
        PROVE  adapter[p] \in {"off", "ended"} \/ pipe'[p].told
    <3>1. CASE p \in qs
        BY <1>5, <3>1
    <3>2. CASE p \notin qs
        BY <1>4, <2>1, <3>2 DEF ReleasedIsStopped
    <3> QED
        BY <3>1, <3>2
  <2> QED
      BY <1>1, <2>1 DEF ReleasedIsStopped
<1>14. ShutdownSound'
  <2>1. ASSUME leaving = "scheduled"
        PROVE  ~accepting /\ (\A p \in Posts : http'[p] \notin InFlight) /\ (current' # 0 => ss[current'].state # "active")
    <3>1. ~accepting /\ IdleHttp /\ ~ActiveSession
        BY <2>1 DEF ShutdownSound, Idle
    <3>2. \A p \in Posts : http'[p] \notin InFlight
        BY <1>4, <3>1 DEF IdleHttp
    <3>3. ASSUME current' # 0
          PROVE  ss[current'].state # "active"
      <4>1. current' = current /\ current \in 1..Len(sessions)
          BY <1>1, <1>2, <3>3
      <4>2. sessions[current].state # "active"
          BY <3>1, <3>3, <4>1 DEF ActiveSession
      <4> QED
          BY <4>1, <4>2 DEF Aborts, Grows
    <3> QED
        BY <3>1, <3>2, <3>3
  <2> QED
      BY <1>1, <2>1 DEF ShutdownSound, Idle, IdleHttp, ActiveSession
<1> QED
    BY <1>6, <1>7, <1>8, <1>9, <1>10, <1>11, <1>12, <1>13, <1>14

LEMMA AbortSteps ==
    ASSUME RoundSound, (\E q \in Posts : ClientLeaves(q)) \/ InterruptTurn \/ CancelTurns
    PROVE  RoundSound'
<1>0. /\ SessionsSound /\ current \in 0..Len(sessions) /\ interrupted \in BOOLEAN
      /\ Grows(sessions, sessions, 0)
    BY SessionsSame DEF RoundSound, SessionsSound, ExchangesTyped
<1>1. ASSUME NEW q \in Posts, ClientLeaves(q)
      PROVE  RoundSound'
  <2>1. PICK qs : qs = {q}
      OBVIOUS
  <2>2. AbortHttp(qs) /\ AbortPipes(qs) /\ http[q] \in InFlight
      BY <1>1, <2>1 DEF ClientLeaves
  <2>3. /\ UNCHANGED <<accepting, leaving, lives, streamed, adapter, joined>>
        /\ interrupted' = interrupted /\ sessions' = sessions /\ current' = current
      BY <1>1 DEF ClientLeaves, daemonVars, roundVars
  <2>4. \A p \in qs : p \in Posts /\ http[p] \in InFlight
      BY <2>1, <2>2
  <2>5. Aborts(qs, sessions)
      BY <1>0, <2>2, <2>3, <2>4 DEF Aborts
  <2> QED
      BY <2>5, AbortsSound
<1>2. CASE InterruptTurn
  <2>1. RetireSession(current, sessions)
      BY <1>2 DEF InterruptTurn, RetireCurrent
  <2>2. PICK ss : sessions' = ss /\ Grows(sessions, ss, 0) /\ current' \in {current, 0}
      BY <1>0, <2>1, RetireGrows
  <2>3. /\ AbortHttp(NamedTurn) /\ AbortPipes(NamedTurn) /\ interrupted' = TRUE
        /\ UNCHANGED <<accepting, leaving, lives, streamed, adapter, joined>>
      BY <1>2 DEF InterruptTurn, RetireCurrent
  <2>4. \A p \in NamedTurn : p \in Posts /\ http[p] \in InFlight
      BY DEF NamedTurn
  <2>5. Aborts(NamedTurn, ss)
      BY <2>2, <2>3, <2>4 DEF Aborts
  <2> QED
      BY <2>5, AbortsSound
<1>3. CASE CancelTurns
  <2>1. RetireSession(current, sessions)
      BY <1>3 DEF CancelTurns, RetireCurrent
  <2>2. PICK ss : sessions' = ss /\ Grows(sessions, ss, 0) /\ current' \in {current, 0}
      BY <1>0, <2>1, RetireGrows
  <2>3. PICK all : all = {q \in Posts : http[q] \in InFlight}
      OBVIOUS
  <2>4. /\ AbortHttp(all) /\ AbortPipes(all) /\ interrupted' = interrupted
        /\ UNCHANGED <<accepting, leaving, lives, streamed, adapter, joined>>
      BY <1>3, <2>3 DEF CancelTurns, RetireCurrent
  <2>5. \A p \in all : p \in Posts /\ http[p] \in InFlight
      BY <2>3
  <2>6. Aborts(all, ss)
      BY <1>0, <2>2, <2>4, <2>5 DEF Aborts
  <2> QED
      BY <2>6, AbortsSound
<1> QED
    BY <1>1, <1>2, <1>3

(* The body is read: the request is answered, or its run begins.                 *)
LEMMA FreshSound ==
    ASSUME NEW p, IsPipe(p), p.sent = <<>>, p.backlog = <<>>, ~p.shut, NEW gone
    PROVE  /\ p.step = "none" => StreamSound(p, "starting", gone, 0, FALSE)
           /\ p.step = "gated" => StreamSound(p, "starting", gone, 0, FALSE)
<1>1. Len(p.sent) = 0 /\ Len(p.backlog) = 0
    OBVIOUS
<1>2. p.sent \in Seq(Frames)
    OBVIOUS
<1>3. OpenSound(p, 0, FALSE)
    BY <1>1, <1>2 DEF OpenSound, IsText
<1> QED
    BY <1>1, <1>3 DEF StreamSound, IsOpen

LEMMA BodyReadSound ==
    ASSUME RoundSound, NEW q \in Posts, BodyRead(q)
    PROVE  RoundSound'
<1> USE DEF RoundSound
<1>1. /\ joined' = joined /\ sessions' = sessions /\ current' = current /\ streamed' = streamed
      /\ accepting' = accepting /\ leaving' = leaving /\ interrupted' = interrupted /\ lives' = lives
      /\ http[q] = "reading"
    BY DEF BodyRead, daemonVars
<1>2. PICK p, b : p = pipe[q] /\ b = Bound(q)
    OBVIOUS
<1>3. /\ IsPipe(p) /\ p.sent = <<>> /\ p.backlog = <<>> /\ p.step = "none" /\ ~p.shut
      /\ adapter[q] = "off" /\ joined[q] = 0
    BY <1>1, <1>2 DEF PipesTyped, ExchangesSound, RunsSound
<1>4. b \in BOOLEAN /\ (interrupted => b) /\ (aborted[q] => b)
  <2>1. aborted[q] \in BOOLEAN /\ interrupted \in BOOLEAN
      BY DEF ExchangesTyped
  <2> QED
      BY <1>2, <2>1 DEF Bound
<1>5. /\ aborted' \in [Posts -> BOOLEAN] /\ aborted'[q] = b
      /\ \A o \in Posts : o # q => aborted'[o] = aborted[o]
  <2>1. aborted' = [aborted EXCEPT ![q] = b]
      BY <1>2 DEF BodyRead
  <2> QED
      BY <1>4, <2>1 DEF ExchangesTyped
<1>6. PICK h, a, r :
          /\ http' = [http EXCEPT ![q] = h] /\ adapter' = [adapter EXCEPT ![q] = a]
          /\ DOMAIN pipe' = Posts /\ pipe'[q] = r /\ \A o \in Posts : o # q => pipe'[o] = pipe[o]
          /\ \/ /\ h = (IF b THEN "over" ELSE "replying") /\ a = "off" /\ r = p
             \/ ~streamed /\ h = "collecting" /\ a = "starting" /\ r = WithTold(p, b)
             \/ streamed /\ b /\ h = "over" /\ a = "starting" /\ r = CancelPipe(p)
             \/ streamed /\ ~b /\ h = "streaming" /\ a = "starting" /\ r = WithStep(p, "gated")
  <2>1. \/ /\ http' = [http EXCEPT ![q] = IF b THEN "over" ELSE "replying"]
           /\ adapter' = adapter /\ pipe' = pipe
        \/ /\ adapter' = [adapter EXCEPT ![q] = "starting"]
           /\ pipe' = [pipe EXCEPT ![q] =
                IF ~streamed THEN [p EXCEPT !.told = b]
                ELSE IF b THEN CancelPipe(p) ELSE [p EXCEPT !.step = "gated"]]
           /\ http' = [http EXCEPT ![q] =
                IF ~streamed THEN "collecting" ELSE IF b THEN "over" ELSE "streaming"]
      BY <1>2 DEF BodyRead
  <2>2. DOMAIN pipe = Posts /\ adapter = [adapter EXCEPT ![q] = "off"]
    <3>1. DOMAIN pipe = Posts /\ adapter \in [Posts -> {"off", "starting", "waiting", "live", "ended"}]
        BY DEF PipesTyped, ExchangesTyped
    <3> QED
        BY <1>3, <3>1
  <2>3. CASE /\ http' = [http EXCEPT ![q] = IF b THEN "over" ELSE "replying"]
             /\ adapter' = adapter /\ pipe' = pipe
      BY <1>2, <2>2, <2>3
  <2>4. CASE /\ adapter' = [adapter EXCEPT ![q] = "starting"]
             /\ pipe' = [pipe EXCEPT ![q] =
                  IF ~streamed THEN [p EXCEPT !.told = b]
                  ELSE IF b THEN CancelPipe(p) ELSE [p EXCEPT !.step = "gated"]]
             /\ http' = [http EXCEPT ![q] =
                  IF ~streamed THEN "collecting" ELSE IF b THEN "over" ELSE "streaming"]
    <3>1. CASE ~streamed
      <4>1. pipe' = [pipe EXCEPT ![q] = WithTold(p, b)]
          BY <2>4, <3>1 DEF WithTold
      <4>2. http' = [http EXCEPT ![q] = "collecting"]
          BY <2>4, <3>1
      <4> QED
          BY <2>2, <2>4, <3>1, <4>1, <4>2
    <3>2. CASE streamed /\ b
      <4>1. pipe' = [pipe EXCEPT ![q] = CancelPipe(p)]
          BY <2>4, <3>2
      <4>2. http' = [http EXCEPT ![q] = "over"]
          BY <2>4, <3>2
      <4> QED
          BY <2>2, <2>4, <3>2, <4>1, <4>2
    <3>3. CASE streamed /\ ~b
      <4>1. pipe' = [pipe EXCEPT ![q] = WithStep(p, "gated")]
          BY <2>4, <3>3 DEF WithStep
      <4>2. http' = [http EXCEPT ![q] = "streaming"]
          BY <2>4, <3>3
      <4> QED
          BY <2>2, <2>4, <3>3, <4>1, <4>2
    <3> QED
        BY <3>1, <3>2, <3>3
  <2> QED
      BY <2>1, <2>3, <2>4
<1>7. /\ IsPipe(r) /\ (h = "over" => a = "off" \/ r.told)
      /\ streamed => StreamSound(r, a, b, 0, FALSE)
  <2>1. CASE r = p /\ a = "off"
    <3>1. StreamSound(p, "off", b, 0, FALSE)
        BY <1>3 DEF StreamSound, IsOpen
    <3> QED
        BY <1>3, <2>1, <3>1
  <2>2. CASE ~streamed /\ h = "collecting" /\ r = WithTold(p, b)
      BY <1>3, <1>4, <2>2, ToldField
  <2>3. CASE b /\ a = "starting" /\ r = CancelPipe(p)
    <3>1. StreamSound(p, "starting", FALSE, 0, FALSE)
        BY <1>3, FreshSound
    <3>2. StreamSound(r, "starting", TRUE, 0, FALSE)
        BY <1>3, <2>3, <3>1, CancelSound
    <3>3. IsPipe(r) /\ r.told
        BY <1>3, <2>3, CancelFields
    <3>4. b = TRUE
        BY <1>4, <2>3
    <3> QED
        BY <2>3, <3>2, <3>3, <3>4
  <2>4. CASE h = "streaming" /\ a = "starting" /\ r = WithStep(p, "gated")
    <3>1. /\ IsPipe(r) /\ r.step = "gated" /\ r.sent = p.sent /\ r.backlog = p.backlog /\ r.shut = p.shut
        BY <1>3, <2>4, StepField DEF Steps
    <3>2. StreamSound(r, "starting", b, 0, FALSE)
        BY <1>3, <3>1, FreshSound
    <3> QED
        BY <2>4, <3>1, <3>2
  <2> QED
      BY <1>6, <2>1, <2>2, <2>3, <2>4
<1>8. /\ h \in {"over", "replying", "collecting", "streaming"} /\ a \in {"off", "starting"}
      /\ (h = "replying" => a = "off") /\ (h = "streaming" => streamed) /\ (h = "collecting" => ~streamed)
    BY <1>6
<1>9. /\ http'[q] = h /\ adapter'[q] = a /\ pipe'[q] = r /\ DOMAIN pipe' = Posts
      /\ \A o \in Posts : o # q => http'[o] = http[o] /\ adapter'[o] = adapter[o] /\ pipe'[o] = pipe[o]
      /\ http' \in [Posts -> InFlight \cup {"unsent", "refused", "over"}]
      /\ adapter' \in [Posts -> {"off", "starting", "waiting", "live", "ended"}]
  <2>1. /\ http \in [Posts -> InFlight \cup {"unsent", "refused", "over"}]
        /\ adapter \in [Posts -> {"off", "starting", "waiting", "live", "ended"}] /\ DOMAIN pipe = Posts
      BY DEF ExchangesTyped, PipesTyped
  <2>2. h \in InFlight \cup {"unsent", "refused", "over"}
      BY <1>8 DEF InFlight
  <2>3. http'[q] = h /\ \A o \in Posts : o # q => http'[o] = http[o]
      BY <1>6, <2>1
  <2>4. adapter'[q] = a /\ \A o \in Posts : o # q => adapter'[o] = adapter[o]
      BY <1>6, <2>1
  <2>5. pipe'[q] = r /\ DOMAIN pipe' = Posts /\ \A o \in Posts : o # q => pipe'[o] = pipe[o]
      BY <1>6
  <2>6. http' \in [Posts -> InFlight \cup {"unsent", "refused", "over"}]
      BY <1>6, <2>1, <2>2
  <2>7. adapter' \in [Posts -> {"off", "starting", "waiting", "live", "ended"}]
      BY <1>6, <1>8, <2>1
  <2> QED
      BY <2>3, <2>4, <2>5, <2>6, <2>7
<1>10. ExchangesTyped'
    BY <1>1, <1>5, <1>9 DEF ExchangesTyped
<1>11. PipesTyped'
    BY <1>7, <1>9 DEF PipesTyped
<1>12. SessionsSound'
    BY <1>1 DEF SessionsSound
<1>13. RunsSound' /\ OneRuns'
    BY <1>1, <1>3, <1>8, <1>9 DEF RunsSound, OneRuns
<1>14. StreamsSound'
  <2>1. ASSUME streamed, NEW o \in Posts
        PROVE  StreamSound(pipe'[o], adapter'[o], aborted'[o], TextIn(sessions, joined[o]), OverIn(sessions, joined[o]))
    <3>1. CASE o = q
      <4>1. TextIn(sessions, joined[q]) = 0 /\ OverIn(sessions, joined[q]) = FALSE
          BY <1>3 DEF TextIn, OverIn
      <4> QED
          BY <1>5, <1>7, <1>9, <2>1, <3>1, <4>1
    <3>2. CASE o # q
        BY <1>5, <1>9, <2>1, <3>2 DEF StreamsSound
    <3> QED
        BY <3>1, <3>2
  <2> QED
      BY <1>1, <2>1 DEF StreamsSound
<1>15. ExchangesSound'
  <2>1. ASSUME NEW o \in Posts
        PROVE  /\ http'[o] \in {"unsent", "reading", "refused"} => adapter'[o] = "off"
               /\ http'[o] \in {"unsent", "reading"} =>
                    pipe'[o].sent = <<>> /\ pipe'[o].backlog = <<>> /\ pipe'[o].step = "none" /\ ~pipe'[o].shut
               /\ http'[o] = "replying" => adapter'[o] \in {"off", "ended"}
               /\ http'[o] = "streaming" => streamed
               /\ http'[o] = "collecting" => ~streamed
    <3>1. CASE o = q
        BY <1>8, <1>9, <3>1
    <3>2. CASE o # q
        BY <1>9, <3>2 DEF ExchangesSound
    <3> QED
        BY <3>1, <3>2
  <2> QED
      BY <1>1, <2>1 DEF ExchangesSound
<1>16. InterruptedIsAborted'
  <2>1. ASSUME interrupted, NEW o \in Posts, http'[o] \in {"collecting", "streaming"}
        PROVE  aborted'[o]
      BY <1>4, <1>5, <1>9, <2>1 DEF InterruptedIsAborted
  <2> QED
      BY <1>1, <2>1 DEF InterruptedIsAborted
<1>17. ReleasedIsStopped'
  <2>1. ASSUME NEW o \in Posts, http'[o] = "over"
        PROVE  adapter'[o] \in {"off", "ended"} \/ pipe'[o].told
      BY <1>7, <1>9, <2>1 DEF ReleasedIsStopped
  <2> QED
      BY <2>1 DEF ReleasedIsStopped
<1>18. ShutdownSound'
  <2>1. leaving # "scheduled"
      BY <1>1 DEF ShutdownSound, Idle, IdleHttp, InFlight
  <2> QED
      BY <1>1, <2>1 DEF ShutdownSound
<1> QED
    BY <1>10, <1>11, <1>12, <1>13, <1>14, <1>15, <1>16, <1>17, <1>18

(* The run joins the session of the round, or begins one.                        *)
LEMMA JoinSound ==
    ASSUME RoundSound, NEW q \in Posts, Join(q)
    PROVE  RoundSound'
<1> USE DEF RoundSound
<1>1. /\ http' = http /\ aborted' = aborted /\ pipe' = pipe /\ streamed' = streamed
      /\ accepting' = accepting /\ leaving' = leaving /\ interrupted' = interrupted /\ lives' = lives
      /\ adapter[q] = "starting" /\ joined[q] = 0
    BY DEF Join, daemonVars, httpVars, RunsSound
<1>2. /\ sessions \in Seq(SessionRecords) /\ Len(sessions) \in Nat /\ joined \in [Posts -> 0..Len(sessions)]
      /\ current \in 0..Len(sessions) /\ \A s \in 1..Len(sessions) : JournalSound(sessions[s])
    BY DEF SessionsSound
<1>3. /\ adapter' \in [Posts -> {"off", "starting", "waiting", "live", "ended"}] /\ adapter'[q] = "waiting"
      /\ \A p \in Posts : p # q => adapter'[p] = adapter[p]
    BY DEF Join, ExchangesTyped
<1>4. PICK new : new = NewBrowserSession
    OBVIOUS
<1>5. new \in SessionRecords /\ JournalSound(new) /\ new.text = 0 /\ new.state = "active"
  <2>1. new.text = 0 /\ new.journal = <<>> /\ new.state = "active" /\ new.round = "open"
      BY <1>4 DEF NewBrowserSession
  <2>2. <<>> \in Seq(Events) /\ 0 \in 0..MaxEvents
      BY BoundsAssumption
  <2>3. new \in SessionRecords
      BY <1>4, <2>2 DEF NewBrowserSession, SessionRecords
  <2>4. Len(new.journal) = new.text
      BY <2>1
  <2>5. IsText(new.journal, new.text)
      BY <2>1 DEF IsText
  <2> QED
      BY <2>1, <2>3, <2>4, <2>5 DEF JournalSound
<1>6. PICK s, ss :
          /\ joined' = [joined EXCEPT ![q] = s] /\ sessions' = ss /\ s # 0 /\ current' = s
          /\ \/ s = current /\ ss = sessions
             \/ /\ s = Len(sessions) + 1 /\ ss = Append(sessions, new)
                /\ ~pipe[q].told
    BY <1>2, <1>4 DEF Join, MayBegin
<1>7. /\ ss \in Seq(SessionRecords) /\ Len(ss) \in Nat /\ s \in 1..Len(ss) /\ Len(sessions) <= Len(ss)
      /\ \A i \in 1..Len(sessions) : ss[i] = sessions[i]
      /\ \A i \in 1..Len(ss) : JournalSound(ss[i])
  <2>1. CASE s = current /\ ss = sessions
      BY <1>2, <1>6, <2>1
  <2>2. CASE s = Len(sessions) + 1 /\ ss = Append(sessions, new)
    <3>1. /\ ss \in Seq(SessionRecords) /\ Len(ss) = Len(sessions) + 1 /\ ss[Len(sessions) + 1] = new
          /\ \A i \in 1..Len(sessions) : ss[i] = sessions[i]
        BY <1>2, <1>5, <2>2
    <3>2. \A i \in 1..Len(ss) : i \in 1..Len(sessions) \/ i = Len(sessions) + 1
        BY <1>2, <3>1
    <3>3. \A i \in 1..Len(ss) : JournalSound(ss[i])
        BY <1>2, <1>5, <3>1, <3>2
    <3> QED
        BY <1>2, <2>2, <3>1, <3>3
  <2> QED
      BY <1>6, <2>1, <2>2
<1>8. /\ joined'[q] = s /\ \A p \in Posts : p # q => joined'[p] = joined[p]
      /\ joined' \in [Posts -> 0..Len(ss)]
  <2>1. \A p \in Posts : joined[p] \in 0..Len(ss)
      BY <1>2, <1>7
  <2>2. s \in 0..Len(ss)
      BY <1>7
  <2>3. joined' \in [Posts -> 0..Len(ss)]
      BY <1>2, <1>6, <2>1, <2>2
  <2>4. joined'[q] = s /\ \A p \in Posts : p # q => joined'[p] = joined[p]
      BY <1>2, <1>6
  <2> QED
      BY <2>3, <2>4
<1>9. ASSUME NEW p \in Posts
      PROVE  /\ TextIn(ss, joined[p]) = TextIn(sessions, joined[p])
             /\ OverIn(ss, joined[p]) = OverIn(sessions, joined[p])
  <2>1. joined[p] # 0 => SameText(sessions, ss, joined[p])
    <3>1. joined[p] # 0 => joined[p] \in 1..Len(sessions)
        BY <1>2
    <3> QED
        BY <1>7, <3>1 DEF SameText
  <2> QED
      BY <2>1, SameIn
<1>10. ExchangesTyped' /\ PipesTyped' /\ InterruptedIsAborted'
    BY <1>1, <1>3 DEF ExchangesTyped, PipesTyped, InterruptedIsAborted
<1>11. SessionsSound'
  <2>1. DOMAIN ss = 1..Len(ss) /\ s \in 0..Len(ss)
      BY <1>7
  <2> QED
      BY <1>6, <1>7, <1>8, <2>1 DEF SessionsSound
<1>12. RunsSound' /\ OneRuns'
    BY <1>3, <1>6, <1>8, <1>9 DEF RunsSound, OneRuns
<1>13. StreamsSound'
  <2>1. ASSUME streamed, NEW p \in Posts
        PROVE  StreamSound(pipe[p], adapter'[p], aborted[p], TextIn(ss, joined'[p]), OverIn(ss, joined'[p]))
    <3>1. StreamSound(pipe[p], adapter[p], aborted[p], TextIn(sessions, joined[p]), OverIn(sessions, joined[p]))
        BY <2>1 DEF StreamsSound
    <3>2. CASE p = q
      <4>1. PICK o, run, run2, text, text2 : /\ o = pipe[p] /\ run = adapter[p] /\ run2 = adapter'[p]
                                   /\ text = TextIn(sessions, joined[p]) /\ text2 = TextIn(ss, joined'[p])
          OBVIOUS
      <4>2. run = "starting" /\ run2 = "waiting"
          BY <1>1, <1>3, <3>2, <4>1
      <4>3. ~OverIn(sessions, joined[p])
          BY <1>1, <3>2 DEF OverIn
      <4>4. StreamSound(o, run, aborted[p], text, OverIn(sessions, joined[p]))
          BY <3>1, <4>1
      <4>5. StreamSound(o, run2, aborted[p], text2, OverIn(ss, joined'[p]))
          BY <4>2, <4>3, <4>4, StreamKept
      <4> QED
          BY <4>1, <4>5
    <3>3. CASE p # q
        BY <1>3, <1>8, <1>9, <3>1, <3>3, StreamKept
    <3> QED
        BY <3>2, <3>3
  <2> QED
      BY <1>1, <1>6, <2>1 DEF StreamsSound
<1>14. ExchangesSound'
  <2>1. ASSUME NEW p \in Posts
        PROVE  /\ http[p] \in {"unsent", "reading", "refused"} => adapter'[p] = "off"
               /\ http[p] = "replying" => adapter'[p] \in {"off", "ended"}
      BY <1>1, <1>3 DEF ExchangesSound
  <2> QED
      BY <1>1, <2>1 DEF ExchangesSound
<1>15. ReleasedIsStopped'
  <2>1. ASSUME NEW p \in Posts, http[p] = "over"
        PROVE  adapter'[p] \in {"off", "ended"} \/ pipe[p].told
      BY <1>1, <1>3, <2>1 DEF ReleasedIsStopped
  <2> QED
      BY <1>1, <2>1 DEF ReleasedIsStopped
<1>16. ShutdownSound'
  <2>1. ASSUME leaving = "scheduled"
        PROVE  ~accepting /\ IdleHttp /\ ss[s].state # "active"
    <3>1. ~accepting /\ IdleHttp /\ ~ActiveSession
        BY <2>1 DEF ShutdownSound, Idle
    <3>2. http[q] = "over"
        BY <1>1, <3>1 DEF IdleHttp, ExchangesSound, ExchangesTyped
    <3>3. pipe[q].told
        BY <1>1, <3>2 DEF ReleasedIsStopped
    <3>4. s = current /\ ss = sessions
        BY <1>6, <3>3
    <3> QED
        BY <1>6, <3>1, <3>4 DEF ActiveSession
  <2> QED
      BY <1>1, <1>6, <2>1 DEF ShutdownSound, Idle, IdleHttp, ActiveSession
<1> QED
    BY <1>10, <1>11, <1>12, <1>13, <1>14, <1>15, <1>16

-------------------------------------------------------------------------------
(* The process begins, and ends.                                                 *)
LEMMA NothingYet ==
    /\ IsPipe(NoPipe) /\ NoPipe.sent = <<>> /\ NoPipe.backlog = <<>> /\ NoPipe.step = "none" /\ ~NoPipe.shut
    /\ \A gone : StreamSound(NoPipe, "off", gone, 0, FALSE)
<1>1. PICK r : r = NoPipe
    OBVIOUS
<1>2. r = [backlog |-> <<>>, shut |-> FALSE, step |-> "none", sent |-> <<>>, told |-> FALSE]
    BY <1>1 DEF NoPipe
<1>3. r.sent = <<>> /\ r.backlog = <<>> /\ r.step = "none" /\ ~r.shut
    BY <1>2
<1>4. r \in [backlog : Seq(Events), shut : BOOLEAN, step : Steps, sent : {<<>>}, told : BOOLEAN]
    BY <1>2, EmptyBacklog DEF Steps
<1>5. IsPipe(r)
    BY <1>3, <1>4, EmptyBacklog DEF IsPipe
<1>6. \A gone : StreamSound(r, "off", gone, 0, FALSE)
    BY <1>3 DEF StreamSound, IsOpen
<1> QED
    BY <1>1, <1>3, <1>5, <1>6

LEMMA NoSessions ==
    <<>> \in Seq(SessionRecords) /\ Len(<<>>) = 0 /\ DOMAIN <<>> = {} /\ TextIn(<<>>, 0) = 0 /\ OverIn(<<>>, 0) = FALSE
BY DEF TextIn, OverIn

LEMMA InitSound == DaemonInit => RoundSound
<1> SUFFICES ASSUME DaemonInit PROVE RoundSound
    OBVIOUS
<1> USE DEF DaemonInit
<1>1. ExchangesTyped
  <2>1. MaxLives \in Nat /\ MaxLives # 0
      BY BoundsAssumption
  <2>2. lives \in 1..MaxLives
      BY <2>1
  <2>3. "unsent" \in InFlight \cup {"unsent", "refused", "over"}
      OBVIOUS
  <2> QED
      BY <2>2, <2>3 DEF ExchangesTyped
<1>2. PipesTyped
    BY NothingYet DEF PipesTyped
<1>3. SessionsSound
    BY NoSessions DEF SessionsSound
<1>4. RunsSound /\ OneRuns
    BY DEF RunsSound, OneRuns
<1>5. StreamsSound
  <2>1. ASSUME NEW q \in Posts
        PROVE  StreamSound(pipe[q], adapter[q], aborted[q], TextIn(sessions, joined[q]), OverIn(sessions, joined[q]))
    <3>1. TextIn(sessions, joined[q]) = 0 /\ OverIn(sessions, joined[q]) = FALSE
        BY NoSessions
    <3>2. pipe[q] = NoPipe /\ adapter[q] = "off"
        OBVIOUS
    <3> QED
        BY <3>1, <3>2, NothingYet
  <2> QED
      BY <2>1 DEF StreamsSound
<1>6. ExchangesSound
    BY NothingYet DEF ExchangesSound
<1>7. InterruptedIsAborted /\ ReleasedIsStopped /\ ShutdownSound
    BY DEF InterruptedIsAborted, ReleasedIsStopped, ShutdownSound
<1> QED
    BY <1>1, <1>2, <1>3, <1>4, <1>5, <1>6, <1>7 DEF RoundSound

LEMMA ExitSound ==
    ASSUME RoundSound, Exit
    PROVE  RoundSound'
<1> USE DEF RoundSound
<1>1. /\ leaving' = "gone" /\ accepting' = FALSE /\ interrupted' = FALSE /\ lives' = lives /\ streamed' = streamed
      /\ sessions' = <<>> /\ current' = 0
    BY DEF Exit
<1>2. ASSUME NEW q \in Posts
      PROVE  /\ http'[q] = (IF http[q] \in InFlight THEN "over" ELSE http[q]) /\ http'[q] \notin InFlight
             /\ aborted'[q] = FALSE /\ pipe'[q] = NoPipe /\ adapter'[q] = "off" /\ joined'[q] = 0
    BY DEF Exit, InFlight
<1>3. ExchangesTyped'
  <2>1. http' \in [Posts -> InFlight \cup {"unsent", "refused", "over"}]
      BY DEF Exit, ExchangesTyped
  <2>2. /\ aborted' \in [Posts -> BOOLEAN]
        /\ adapter' \in [Posts -> {"off", "starting", "waiting", "live", "ended"}]
      BY DEF Exit
  <2>3. lives \in 1..MaxLives /\ streamed \in BOOLEAN
      BY DEF ExchangesTyped
  <2> QED
      BY <1>1, <2>1, <2>2, <2>3 DEF ExchangesTyped
<1>4. PipesTyped'
  <2>1. DOMAIN pipe' = Posts
      BY DEF Exit
  <2> QED
      BY <1>2, <2>1, NothingYet DEF PipesTyped
<1>5. SessionsSound'
  <2>1. joined' \in [Posts -> 0..0]
      BY DEF Exit
  <2> QED
      BY <1>1, <2>1, NoSessions DEF SessionsSound
<1>6. RunsSound' /\ OneRuns'
    BY <1>2 DEF RunsSound, OneRuns
<1>7. StreamsSound'
  <2>1. ASSUME NEW q \in Posts
        PROVE  StreamSound(pipe'[q], adapter'[q], aborted'[q], TextIn(<<>>, joined'[q]), OverIn(<<>>, joined'[q]))
      BY <1>2, NothingYet, NoSessions
  <2> QED
      BY <1>1, <2>1 DEF StreamsSound
<1>8. ExchangesSound'
    BY <1>2, NothingYet DEF ExchangesSound, InFlight
<1>9. InterruptedIsAborted' /\ ReleasedIsStopped' /\ ShutdownSound'
    BY <1>1, <1>2 DEF InterruptedIsAborted, ReleasedIsStopped, ShutdownSound
<1> QED
    BY <1>3, <1>4, <1>5, <1>6, <1>7, <1>8, <1>9

LEMMA RoundStep ==
    ASSUME RoundSound, [DaemonNext]_responseVars
    PROVE  RoundSound'
<1>1. ASSUME NEW q \in Posts, Exchange(q) \/ Run(q)
      PROVE  RoundSound'
  <2>1. CASE BodyRead(q)
      BY <2>1, BodyReadSound
  <2>2. CASE Collected(q)
      BY <2>2, CollectedSound
  <2>3. CASE Drained(q)
      BY <2>3, ArrivesDrainedSound
  <2>4. CASE Pull(q)
      BY <2>4, PullStallSound
  <2>5. CASE Join(q)
      BY <2>5, JoinSound
  <2>6. CASE JoinAborted(q)
      BY <2>6, JoinAbortedSound
  <2>7. CASE GoLive(q)
      BY <2>7, GoLiveSound
  <2>8. CASE Finish(q)
      BY <2>8, FinishSound
  <2>9. CASE Fail(q)
      BY <2>9, FailSound
  <2> QED
      BY <1>1, <2>1, <2>2, <2>3, <2>4, <2>5, <2>6, <2>7, <2>8, <2>9 DEF Exchange, Run
<1>2. CASE Progress
    BY <1>1, <1>2, SessionSteps DEF Progress
<1>3. ASSUME NEW q \in Posts, Arrives(q) \/ ClientLeaves(q) \/ Stall(q) \/ Relay(q) \/ AbortRun(q)
      PROVE  RoundSound'
  <2>1. CASE Arrives(q)
      BY <2>1, ArrivesDrainedSound
  <2>2. CASE ClientLeaves(q)
      BY <2>2, AbortSteps
  <2>3. CASE Stall(q)
      BY <2>3, PullStallSound
  <2>4. CASE Relay(q)
      BY <2>4, RelaySound
  <2>5. CASE AbortRun(q)
      BY <2>5, AbortRunSound
  <2> QED
      BY <1>3, <2>1, <2>2, <2>3, <2>4, <2>5
<1>4. CASE \/ ExpandPrevious \/ PersistTimer \/ Drain \/ Resume \/ ForgetInterrupt \/ AskShutdown \/ Start
           \/ UNCHANGED responseVars
    BY <1>4, QuietSteps
<1>5. CASE InterruptTurn \/ CancelTurns
    BY <1>5, AbortSteps
<1>6. CASE CancelTurn \/ Shutdown
    BY <1>6, SessionSteps
<1>7. CASE Exit
    BY <1>7, ExitSound
<1> QED
    BY <1>2, <1>3, <1>4, <1>5, <1>6, <1>7 DEF DaemonNext

-------------------------------------------------------------------------------
(* The store of responses.                                                       *)
LEMMA SetAsSequence ==
    ASSUME NEW S \in SUBSET Posts
    PROVE  SetToSeq(S) \in Seq(Posts)
<1>1. IsFiniteSet(S)
    BY PostsAssumption, FS_Subset
<1>2. PICK n : n = Cardinality(S)
    OBVIOUS
<1>3. n \in Nat /\ ExistsBijection(1..n, S)
    BY <1>1, <1>2, FS_CardinalityType
<1>4. \E f \in [1..n -> S] : IsInjective(f)
    BY <1>3 DEF ExistsBijection, Bijection, Injection
<1>5. SetToSeq(S) \in [1..n -> S]
    BY <1>2, <1>4 DEF SetToSeq
<1>6. SetToSeq(S) \in [1..n -> Posts]
    BY <1>5
<1> QED
    BY <1>3, <1>6

LEMMA NewestKept ==
    ASSUME NEW s \in Seq(Posts), NEW t, t = PruneResponses(s)
    PROVE  /\ t \in Seq(Posts) /\ Len(t) <= MaxStored
           /\ Len(s) <= MaxStored => t = s
           /\ ~(Len(s) <= MaxStored) => Len(t) = MaxStored
<1>1. MaxStored \in Nat /\ MaxStored # 0 /\ Len(s) \in Nat
    BY BoundsAssumption
<1>2. CASE Len(s) <= MaxStored
    BY <1>2 DEF PruneResponses
<1>3. CASE ~(Len(s) <= MaxStored)
  <2>1. PICK a : a = Len(s) - MaxStored + 1
      OBVIOUS
  <2>2. a \in 1..Len(s) /\ Len(s) - a + 1 = MaxStored
      BY <1>1, <1>3, <2>1
  <2>3. t = SubSeq(s, a, Len(s))
      BY <1>3, <2>1 DEF PruneResponses
  <2>4. SubSeq(s, a, Len(s)) \in Seq(Posts) /\ Len(SubSeq(s, a, Len(s))) = Len(s) - a + 1
      BY <1>1, <2>2
  <2>5. Len(t) = MaxStored
      BY <2>2, <2>3, <2>4
  <2> QED
      BY <1>1, <1>3, <2>3, <2>4, <2>5
<1> QED
    BY <1>2, <1>3

(* What a step may do to the store.                                              *)
Remembers(qs) ==
    stored' = PruneResponses(Loaded \o qs) /\ loaded' = TRUE /\ unsaved' = TRUE /\ snapshot' = snapshot
Expands  == ~loaded /\ stored' = Loaded /\ loaded' = TRUE /\ unsaved' = unsaved /\ snapshot' = snapshot
Persists == unsaved /\ Persisted
Forgets  == stored' = <<>> /\ loaded' = FALSE /\ unsaved' = FALSE /\ snapshot' = snapshot
StoreMoves ==
    \/ UNCHANGED storeVars
    \/ \E qs \in Seq(Posts) : Remembers(qs)
    \/ Expands \/ Persists \/ Forgets

LEMMA PipesRemember ==
    ASSUME NEW new, PipesBecome(new)
    PROVE  StoreMoves
<1>1. PICK S, qs : S = {q \in Posts : Completed(new[q]) /\ ~Completed(pipe[q])} /\ qs = SetToSeq(S)
    OBVIOUS
<1>2. qs \in Seq(Posts)
    BY <1>1, SetAsSequence
<1>3. Remember(qs)
    BY <1>1 DEF PipesBecome
<1> QED
    BY <1>2, <1>3 DEF Remember, StoreMoves, Remembers

LEMMA RunRemembers ==
    ASSUME NEW q, NEW batch, RunEnds(q, batch)
    PROVE  StoreMoves
BY PipesRemember DEF RunEnds, PipeBecomes

LEMMA StoreSteps ==
    ASSUME [DaemonNext]_responseVars
    PROVE  StoreMoves
<1>1. ASSUME NEW q, Exchange(q) \/ Run(q) \/ Arrives(q) \/ ClientLeaves(q) \/ Stall(q) \/ Relay(q) \/ AbortRun(q)
      PROVE  StoreMoves
  <2>1. CASE BodyRead(q) \/ Drained(q) \/ Join(q) \/ Arrives(q) \/ ClientLeaves(q)
      BY <2>1 DEF BodyRead, Drained, Join, Arrives, ClientLeaves, StoreMoves
  <2>2. CASE Collected(q) \/ Pull(q) \/ Stall(q)
      BY <2>2, PipesRemember DEF Collected, Pull, Stall, PipeBecomes
  <2>3. CASE JoinAborted(q) \/ AbortRun(q)
      BY <2>3, RunRemembers DEF JoinAborted, AbortRun
  <2>4. CASE GoLive(q)
    <3>1. \/ \E batch : RunEnds(q, batch)
          \/ PipeBecomes(q, Feed(pipe[q], ReplayOf(q)))
        BY <2>4 DEF GoLive, Breaks
    <3> QED
        BY <3>1, RunRemembers, PipesRemember DEF PipeBecomes
  <2>5. CASE Relay(q)
    <3>1. \E batch : RunEnds(q, batch) \/ PipeBecomes(q, Feed(pipe[q], batch))
        BY <2>5 DEF Relay
    <3> QED
        BY <3>1, RunRemembers, PipesRemember DEF PipeBecomes
  <2>6. CASE Finish(q) \/ Fail(q)
    <3>1. \E batch : RunEnds(q, batch)
        BY <2>6 DEF Finish, Fail, Breaks
    <3> QED
        BY <3>1, RunRemembers
  <2> QED
      BY <1>1, <2>1, <2>2, <2>3, <2>4, <2>5, <2>6 DEF Exchange, Run
<1>2. CASE \/ BrowserSettles \/ Drain \/ Resume \/ InterruptTurn \/ ForgetInterrupt \/ CancelTurns \/ CancelTurn
           \/ AskShutdown \/ Start \/ UNCHANGED responseVars
    BY <1>2 DEF BrowserSettles, Drain, Resume, InterruptTurn, ForgetInterrupt, CancelTurns, CancelTurn,
                AskShutdown, Start, responseVars, StoreMoves
<1>3. CASE ExpandPrevious
    BY <1>3 DEF ExpandPrevious, StoreMoves, Expands
<1>4. CASE PersistTimer
    BY <1>4 DEF PersistTimer, StoreMoves, Persists
<1>5. CASE Shutdown
    BY <1>5 DEF Shutdown, StoreMoves, Persists
<1>6. CASE Exit
    BY <1>6 DEF Exit, StoreMoves, Forgets
<1> QED
    BY <1>1, <1>2, <1>3, <1>4, <1>5, <1>6 DEF DaemonNext, Progress

LEMMA StoreInit == DaemonInit => StoreSound
<1>1. <<>> \in Seq(Posts) /\ Len(<<>>) <= MaxStored
    BY BoundsAssumption
<1> QED
    BY <1>1 DEF DaemonInit, StoreSound

LEMMA StoreStep ==
    ASSUME StoreSound, StoreMoves
    PROVE  StoreSound'
<1> USE DEF StoreSound
<1>0. /\ MaxStored \in Nat /\ <<>> \in Seq(Posts) /\ Len(<<>>) <= MaxStored
    BY BoundsAssumption
<1>1. PICK held : held = Loaded
    OBVIOUS
<1>2. /\ held \in Seq(Posts) /\ Len(held) <= MaxStored
      /\ Range(snapshot) \subseteq Range(held) \/ Len(held) = MaxStored
  <2>1. CASE loaded
      BY <1>1, <2>1 DEF Loaded
  <2>2. CASE ~loaded
    <3>1. held = PruneResponses(snapshot)
        BY <1>1, <2>2 DEF Loaded
    <3>2. held = snapshot
        BY <3>1, NewestKept
    <3> QED
        BY <3>2
  <2> QED
      BY <2>1, <2>2
<1>3. CASE UNCHANGED storeVars
    BY <1>3 DEF storeVars
<1>4. ASSUME NEW qs \in Seq(Posts), Remembers(qs)
      PROVE  StoreSound'
  <2>1. PICK all : all = held \o qs
      OBVIOUS
  <2>2. /\ all \in Seq(Posts) /\ Len(all) = Len(held) + Len(qs)
        /\ \A i \in 1..Len(held) : i \in 1..Len(all) /\ all[i] = held[i]
      BY <1>2, <2>1
  <2>3. stored' = PruneResponses(all) /\ loaded' = TRUE /\ unsaved' = TRUE /\ snapshot' = snapshot
      BY <1>1, <1>4, <2>1 DEF Remembers
  <2>4. /\ stored' \in Seq(Posts) /\ Len(stored') <= MaxStored
        /\ Len(all) <= MaxStored => stored' = all
        /\ ~(Len(all) <= MaxStored) => Len(stored') = MaxStored
      BY <2>2, <2>3, NewestKept
  <2>5. Range(held) \subseteq Range(all)
    <3>1. DOMAIN held = 1..Len(held) /\ DOMAIN all = 1..Len(all)
        BY <1>2, <2>2
    <3> QED
        BY <2>2, <3>1 DEF Range
  <2>6. Range(snapshot) \subseteq Range(stored') \/ Len(stored') = MaxStored
    <3>1. CASE Len(all) <= MaxStored
      <4>1. stored' = all
          BY <2>4, <3>1
      <4>2. Len(held) = MaxStored => Len(all) = MaxStored
        <5>1. Len(held) \in Nat /\ Len(qs) \in Nat
            BY <1>2
        <5> QED
            BY <1>0, <2>2, <3>1, <5>1
      <4> QED
          BY <1>2, <2>5, <4>1, <4>2
    <3>2. CASE ~(Len(all) <= MaxStored)
        BY <2>4, <3>2
    <3> QED
        BY <3>1, <3>2
  <2> QED
      BY <2>3, <2>4, <2>6
<1>5. CASE Expands
    BY <1>1, <1>2, <1>5 DEF Expands
<1>6. CASE Persists
    BY <1>6 DEF Persists, Persisted
<1>7. CASE Forgets
    BY <1>0, <1>7 DEF Forgets
<1> QED
    BY <1>3, <1>4, <1>5, <1>6, <1>7 DEF StoreMoves

LEMMA SnapshotStep ==
    ASSUME StoreSound, StoreMoves
    PROVE  Range(snapshot) \subseteq Range(snapshot') \/ Len(snapshot') = MaxStored
<1>1. CASE snapshot' = snapshot
    BY <1>1
<1>2. CASE Persists
  <2>1. unsaved /\ snapshot' = stored
      BY <1>2 DEF Persists, Persisted
  <2> QED
      BY <2>1 DEF StoreSound
<1> QED
    BY <1>1, <1>2 DEF StoreMoves, storeVars, Remembers, Expands, Forgets

-------------------------------------------------------------------------------
(* What the invariant says of the responses.                                     *)
EndForm(s, text, over) ==
    /\ Len(s) > 1 /\ IsText(s, Len(s) - 2) /\ s[Len(s)] = Closing /\ s[Len(s) - 1] \in Terminals
    /\ s[Len(s) - 1] = Mark("completed") => over /\ Len(s) = text + 2

LEMMA SentForms ==
    ASSUME NEW p, IsPipe(p), NEW run, NEW gone, NEW text, NEW over, StreamSound(p, run, gone, text, over)
    PROVE  /\ p.sent \in Seq(Frames)
           /\ IsText(p.sent, Len(p.sent)) \/ EndForm(p.sent, text, over)
           /\ p.step = "closed" /\ ~gone => EndForm(p.sent, text, over)
<1>1. CASE p.step = "none"
  <2>1. p.sent = <<>> /\ Len(p.sent) = 0
      BY <1>1 DEF StreamSound
  <2>2. <<>> \in Seq(Frames)
      OBVIOUS
  <2>3. IsText(p.sent, Len(p.sent))
      BY <2>1 DEF IsText
  <2> QED
      BY <1>1, <2>1, <2>2, <2>3
<1>2. CASE p.step = "closed"
  <2>1. ClosedSound(p, text, over, gone)
      BY <1>2 DEF StreamSound
  <2> QED
      BY <2>1 DEF ClosedSound, EndForm
<1>3. CASE IsOpen(p)
  <2>1. OpenSound(p, text, over) /\ p.step # "closed"
      BY <1>3 DEF StreamSound, IsOpen
  <2> QED
      BY <2>1 DEF OpenSound
<1>4. p.step \in {"none", "gated", "waiting", "closed"}
    BY PipeFields DEF Steps
<1> QED
    BY <1>1, <1>2, <1>3, <1>4 DEF IsOpen

LEMMA TextHasNoEnd ==
    ASSUME NEW s \in Seq(Frames), NEW n, IsText(s, n), NEW i \in 1..n
    PROVE  s[i] \notin Terminals
BY FramesDiffer DEF IsText

LEMMA EndPlace ==
    ASSUME NEW s \in Seq(Frames), NEW text, NEW over, EndForm(s, text, over)
    PROVE  /\ Len(s) - 1 \in DOMAIN s /\ s[Len(s) - 1] \in Terminals
           /\ Last(s) = Closing
           /\ \A i \in DOMAIN s : s[i] \in Terminals => i = Len(s) - 1
<1>1. Len(s) \in Nat /\ Len(s) > 1 /\ DOMAIN s = 1..Len(s)
    BY DEF EndForm
<1>2. PICK n : n = Len(s) - 2
    OBVIOUS
<1>3. ASSUME NEW i \in DOMAIN s, s[i] \in Terminals
      PROVE  i = Len(s) - 1
  <2>1. IsText(s, n)
      BY <1>2 DEF EndForm
  <2>2. i \notin 1..n
      BY <1>3, <2>1, TextHasNoEnd
  <2>3. i # Len(s)
      BY <1>3, FramesDiffer DEF EndForm
  <2> QED
      BY <1>1, <1>2, <1>3, <2>2, <2>3
<1> QED
    BY <1>1, <1>3 DEF EndForm, Last

LEMMA RoundHoldsOneTerminal == RoundSound => OneTerminal
<1> SUFFICES ASSUME RoundSound, streamed, NEW q \in Posts, NEW sent, sent = pipe[q].sent
             PROVE  /\ \A i \in {j \in DOMAIN sent : sent[j] \in Terminals} : i = Len(sent) - 1 /\ Last(sent) = Closing
                    /\ pipe[q].step = "closed" /\ ~aborted[q] => {j \in DOMAIN sent : sent[j] \in Terminals} # {}
    BY DEF OneTerminal
<1>1. PICK text, over : text = TextIn(sessions, joined[q]) /\ over = OverIn(sessions, joined[q])
    OBVIOUS
<1>2. /\ sent \in Seq(Frames)
      /\ IsText(sent, Len(sent)) \/ EndForm(sent, text, over)
      /\ pipe[q].step = "closed" /\ ~aborted[q] => EndForm(sent, text, over)
    BY <1>1, SentForms DEF RoundSound, PipesTyped, StreamsSound
<1>3. CASE IsText(sent, Len(sent)) /\ ~EndForm(sent, text, over)
  <2>1. \A i \in 1..Len(sent) : sent[i] \notin Terminals
      BY <1>2, <1>3, TextHasNoEnd
  <2>2. DOMAIN sent = 1..Len(sent)
      BY <1>2
  <2> QED
      BY <1>2, <1>3, <2>1, <2>2
<1>4. CASE EndForm(sent, text, over)
  <2>1. /\ Len(sent) - 1 \in DOMAIN sent /\ sent[Len(sent) - 1] \in Terminals /\ Last(sent) = Closing
        /\ \A i \in DOMAIN sent : sent[i] \in Terminals => i = Len(sent) - 1
      BY <1>2, <1>4, EndPlace
  <2> QED
      BY <2>1
<1> QED
    BY <1>2, <1>3, <1>4

LEMMA RoundHoldsWhole == RoundSound => CompletedIsWhole
<1> SUFFICES ASSUME RoundSound, streamed, NEW q \in Posts, Completed(pipe[q]), NEW sent, sent = pipe[q].sent
             PROVE  Len(sent) = Session(q).text + 2 /\ \A i \in 1..Session(q).text : sent[i] = Delta(i)
    BY DEF CompletedIsWhole
<1>1. PICK text, over : text = TextIn(sessions, joined[q]) /\ over = OverIn(sessions, joined[q])
    OBVIOUS
<1>2. /\ sent \in Seq(Frames)
      /\ IsText(sent, Len(sent)) \/ EndForm(sent, text, over)
    BY <1>1, SentForms DEF RoundSound, PipesTyped, StreamsSound
<1>3. PICK i : i \in DOMAIN sent /\ sent[i] = Mark("completed")
    BY DEF Completed, Range
<1>4. sent[i] \in Terminals /\ i \in 1..Len(sent)
    BY <1>2, <1>3, FramesDiffer
<1>5. EndForm(sent, text, over)
    BY <1>2, <1>4, TextHasNoEnd
<1>6. i = Len(sent) - 1
    BY <1>2, <1>3, <1>4, <1>5, EndPlace
<1>7. over /\ Len(sent) = text + 2 /\ IsText(sent, Len(sent) - 2)
    BY <1>3, <1>5, <1>6 DEF EndForm
<1>8. text = Session(q).text /\ text \in Nat
  <2>1. joined[q] # 0
      BY <1>1, <1>7 DEF OverIn
  <2>2. joined[q] \in 1..Len(sessions)
      BY <2>1 DEF RoundSound, SessionsSound
  <2>3. PICK r : r = sessions[joined[q]] /\ r \in SessionRecords
      BY <2>2 DEF RoundSound, SessionsSound
  <2>5. r.text \in 0..MaxEvents
      BY <2>3 DEF SessionRecords
  <2>4. MaxEvents \in Nat
      BY BoundsAssumption
  <2> QED
      BY <1>1, <2>1, <2>3, <2>4, <2>5 DEF TextIn, Session
<1>9. Len(sent) - 2 = text
    BY <1>7, <1>8
<1> QED
    BY <1>7, <1>8, <1>9 DEF IsText

LEMMA BoundedBacklog ==
    ASSUME NEW b \in Seq(Events), Len(b) <= MaxBuffered
    PROVE  b \in BoundedSeq(Events, MaxBuffered)
<1>1. Len(b) \in 0..MaxBuffered /\ b \in [1..Len(b) -> Events]
    BY BoundsAssumption
<1> QED
    BY <1>1 DEF BoundedSeq, SeqOf

LEMMA SoundIsTyped == DaemonSound => DaemonTypeOK
<1> SUFFICES ASSUME DaemonSound PROVE DaemonTypeOK
    OBVIOUS
<1> USE DEF DaemonSound, RoundSound
<1>1. /\ {accepting, interrupted, streamed, loaded, unsaved} \subseteq BOOLEAN
      /\ leaving \in {"no", "scheduled", "overtaken", "closing", "gone"}
      /\ lives \in 1..MaxLives
      /\ http \in [Posts -> InFlight \cup {"unsent", "refused", "over"}]
      /\ aborted \in [Posts -> BOOLEAN]
      /\ adapter \in [Posts -> {"off", "starting", "waiting", "live", "ended"}]
    BY DEF ExchangesTyped, StoreSound
<1>2. joined \in [Posts -> 0..Len(sessions)] /\ current \in 0..Len(sessions)
    BY DEF SessionsSound
<1>3. ASSUME NEW q \in Posts
      PROVE  /\ pipe[q].backlog \in BoundedSeq(Events, MaxBuffered)
             /\ pipe[q].step \in {"none", "gated", "waiting", "closed"}
             /\ {pipe[q].shut, pipe[q].told} \subseteq BOOLEAN
  <2>1. IsPipe(pipe[q])
      BY DEF PipesTyped
  <2> QED
      BY <2>1, PipeFields, BoundedBacklog DEF Steps
<1>4. \A s \in DOMAIN sessions :
         sessions[s].state \in {"active", "final", "error", "cancelled", "retiring", "gone"}
  <2>1. ASSUME NEW s \in DOMAIN sessions
        PROVE  sessions[s] \in SessionRecords
      BY DEF SessionsSound
  <2>2. \A r \in SessionRecords : r.state \in {"active", "final", "error", "cancelled", "retiring", "gone"}
      BY DEF SessionRecords
  <2> QED
      BY <2>1, <2>2
<1>5. {Range(stored), Range(snapshot)} \subseteq SUBSET Posts /\ Len(stored) <= MaxStored
    BY DEF StoreSound, Range
<1> QED
    BY <1>1, <1>2, <1>3, <1>4, <1>5 DEF DaemonTypeOK

LEMMA DaemonSteps == DaemonSpec => []DaemonSound
<1>1. DaemonInit => DaemonSound
    BY InitSound, StoreInit DEF DaemonSound
<1>2. DaemonSound /\ [DaemonNext]_responseVars => DaemonSound'
    BY RoundStep, StoreSteps, StoreStep DEF DaemonSound
<1> QED
    BY <1>1, <1>2, PTL DEF DaemonSpec

(* The HTTP side of the daemon keeps its promises for any number of posts and    *)
(* of events, any queue and any store: a stream ends with one terminal frame,    *)
(* an answer that is said to be complete carries the whole text in order, an     *)
(* interrupt aborts the requests of its turn whichever comes first, a released   *)
(* request has no adapter that was not told to stop, and an acknowledged         *)
(* shutdown finds the daemon idle (server.ts, bridge.ts, index.ts).              *)
THEOREM RequestsAreServed == DaemonSpec => []RequestsHold
<1>1. DaemonSound => RequestsHold
    BY SoundIsTyped, RoundHoldsOneTerminal, RoundHoldsWhole
       DEF DaemonSound, RoundSound, ShutdownSound, ShutdownFindsIdle, RequestsHold
<1> QED
    BY <1>1, DaemonSteps, PTL

(* A response that is on disk leaves the snapshot only to make room for newer    *)
(* ones: the store reads the snapshot before it remembers anything, across       *)
(* crashes and restarts (responses/state.ts).                                    *)
THEOREM SnapshotIsKept == DaemonSpec => SnapshotKeeps
<1>1. DaemonSound /\ [DaemonNext]_responseVars =>
        [Range(snapshot) \subseteq Range(snapshot') \/ Len(snapshot') = MaxStored]_responseVars
    BY StoreSteps, SnapshotStep DEF DaemonSound
<1> QED
    BY <1>1, DaemonSteps, PTL DEF DaemonSpec, SnapshotKeeps
===============================================================================
