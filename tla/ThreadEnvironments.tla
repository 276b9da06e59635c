--------------------------- MODULE ThreadEnvironments ---------------------------
(***************************************************************************)
(* Which directory and which permissions a turn runs with                  *)
(* (thread-environment.ts, codex-rollout-environment.ts, environment.ts    *)
(* and compaction-continuation.ts in src/adapters/chatgpt-web).  Codex     *)
(* shows its environment when a task starts or the environment changes,    *)
(* not in every request, so the daemon keeps the last one of each thread   *)
(* in memory and in a file; what a request shows, what Codex's own rollout *)
(* file proves and what was kept are tried in that order.                  *)
(*                                                                         *)
(* An authority is what the code compares: the sandbox, and the root that  *)
(* stands for the directories.  The parsing of a context and of a rollout  *)
(* is left to its outcome: a request shows an envelope that is accepted,   *)
(* or one of the other kinds of Contexts; a rollout proves the authority   *)
(* of the turn, knows nothing of the thread, or is refused.                *)
(***************************************************************************)
EXTENDS Naturals, Sequences, FiniteSets, SequencesExt

CONSTANTS
    Threads,        \* native threads
    Parent,         \* [thread |-> the thread that may spawn it, or itself]
    Authorities,    \* set of records [sandbox, root]
    MaxKept,        \* MAX_THREAD_ENVIRONMENTS, 256 in the code
    MaxChanges,     \* bound: how often Codex changes an authority
    MaxPauses,      \* bound: how often a minute or a month passes
    MaxMishaps      \* bound: files that cannot be read or written, and restarts

ASSUME EnvironmentAssumption == MaxKept \in Nat /\ {MaxChanges, MaxPauses, MaxMishaps} \subseteq Nat

VARIABLES
    codex,          \* thread -> [authority, changed] of its current turn, or NoThread
    kept,           \* threads of the store, the least recently written first
    loaded,         \* the file was read
    file,           \* what the file says
    checkpoints,    \* threads of whose turn this process remembers a completed compaction
    ran,            \* history: thread -> what its last resolved request ran with
    torn,           \* history: threads the file has not got although they were set
    changes, pauses, mishapsLeft

environmentVars == <<codex, kept, loaded, file, checkpoints, ran, torn, changes, pauses, mishapsLeft>>

NoAuthority == [sandbox |-> "none", root |-> "none"]
NoThread == [authority |-> NoAuthority, changed |-> FALSE]
NotRun   == [now |-> NoAuthority, before |-> NoAuthority, inTurn |-> FALSE]
Ages     == {"minute", "older", "month"}
Entry(thread, authority) == [thread |-> thread, authority |-> authority, age |-> "minute"]
Entries  == [thread : Threads, authority : Authorities, age : Ages]

\* What the request's input shows of the environment: an envelope of this turn (or a replayed one
\* whose provenance is whole); one of this turn that is not whole; one that claims no turn and whose
\* items the rollout may know; the one a compaction wrote; older ones only; none at all.
Contexts == {"envelope", "broken", "unattributed", "continuation", "older", "none"}

KnownAuthorities == Authorities \union {NoAuthority}

EnvironmentTypeOK ==
    /\ codex \in [Threads -> [authority : KnownAuthorities, changed : BOOLEAN]]
    /\ ran \in [Threads -> [now : KnownAuthorities, before : KnownAuthorities, inTurn : BOOLEAN]]
    /\ {kept, file} \subseteq Seq(Entries) /\ Len(kept) <= MaxKept /\ Len(file) <= MaxKept
    /\ loaded \in BOOLEAN /\ checkpoints \subseteq Threads /\ torn \subseteq Threads
    /\ changes \in 0..MaxChanges /\ pauses \in 0..MaxPauses /\ mishapsLeft \in 0..MaxMishaps
-----------------------------------------------------------------------------
\* Codex: a thread, its next turn, and a compaction of its history.
IsChild(t) == Parent[t] # t
InTurn(t)   == codex[t] # NoThread

Spawned(t, authority) ==
    /\ ~InTurn(t)
    /\ IsChild(t) => InTurn(Parent[t]) /\ authority = codex[Parent[t]].authority
    /\ codex' = [codex EXCEPT ![t] = [authority |-> authority, changed |-> ~IsChild(t)]]
    /\ UNCHANGED <<kept, loaded, file, checkpoints, ran, torn, changes, pauses, mishapsLeft>>
TurnBegins(t, authority) ==
    /\ InTurn(t)
    /\ LET changed == authority # codex[t].authority
       IN  /\ changed => changes < MaxChanges
           /\ changes' = changes + (IF changed THEN 1 ELSE 0)
           /\ codex' = [codex EXCEPT ![t] = [authority |-> authority, changed |-> changed]]
    /\ ran' = [ran EXCEPT ![t].before = IF ran[t].inTurn THEN ran[t].now ELSE @,
                          ![t].now = NoAuthority, ![t].inTurn = FALSE]
    /\ checkpoints' = checkpoints \ {t}
    /\ UNCHANGED <<kept, loaded, file, torn, pauses, mishapsLeft>>

\* rememberCompletedResponse: the checkpoint this process returned in the turn.
Compacted(t) ==
    /\ ran[t].inTurn /\ checkpoints' = checkpoints \union {t}
    /\ UNCHANGED <<codex, kept, loaded, file, ran, torn, changes, pauses, mishapsLeft>>

\* A request of a turn whose environment changed shows it, whole or not.  What a compaction wrote
\* is not whole for a process that does not remember the compaction.
Shows(t, context) ==
    /\ codex[t].changed => context \notin {"older", "none"}
    /\ context = "continuation" => t \in checkpoints
-----------------------------------------------------------------------------
\* The store.
After(lapse, entries) ==
    [i \in DOMAIN entries |->
        [entries[i] EXCEPT !.age = IF lapse = "month" \/ @ = "month" THEN "month" ELSE "older"]]
Lapse(lapse) ==
    /\ pauses < MaxPauses /\ pauses' = pauses + 1
    /\ kept' = After(lapse, kept) /\ file' = After(lapse, file)
    /\ UNCHANGED <<codex, loaded, checkpoints, ran, torn, changes, mishapsLeft>>

Restart ==
    /\ mishapsLeft > 0 /\ mishapsLeft' = mishapsLeft - 1
    /\ kept' = <<>> /\ loaded' = FALSE /\ checkpoints' = {}
    /\ UNCHANGED <<codex, file, ran, torn, changes, pauses>>

\* load: of the file, which has the oldest first, what was written within a month.
Expired(entries)    == {i \in DOMAIN entries : entries[i].age = "month"}
NotExpired(entries) == SubSeq(entries, Cardinality(Expired(entries)) + 1, Len(entries))
Loaded == IF loaded THEN kept ELSE NotExpired(file)

HasEntry(entries, t) == \E i \in DOMAIN entries : entries[i].thread = t
Place(entries, t)    == CHOOSE i \in DOMAIN entries : entries[i].thread = t
Of(entries, t)       == entries[Place(entries, t)]
Without(entries, t) ==
    IF HasEntry(entries, t) THEN RemoveAt(entries, Place(entries, t)) ELSE entries

\* get: what was kept for a month is deleted.
Gets(entries, t) == HasEntry(entries, t) /\ Of(entries, t).age # "month"
Looked(entries, t) == IF HasEntry(entries, t) /\ ~Gets(entries, t) THEN Without(entries, t) ELSE entries

\* mutant: what was written within a minute is not compared.
UnchangedByAge(t, authority) == HasEntry(Loaded, t) /\ Of(Loaded, t).age = "minute"

\* set: what is written again within a minute and says the same is left alone.
Unchanged(t, authority) ==
    /\ HasEntry(Loaded, t) /\ Of(Loaded, t).age = "minute" /\ Of(Loaded, t).authority = authority
With(t, authority) ==
    LET all == Append(Without(Loaded, t), Entry(t, authority))
    IN  IF Len(all) > MaxKept THEN Tail(all) ELSE all
-----------------------------------------------------------------------------
\* The outcomes of a request.
Same == UNCHANGED <<codex, checkpoints, changes, pauses>>
RunsWith(t, authority) ==
    ran' = [ran EXCEPT ![t].now = authority, ![t].inTurn = TRUE]

Sets(t, authority) ==
    /\ loaded' = TRUE /\ UNCHANGED mishapsLeft /\ RunsWith(t, authority)
    /\ \/ Unchanged(t, authority) /\ kept' = Loaded /\ UNCHANGED <<file, torn>>
       \/ /\ ~Unchanged(t, authority) /\ kept' = With(t, authority)
          /\ file' = kept' /\ torn' = torn \ {t}

\* persist throws: memory has the authority, the file has not, and the request fails.
CannotSet(t, authority) ==
    /\ ~Unchanged(t, authority) /\ mishapsLeft > 0 /\ mishapsLeft' = mishapsLeft - 1
    /\ kept' = With(t, authority) /\ loaded' = TRUE /\ torn' = torn \union {t}
    /\ UNCHANGED <<file, ran>>

\* load throws, but only once: the process goes on with an empty store.
CannotLoad ==
    /\ ~loaded /\ loaded' = TRUE /\ mishapsLeft > 0 /\ mishapsLeft' = mishapsLeft - 1
    /\ UNCHANGED <<codex, kept, file, checkpoints, ran, torn, changes, pauses>>

\* What resolveCurrentCodexRolloutEnvironment found out: a root thread may have no rollout, a
\* subagent's must exist, and the last turn of either must be this one.  It is not asked when the
\* request's context is accepted, or its metadata names neither a subagent nor a root thread.
Proofs == {"unasked", "current", "unknown", "refused"}

Recognised(context) == context \in {"unattributed", "continuation", "older", "none"}
Proves(context, proof) == proof = "current" /\ Recognised(context)

\* Without proof, no markup may be answered with what was kept.
Unproven(context, proof) == proof \in {"unasked", "unknown"} /\ context = "none"

\* The context or the rollout has the authority that Codex runs this turn with.
Attested(t, context, proof) ==
    /\ (context = "envelope" /\ proof = "unasked") \/ Proves(context, proof)
    /\ Sets(t, codex[t].authority) \/ CannotSet(t, codex[t].authority)
    /\ Same

KeptForThread(t, context, proof) ==
    /\ Unproven(context, proof) /\ Gets(Loaded, t)
    /\ kept' = Loaded /\ loaded' = TRUE /\ RunsWith(t, Of(Loaded, t).authority)
    /\ Same /\ UNCHANGED <<file, torn, mishapsLeft>>

\* A child without an environment of its own runs with its parent's, as far as its metadata agrees.
Child(t, proof) == IsChild(t) /\ proof = "unknown"
Agrees(t, authority, roots) ==
    /\ authority.sandbox = codex[t].authority.sandbox
    /\ roots => authority.root = codex[t].authority.root
InheritedFromParent(t, context, proof, roots) ==
    /\ Unproven(context, proof) /\ Child(t, proof) /\ ~Gets(Loaded, t) /\ Gets(Loaded, Parent[t])
    /\ LET authority == Of(Loaded, Parent[t]).authority
       IN  /\ Agrees(t, authority, roots)
           /\ Sets(t, authority) \/ CannotSet(t, authority)
    /\ Same

\* An entry that is looked up too late is deleted, and the request is refused, as it is when the
\* store cannot be written then.
Forgets(t, context, proof) ==
    LET first == Looked(Loaded, t)
        both  == IF Child(t, proof) THEN Looked(first, Parent[t]) ELSE first
    IN  /\ Unproven(context, proof) /\ ~Gets(Loaded, t) /\ both # Loaded /\ loaded' = TRUE
        /\ \/ kept' = both /\ file' = both /\ UNCHANGED mishapsLeft
           \/ /\ mishapsLeft > 0 /\ mishapsLeft' = mishapsLeft - 1
              /\ \/ first # Loaded /\ kept' = first /\ UNCHANGED file
                 \/ both # first /\ kept' = both /\ file' = IF first = Loaded THEN file ELSE first
        /\ Same /\ UNCHANGED <<ran, torn>>
-----------------------------------------------------------------------------
\* Every other request is refused and leaves the store as it is.
Request(t) ==
    /\ InTurn(t)
    /\ \E context \in {c \in Contexts : Shows(t, c)}, proof \in Proofs :
        \/ Attested(t, context, proof)
        \/ KeptForThread(t, context, proof)
        \/ \E roots \in BOOLEAN : InheritedFromParent(t, context, proof, roots)
        \/ Forgets(t, context, proof)

EnvironmentInit ==
    /\ codex = [t \in Threads |-> NoThread] /\ kept = <<>> /\ loaded = FALSE /\ file = <<>>
    /\ checkpoints = {} /\ ran = [t \in Threads |-> NotRun] /\ torn = {}
    /\ changes = 0 /\ pauses = 0 /\ mishapsLeft = MaxMishaps

EnvironmentNext ==
    \/ \E t \in Threads :
        \/ \E authority \in Authorities : Spawned(t, authority) \/ TurnBegins(t, authority)
        \/ Compacted(t) \/ Request(t)
    \/ \E lapse \in {"minute", "month"} : Lapse(lapse)
    \/ Restart \/ CannotLoad

EnvironmentSpec == EnvironmentInit /\ [][EnvironmentNext]_environmentVars
-----------------------------------------------------------------------------
(***************************************************************************)
(* The store and its file have one entry of a thread, the one written last *)
(* at their end, so the month and the eviction take the oldest (Map order, *)
(* load).                                                                  *)
(***************************************************************************)
OldestFirst ==
    \A s \in {kept, file} : \A i, j \in DOMAIN s : i < j =>
        /\ s[i].thread # s[j].thread
        /\ s[j].age = "month" => s[i].age = "month"
        /\ s[i].age = "minute" => s[j].age = "minute"

(***************************************************************************)
(* A turn runs with the authority Codex has for it.  One that shows no     *)
(* environment may run with the one its thread ran with before, and a      *)
(* subagent with its parent's if its own sandbox is the same; a turn whose *)
(* environment changed never does, whatever it shows, and neither a        *)
(* restart, a month, an eviction nor an unreadable file brings an earlier  *)
(* authority back.  (A write that failed and was followed by a restart     *)
(* does, see torn.)                                                        *)
(***************************************************************************)
RunsAsAttested ==
    \A t \in Threads : ran[t].inTurn /\ t \notin torn =>
        LET now == ran[t].now  attested == codex[t].authority
        IN  now = attested \/ (~codex[t].changed /\ (\/ now = ran[t].before
                                                     \/ IsChild(t) /\ now.sandbox = attested.sandbox))

EnvironmentsHold == EnvironmentTypeOK /\ OldestFirst /\ RunsAsAttested
=============================================================================
