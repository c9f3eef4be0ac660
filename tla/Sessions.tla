------------------------------ MODULE Sessions ------------------------------
(***************************************************************************)
(* Successive snapshot sessions against one repository, across process    *)
(* restarts.  A process holds repo.State(); each session (snapshot.New in  *)
(* src/unnamed/part_001) has its own stateDelta.  The producer dedups with *)
(* Check<Kind>, which reads repo.State(), and puts the blobs it does not   *)
(* find; a packer worker writes each put blob in a packfile and registers  *)
(* it in repo.State() and in the delta; Commit waits for the workers and   *)
(* persists the delta with PutState, which may fail.  A restarted process  *)
(* loads repo.State() by merging every persisted state into a new one.    *)
(*                                                                         *)
(* The packer pipeline of one session is abstracted to its effect: one     *)
(* step flushes one put blob into a packfile of its own and registers it  *)
(* (Packer checks the workers, the channel and the flush conditions).      *)
(* A packfile is identified by its session and blob.  Serialize and        *)
(* NewFromBytes, Merge and the setters are the RepoState operators.       *)
(***************************************************************************)
EXTENDS Naturals, FiniteSets, Functions

CONSTANTS
    Blobs,        \* the blobs a scanner may reference: [type, mac]
    MaxSessions,  \* bound on the sessions started
    MaxRestarts   \* bound on the process restarts

RS == INSTANCE RepoState

ASSUME /\ \A b \in Blobs : b.type \in RS!Kinds \ {"snapshot"}
       /\ MaxSessions \in Nat /\ MaxRestarts \in Nat

\* The kinds the producer can dedup: the snapshot has CheckChunk,
\* CheckObject, CheckFile and CheckDirectory, and no check for data.
CheckKinds == {"chunk", "object", "file", "directory"}

Packfiles == [sess : 1 .. MaxSessions, blob : Blobs]

VARIABLES
    packfiles,   \* backend: the packfiles written
    states,      \* backend: the serialized states PutState wrote
    repoState,   \* repo.State() of the running process
    delta,       \* the running session's stateDelta
    session,     \* "idle" or "running"
    sessions,    \* the sessions started so far (the current one's number)
    pending,     \* the blobs put and not yet flushed by a worker
    refs,        \* the blobs the running session's snapshot references
    snapshots,   \* history: the reference sets of the committed snapshots
    restarts     \* the restarts so far

vars == <<packfiles, states, repoState, delta, session, sessions, pending,
          refs, snapshots, restarts>>

-----------------------------------------------------------------------------
\* Loading the repository: every persisted state is read with NewFromBytes
\* and merged into a new state (the order only changes the ids).
RECURSIVE LoadStates(_, _)
LoadStates(st, todo) ==
    IF todo = {} THEN st
    ELSE LET x == CHOOSE y \in todo : TRUE
         IN  \* the state after this merge is bound once, as a value
             CHOOSE r \in {LoadStates(s, todo \ {x}) :
                            s \in {RS!Merge(st, 0, RS!NewFromBytes(x))}} : TRUE

Loaded == LoadStates(RS!New, states)

-----------------------------------------------------------------------------
Init ==
    /\ packfiles = {}
    /\ states = {}
    /\ repoState = RS!New
    /\ delta = RS!New
    /\ session = "idle"
    /\ sessions = 0
    /\ pending = {}
    /\ refs = {}
    /\ snapshots = {}
    /\ restarts = 0

\* snapshot.New: a new delta whose lineage is repo.State()'s, and the
\* packer goroutines.
NewSession ==
    /\ session = "idle" /\ sessions < MaxSessions
    /\ delta' = [RS!New EXCEPT !.Extends = repoState.Extends]
    /\ session' = "running"
    /\ sessions' = sessions + 1
    /\ refs' = {}
    /\ pending' = {}
    /\ UNCHANGED <<packfiles, states, repoState, snapshots, restarts>>

\* The producer adds blob b to the snapshot: Check<Kind> looks it up in
\* repo.State() (interning it); if found the blob is not put again,
\* otherwise Put<Kind> sends it to the workers.
Reference(b) ==
    /\ session = "running" /\ b \notin refs
    /\ refs' = refs \cup {b}
    /\ IF b.type \in CheckKinds
       THEN /\ repoState' = RS!AfterLookup(repoState, b.mac)
            /\ pending' = IF RS!ExistsAnswer(repoState, b.type, b.mac)
                          THEN pending ELSE pending \cup {b}
       ELSE /\ pending' = pending \cup {b}
            /\ UNCHANGED repoState
    /\ UNCHANGED <<packfiles, states, delta, session, sessions, snapshots, restarts>>

\* A worker's PutPackfile: the packfile is written, then the blob is set in
\* repo.State() and in the delta.
Flush(b) ==
    /\ session = "running" /\ b \in pending
    /\ LET pf == [sess |-> sessions, blob |-> b]
       IN  /\ packfiles' = packfiles \cup {pf}
           /\ repoState' = RS!SetPackfileFor(repoState, b.type, pf, b.mac, 0, 1)
           /\ delta' = RS!SetPackfileFor(delta, b.type, pf, b.mac, 0, 1)
    /\ pending' = pending \ {b}
    /\ UNCHANGED <<states, session, sessions, refs, snapshots, restarts>>

\* Commit that does not wait for the workers (no wg.Wait before PutState).
CommitNoWait ==
    /\ session = "running"
    /\ \/ /\ states' = states \cup {RS!Serialize(delta)}
          /\ snapshots' = snapshots \cup {refs}
       \/ UNCHANGED <<states, snapshots>>
    /\ session' = "idle"
    /\ UNCHANGED <<packfiles, repoState, delta, sessions, pending, refs, restarts>>

\* Commit: once every worker is done, serialize the delta and PutState it;
\* an error is returned and repo.State() keeps what the workers set.
Commit ==
    /\ session = "running" /\ pending = {}
    /\ \/ /\ states' = states \cup {RS!Serialize(delta)}
          /\ snapshots' = snapshots \cup {refs}
       \/ UNCHANGED <<states, snapshots>>
    /\ session' = "idle"
    /\ UNCHANGED <<packfiles, repoState, delta, sessions, pending, refs, restarts>>

\* The process ends (a crash, or the command returns) and a new one opens
\* the repository: repo.State() is rebuilt from the persisted states.
Restart ==
    /\ restarts < MaxRestarts
    /\ restarts' = restarts + 1
    /\ repoState' = Loaded
    /\ delta' = RS!New
    /\ session' = "idle"
    /\ pending' = {}
    /\ refs' = {}
    /\ UNCHANGED <<packfiles, states, sessions, snapshots>>

\* Every session has been run.
Done ==
    /\ session = "idle" /\ sessions = MaxSessions
    /\ UNCHANGED vars

Next ==
    \/ NewSession \/ Commit \/ Restart \/ Done
    \/ \E b \in Blobs : Reference(b) \/ Flush(b)

Spec == Init /\ [][Next]_vars

-----------------------------------------------------------------------------
(* Properties.                                                             *)

\* st has a location for b in the map b's setter writes.
Located(st, b) ==
    /\ b.mac \in Range(st.IdToChecksum)
    /\ RS!IdOf(st, b.mac) \in DOMAIN st.maps[RS!TargetMap[b.type]]

\* Every location of st names a packfile the backend has, and that
\* packfile holds the blob the location is for, of a kind whose setter
\* writes that map.
Resolves(st) ==
    \A mn \in RS!MapNames : \A id \in DOMAIN st.maps[mn] :
        LET pf == st.IdToChecksum[st.maps[mn][id].Packfile + 1]
        IN  /\ pf \in packfiles
            /\ pf.blob.mac = st.IdToChecksum[id + 1]
            /\ RS!TargetMap[pf.blob.type] = mn

TypeOK ==
    /\ packfiles \subseteq Packfiles
    /\ session \in {"idle", "running"}
    /\ sessions \in 0 .. MaxSessions /\ restarts \in 0 .. MaxRestarts
    /\ pending \subseteq refs /\ refs \subseteq Blobs
    /\ snapshots \subseteq SUBSET Blobs
    \* no put blob outlives its session: Commit waits for the workers and
    \* a restart ends them
    /\ session = "idle" => pending = {}

\* Across sessions and restarts, every location a reader can meet (in the
\* process's repo.State(), in the session's delta, and in the state a
\* restarted process rebuilds by merging the persisted deltas) names a
\* written packfile that holds that blob: Merge translates each delta's
\* ids through the delta's own intern table.
StatesResolve ==
    /\ Resolves(repoState)
    /\ Resolves(delta)
    /\ Resolves(Loaded)

\* Loading loses nothing: a blob located by one persisted state is
\* located by the merge of all of them (Merge walks every map of the delta).
LoadKeepsLocations ==
    \A x \in states : \A b \in Blobs :
        Located(RS!NewFromBytes(x), b) => Located(Loaded, b)

\* The spec (8.7): every blob a committed snapshot references has a
\* location in the delta or a prior state, so a process that opens the
\* repository can read it.
CommittedRefsLocatable ==
    \A s \in snapshots : \A b \in s : Located(Loaded, b)
=============================================================================
