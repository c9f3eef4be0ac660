---------------------------- MODULE StateLocking ----------------------------
(***************************************************************************)
(* The locking of src/repository/state/state.go: callers of one State      *)
(* value (the packer workers of Packer, the producer's Check* lookups) run *)
(* its methods concurrently.  Each call is split at its mutex operations    *)
(* and its map accesses, so that two callers may interleave between them.  *)
(*                                                                         *)
(* getOrCreateIdForChecksum holds muChecksum and takes no other lock      *)
(* inside it, so it is one step that waits for muChecksum to be free.  A   *)
(* lookup's IdToChecksum read takes muChecksum inside the kind mutex, so   *)
(* that lock is held between steps.  A map access is a step of its own: a *)
(* thread whose pc is at an access is performing it, as in Go a map access *)
(* is not atomic with respect to another goroutine's access.               *)
(***************************************************************************)
EXTENDS Naturals, Sequences, FiniteSets, Functions

CONSTANTS
    Threads,      \* the goroutines calling into the state
    SetBlobs,     \* [kind, c]: the blobs the callers register
    LookupBlobs,  \* [kind, c]: the blobs the callers look up
    Packfiles,    \* packfile checksums
    LookupOps,    \* subset of {"exists", "subpart", "packfile"}
    MaxCalls,     \* bound on the calls each thread makes
    NoOwner,      \* a free mutex
    NoCall        \* an idle thread's call

RS == INSTANCE RepoState

\* The mutex each per-kind method takes (muChunks ... muBlobs).
Mutex == [chunk |-> "muChunks", object |-> "muObjects", file |-> "muFiles",
          directory |-> "muDirectories", data |-> "muBlobs"]
Mutexes == Range(Mutex) \cup {"muChecksum"}

SetCalls    == [op : {"set"}, kind : {b.kind : b \in SetBlobs},
                c : {b.c : b \in SetBlobs}, pf : Packfiles]
LookupCalls == [op : LookupOps, kind : {b.kind : b \in LookupBlobs},
                c : {b.c : b \in LookupBlobs}, pf : Packfiles]
\* Calls name a real blob: a checksum is only ever used with its own kind.
Calls == {cl \in SetCalls \cup LookupCalls :
            /\ [kind |-> cl.kind, c |-> cl.c] \in
                   (IF cl.op = "set" THEN SetBlobs ELSE LookupBlobs)
            /\ cl.op # "set" => cl.pf = CHOOSE p \in Packfiles : TRUE}

VARIABLES
    st,         \* the State value
    owner,      \* owner[m]: the thread holding mutex m, or NoOwner
    pc,         \* pc[t]: where thread t is in its current call
    call,       \* call[t]: the method t is running, or NoCall
    callsLeft,  \* calls t may still start
    inserts     \* history: inserts[<<map, c>>] counts writes of c's entry

vars == <<st, owner, pc, call, callsLeft, inserts>>

Pcs == {"idle", "internPf", "internC", "lock", "check", "write", "read",
        "resolve", "resolved", "unlock"}

\* The map a thread at pc is accessing, and whether it writes it.
Accesses(t) ==
    LET cl == call[t] IN
    CASE pc[t] = "check" -> {[map |-> RS!GuardMap[cl.kind], write |-> FALSE]}
      [] pc[t] = "write" -> {[map |-> RS!TargetMap[cl.kind], write |-> TRUE]}
      [] pc[t] = "read"  -> {[map |-> IF cl.op = "exists" THEN RS!ExistsMap[cl.kind]
                                                       ELSE RS!LookupMap[cl.kind],
                              write |-> FALSE]}
      [] OTHER           -> {}

-----------------------------------------------------------------------------
Init ==
    /\ st = RS!New
    /\ owner = [m \in Mutexes |-> NoOwner]
    /\ pc = [t \in Threads |-> "idle"]
    /\ call = [t \in Threads |-> NoCall]
    /\ callsLeft = [t \in Threads |-> MaxCalls]
    /\ inserts = [x \in RS!MapNames \X {b.c : b \in SetBlobs} |-> 0]

\* A thread calls a method: SetPackfileFor<Kind> interns the packfile
\* first; the lookups start by interning the blob.
Call(t) ==
    /\ pc[t] = "idle" /\ callsLeft[t] > 0
    /\ \E cl \in Calls :
          /\ call' = [call EXCEPT ![t] = cl]
          /\ pc' = [pc EXCEPT ![t] = IF cl.op = "set" THEN "internPf" ELSE "internC"]
    /\ callsLeft' = [callsLeft EXCEPT ![t] = @ - 1]
    /\ UNCHANGED <<st, owner, inserts>>

\* packfileID := st.getOrCreateIdForChecksum(packfileChecksum)
InternPf(t) ==
    /\ pc[t] = "internPf"
    /\ owner["muChecksum"] = NoOwner
    /\ st' = RS!getOrCreateIdForChecksum(st, call[t].pf)
    /\ pc' = [pc EXCEPT ![t] = "internC"]
    /\ UNCHANGED <<owner, call, callsLeft, inserts>>

\* getOrCreateIdForChecksum with its deferred muChecksum.Unlock() lost (a
\* mutant of InternC): the lock stays held by the caller.
InternCKeep(t) ==
    /\ pc[t] = "internC"
    /\ owner["muChecksum"] = NoOwner
    /\ st' = RS!getOrCreateIdForChecksum(st, call[t].c)
    /\ owner' = [owner EXCEPT !["muChecksum"] = t]
    /\ pc' = [pc EXCEPT ![t] = "lock"]
    /\ UNCHANGED <<call, callsLeft, inserts>>

\* <kind>ID := st.getOrCreateIdForChecksum(checksum)
InternC(t) ==
    /\ pc[t] = "internC"
    /\ owner["muChecksum"] = NoOwner
    /\ st' = RS!getOrCreateIdForChecksum(st, call[t].c)
    /\ pc' = [pc EXCEPT ![t] = "lock"]
    /\ UNCHANGED <<owner, call, callsLeft, inserts>>

\* A setter whose st.mu<Kind>.Lock() is missing (a mutant of Lock).
LockMissing(t) ==
    /\ pc[t] = "lock"
    /\ pc' = [pc EXCEPT ![t] = IF call[t].op = "set" THEN "check" ELSE "read"]
    /\ UNCHANGED <<st, owner, call, callsLeft, inserts>>

\* st.mu<Kind>.Lock(): blocks while another thread holds it.
Lock(t) ==
    /\ pc[t] = "lock"
    /\ owner[Mutex[call[t].kind]] = NoOwner
    /\ owner' = [owner EXCEPT ![Mutex[call[t].kind]] = t]
    /\ pc' = [pc EXCEPT ![t] = IF call[t].op = "set" THEN "check" ELSE "read"]
    /\ UNCHANGED <<st, call, callsLeft, inserts>>

\* SetPackfileFor<Kind>: `if _, exists := st.<Guard>[id]; !exists`.
Check(t) ==
    /\ pc[t] = "check"
    /\ pc' = [pc EXCEPT ![t] = IF RS!HasEntry(st, call[t].kind, call[t].c)
                                THEN "unlock" ELSE "write"]
    /\ UNCHANGED <<st, owner, call, callsLeft, inserts>>

\* SetPackfileFor<Kind>: st.<Target>[id] = Location{...}; dirty = 1.
Write(t) ==
    /\ pc[t] = "write"
    /\ st' = RS!WriteLocation(st, call[t].kind, call[t].pf, call[t].c, 0, 1)
    /\ inserts' = [inserts EXCEPT ![<<RS!TargetMap[call[t].kind], call[t].c>>] = @ + 1]
    /\ pc' = [pc EXCEPT ![t] = "unlock"]
    /\ UNCHANGED <<owner, call, callsLeft>>

\* <Kind>Exists, GetSubpartFor<Kind>, GetPackfileFor<Kind>: read the map;
\* when the entry exists, the last two resolve the packfile id.
Read(t) ==
    /\ pc[t] = "read"
    /\ LET m     == IF call[t].op = "exists" THEN RS!ExistsMap[call[t].kind]
                                             ELSE RS!LookupMap[call[t].kind]
           found == RS!IdOf(st, call[t].c) \in DOMAIN st.maps[m]
       IN  pc' = [pc EXCEPT ![t] = IF found /\ call[t].op # "exists"
                                   THEN "resolve" ELSE "unlock"]
    /\ UNCHANGED <<st, owner, call, callsLeft, inserts>>

\* st.muChecksum.Lock(), taken while the kind mutex is held.
Resolve(t) ==
    /\ pc[t] = "resolve"
    /\ owner["muChecksum"] = NoOwner
    /\ owner' = [owner EXCEPT !["muChecksum"] = t]
    /\ pc' = [pc EXCEPT ![t] = "resolved"]
    /\ UNCHANGED <<st, call, callsLeft, inserts>>

\* packfileChecksum := st.IdToChecksum[subpart.Packfile];
\* st.muChecksum.Unlock().
Resolved(t) ==
    /\ pc[t] = "resolved"
    /\ owner' = [owner EXCEPT !["muChecksum"] = NoOwner]
    /\ pc' = [pc EXCEPT ![t] = "unlock"]
    /\ UNCHANGED <<st, call, callsLeft, inserts>>

\* defer st.mu<Kind>.Unlock(), and the method returns.
Unlock(t) ==
    /\ pc[t] = "unlock"
    /\ owner' = [owner EXCEPT ![Mutex[call[t].kind]] = NoOwner]
    /\ pc' = [pc EXCEPT ![t] = "idle"]
    /\ call' = [call EXCEPT ![t] = NoCall]
    /\ UNCHANGED <<st, callsLeft, inserts>>

\* Every thread has made its calls.
Terminated ==
    /\ \A t \in Threads : pc[t] = "idle" /\ callsLeft[t] = 0
    /\ UNCHANGED vars

Next ==
    \/ \E t \in Threads :
          \/ Call(t) \/ InternPf(t) \/ InternC(t) \/ Lock(t) \/ Check(t)
          \/ Write(t) \/ Read(t) \/ Resolve(t) \/ Resolved(t) \/ Unlock(t)
    \/ Terminated

Spec == Init /\ [][Next]_vars

-----------------------------------------------------------------------------
(* Properties.                                                             *)

Ids == 0 .. Len(st.IdToChecksum) - 1

\* The state is well formed: every key and every Location.Packfile of every
\* map is an id the intern table has assigned (what the spec re-checks on
\* load), and the mutexes are held by threads.
TypeOK ==
    /\ st.IdToChecksum \in Seq({b.c : b \in SetBlobs \cup LookupBlobs} \cup Packfiles)
    /\ \A mn \in RS!MapNames :
          /\ DOMAIN st.maps[mn] \subseteq Ids
          /\ \A id \in DOMAIN st.maps[mn] : st.maps[mn][id].Packfile \in Ids
    /\ owner \in [Mutexes -> Threads \cup {NoOwner}]
    /\ pc \in [Threads -> Pcs]
    /\ callsLeft \in [Threads -> 0 .. MaxCalls]

\* No two goroutines access the same Go map at once with one of them
\* writing (the runtime aborts with "concurrent map writes" or "concurrent
\* map read and map write"): every map is only touched under one mutex.
NoDataRace ==
    \A t1, t2 \in Threads : t1 # t2 =>
        \A a1 \in Accesses(t1), a2 \in Accesses(t2) :
            a1.map = a2.map => ~a1.write /\ ~a2.write

\* Spec 8.5: concurrent SetPackfileFor calls for the same blob insert its
\* location exactly once (first writer wins, later calls are no-ops).
AtMostOnceInsertion ==
    \A x \in DOMAIN inserts : inserts[x] <= 1

\* The mutexes thread t is blocked on at its pc: getOrCreateIdForChecksum
\* and a lookup's resolve wait for muChecksum, Lock for the kind mutex.
WaitsFor(t) ==
    CASE pc[t] \in {"internPf", "internC", "resolve"} -> {"muChecksum"}
      [] pc[t] = "lock" -> {Mutex[call[t].kind]}
      [] OTHER          -> {}

Blocked(t) == \E m \in WaitsFor(t) : owner[m] # NoOwner

\* Spec 5 orders muChecksum before the kind mutexes while the lookups
\* (state.go:308) take it inside the kind mutex: the two orders are safe
\* only if no path holds muChecksum while waiting for a kind mutex.  Every
\* thread waiting for a mutex waits for a thread that is inside a call
\* and not itself blocked, so no set of threads waits on each other (nor a
\* thread on itself) and no mutex outlives the call that took it.
WaitsOnRunnable ==
    \A t \in Threads : \A m \in WaitsFor(t) :
        owner[m] # NoOwner =>
            /\ pc[owner[m]] # "idle"
            /\ ~Blocked(owner[m])
=============================================================================
