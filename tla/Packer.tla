------------------------------- MODULE Packer -------------------------------
(***************************************************************************)
(* One snapshot session of src/unnamed/part_001 (package snapshot): the    *)
(* producer's Put* calls and Commit, the packerChan of capacity            *)
(* 2*NumCPU+1, the NumCPU packer workers started by New, PutPackfile, and  *)
(* the backend objects they write.  The repository state and the state    *)
(* delta are values of RepoState, changed only through its operators.     *)
(*                                                                         *)
(* Granularity: each call into the state (one SetPackfileFor, one lookup)  *)
(* holds that state's mutexes, so it is one step; the registrations of one *)
(* PutPackfile are one step, since no property here reads the state in    *)
(* between them (StateLocking checks the mutex-level interleavings).      *)
(***************************************************************************)
EXTENDS Naturals, Sequences, FiniteSets, Functions

CONSTANTS
    NumCPU,        \* runtime.NumCPU(): the number of packer workers
    Msgs,          \* the blobs the scanner may put: [type, mac, size]
    HeaderMac,     \* snapshot.Header.IndexID, the checksum of the header blob
    HeaderSize,    \* the size of the encoded header
    PackfileSize,  \* repo.Configuration().PackfileSize
    MaxPuts        \* bound on the number of Put* calls of the producer

RS == INSTANCE RepoState

Workers   == 1 .. NumCPU
ChanCap   == NumCPU * 2 + 1
HeaderMsg == [type |-> "snapshot", mac |-> HeaderMac, size |-> HeaderSize]
AllMsgs   == Msgs \cup {HeaderMsg}
MaxBlobSize == LET sizes == {m.size : m \in AllMsgs}
               IN  CHOOSE s \in sizes : \A t \in sizes : t <= s

ASSUME /\ NumCPU \in Nat \ {0}
       /\ \A m \in Msgs : m.type \in RS!Kinds \ {"snapshot"} /\ m.size \in Nat \ {0}
       /\ HeaderSize \in Nat \ {0} /\ PackfileSize \in Nat /\ MaxPuts \in Nat

VARIABLES
    packerChan,   \* the messages sent and not yet received
    chanClosed,   \* close(snapshot.packerChan) has happened
    puts,         \* history: the PackerMsgs the producer's Put* calls sent
    session,      \* "running", "closed" (Commit waits), "committed", "failed"
    pack,         \* pack[w]: the worker's packfile index; << >> is nil
    seen,         \* seen[w]: the [type, mac] pairs of the per-type sets
    flushing,     \* flushing[w]: the packfile the worker is writing
    phase,        \* phase[w]: "recv", "write", "register" or "exited"
    packfiles,    \* backend: the packfiles written (each is its index)
    states,       \* backend: the serialized states written by PutState
    repoState,    \* repo.State(), shared with the rest of the program
    stateDelta,   \* snapshot.stateDelta, persisted by Commit
    crashed       \* a worker panicked: the whole process is gone

vars == <<packerChan, chanClosed, puts, session, pack, seen, flushing, phase,
          packfiles, states, repoState, stateDelta, crashed>>

-----------------------------------------------------------------------------
(* The packfile builder (package packfile, not in this repository).        *)

\* The size of the data area: the blob offsets are relative to it.
DataSize(p) == IF p = << >> THEN 0 ELSE p[Len(p)].offset + p[Len(p)].length

\* pack.AddBlob: append the blob to the data area and record an entry.
AddBlob(p, msg) ==
    Append(p, [type |-> msg.type, mac |-> msg.mac,
               offset |-> DataSize(p), length |-> msg.size])

\* pack.Size(), compared with PackfileSize after every AddBlob.
PackSize(p) == DataSize(p)

\* The first index entry with a given checksum (the loops of PutPackfile
\* search pack.Index by checksum and break at the first match).
FirstEntry(p, c) == p[CHOOSE i \in DOMAIN p : p[i].mac = c
                                        /\ \A j \in 1 .. i - 1 : p[j].mac # c]

-----------------------------------------------------------------------------
(* PutPackfile, after the backend write: for the per-type lists in the    *)
(* order chunks, objects, files, directories, datas, snapshots, set the   *)
(* location of each blob in repo.State() and then in stateDelta.           *)

KindOrder == <<"chunk", "object", "file", "directory", "data", "snapshot">>
Rank(k)   == CHOOSE i \in 1 .. 6 : KindOrder[i] = k

RECURSIVE RegisterBlobs(_, _, _)
RegisterBlobs(st, p, todo) ==
    IF todo = {} THEN st
    ELSE LET b == CHOOSE x \in todo : \A y \in todo : Rank(x.type) <= Rank(y.type)
             e == FirstEntry(p, b.mac)
         IN  \* the state after this blob is bound once, as a value
             CHOOSE r \in {RegisterBlobs(s, p, todo \ {b}) :
                            s \in {RS!SetPackfileFor(st, b.type, p, b.mac, e.offset, e.length)}} : TRUE

-----------------------------------------------------------------------------
Init ==
    /\ packerChan = << >>
    /\ chanClosed = FALSE
    /\ puts = << >>
    /\ session = "running"
    /\ pack = [w \in Workers |-> << >>]
    /\ seen = [w \in Workers |-> {}]
    /\ flushing = [w \in Workers |-> << >>]
    /\ phase = [w \in Workers |-> "recv"]
    /\ packfiles = {}
    /\ states = {}
    /\ repoState = RS!New
    /\ stateDelta = RS!New
    /\ crashed = FALSE

(* Producer.                                                               *)

\* PutChunk, PutObject, PutFile, PutDirectory, PutData: encode, then send
\* (blocking while the channel is full).
Put(m) ==
    /\ ~crashed /\ session = "running"
    /\ Len(puts) < MaxPuts
    /\ Len(packerChan) < ChanCap
    /\ packerChan' = Append(packerChan, m)
    /\ puts' = Append(puts, m)
    /\ UNCHANGED <<chanClosed, session, pack, seen, flushing, phase, packfiles,
                   states, repoState, stateDelta, crashed>>

\* CheckChunk/Object/File/Directory, GetChunk, LookupObject: a lookup in
\* repo.State(), which interns the checksum it is given.
Lookup(c) ==
    /\ ~crashed /\ session = "running"
    /\ repoState' = RS!AfterLookup(repoState, c)
    /\ UNCHANGED <<packerChan, chanClosed, puts, session, pack, seen, flushing,
                   phase, packfiles, states, stateDelta, crashed>>

\* Commit, first part: PutHeader sends the header as the last message, then
\* the channel is closed.  If serializing or encoding the header fails,
\* Commit returns the error before the close: the workers stay blocked.
CommitSendHeader ==
    /\ ~crashed /\ session = "running"
    /\ \/ /\ Len(packerChan) < ChanCap
          /\ packerChan' = Append(packerChan, HeaderMsg)
          /\ chanClosed' = TRUE
          /\ session' = "closed"
       \/ /\ session' = "failed"
          /\ UNCHANGED <<packerChan, chanClosed>>
    /\ UNCHANGED <<puts, pack, seen, flushing, phase, packfiles, states,
                   repoState, stateDelta, crashed>>

\* Commit, second part: <-packerChanDone returns once every worker exited;
\* the delta is serialized and written with PutState, which may fail.
CommitPutState ==
    /\ ~crashed /\ session = "closed"
    /\ \A w \in Workers : phase[w] = "exited"
    /\ \/ /\ states' = states \cup {RS!Serialize(stateDelta)}
          /\ session' = "committed"
       \/ /\ session' = "failed"
          /\ UNCHANGED states
    /\ UNCHANGED <<packerChan, chanClosed, puts, pack, seen, flushing, phase,
                   packfiles, repoState, stateDelta, crashed>>

(* Plausible faults of the worker code, used as mutants of the actions    *)
(* below to show that the properties detect them.                        *)

\* Receive without `pack = nil` after PutPackfile: the flushed blobs stay
\* in the worker's packfile and it keeps growing.
ReceiveNoReset(w) ==
    /\ ~crashed /\ phase[w] = "recv"
    /\ packerChan # << >>
    /\ LET msg == Head(packerChan)
           p   == AddBlob(pack[w], msg)
       IN  /\ packerChan' = Tail(packerChan)
           /\ seen' = [seen EXCEPT ![w] = @ \cup {[type |-> msg.type, mac |-> msg.mac]}]
           /\ pack' = [pack EXCEPT ![w] = p]
           /\ IF PackSize(p) > PackfileSize
              THEN /\ flushing' = [flushing EXCEPT ![w] = p]
                   /\ phase' = [phase EXCEPT ![w] = "write"]
              ELSE UNCHANGED <<flushing, phase>>
    /\ UNCHANGED <<chanClosed, puts, session, packfiles, states, repoState,
                   stateDelta, crashed>>

\* The range loop ends and the goroutine returns without the trailing
\* `if pack != nil { PutPackfile }`.
DrainNoFlush(w) ==
    /\ ~crashed /\ phase[w] = "recv"
    /\ chanClosed /\ packerChan = << >>
    /\ phase' = [phase EXCEPT ![w] = "exited"]
    /\ UNCHANGED <<packerChan, chanClosed, puts, session, pack, seen, flushing,
                   packfiles, states, repoState, stateDelta, crashed>>

\* The worker flushes its residual packfile but never returns (no
\* wg.Done): wg.Wait() in New never completes.
DrainNoExit(w) ==
    /\ ~crashed /\ phase[w] = "recv"
    /\ chanClosed /\ packerChan = << >>
    /\ IF pack[w] # << >>
       THEN /\ flushing' = [flushing EXCEPT ![w] = pack[w]]
            /\ pack' = [pack EXCEPT ![w] = << >>]
            /\ phase' = [phase EXCEPT ![w] = "write"]
       ELSE UNCHANGED <<flushing, pack, phase>>
    /\ UNCHANGED <<packerChan, chanClosed, puts, session, seen, packfiles,
                   states, repoState, stateDelta, crashed>>

\* The locations are set before the backend write of the packfile.
RegisterBeforeWrite(w) ==
    /\ ~crashed /\ phase[w] \in {"write", "register"}
    /\ repoState' = RegisterBlobs(repoState, flushing[w], seen[w])
    /\ stateDelta' = RegisterBlobs(stateDelta, flushing[w], seen[w])
    /\ phase' = [phase EXCEPT ![w] = IF @ = "write" THEN "write" ELSE "recv"]
    /\ flushing' = [flushing EXCEPT ![w] = IF phase[w] = "write" THEN @ ELSE << >>]
    /\ UNCHANGED <<packerChan, chanClosed, puts, session, pack, seen, packfiles,
                   states, crashed>>

\* Receive that creates the packfile but does not re-make the per-type
\* sets: blobs of the previous packfile stay recorded.
ReceiveNoClear(w) ==
    /\ ~crashed /\ phase[w] = "recv"
    /\ packerChan # << >>
    /\ LET msg == Head(packerChan)
           p   == AddBlob(pack[w], msg)
       IN  /\ packerChan' = Tail(packerChan)
           /\ seen' = [seen EXCEPT ![w] = @ \cup {[type |-> msg.type, mac |-> msg.mac]}]
           /\ IF PackSize(p) > PackfileSize
              THEN /\ flushing' = [flushing EXCEPT ![w] = p]
                   /\ pack' = [pack EXCEPT ![w] = << >>]
                   /\ phase' = [phase EXCEPT ![w] = "write"]
              ELSE /\ pack' = [pack EXCEPT ![w] = p]
                   /\ UNCHANGED <<flushing, phase>>
    /\ UNCHANGED <<chanClosed, puts, session, packfiles, states, repoState,
                   stateDelta, crashed>>

(* Packer workers.                                                         *)

\* One iteration of `for msg := range packerChan`: create the packfile and
\* clear the per-type sets if there is none, add the blob, record it, and
\* flush once the packfile is larger than PackfileSize.
Receive(w) ==
    /\ ~crashed /\ phase[w] = "recv"
    /\ packerChan # << >>
    /\ LET msg == Head(packerChan)
           p   == AddBlob(pack[w], msg)
           s   == (IF pack[w] = << >> THEN {} ELSE seen[w])
                  \cup {[type |-> msg.type, mac |-> msg.mac]}
       IN  /\ packerChan' = Tail(packerChan)
           /\ seen' = [seen EXCEPT ![w] = s]
           /\ IF PackSize(p) > PackfileSize
              THEN /\ flushing' = [flushing EXCEPT ![w] = p]
                   /\ pack' = [pack EXCEPT ![w] = << >>]
                   /\ phase' = [phase EXCEPT ![w] = "write"]
              ELSE /\ pack' = [pack EXCEPT ![w] = p]
                   /\ UNCHANGED <<flushing, phase>>
    /\ UNCHANGED <<chanClosed, puts, session, packfiles, states, repoState,
                   stateDelta, crashed>>

\* The range loop ends (channel closed and drained): flush a non-nil
\* packfile, else the goroutine returns (wg.Done).
Drain(w) ==
    /\ ~crashed /\ phase[w] = "recv"
    /\ chanClosed /\ packerChan = << >>
    /\ IF pack[w] # << >>
       THEN /\ flushing' = [flushing EXCEPT ![w] = pack[w]]
            /\ pack' = [pack EXCEPT ![w] = << >>]
            /\ phase' = [phase EXCEPT ![w] = "write"]
       ELSE /\ phase' = [phase EXCEPT ![w] = "exited"]
            /\ UNCHANGED <<flushing, pack>>
    /\ UNCHANGED <<packerChan, chanClosed, puts, session, seen, packfiles,
                   states, repoState, stateDelta, crashed>>

\* PutPackfile: serialize, encode index and footer, and PutPackfile to the
\* backend; an encoding or write error panics, ending the process.
WritePackfile(w) ==
    /\ ~crashed /\ phase[w] = "write"
    /\ \/ /\ packfiles' = packfiles \cup {flushing[w]}
          /\ phase' = [phase EXCEPT ![w] = "register"]
          /\ UNCHANGED crashed
       \/ /\ crashed' = TRUE
          /\ UNCHANGED <<packfiles, phase>>
    /\ UNCHANGED <<packerChan, chanClosed, puts, session, pack, seen, flushing,
                   states, repoState, stateDelta>>

\* PutPackfile, after the write: register every recorded blob in both
\* states; then pack = nil and the worker goes back to the channel.
Register(w) ==
    /\ ~crashed /\ phase[w] = "register"
    /\ repoState' = RegisterBlobs(repoState, flushing[w], seen[w])
    /\ stateDelta' = RegisterBlobs(stateDelta, flushing[w], seen[w])
    /\ flushing' = [flushing EXCEPT ![w] = << >>]
    /\ phase' = [phase EXCEPT ![w] = "recv"]
    /\ UNCHANGED <<packerChan, chanClosed, puts, session, pack, seen, packfiles,
                   states, crashed>>

\* Nothing runs any more: the commit returned, or the process crashed.
Terminated ==
    /\ crashed \/ session \in {"committed", "failed"}
    /\ UNCHANGED vars

Next ==
    \/ \E m \in Msgs : Put(m)
    \/ \E m \in AllMsgs : Lookup(m.mac)
    \/ CommitSendHeader
    \/ CommitPutState
    \/ \E w \in Workers : Receive(w) \/ Drain(w) \/ WritePackfile(w) \/ Register(w)
    \/ Terminated

\* The Go scheduler runs every runnable goroutine: a worker that can take
\* its next step eventually does, and Commit returns once done is signalled.
Fairness ==
    /\ \A w \in Workers : WF_vars(Receive(w) \/ Drain(w) \/ WritePackfile(w) \/ Register(w))
    /\ WF_vars(CommitPutState)

Spec == Init /\ [][Next]_vars /\ Fairness

-----------------------------------------------------------------------------
(* Properties.                                                             *)

Blob  == [type : RS!Kinds, mac : {m.mac : m \in AllMsgs}]
IsPack(p) ==
    /\ p \in Seq([type : RS!Kinds, mac : {m.mac : m \in AllMsgs},
                  offset : Nat, length : Nat])

BlobsOf(p) == {[type |-> p[i].type, mac |-> p[i].mac] : i \in DOMAIN p}

TypeOK ==
    /\ packerChan \in Seq(AllMsgs) /\ Len(packerChan) <= ChanCap
    /\ chanClosed \in BOOLEAN /\ crashed \in BOOLEAN
    /\ puts \in Seq(Msgs)
    /\ session \in {"running", "closed", "committed", "failed"}
    /\ \A w \in Workers : IsPack(pack[w]) /\ IsPack(flushing[w])
                          /\ seen[w] \subseteq Blob
    /\ phase \in [Workers -> {"recv", "write", "register", "exited"}]
    /\ \A p \in packfiles : IsPack(p)
    \* The per-type sets name exactly the blobs of the packfile they go
    \* with: the one being built, or the one being flushed.
    /\ \A w \in Workers :
         /\ phase[w] = "recv" /\ pack[w] # << >> => seen[w] = BlobsOf(pack[w])
         /\ phase[w] \in {"write", "register"} =>
               /\ pack[w] = << >> /\ seen[w] = BlobsOf(flushing[w])

\* The blob of a message has a location in st in the map its setter writes.
Registered(st, m) ==
    /\ m.mac \in Range(st.IdToChecksum)
    /\ RS!IdOf(st, m.mac) \in DOMAIN st.maps[RS!TargetMap[m.type]]

\* Every location held by st names a packfile the backend has, and that
\* packfile holds the blob at exactly that offset and length.
Resolves(st) ==
    \A mn \in RS!MapNames : \A id \in DOMAIN st.maps[mn] :
        LET loc == st.maps[mn][id]
            pf  == st.IdToChecksum[loc.Packfile + 1]
        IN  /\ pf \in packfiles
            /\ \E i \in DOMAIN pf : /\ pf[i].mac = st.IdToChecksum[id + 1]
                                    /\ pf[i].offset = loc.Offset
                                    /\ pf[i].length = loc.Length

\* No reader of repo.State(), of the session's delta, or of any state
\* persisted by Commit (PutPackfile registering locations, Commit writing
\* the delta) ever finds a location whose packfile is missing from the
\* backend or does not hold that blob there: a crash of the process at any
\* point leaves no persisted state pointing at an unwritten packfile.
LocationsResolve ==
    /\ Resolves(repoState)
    /\ Resolves(stateDelta)
    /\ \A b \in states : Resolves(RS!NewFromBytes(b))

\* When Commit has persisted the delta, every blob the producer put and the
\* header are registered in it: the workers drained the channel and flushed
\* their last packfile before packerChanDone was signalled.
CommittedDeltaComplete ==
    session = "committed" =>
        \A m \in Range(puts) \cup {HeaderMsg} : Registered(stateDelta, m)

\* A packfile PutPackfile writes is at most one blob larger than the
\* configured PackfileSize: workers compare the size after every AddBlob.
PackfileSizeBound ==
    \A p \in packfiles : DataSize(p) <= PackfileSize + MaxBlobSize

\* Once Commit closed the channel it eventually returns, or the process
\* has crashed: every worker drains, flushes and exits, and done is sent.
CommitTerminates ==
    session = "closed" ~> (session \in {"committed", "failed"} \/ crashed)
=============================================================================
