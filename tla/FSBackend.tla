----------------------------- MODULE FSBackend -----------------------------
(***************************************************************************)
(* The filesystem backend, src/storage/backends/fs/fs.go.  Callers (the    *)
(* goroutines of one or several plakar processes) run its methods against  *)
(* one directory tree.  Each method is split at its system calls, the     *)
(* points where another caller or a crash can come between:               *)
(*                                                                         *)
(*   Create        os.Mkdir(root) (+ MkdirAll of the layout), os.Create    *)
(*                 CONFIG, f.Write                                         *)
(*   Put<Kind>     os.Create(path) (O_TRUNC), f.Write                      *)
(*   Commit        os.CreateTemp, f.Write, f.Close + os.Rename             *)
(*   DeleteSnapshot os.Rename to purge/, os.RemoveAll                      *)
(*   Delete<Kind>  os.Remove;  Get<Kind>  os.ReadFile                      *)
(*   Get<Kind>s    os.ReadDir of the kind's directory, then one os.ReadDir *)
(*                 per bucket, in the buckets' name order                  *)
(*                                                                         *)
(* A file is an inode: the path names it, an open descriptor writes it     *)
(* wherever it has been renamed to.  Bytes are abstracted to the value a   *)
(* file holds and whether it holds all of it (full) or only a prefix.      *)
(* A crash kills the calls of one process; the files stay as they are.     *)
(* Write-back caching and power loss are not modelled.                    *)
(***************************************************************************)
EXTENDS Naturals, FiniteSets

CONSTANTS
    Clients,     \* the goroutines calling the backend
    Snapshots,   \* snapshot (index) UUIDs: snapshots/<bucket>/<uuid>
    Sums,        \* blob, packfile and index checksums: the other keys
    Vals,        \* the values written
    Calls,       \* the calls a client may make: [op, k, v]
    AtomicKeys,  \* the keys the backend contract is checked for
    MaxCalls,    \* bound on the calls of each client
    MaxCrashes,  \* bound on the crashes
    NotFound,    \* an absent path, and the read of one
    NoRead,      \* a client that has not read since
    NoCall,      \* an idle client's call
    Torn,        \* the reading of a file that holds only a prefix
    NumBuckets,  \* the bucket directories of a kind (256: "00" .. "ff")
    BucketOf,    \* BucketOf[k]: the bucket k's path is in
    Namespace,   \* Namespace[op]: the keys a Get<Kind>s call lists
    NoScan       \* a client that has not listed since

Keys == Snapshots \cup Sums

Ops == {"Create", "PutSnapshot", "PutBlob", "PutPackfile", "PutIndex",
        "Commit", "TxCommit", "GetSnapshot", "GetBlob", "GetPackfile",
        "GetIndex", "DeleteBlob", "DeletePackfile", "DeleteIndex",
        "DeleteSnapshot", "GetSnapshots", "GetBlobs", "GetPackfiles",
        "GetIndexes"}

Buckets == 0 .. NumBuckets - 1

ASSUME /\ Calls \subseteq [op : Ops, k : Keys, v : Vals]
       /\ AtomicKeys \subseteq Keys
       /\ MaxCalls \in Nat /\ MaxCrashes \in Nat
       /\ BucketOf \in [Keys -> Buckets]

MaxIno == Cardinality(Clients) * MaxCalls
Inos   == 1 .. MaxIno
Files  == [ino : Inos, v : Vals, full : BOOLEAN]

VARIABLES
    root,       \* repository.root and its layout directories exist
    config,     \* CONFIG: "absent", "partial" (created, not all written) or "full"
    disk,       \* disk[k]: the file at k's path, or NotFound
    purge,      \* purge[id]: the file at purge/<id>, or NotFound
    nextIno,    \* the next fresh inode
    pc,         \* pc[c]: where client c is in its call
    op,         \* op[c]: the call c is running, or NoCall
    fd,         \* fd[c]: the inode c has open for writing (0: none)
    tmp,        \* tmp[c]: c's os.CreateTemp file, or NotFound
    got,        \* got[c]: [k, r] for c's last os.ReadFile, or NoRead
    callsLeft,  \* calls c may still make
    crashes,    \* crashes so far
    scan,       \* scan[c]: [ns, next, ret] of c's last listing, or NoScan
    during      \* history: during[c].ever / .always, the keys of the
                \* listed kind present at some / every state of c's listing

vars == <<root, config, disk, purge, nextIno, pc, op, fd, tmp, got,
          callsLeft, crashes, scan, during>>

-----------------------------------------------------------------------------
(* Helpers.                                                                *)

\* What os.ReadFile of a path returns: the whole value, a prefix, or
\* the not-exist error.
Reading(f) == IF f = NotFound THEN NotFound ELSE IF f.full THEN f.v ELSE Torn

\* Open: os.ReadFile(CONFIG), Inflate and Unmarshal succeed.
Openable == root /\ config = "full"

\* The file with inode i wherever it is linked, written in full with v
\* (f.Write through a descriptor; an unlinked inode is written unseen).
WriteThrough(i, v) ==
    /\ disk'  = [k \in Keys |-> IF disk[k] # NotFound /\ disk[k].ino = i
                                THEN [disk[k] EXCEPT !.v = v, !.full = TRUE]
                                ELSE disk[k]]
    /\ purge' = [s \in Snapshots |-> IF purge[s] # NotFound /\ purge[s].ino = i
                                     THEN [purge[s] EXCEPT !.v = v, !.full = TRUE]
                                     ELSE purge[s]]

\* The call of c returns (with its result or error); the deferred
\* f.Close() has no effect on what others see.
Return(c) ==
    /\ pc' = [pc EXCEPT ![c] = "idle"]
    /\ op' = [op EXCEPT ![c] = NoCall]
    /\ fd' = [fd EXCEPT ![c] = 0]

\* c starts the call cl: it is one of Calls and c has calls left.
Begin(c, cl) ==
    /\ pc[c] = "idle" /\ callsLeft[c] > 0 /\ cl \in Calls
    /\ callsLeft' = [callsLeft EXCEPT ![c] = @ - 1]

-----------------------------------------------------------------------------
Init ==
    /\ root \in BOOLEAN
    /\ config = IF root THEN "full" ELSE "absent"
    /\ disk = [k \in Keys |-> NotFound]
    /\ purge = [s \in Snapshots |-> NotFound]
    /\ nextIno = 1
    /\ pc = [c \in Clients |-> "idle"]
    /\ op = [c \in Clients |-> NoCall]
    /\ fd = [c \in Clients |-> 0]
    /\ tmp = [c \in Clients |-> NotFound]
    /\ got = [c \in Clients |-> NoRead]
    /\ callsLeft = [c \in Clients |-> MaxCalls]
    /\ crashes = 0
    /\ scan = [c \in Clients |-> NoScan]
    /\ during = [c \in Clients |-> [ever |-> {}, always |-> {}]]  \* NoHistory

\* Create: os.Mkdir(repository.root) fails when the root exists; on
\* success the MkdirAll calls of the layout follow, their errors ignored.
Create(c, cl) ==
    /\ Begin(c, cl) /\ cl.op = "Create"
    /\ \/ /\ ~root
          /\ root' = TRUE
          /\ pc' = [pc EXCEPT ![c] = "mkconfig"]
          /\ op' = [op EXCEPT ![c] = cl]
          /\ UNCHANGED fd
       \/ /\ Return(c)
          /\ UNCHANGED root
    /\ UNCHANGED <<config, disk, purge, nextIno, tmp, got, crashes>>

\* Create: f, err := os.Create(configPath); an error returns at once.
CreateConfig(c) ==
    /\ pc[c] = "mkconfig"
    /\ \/ /\ config' = "partial"
          /\ pc' = [pc EXCEPT ![c] = "wrconfig"]
          /\ UNCHANGED <<op, fd>>
       \/ /\ Return(c)
          /\ UNCHANGED config
    /\ UNCHANGED <<root, disk, purge, nextIno, tmp, got, callsLeft, crashes>>

\* Create: msgpack.Marshal, compression.Deflate and f.Write; any of them
\* may fail and return, leaving CONFIG as it is.
WriteConfig(c) ==
    /\ pc[c] = "wrconfig"
    /\ config' \in {config, "full"}
    /\ Return(c)
    /\ UNCHANGED <<root, disk, purge, nextIno, tmp, got, callsLeft, crashes>>

\* os.Create(path): creates the file, or truncates the existing one
\* (the same inode), and opens it; it fails without the layout.
PutCreate(c, cl) ==
    /\ Begin(c, cl)
    /\ \/ /\ root
          /\ LET new == disk[cl.k] = NotFound
                 i   == IF new THEN nextIno ELSE disk[cl.k].ino
             IN  /\ disk' = [disk EXCEPT ![cl.k] = [ino |-> i, v |-> cl.v, full |-> FALSE]]
                 /\ nextIno' = IF new THEN nextIno + 1 ELSE nextIno
                 /\ fd' = [fd EXCEPT ![c] = i]
          /\ pc' = [pc EXCEPT ![c] = "write"]
          /\ op' = [op EXCEPT ![c] = cl]
       \/ /\ Return(c)
          /\ UNCHANGED <<disk, nextIno>>
    /\ UNCHANGED <<root, config, purge, tmp, got, crashes>>

PutSnapshot(c, cl) == cl.op = "PutSnapshot" /\ cl.k \in Snapshots /\ PutCreate(c, cl)
PutBlob(c, cl)     == cl.op = "PutBlob"     /\ cl.k \in Sums /\ PutCreate(c, cl)
PutPackfile(c, cl) == cl.op = "PutPackfile" /\ cl.k \in Sums /\ PutCreate(c, cl)
PutIndex(c, cl)    == cl.op = "PutIndex"    /\ cl.k \in Sums /\ PutCreate(c, cl)

\* f.Write(data): all of it, or an error after a prefix; then return.
PutWrite(c) ==
    /\ pc[c] = "write"
    /\ \/ WriteThrough(fd[c], op[c].v)
       \/ UNCHANGED <<disk, purge>>
    /\ Return(c)
    /\ UNCHANGED <<root, config, nextIno, tmp, got, callsLeft, crashes>>

\* Commit writing the snapshot's path in place, as PutSnapshot does (a
\* mutant of CreateTemp).
CreateTempInPlace(c, cl) == PutCreate(c, cl)

\* os.CreateTemp("", "<uuid>.*"): a fresh file in os.TempDir(), which no
\* other call names.
CreateTemp(c, cl) ==
    /\ Begin(c, cl)
    /\ \/ /\ tmp' = [tmp EXCEPT ![c] = [ino |-> nextIno, v |-> cl.v, full |-> FALSE]]
          /\ nextIno' = nextIno + 1
          /\ pc' = [pc EXCEPT ![c] = "cwrite"]
          /\ op' = [op EXCEPT ![c] = cl]
          /\ UNCHANGED fd
       \/ /\ Return(c)
          /\ UNCHANGED <<tmp, nextIno>>
    /\ UNCHANGED <<root, config, disk, purge, got, crashes>>

Commit(c, cl)   == cl.op = "Commit"   /\ cl.k \in Snapshots /\ CreateTemp(c, cl)
TxCommit(c, cl) == cl.op = "TxCommit" /\ cl.k \in Snapshots /\ CreateTemp(c, cl)

\* f.Write(data); on error f.Close() and return, the temp file left behind.
CommitWrite(c) ==
    /\ pc[c] = "cwrite"
    /\ \/ /\ tmp' = [tmp EXCEPT ![c].full = TRUE]
          /\ pc' = [pc EXCEPT ![c] = "rename"]
          /\ UNCHANGED <<op, fd>>
       \/ /\ tmp' = [tmp EXCEPT ![c] = NotFound]
          /\ Return(c)
    /\ UNCHANGED <<root, config, disk, purge, nextIno, got, callsLeft, crashes>>

\* f.Close(), then os.Rename(name, PathSnapshot(uuid)): the temp inode
\* replaces the snapshot's path in one step.  Close or Rename may fail
\* (a missing bucket, a TempDir on another filesystem); the call returns.
CommitRename(c) ==
    /\ pc[c] = "rename"
    /\ \/ /\ root
          /\ disk' = [disk EXCEPT ![op[c].k] = tmp[c]]
       \/ UNCHANGED disk
    /\ tmp' = [tmp EXCEPT ![c] = NotFound]
    /\ Return(c)
    /\ UNCHANGED <<root, config, purge, nextIno, got, callsLeft, crashes>>

\* os.ReadFile(path): the whole call is one read.
ReadFile(c, cl) ==
    /\ Begin(c, cl)
    /\ got' = [got EXCEPT ![c] = [k |-> cl.k, r |-> Reading(disk[cl.k])]]
    /\ UNCHANGED <<root, config, disk, purge, nextIno, pc, op, fd, tmp, crashes>>

GetSnapshot(c, cl) == cl.op = "GetSnapshot" /\ cl.k \in Snapshots /\ ReadFile(c, cl)
GetBlob(c, cl)     == cl.op = "GetBlob"     /\ cl.k \in Sums /\ ReadFile(c, cl)
GetPackfile(c, cl) == cl.op = "GetPackfile" /\ cl.k \in Sums /\ ReadFile(c, cl)
GetIndex(c, cl)    == cl.op = "GetIndex"    /\ cl.k \in Sums /\ ReadFile(c, cl)

\* os.Remove(path): unlinks the file (an error if there is none).
Remove(c, cl) ==
    /\ Begin(c, cl)
    /\ disk' = [disk EXCEPT ![cl.k] = NotFound]
    /\ UNCHANGED <<root, config, purge, nextIno, pc, op, fd, tmp, got, crashes>>

DeleteBlob(c, cl)     == cl.op = "DeleteBlob"     /\ cl.k \in Sums /\ Remove(c, cl)
DeletePackfile(c, cl) == cl.op = "DeletePackfile" /\ cl.k \in Sums /\ Remove(c, cl)
DeleteIndex(c, cl)    == cl.op = "DeleteIndex"    /\ cl.k \in Sums /\ Remove(c, cl)

\* DeleteSnapshot moving by a link that keeps the source (a mutant of
\* DeleteSnapshot).
DeleteSnapshotLink(c, cl) ==
    /\ Begin(c, cl) /\ cl.op = "DeleteSnapshot" /\ cl.k \in Snapshots
    /\ \/ /\ disk[cl.k] # NotFound
          /\ purge' = [purge EXCEPT ![cl.k] = disk[cl.k]]
          /\ pc' = [pc EXCEPT ![c] = "removeall"]
          /\ op' = [op EXCEPT ![c] = cl]
          /\ UNCHANGED <<fd, disk>>
       \/ /\ Return(c)
          /\ UNCHANGED <<disk, purge>>
    /\ UNCHANGED <<root, config, nextIno, tmp, got, crashes>>

\* DeleteSnapshot: os.Rename(PathSnapshot(id), purge/<id>), replacing a
\* file left there; it fails when the snapshot is missing.
DeleteSnapshot(c, cl) ==
    /\ Begin(c, cl) /\ cl.op = "DeleteSnapshot" /\ cl.k \in Snapshots
    /\ \/ /\ disk[cl.k] # NotFound
          /\ purge' = [purge EXCEPT ![cl.k] = disk[cl.k]]
          /\ disk' = [disk EXCEPT ![cl.k] = NotFound]
          /\ pc' = [pc EXCEPT ![c] = "removeall"]
          /\ op' = [op EXCEPT ![c] = cl]
          /\ UNCHANGED fd
       \/ /\ Return(c)
          /\ UNCHANGED <<disk, purge>>
    /\ UNCHANGED <<root, config, nextIno, tmp, got, crashes>>

\* DeleteSnapshot: os.RemoveAll(dest), which may fail; then return.
RemoveAll(c) ==
    /\ pc[c] = "removeall"
    /\ purge' \in {purge, [purge EXCEPT ![op[c].k] = NotFound]}
    /\ Return(c)
    /\ UNCHANGED <<root, config, disk, nextIno, tmp, got, callsLeft, crashes>>

\* Get<Kind>s: os.ReadDir(Path<Kind>s()) lists the buckets Create made;
\* it fails, and the call returns the error, when the layout is missing.
ListStart(c, cl) ==
    /\ Begin(c, cl) /\ cl.op \in DOMAIN Namespace
    /\ \/ /\ root
          /\ scan' = [scan EXCEPT ![c] = [ns |-> Namespace[cl.op], next |-> 0, ret |-> {}]]
          /\ pc' = [pc EXCEPT ![c] = "list"]
          /\ op' = [op EXCEPT ![c] = cl]
          /\ UNCHANGED fd
       \/ /\ ~root
          /\ scan' = [scan EXCEPT ![c] = NoScan]
          /\ Return(c)
    /\ UNCHANGED <<root, config, disk, purge, nextIno, tmp, got, crashes>>

GetSnapshots(c, cl) == cl.op = "GetSnapshots" /\ ListStart(c, cl)
GetBlobs(c, cl)     == cl.op = "GetBlobs"     /\ ListStart(c, cl)
GetPackfiles(c, cl) == cl.op = "GetPackfiles" /\ ListStart(c, cl)
GetIndexes(c, cl)   == cl.op = "GetIndexes"   /\ ListStart(c, cl)

\* The files of the bucket being read: every entry is a file whose name
\* parses (uuid.Parse, or hex of 32 bytes), so none is skipped or fails.
InBucket(c) == {k \in scan[c].ns : BucketOf[k] = scan[c].next /\ disk[k] # NotFound}

\* A listing keeping only the last bucket's entries, ret = indexes in
\* place of the append (a mutant of ListBucket).
ListBucketOverwrite(c) ==
    /\ pc[c] = "list"
    /\ scan' = [scan EXCEPT ![c].ret = InBucket(c), ![c].next = @ + 1]
    /\ pc' = [pc EXCEPT ![c] = IF scan[c].next + 1 = NumBuckets THEN "listed" ELSE "list"]
    /\ UNCHANGED <<root, config, disk, purge, nextIno, op, fd, tmp, got, callsLeft, crashes>>

\* os.ReadDir(pathBuckets) of the next bucket, its entries appended to
\* ret, until the last bucket.
ListBucket(c) ==
    /\ pc[c] = "list"
    /\ scan' = [scan EXCEPT ![c].ret = @ \cup InBucket(c), ![c].next = @ + 1]
    /\ pc' = [pc EXCEPT ![c] = IF scan[c].next + 1 = NumBuckets THEN "listed" ELSE "list"]
    /\ UNCHANGED <<root, config, disk, purge, nextIno, op, fd, tmp, got, callsLeft, crashes>>

\* return ret, nil: the listing ends with the call.
ListReturn(c) ==
    /\ pc[c] = "listed"
    /\ scan' = [scan EXCEPT ![c] = NoScan]
    /\ Return(c)
    /\ UNCHANGED <<root, config, disk, purge, nextIno, tmp, got, callsLeft, crashes>>

\* The process running c dies in the middle of its call: the files, and
\* the temp file, stay as they are.
Crash(c) ==
    /\ pc[c] # "idle" /\ crashes < MaxCrashes
    /\ crashes' = crashes + 1
    /\ tmp' = [tmp EXCEPT ![c] = NotFound]
    /\ Return(c)
    /\ UNCHANGED <<root, config, disk, purge, nextIno, got, callsLeft>>

\* Every client has made its calls.
Terminated ==
    /\ \A c \in Clients : pc[c] = "idle" /\ callsLeft[c] = 0
    /\ UNCHANGED vars

Listing   == {"list", "listed"}
NoHistory == [ever |-> {}, always |-> {}]

\* The history of a listing: the keys of its kind present in the state
\* its first step reaches and in every state up to its last.
Observe ==
    during' = [c \in Clients |->
                 IF pc'[c] \in Listing
                 THEN LET now == {k \in scan'[c].ns : disk'[k] # NotFound} IN
                      IF pc[c] \in Listing
                      THEN [ever |-> during[c].ever \cup now,
                            always |-> during[c].always \cap now]
                      ELSE [ever |-> now, always |-> now]
                 ELSE NoHistory]

Step ==
    \/ \E c \in Clients :
          \/ CreateConfig(c) \/ WriteConfig(c) \/ PutWrite(c) \/ CommitWrite(c)
          \/ CommitRename(c) \/ RemoveAll(c) \/ Crash(c)
          \/ \E cl \in Calls :
                \/ Create(c, cl)
                \/ PutSnapshot(c, cl) \/ PutBlob(c, cl) \/ PutPackfile(c, cl) \/ PutIndex(c, cl)
                \/ Commit(c, cl) \/ TxCommit(c, cl)
                \/ GetSnapshot(c, cl) \/ GetBlob(c, cl) \/ GetPackfile(c, cl) \/ GetIndex(c, cl)
                \/ DeleteBlob(c, cl) \/ DeletePackfile(c, cl) \/ DeleteIndex(c, cl)
                \/ DeleteSnapshot(c, cl)
    \/ Terminated

Next ==
    /\ \/ /\ Step
          \* a crash ends a listing with the rest of its call
          /\ scan' = [c \in Clients |-> IF pc'[c] = "idle" THEN NoScan ELSE scan[c]]
       \/ \E c \in Clients :
             \/ ListBucket(c) \/ ListReturn(c)
             \/ \E cl \in Calls :
                   \/ GetSnapshots(c, cl) \/ GetBlobs(c, cl)
                   \/ GetPackfiles(c, cl) \/ GetIndexes(c, cl)
    /\ Observe

Spec == Init /\ [][Next]_vars

-----------------------------------------------------------------------------
(* Properties.                                                             *)

\* Every path and purge entry, tagged, with the inode it links.
Links == {<<"key", k, disk[k].ino>> : k \in {k \in Keys : disk[k] # NotFound}}
         \cup {<<"purge", s, purge[s].ino>> : s \in {s \in Snapshots : purge[s] # NotFound}}

\* The variables have their types, and no inode is linked at two paths
\* (the backend never makes hard links: it creates and renames).
TypeOK ==
    /\ root \in BOOLEAN /\ config \in {"absent", "partial", "full"}
    /\ disk \in [Keys -> Files \cup {NotFound}]
    /\ purge \in [Snapshots -> Files \cup {NotFound}]
    /\ tmp \in [Clients -> Files \cup {NotFound}]
    /\ nextIno \in 1 .. MaxIno + 1
    /\ \A c \in Clients : scan[c] = NoScan \/
          scan[c] \in [ns : SUBSET Keys, next : 0 .. NumBuckets, ret : SUBSET scan[c].ns]
    /\ \A l1, l2 \in Links : l1[3] = l2[3] => l1 = l2

\* The backend contract of spec.md section 4 for the keys in AtomicKeys:
\* whatever the callers interleave and wherever a process crashes, every
\* key holds nothing or a whole value written by one call, and every
\* os.ReadFile of it returns one of those (KVStore, with the file at the
\* key's path read as its value).
\* A listing is not a snapshot of the directory: its buckets are read one
\* by one while other calls put, commit and delete.  What a caller may
\* rely on (the callers load every listed id) is that every key returned
\* existed at some point of the call, and that every key present
\* throughout the call is returned once its bucket has been read.
ListingBetween ==
    \A c \in Clients : scan[c] # NoScan =>
        /\ scan[c].ret \subseteq during[c].ever
        /\ {k \in during[c].always : BucketOf[k] < scan[c].next} \subseteq scan[c].ret

KV == INSTANCE KVStore WITH
        Keys  <- AtomicKeys,
        store <- [k \in AtomicKeys |-> Reading(disk[k])],
        got   <- [c \in Clients |-> IF got[c] # NoRead /\ got[c].k \in AtomicKeys
                                    THEN got[c].r ELSE NoRead]

KVStoreRefined == KV!Spec
=============================================================================
