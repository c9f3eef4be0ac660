------------------------------- MODULE Locate -------------------------------
(***************************************************************************)
(* LocateSnapshotIDs (src/cmd/plakar/utils/locate.go): the caller walks    *)
(* repo.ListSnapshots(), taking a token of the maxConcurrency channel and  *)
(* starting one goroutine per snapshot; each goroutine loads the snapshot, *)
(* applies the filters and appends to workSet under workSetMutex, then     *)
(* returns its token and calls wg.Done.  After wg.Wait the work set is     *)
(* stably sorted by timestamp, cut to its last element if Latest, and      *)
(* returned.                                                               *)
(*                                                                         *)
(* The filters (name, category, environment, perimeter, job, tag, before,  *)
(* since) are one predicate: the set Match of snapshots they accept.       *)
(* `workSet = append(workSet, ...)` reads and then writes the slice, so    *)
(* the two are separate steps; the mutex makes them atomic together.       *)
(***************************************************************************)
EXTENDS Naturals, Sequences, FiniteSets, Functions, SequencesExt

CONSTANTS
    Snaps,           \* the snapshot IDs the repository lists
    Timestamp,       \* Timestamp[s]: the header timestamp of snapshot s
    Match,           \* the snapshots every filter accepts
    MaxConcurrency,  \* opts.MaxConcurrency: capacity of maxConcurrency
    NoOwner

ASSUME Match \subseteq Snaps /\ MaxConcurrency \in Nat \ {0}

\* LocateSortOrderNone, Ascending, Descending.
SortOrders == {0, 1, -1}

VARIABLES
    opts,       \* [sortOrder, latest]: the options of this call
    listed,     \* snapshots ListSnapshots has produced so far
    tokens,     \* the tokens in the maxConcurrency channel
    wg,         \* the WaitGroup counter
    gpc,        \* gpc[s]: the goroutine of snapshot s ("none" before it starts)
    localWS,    \* localWS[s]: the work set the goroutine of s has read
    mu,         \* workSetMutex: NoOwner or the snapshot whose goroutine holds it
    workSet,    \* the shared slice: a sequence of [id, ts]
    loaded,     \* history: the snapshots snapshot.Load returned
    result,     \* the returned IDs, once the call has returned
    done        \* LocateSnapshotIDs has returned

vars == <<opts, listed, tokens, wg, gpc, localWS, mu, workSet, loaded, result, done>>

-----------------------------------------------------------------------------
\* sort.SliceStable with a strict "before" (Ascending) or "after"
\* (Descending) on timestamps: insertion sort keeps equal elements in
\* their order.
RECURSIVE Insert(_, _, _)
Insert(x, s, order) ==
    IF s = << >> THEN << x >>
    ELSE IF (order = 1 /\ x.ts < Head(s).ts) \/ (order = -1 /\ x.ts > Head(s).ts)
         THEN << x >> \o s
         ELSE << Head(s) >> \o Insert(x, Tail(s), order)

RECURSIVE StableSort(_, _)
StableSort(s, order) ==
    IF s = << >> THEN << >>
    ELSE Insert(Head(s), StableSort(Tail(s), order), order)

\* The tail with the cut written workSet[:1] (a mutant of Finish).
FinishKeepFirst(ws, o) ==
    LET sorted == IF o.sortOrder = 0 THEN ws ELSE StableSort(ws, o.sortOrder)
        cut    == IF o.latest /\ Len(sorted) > 1 THEN SubSeq(sorted, 1, 1) ELSE sorted
    IN  [i \in 1 .. Len(cut) |-> cut[i].id]

\* The tail of LocateSnapshotIDs after wg.Wait: sort, Latest, collect IDs.
Finish(ws, o) ==
    LET sorted == IF o.sortOrder = 0 THEN ws ELSE StableSort(ws, o.sortOrder)
        cut    == IF o.latest /\ Len(sorted) > 1
                  THEN SubSeq(sorted, Len(sorted), Len(sorted)) ELSE sorted
    IN  [i \in 1 .. Len(cut) |-> cut[i].id]

-----------------------------------------------------------------------------
Init ==
    /\ opts \in [sortOrder : SortOrders, latest : BOOLEAN]
    /\ listed = {}
    /\ tokens = 0
    /\ wg = 0
    /\ gpc = [s \in Snaps |-> "none"]
    /\ localWS = [s \in Snaps |-> << >>]
    /\ mu = NoOwner
    /\ workSet = << >>
    /\ loaded = {}
    /\ result = << >>
    /\ done = FALSE

\* for snapshotID := range repo.ListSnapshots(): maxConcurrency <- struct{}{}
\* (blocks while full), wg.Add(1), go func(snapshotID).
Spawn(s) ==
    /\ s \notin listed
    /\ tokens < MaxConcurrency
    /\ listed' = listed \cup {s}
    /\ tokens' = tokens + 1
    /\ wg' = wg + 1
    /\ gpc' = [gpc EXCEPT ![s] = "load"]
    /\ UNCHANGED <<opts, localWS, mu, workSet, loaded, result, done>>

\* snapshot.Load, then the filters: a failed load or a rejected snapshot
\* returns at once; an accepted one goes on to append.
Filter(s) ==
    /\ gpc[s] = "load"
    /\ \/ /\ gpc' = [gpc EXCEPT ![s] = "exit"]
          /\ UNCHANGED loaded
       \/ /\ loaded' = loaded \cup {s}
          /\ gpc' = [gpc EXCEPT ![s] = IF s \in Match THEN "lock" ELSE "exit"]
    /\ UNCHANGED <<opts, listed, tokens, wg, localWS, mu, workSet, result, done>>

\* The append without workSetMutex.Lock() (a mutant of Lock).
LockMissing(s) ==
    /\ gpc[s] = "lock"
    /\ gpc' = [gpc EXCEPT ![s] = "read"]
    /\ UNCHANGED <<opts, listed, tokens, wg, localWS, mu, workSet, loaded, result, done>>

\* workSetMutex.Lock()
Lock(s) ==
    /\ gpc[s] = "lock"
    /\ mu = NoOwner
    /\ mu' = s
    /\ gpc' = [gpc EXCEPT ![s] = "read"]
    /\ UNCHANGED <<opts, listed, tokens, wg, localWS, workSet, loaded, result, done>>

\* append(workSet, ...): the slice is read ...
AppendRead(s) ==
    /\ gpc[s] = "read"
    /\ localWS' = [localWS EXCEPT ![s] = workSet]
    /\ gpc' = [gpc EXCEPT ![s] = "write"]
    /\ UNCHANGED <<opts, listed, tokens, wg, mu, workSet, loaded, result, done>>

\* ... and the grown slice is stored back in workSet.
AppendWrite(s) ==
    /\ gpc[s] = "write"
    /\ workSet' = Append(localWS[s], [id |-> s, ts |-> Timestamp[s]])
    /\ gpc' = [gpc EXCEPT ![s] = "unlock"]
    /\ UNCHANGED <<opts, listed, tokens, wg, localWS, mu, loaded, result, done>>

\* workSetMutex.Unlock()
Unlock(s) ==
    /\ gpc[s] = "unlock"
    /\ mu' = NoOwner
    /\ gpc' = [gpc EXCEPT ![s] = "exit"]
    /\ UNCHANGED <<opts, listed, tokens, wg, localWS, workSet, loaded, result, done>>

\* A goroutine that calls wg.Done() both explicitly and in its deferred
\* function (a mutant of Exit).
ExitDoubleDone(s) ==
    /\ gpc[s] = "exit"
    /\ tokens' = tokens - 1
    /\ wg' = wg - 2
    /\ gpc' = [gpc EXCEPT ![s] = "returned"]
    /\ UNCHANGED <<opts, listed, localWS, mu, workSet, loaded, result, done>>

\* The deferred function: <-maxConcurrency; wg.Done().
Exit(s) ==
    /\ gpc[s] = "exit"
    /\ tokens' = tokens - 1
    /\ wg' = wg - 1
    /\ gpc' = [gpc EXCEPT ![s] = "returned"]
    /\ UNCHANGED <<opts, listed, localWS, mu, workSet, loaded, result, done>>

\* The loop has ended; wg.Wait() returns once the counter is zero, then
\* the work set is sorted, cut and returned.
Return ==
    /\ ~done /\ listed = Snaps
    /\ wg = 0
    /\ result' = Finish(workSet, opts)
    /\ done' = TRUE
    /\ UNCHANGED <<opts, listed, tokens, wg, gpc, localWS, mu, workSet, loaded>>

\* The call has returned.
Terminated ==
    /\ done
    /\ UNCHANGED vars

Next ==
    \/ \E s \in Snaps :
          \/ Spawn(s) \/ Filter(s) \/ Lock(s) \/ AppendRead(s) \/ AppendWrite(s)
          \/ Unlock(s) \/ Exit(s)
    \/ Return
    \/ Terminated

Spec == Init /\ [][Next]_vars

-----------------------------------------------------------------------------
(* Properties.                                                             *)

\* The snapshots that are both loadable and accepted by the filters.
Found == loaded \cap Match

\* The newest of a set of snapshots (defined only for a non-empty set).
Newest(S) == CHOOSE s \in S : \A t \in S : Timestamp[t] <= Timestamp[s]

TypeOK ==
    /\ opts \in [sortOrder : SortOrders, latest : BOOLEAN]
    /\ listed \subseteq Snaps /\ loaded \subseteq Snaps
    /\ tokens \in 0 .. MaxConcurrency /\ wg \in 0 .. Cardinality(Snaps)
    /\ mu \in Snaps \cup {NoOwner}
    /\ workSet \in Seq([id : Snaps, ts : Range(Timestamp)])
    /\ done \in BOOLEAN

\* Without Latest, LocateSnapshotIDs returns every snapshot that loaded and
\* passed the filters, each exactly once, however the goroutines appending
\* to workSet interleave; with a sort order, in timestamp order.
ResultIsFound ==
    done /\ ~opts.latest =>
        /\ Len(result) = Cardinality(Found)
        /\ ToSet(result) = Found
        /\ opts.sortOrder # 0 =>
              \A i \in 1 .. Len(result) - 1 :
                  opts.sortOrder * (Timestamp[result[i + 1]] - Timestamp[result[i]]) >= 0

\* With Latest and the ascending sort order, LocateSnapshotIDs returns the
\* single most recent snapshot among those found, whatever order the
\* goroutines appended in.  (With no sort order the kept element is the
\* last one appended, with the descending order the oldest.)
LatestIsNewest ==
    done /\ opts.latest /\ opts.sortOrder = 1 /\ Found # {} =>
        result = << Newest(Found) >>
=============================================================================
