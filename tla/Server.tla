------------------------------ MODULE Server -------------------------------
(***************************************************************************)
(* The plakard server, Server and handleConnection in                      *)
(* src/cmd/plakar/utils/locate.go.  Server accepts connections and runs    *)
(* handleConnection for each; handleConnection decodes requests from the   *)
(* connection one after the other and starts one goroutine per request,    *)
(* which calls the connection's repository, lrepository, and encodes the   *)
(* answer on the connection's shared encoder.  When decoding fails (the    *)
(* client closed its end) the loop breaks and wg.Wait() waits for the      *)
(* goroutines still running.                                               *)
(*                                                                         *)
(* Server runs it with the server's repository; Stdio runs it once, on     *)
(* stdin and stdout, with repo = nil, so that the client must Create or    *)
(* Open before any other request.  A repository is named by its location; the states and *)
(* packfiles of a location are sets of keys.  gob.Encoder.Encode takes the *)
(* encoder's own mutex, so an answer is written in one step.  A panic in   *)
(* any goroutine ends the process (crashed).                               *)
(***************************************************************************)
EXTENDS Naturals, Sequences, FiniteSets

CONSTANTS
    Conns,      \* the connections Server accepts
    Locations,  \* repository locations
    ServerLoc,  \* the location of the server's own repository (repo)
    Keys,       \* state and packfile checksums
    Requests,   \* the requests a client may send: [type, loc, key]
    MaxReqs,    \* bound on the requests sent on one connection
    Entries,    \* the entry points run: a subset of {"Server", "Stdio"}
    Nil         \* a nil *Repository

ASSUME /\ ServerLoc \in Locations /\ MaxReqs \in Nat \ {0}
       /\ Entries \subseteq {"Server", "Stdio"}
       /\ "Stdio" \in Entries => Cardinality(Conns) = 1

\* The request types handleConnection has a case for.
Known == {"ReqCreate", "ReqOpen", "ReqClose",
          "ReqGetStates", "ReqPutState", "ReqGetState", "ReqDeleteState",
          "ReqGetPackfiles", "ReqPutPackfile", "ReqGetPackfile",
          "ReqGetPackfileBlob", "ReqDeletePackfile"}

\* The kind of object a request is about.
Kind(t) == IF t \in {"ReqGetStates", "ReqPutState", "ReqGetState",
                     "ReqDeleteState"} THEN "state" ELSE "packfile"

Slots == 1 .. MaxReqs

VARIABLES
    repo,         \* handleConnection's repo: ServerLoc (Server) or Nil (Stdio)
    exists,       \* exists[l]: a repository has been created at l
    store,        \* store[l][kind]: the states and packfiles of l
    noDelete,     \* options.NoDelete
    in,           \* in[c]: the requests sent on c, not decoded yet
    sent,         \* sent[c]: the requests the client has sent on c
    eof,          \* eof[c]: the client has closed its end of c
    loop,         \* loop[c]: "accept", "reading", "waiting" or "returned"
    lrepository,  \* lrepository[c]: c's repository, a location or Nil
    wg,           \* wg[c]: c's WaitGroup counter
    h,            \* h[c][n]: the goroutine of c's n-th request
    crashed       \* a goroutine panicked and the process ended

vars == <<repo, exists, store, noDelete, in, sent, eof, loop, lrepository, wg, h, crashed>>

\* A request as the decoder yields it.
Sent(r) == [req |-> r]

\* The goroutine of request m, before it has run.
Started(m) == [req |-> m.req, pc |-> "serve"]

NoGoroutine == [req |-> CHOOSE r \in Requests : TRUE, pc |-> "none"]

\* A request that was answered ("done") or had no case ("dropped"): only
\* that it ended is kept.
Ended(pc) == [NoGoroutine EXCEPT !.pc = pc]

\* The number of requests of c decoded so far.
Decoded(c) == sent[c] - Len(in[c])

-----------------------------------------------------------------------------
\* Server passes its repository to every connection; Stdio serves one
\* connection, stdin and stdout, with repo = nil.
Init ==
    /\ repo \in {IF e = "Server" THEN ServerLoc ELSE Nil : e \in Entries}
    /\ exists = [l \in Locations |-> l = ServerLoc]
    /\ store = [l \in Locations |-> [k \in {"state", "packfile"} |-> {}]]
    /\ noDelete \in BOOLEAN
    /\ in = [c \in Conns |-> <<>>]
    /\ sent = [c \in Conns |-> 0]
    /\ eof = [c \in Conns |-> FALSE]
    /\ loop = [c \in Conns |-> IF repo = Nil THEN "reading" ELSE "accept"]
    /\ lrepository = [c \in Conns |-> repo]
    /\ wg = [c \in Conns |-> 0]
    /\ h = [c \in Conns |-> [n \in Slots |-> NoGoroutine]]
    /\ crashed = FALSE

\* Server: l.Accept() returns c and handleConnection starts on it.
Accept(c) ==
    /\ ~crashed /\ loop[c] = "accept"
    /\ loop' = [loop EXCEPT ![c] = "reading"]
    /\ UNCHANGED <<repo, exists, store, noDelete, in, sent, eof, lrepository, wg, h, crashed>>

\* The client of c sends request r.
Send(c, r) ==
    /\ ~crashed /\ ~eof[c] /\ sent[c] < MaxReqs
    /\ in' = [in EXCEPT ![c] = Append(@, Sent(r))]
    /\ sent' = [sent EXCEPT ![c] = @ + 1]
    /\ UNCHANGED <<repo, exists, store, noDelete, eof, loop, lrepository, wg, h, crashed>>

\* The client of c closes its end.
Hangup(c) ==
    /\ ~crashed /\ ~eof[c]
    /\ eof' = [eof EXCEPT ![c] = TRUE]
    /\ UNCHANGED <<repo, exists, store, noDelete, in, sent, loop, lrepository, wg, h, crashed>>

\* wg.Add(1) before the switch, for an unknown type too (a mutant of
\* Decode).
DecodeAddAlways(c) ==
    /\ ~crashed /\ loop[c] = "reading" /\ in[c] # <<>>
    /\ LET m == Head(in[c])
           known == m.req.type \in Known
       IN  h' = [h EXCEPT ![c][Decoded(c) + 1] =
                   IF known THEN Started(m) ELSE Ended("dropped")]
    /\ wg' = [wg EXCEPT ![c] = @ + 1]
    /\ in' = [in EXCEPT ![c] = Tail(@)]
    /\ UNCHANGED <<repo, exists, store, noDelete, sent, eof, loop, lrepository, crashed>>

\* decoder.Decode returns the next request: a known type gets wg.Add(1)
\* and a goroutine; an unknown one is printed and gets no answer.
Decode(c) ==
    /\ ~crashed /\ loop[c] = "reading" /\ in[c] # <<>>
    /\ LET m == Head(in[c])
           known == m.req.type \in Known
       IN  /\ h' = [h EXCEPT ![c][Decoded(c) + 1] =
                      IF known THEN Started(m) ELSE Ended("dropped")]
           /\ wg' = [wg EXCEPT ![c] = IF known THEN @ + 1 ELSE @]
    /\ in' = [in EXCEPT ![c] = Tail(@)]
    /\ UNCHANGED <<repo, exists, store, noDelete, sent, eof, loop, lrepository, crashed>>

\* `continue` instead of `break` on the decode error: the loop keeps
\* decoding the closed connection (a mutant of DecodeError).
DecodeErrorContinue(c) ==
    /\ ~crashed /\ loop[c] = "reading" /\ in[c] = <<>> /\ eof[c]
    /\ UNCHANGED vars

\* decoder.Decode fails once the client has closed c: the loop breaks.
DecodeError(c) ==
    /\ ~crashed /\ loop[c] = "reading" /\ in[c] = <<>> /\ eof[c]
    /\ loop' = [loop EXCEPT ![c] = "waiting"]
    /\ UNCHANGED <<repo, exists, store, noDelete, in, sent, eof, lrepository, wg, h, crashed>>

\* wg.Wait() returns and handleConnection with it.
Return(c) ==
    /\ ~crashed /\ loop[c] = "waiting" /\ wg[c] = 0
    /\ loop' = [loop EXCEPT ![c] = "returned"]
    /\ UNCHANGED <<repo, exists, store, noDelete, in, sent, eof, lrepository, wg, h, crashed>>
-----------------------------------------------------------------------------
(* The goroutine of c's n-th request.  Each case of the switch is one step *)
(* up to the Encode, then Reply encodes the answer and runs wg.Done.       *)

\* Unchanged by a goroutine's call.
callFrame == <<repo, noDelete, in, sent, eof, loop, wg, crashed>>

Serving(c, n, t) ==
    ~crashed /\ h[c][n].pc = "serve" /\ h[c][n].req.type = t

\* A goroutine panics (a method of a nil *Repository, io.ReadAll of a nil
\* reader): the process ends.
Panic ==
    /\ crashed' = TRUE
    /\ UNCHANGED <<repo, exists, store, noDelete, in, sent, eof, loop, lrepository,
                   wg, h>>

\* The call is made on lrepository, which is nil.
NilCall(c) == lrepository[c] = Nil /\ Panic

\* The result is ready for Encode (retErr and the payload are not
\* modelled).
Answer(c, n) ==
    h' = [h EXCEPT ![c][n].pc = "reply"]

\* repository.New(st, nil) on the storage Create or Open returned: it is
\* assigned to lrepository whether it failed or not.  On a nil st (the
\* storage call failed) New is not in src/: it panics, or returns nil.
NewRepository(c, n, l, ok) ==
    LET r == IF ok THEN l ELSE Nil IN
    /\ lrepository' = [lrepository EXCEPT ![c] = r]
    /\ Answer(c, n)

\* case "ReqCreate": storage.Create (it fails if the repository exists),
\* then repository.New.
ServeCreate(c, n) ==
    /\ Serving(c, n, "ReqCreate")
    /\ LET l == h[c][n].req.loc IN
       \/ /\ ~exists[l]
          /\ exists' = [exists EXCEPT ![l] = TRUE]
          /\ NewRepository(c, n, l, TRUE)
          /\ UNCHANGED <<store, callFrame>>
       \/ /\ exists[l]
          /\ \/ Panic
             \/ NewRepository(c, n, l, FALSE) /\ UNCHANGED <<exists, store, callFrame>>

\* case "ReqOpen": storage.Open, then repository.New; the configuration
\* answered is repo.Configuration(), the server's own, and a method of a
\* nil *Repository under Stdio.
ServeOpen(c, n) ==
    /\ Serving(c, n, "ReqOpen")
    /\ LET l == h[c][n].req.loc IN
       \/ exists[l] /\ repo # Nil /\ NewRepository(c, n, l, TRUE) /\ UNCHANGED <<exists, store, callFrame>>
       \/ exists[l] /\ repo = Nil /\ Panic
       \/ ~exists[l] /\ Panic
       \/ ~exists[l] /\ NewRepository(c, n, l, FALSE) /\ UNCHANGED <<exists, store, callFrame>>

\* case "ReqClose": lrepository.Close() only when repo == nil, so with a
\* server repository nothing is closed.
ServeClose(c, n) ==
    /\ Serving(c, n, "ReqClose")
    /\ \/ /\ repo # Nil
          /\ Answer(c, n)
          /\ UNCHANGED <<exists, store, lrepository, callFrame>>
       \/ /\ repo = Nil
          /\ \/ NilCall(c)
             \/ /\ lrepository[c] # Nil
                /\ Answer(c, n)
                /\ UNCHANGED <<exists, store, lrepository, callFrame>>

\* case "ReqGetStates" and "ReqGetPackfiles": the list of lrepository.
List(c, n, t) ==
    /\ Serving(c, n, t)
    /\ \/ NilCall(c)
       \/ /\ lrepository[c] # Nil
          /\ Answer(c, n)
          /\ UNCHANGED <<exists, store, lrepository, callFrame>>

\* case "ReqPutState" and "ReqPutPackfile": the backend write succeeds or
\* returns an error.
Put(c, n, t) ==
    /\ Serving(c, n, t)
    /\ LET l == lrepository[c]
           k == h[c][n].req.key
       IN  \/ NilCall(c)
           \/ /\ l # Nil
              /\ \/ /\ store' = [store EXCEPT ![l][Kind(t)] = @ \cup {k}]
                    /\ Answer(c, n)
                 \/ /\ UNCHANGED store
                    /\ Answer(c, n)
              /\ UNCHANGED <<exists, lrepository, callFrame>>

\* case "ReqGetState" and "ReqGetPackfileBlob": a missing key is an error
\* in retErr; GetPackfileBlob reads rd only when err is nil.
Get(c, n, t) ==
    /\ Serving(c, n, t)
    /\ LET l == lrepository[c] IN
       \/ NilCall(c)
       \/ /\ l # Nil
          /\ Answer(c, n)
          /\ UNCHANGED <<exists, store, lrepository, callFrame>>

\* case "ReqGetPackfile": io.ReadAll(rd) runs after an error too, on the
\* nil reader GetPackfile returned with it.
ServeGetPackfile(c, n) ==
    /\ Serving(c, n, "ReqGetPackfile")
    /\ LET l == lrepository[c] IN
       \/ NilCall(c)
       \/ l # Nil /\ h[c][n].req.key \notin store[l]["packfile"] /\ Panic
       \/ /\ l # Nil /\ h[c][n].req.key \in store[l]["packfile"]
          /\ Answer(c, n)
          /\ UNCHANGED <<exists, store, lrepository, callFrame>>

\* case "ReqDeleteState" and "ReqDeletePackfile": refused with NoDelete,
\* otherwise the backend removes the key (an error if it is missing).
Delete(c, n, t) ==
    /\ Serving(c, n, t)
    /\ LET l == lrepository[c]
           k == h[c][n].req.key
       IN  \/ /\ noDelete
              /\ Answer(c, n)
              /\ UNCHANGED <<exists, store, lrepository, callFrame>>
           \/ ~noDelete /\ NilCall(c)
           \/ /\ ~noDelete /\ l # Nil
              /\ store' = [store EXCEPT ![l][Kind(t)] = @ \ {k}]
              /\ Answer(c, n)
              /\ UNCHANGED <<exists, lrepository, callFrame>>

\* encoder.Encode(&result), then the deferred wg.Done.
Reply(c, n) ==
    /\ ~crashed /\ h[c][n].pc = "reply"
    /\ h' = [h EXCEPT ![c][n] = Ended("done")]
    /\ wg' = [wg EXCEPT ![c] = @ - 1]
    /\ UNCHANGED <<repo, exists, store, noDelete, in, sent, eof, loop, lrepository, crashed>>

\* The cases of the switch that share a shape.
ServeGetStates(c, n)       == List(c, n, "ReqGetStates")
ServeGetPackfiles(c, n)    == List(c, n, "ReqGetPackfiles")
ServePutState(c, n)        == Put(c, n, "ReqPutState")
ServePutPackfile(c, n)     == Put(c, n, "ReqPutPackfile")
ServeGetState(c, n)        == Get(c, n, "ReqGetState")
ServeGetPackfileBlob(c, n) == Get(c, n, "ReqGetPackfileBlob")
ServeDeleteState(c, n)     == Delete(c, n, "ReqDeleteState")
ServeDeletePackfile(c, n)  == Delete(c, n, "ReqDeletePackfile")

Goroutine(c, n) ==
    \/ ServeCreate(c, n) \/ ServeOpen(c, n) \/ ServeClose(c, n)
    \/ ServeGetStates(c, n) \/ ServePutState(c, n) \/ ServeGetState(c, n)
    \/ ServeDeleteState(c, n) \/ ServeGetPackfiles(c, n)
    \/ ServePutPackfile(c, n) \/ ServeGetPackfile(c, n)
    \/ ServeGetPackfileBlob(c, n) \/ ServeDeletePackfile(c, n)
    \/ Reply(c, n)

\* Every connection has returned, or the process has ended.
Terminated ==
    /\ crashed \/ \A c \in Conns : loop[c] = "returned"
    /\ UNCHANGED vars

Next ==
    \/ Terminated
    \/ \E c \in Conns :
          \/ Accept(c) \/ Hangup(c) \/ Decode(c) \/ DecodeError(c) \/ Return(c)
          \/ \E r \in Requests : Send(c, r)
          \/ \E n \in Slots : Goroutine(c, n)

\* The Go scheduler runs every runnable goroutine: the accept loop, each
\* connection's decode loop and each request's goroutine.  The clients
\* are not fair: they may stop sending, and never hang up.
Fairness ==
    \A c \in Conns :
        /\ WF_vars(Accept(c)) /\ WF_vars(Decode(c))
        /\ WF_vars(DecodeError(c)) /\ WF_vars(Return(c))
        /\ \A n \in Slots : WF_vars(Goroutine(c, n))

Spec == Init /\ [][Next]_vars /\ Fairness

-----------------------------------------------------------------------------
(* Properties.                                                             *)

TypeOK ==
    /\ repo \in {ServerLoc, Nil}
    /\ exists \in [Locations -> BOOLEAN]
    /\ lrepository \in [Conns -> Locations \cup {Nil}]
    /\ loop \in [Conns -> {"accept", "reading", "waiting", "returned"}]
    /\ \A c \in Conns :
          /\ sent[c] \in 0 .. MaxReqs
          /\ wg[c] = Cardinality({n \in Slots : h[c][n].pc \in {"serve", "reply"}})
          /\ \A n \in Slots : (h[c][n].pc = "none") <=> n > Decoded(c)


\* Once a client has hung up, handleConnection returns (every goroutine
\* it started has encoded its answer and run wg.Done), unless the process
\* has ended.
ConnectionReturns ==
    \A c \in Conns : eof[c] ~> (loop[c] = "returned" \/ crashed)

\* No request a client sends makes a goroutine panic and end the server
\* process (and with it every other client's connection).
NoPanic == ~crashed
=============================================================================
