---------------------------- MODULE IngestServer ----------------------------
(***************************************************************************)
(* The ingest transport: IngestServer::start, run, stop and                *)
(* serve_connection (src/src/transport/server.cpp), the synchronous        *)
(* clients push_records and ping_server (client.cpp) and what the sockets  *)
(* in between do (socket.cpp).                                             *)
(*                                                                         *)
(* A client runs its script (hello, records or a ping, bye) as request and *)
(* reply; when the call returns an error its caller may call again with    *)
(* the same records, over a new connection, while the server still works   *)
(* on the old one.  A raw client stands for any other program that speaks  *)
(* the protocol: it sends a burst of frames and neither reads nor closes.  *)
(*                                                                         *)
(* Sockets: a send to a peer that is gone fails or is lost; what arrived   *)
(* before a reset is still read or is lost; a read waits until its         *)
(* deadline.  Deadlines have no duration here: one may expire whenever     *)
(* nothing is there to be read.                                            *)
(*                                                                         *)
(* Runtime::ingest is reduced to what its answer depends on: a runtime     *)
(* that is shutting down and a subject that is not known are errors, a     *)
(* sequence number that is not above what its source sent before is fenced *)
(* (Fence.SequenceDecision), everything else is stored.                    *)
(***************************************************************************)
EXTENDS Frame, FiniteSets

CONSTANTS
  Callers,           \* who calls push_records or ping_server
  Script,            \* the requests of every caller's call
  Raw,               \* the other programs
  Bursts,            \* what those send, in frames
  Good,              \* for every record: it decodes and its subject is known
  max_connections,
  require_hello,
  SocketRoom,        \* how much a connection takes that is not read, in cells
  MaxAttempts        \* bound of the model

ASSUME ServerAssumption ==
  /\ Callers \cap Raw = {} /\ IsFiniteSet(Callers \cup Raw)
  /\ max_connections \in Nat \ {0}
  /\ require_hello \in BOOLEAN
  /\ SocketRoom \in Nat /\ MaxAttempts \in Nat \ {0}
  /\ DOMAIN Good \subseteq Nat /\ Good \in [DOMAIN Good -> BOOLEAN]

\* A frame as clients send it: what an ingest frame carries is a record.
RequestFrame == {f \in [type : FrameType, arg : Nat] :
                   f.type = "ingest" => f.arg \in DOMAIN Good}

\* A call is a greeting, records or a ping, and a farewell at the end.  The
\* records of a call have different sequence numbers, in ascending order.
ASSUME ScriptAssumption ==
  /\ Bursts \subseteq Seq(RequestFrame)
  /\ Script \in [Callers -> Seq(RequestFrame)]
  /\ \A k \in Callers :
       /\ Len(Script[k]) > 0
       /\ \A i \in 1..Len(Script[k]) :
            /\ Script[k][i].type \in {"hello", "ingest", "ping", "bye"}
            /\ Script[k][i].type = "bye" <=> i = Len(Script[k])
       /\ \A i, j \in 1..Len(Script[k]) :
            /\ Script[k][i].type = "ingest" /\ Script[k][j].type = "ingest"
            /\ i < j
            => Script[k][i].arg < Script[k][j].arg

Clients == Callers \cup Raw
Connections == (Callers \X (1..MaxAttempts)) \cup (Raw \X {1})

\* What the thread of a connection does next.  In the four states in the middle
\* it has handed a record to the runtime, which stored or refused it, and is to
\* send the acknowledgement, or to count it.
WorkerState == {"none", "recv", "fail", "drain", "ack_stored", "ack_refused",
                "count_stored", "count_refused", "finished"}

VARIABLES
  stop_requested,
  listener,     \* "unbound", "listening" or "closed"
  backlog,      \* connections that wait for accept
  run,          \* where run() is
  workers,      \* the connections in run's vector of workers
  worker,       \* what the thread of every connection is doing
  buffer,       \* buffer_ of the decoder of serve_connection
  greeted,
  records_accepted, records_rejected,   \* of stats_
  runtime,      \* "up" or "shutting_down", which also cancels the token
  log,          \* the records that were stored, as <<client, record, attempt>>
  net,          \* the two directions and the two ends of every connection
  client        \* the callers

server_vars == <<stop_requested, listener, run, workers>>
stats == <<records_accepted, records_rejected>>
worker_vars == <<worker, buffer, greeted, stats, log>>
vars == <<server_vars, backlog, worker_vars, runtime, net, client>>

Idle == [pc |-> "idle", attempt |-> 0, step |-> 0, buffer |-> <<>>,
         outcomes |-> <<>>, result |-> "none"]

Init ==
  /\ stop_requested = FALSE
  /\ listener = "unbound" /\ backlog = <<>>
  /\ run = "not_running" /\ workers = {}
  /\ worker = [c \in Connections |-> "none"]
  /\ buffer = [c \in Connections |-> <<>>]
  /\ greeted = [c \in Connections |-> FALSE]
  /\ records_accepted = 0 /\ records_rejected = 0
  /\ runtime = "up"
  /\ log = {}
  /\ net = [c \in Connections |-> [up |-> <<>>, down |-> <<>>, client |-> "none",
                                   server |-> "none", reset |-> FALSE]]
  /\ client = [k \in Callers |-> Idle]

-----------------------------------------------------------------------------
(***************************************************************************)
(* Sockets.  dir is the direction, to the end that reads it.               *)
(***************************************************************************)
\* A peer that does not read has let the buffers between the ends fill up.
Blocked(n, dir, to) == n[to] = "deaf" /\ Len(n[dir]) >= SocketRoom

\* Socket::send_all: what the connection may look like, and the status.  It has
\* no deadline: it waits for as long as it is blocked.
Sends(n, dir, to, f) ==
  IF ~n.reset /\ n[to] # "closed"
    THEN {[net |-> [n EXCEPT ![dir] = @ \o encode_frame(f)], ok |-> TRUE] :
            free \in {TRUE} \ {Blocked(n, dir, to)}}
    ELSE [net : {n}, ok : BOOLEAN]

\* Socket::close: an end that closes with unread bytes resets the connection.
\* What nobody is left to read is forgotten.
Gone == [up |-> <<>>, down |-> <<>>, client |-> "closed", server |-> "closed", reset |-> TRUE]

Closings(n, end, dir) ==
  LET other == IF end = "client" THEN "server" ELSE "client"
  IN  IF n[other] \in {"closed", "deaf"} THEN {Gone}
      ELSE {[n EXCEPT ![end] = "closed", ![dir] = <<>>, !.reset = r] :
              r \in {n.reset, n.reset \/ n[dir] # <<>>}}

\* Mutant: reads have no deadline.
RecvFails_NoDeadline(n, dir, from) == n.reset

\* Socket::recv_some returns an error: a reset, or nothing before the deadline.
RecvFails(n, dir, from) == n.reset \/ (n[dir] = <<>> /\ n[from] # "closed")

\* ... or 0 after the last byte of a peer that has closed.
RecvEnds(n, dir, from) == n[dir] = <<>> /\ n[from] = "closed"

-----------------------------------------------------------------------------
(***************************************************************************)
(* The server's owner and the runtime it serves.                           *)
(***************************************************************************)
Ending == stop_requested \/ runtime # "up"

\* The condition of the loop, evaluated as soon as the iteration before is over:
\* accept fails or succeeds whatever happens to it later.
LoopOrJoin == IF Ending THEN "join" ELSE "accept"

start ==
  /\ listener = "unbound"
  /\ listener' = "listening"
  /\ run' = LoopOrJoin
  /\ UNCHANGED <<stop_requested, workers, backlog, worker_vars, runtime, net, client>>

stop ==
  /\ run # "not_running" /\ ~stop_requested
  /\ stop_requested' = TRUE
  /\ UNCHANGED <<listener, run, workers, backlog, worker_vars, runtime, net, client>>

\* The second half of stop: connections that were not accepted are reset.
StopCloses ==
  /\ stop_requested /\ listener = "listening"
  /\ listener' = "closed"
  /\ net' = [c \in Connections |->
               IF \E i \in DOMAIN backlog : backlog[i] = c
                 THEN [net[c] EXCEPT !.reset = TRUE] ELSE net[c]]
  /\ backlog' = <<>>
  /\ UNCHANGED <<stop_requested, run, workers, worker_vars, runtime, client>>

request_shutdown ==
  /\ runtime = "up"
  /\ runtime' = "shutting_down"
  /\ UNCHANGED <<server_vars, backlog, worker_vars, net, client>>

-----------------------------------------------------------------------------
(***************************************************************************)
(* IngestServer::run.                                                      *)
(***************************************************************************)
\* The deadline of accept has expired, or the listener was closed.
AcceptFails ==
  /\ run = "accept"
  /\ backlog = <<>> \/ listener = "closed"
  /\ run' = IF Ending THEN "join" ELSE "join_failed"
  /\ UNCHANGED <<stop_requested, listener, workers, backlog, worker_vars, runtime, net,
                 client>>

Finished(c) == worker[c] = "finished"

Reaped == {c \in workers : ~Finished(c)}

AtLimit(ws) == Cardinality(ws) >= max_connections

Accept ==
  /\ run = "accept" /\ backlog # <<>> /\ listener = "listening"
  /\ backlog' = Tail(backlog)
  /\ run' = LoopOrJoin
  /\ LET c == Head(backlog)
     IN  \/ /\ AtLimit(Reaped)
            /\ workers' = Reaped
            /\ \E r \in Sends(net[c], "down", "client", Frame("error", 0)) :
                 \E n \in Closings(r.net, "server", "up") : net' = [net EXCEPT ![c] = n]
            /\ UNCHANGED worker
         \/ /\ ~AtLimit(Reaped)
            /\ workers' = Reaped \cup {c}
            /\ worker' = [worker EXCEPT ![c] = "drain"]
            /\ net' = [net EXCEPT ![c].server = "open"]
  /\ UNCHANGED <<stop_requested, listener, buffer, greeted, stats, log, runtime, client>>

\* Mutant: a failed accept returns without joining.
RunJoins_OnlyStopped ==
  /\ run \in {"join", "join_failed"}
  /\ run = "join_failed" \/ \A c \in workers : Finished(c)
  /\ run' = IF run = "join" THEN "ok" ELSE "failed"
  /\ UNCHANGED <<stop_requested, listener, workers, backlog, worker_vars, runtime, net,
                 client>>

RunJoins ==
  /\ run \in {"join", "join_failed"}
  /\ \A c \in workers : Finished(c)
  /\ run' = IF run = "join" THEN "ok" ELSE "failed"
  /\ UNCHANGED <<stop_requested, listener, workers, backlog, worker_vars, runtime, net,
                 client>>

Returned == run \in {"ok", "failed"}

RunStep == AcceptFails \/ Accept \/ RunJoins

-----------------------------------------------------------------------------
(***************************************************************************)
(* IngestServer::serve_connection.                                         *)
(***************************************************************************)
\* It returns: the socket is destroyed, the thread says that it has finished.
Ends(c, n) ==
  /\ \E m \in Closings(n, "server", "up") : net' = [net EXCEPT ![c] = m]
  /\ worker' = [worker EXCEPT ![c] = "finished"]
  /\ buffer' = [buffer EXCEPT ![c] = <<>>]

\* send_frame and what follows: the connection ends when the reply is the last
\* one or was not sent.  The thread stays where it is for as long as the send is
\* blocked.
Answer(c, r, last) ==
  IF r.ok /\ ~last
    THEN /\ net' = [net EXCEPT ![c] = r.net]
         /\ buffer' = [buffer EXCEPT ![c] = consume(@)]
         /\ UNCHANGED worker
    ELSE Ends(c, r.net)

Reply(c, n, type, last) ==
  /\ \E r \in Sends(n, "down", "client", Frame(type, 0)) : Answer(c, r, last)
  /\ UNCHANGED stats

fail(c, n) == Reply(c, n, "error", TRUE)

WorkerRecv(c) ==
  /\ worker[c] = "recv"
  /\ \/ \E chunk \in Chunks(net[c].up) :
          LET read == [net[c] EXCEPT !.up = After(@, chunk)]
          IN  IF FeedRefused(buffer[c], chunk)
                THEN /\ net' = [net EXCEPT ![c] = read]
                     /\ worker' = [worker EXCEPT ![c] = "fail"]
                     /\ UNCHANGED <<buffer, stats>>
                ELSE /\ net' = [net EXCEPT ![c] = read]
                     /\ buffer' = [buffer EXCEPT ![c] = @ \o chunk]
                     /\ worker' = [worker EXCEPT ![c] = "drain"]
                     /\ UNCHANGED stats
     \/ /\ RecvFails(net[c], "up", "client") \/ RecvEnds(net[c], "up", "client")
        /\ Ends(c, net[c])
        /\ UNCHANGED stats
  /\ UNCHANGED <<greeted, log>>

\* The decoder has refused a chunk.
WorkerFails(c) ==
  /\ worker[c] = "fail"
  /\ fail(c, net[c])
  /\ UNCHANGED <<greeted, log>>

\* Mutant: the next sequence number in order is taken for a replay.
Replayed_OffByOne(k, i) == \E e \in log : e[1] = k /\ e[2] + 1 >= i

Replayed(k, i) == \E e \in log : e[1] = k /\ e[2] >= i

\* Mutant: a repeated sequence number is stored again.
Storable_AllowsReplay(k, i) == runtime = "up" /\ Good[i]

Storable(k, i) == runtime = "up" /\ Good[i] /\ ~Replayed(k, i)

\* decode_ingest_json and Runtime::ingest.  The frame is consumed here and not at the
\* end of the loop's body: nobody else sees the decoder.
HandleIngest(c, i) ==
  LET stored == Storable(c[1], i)
  IN  /\ log' = IF stored THEN log \cup {<<c[1], i, c[2]>>} ELSE log
      /\ worker' = [worker EXCEPT ![c] = IF stored THEN "ack_stored" ELSE "ack_refused"]
      /\ buffer' = [buffer EXCEPT ![c] = consume(@)]
      /\ UNCHANGED <<net, stats>>

\* Mutant: the acknowledgement says stored whatever the runtime answered.
Ack_Always(stored) == Frame("ingest_ack", 1)

\* The field "accepted".
Ack(stored) == Frame("ingest_ack", IF stored THEN 1 ELSE 0)

\* Only now the producer is told; a thread that cannot tell it does not count it either.
Acknowledge(c) ==
  LET stored == worker[c] = "ack_stored"
  IN  /\ worker[c] \in {"ack_stored", "ack_refused"}
      /\ \E r \in Sends(net[c], "down", "client", Ack(stored)) :
           IF r.ok
             THEN /\ net' = [net EXCEPT ![c] = r.net]
                  /\ worker' = [worker EXCEPT ![c] = IF stored THEN "count_stored"
                                                     ELSE "count_refused"]
                  /\ UNCHANGED buffer
             ELSE Ends(c, r.net)
      /\ UNCHANGED <<stats, greeted, log>>

\* Under stats_mutex_.
CountRecord(c) ==
  LET stored == worker[c] = "count_stored"
  IN  /\ worker[c] \in {"count_stored", "count_refused"}
      /\ records_accepted' = records_accepted + IF stored THEN 1 ELSE 0
      /\ records_rejected' = records_rejected + IF stored THEN 0 ELSE 1
      /\ worker' = [worker EXCEPT ![c] = "drain"]
      /\ UNCHANGED <<net, buffer, greeted, log>>

\* One frame of the inner loop.
HandleFrame(c) ==
  LET f == NextFrame(buffer[c])
  IN  /\ worker[c] = "drain" /\ NextIsFrame(buffer[c])
      /\ \/ f.type = "hello" /\ Reply(c, net[c], "welcome", FALSE) /\ UNCHANGED log
         \/ f.type = "ingest" /\ (require_hello => greeted[c]) /\ HandleIngest(c, f.arg)
         \/ f.type = "ping" /\ Reply(c, net[c], "pong", FALSE) /\ UNCHANGED log
         \/ f.type = "stats" /\ Reply(c, net[c], "stats_reply", FALSE) /\ UNCHANGED log
         \/ f.type = "bye" /\ Reply(c, net[c], "bye", TRUE) /\ UNCHANGED log
         \/ /\ \/ f.type = "ingest" /\ require_hello /\ ~greeted[c]
               \/ f.type \notin {"hello", "ingest", "ping", "stats", "bye"}
            /\ fail(c, net[c]) /\ UNCHANGED log
      /\ greeted' = [greeted EXCEPT ![c] = @ \/ f.type = "hello"]

\* The inner loop has ended, the condition of the outer one is evaluated.
WorkerDrained(c) ==
  /\ worker[c] = "drain"
  /\ ~NextIsFrame(buffer[c])
  /\ \/ NextIsError(buffer[c]) /\ fail(c, net[c])
     \/ ~NextIsError(buffer[c]) /\ Ending /\ Reply(c, net[c], "bye", TRUE)
     \/ /\ ~NextIsError(buffer[c]) /\ ~Ending
        /\ worker' = [worker EXCEPT ![c] = "recv"]
        /\ UNCHANGED <<net, buffer, stats>>
  /\ UNCHANGED <<greeted, log>>

serve_connection(c) ==
  /\ \/ WorkerRecv(c) \/ WorkerFails(c) \/ HandleFrame(c) \/ WorkerDrained(c)
     \/ Acknowledge(c) \/ CountRecord(c)
  /\ UNCHANGED <<server_vars, backlog, runtime, client>>

-----------------------------------------------------------------------------
(***************************************************************************)
(* push_records and ping_server.                                           *)
(***************************************************************************)
Connection(k) == <<k, client[k].attempt>>
Request(k) == Script[k][client[k].step]
Expected(type) == CASE type = "hello" -> "welcome" [] type = "ingest" -> "ingest_ack"
                    [] type = "ping" -> "pong" [] type = "bye" -> "bye"

client_frame == <<server_vars, worker_vars, runtime>>

\* The call returns and closes its socket.
Return(k, n, result) ==
  /\ client' = [client EXCEPT ![k].pc = "idle", ![k].result = result, ![k].buffer = <<>>]
  /\ \E m \in Closings(n, "client", "down") : net' = [net EXCEPT ![Connection(k)] = m]

\* The caller calls again after an error.
connect(k) ==
  /\ client[k].pc = "idle" /\ client[k].attempt < MaxAttempts /\ client[k].result # "ok"
  /\ listener # "unbound"
  /\ LET a == client[k].attempt + 1
     IN  IF listener = "listening"
           THEN /\ client' = [client EXCEPT ![k] = [Idle EXCEPT !.pc = "send", !.attempt = a,
                                                               !.step = 1]]
                /\ backlog' = Append(backlog, <<k, a>>)
                /\ net' = [net EXCEPT ![<<k, a>>].client = "open"]
           ELSE /\ client' = [client EXCEPT ![k] = [Idle EXCEPT !.attempt = a,
                                                               !.result = "error"]]
                /\ UNCHANGED <<backlog, net>>
  /\ UNCHANGED client_frame

\* The first half of exchange.  A farewell that cannot be said does not matter.
Ask(k) ==
  LET c == Connection(k)
      failed == IF Request(k).type = "bye" THEN "ok" ELSE "error"
  IN  /\ client[k].pc = "send"
      /\ \E r \in Sends(net[c], "up", "server", Request(k)) :
           \/ /\ r.ok
              /\ net' = [net EXCEPT ![c] = r.net]
              /\ client' = [client EXCEPT ![k].pc = "recv", ![k].buffer = <<>>]
           \/ ~r.ok /\ Return(k, r.net, failed)
      /\ UNCHANGED <<client_frame, backlog>>

\* The reply to the request has arrived whole: the rest of the chunk goes with
\* the decoder.
Took(k, f) ==
  [client[k] EXCEPT !.pc = "send", !.step = @ + 1, !.buffer = <<>>,
                    !.outcomes = IF f.type = "ingest_ack" THEN Append(@, f.arg) ELSE @]

\* The second half of exchange.
Hear(k) ==
  LET c == Connection(k)
      failed == IF Request(k).type = "bye" THEN "ok" ELSE "error"
      last == client[k].step = Len(Script[k])
  IN  /\ client[k].pc = "recv"
      /\ \/ /\ RecvFails(net[c], "down", "server") \/ RecvEnds(net[c], "down", "server")
            /\ Return(k, net[c], failed)
         \/ \E chunk \in Chunks(net[c].down) :
              LET heard == client[k].buffer \o chunk
                  read == [net[c] EXCEPT !.down = After(@, chunk)]
                  expected == /\ NextIsFrame(heard)
                              /\ NextFrame(heard).type = Expected(Request(k).type)
                  more == ~NextIsFrame(heard) /\ ~NextIsError(heard)
              IN  \/ /\ more /\ ~FeedRefused(client[k].buffer, chunk)
                     /\ client' = [client EXCEPT ![k].buffer = heard]
                     /\ net' = [net EXCEPT ![c] = read]
                  \/ /\ expected /\ ~last /\ ~FeedRefused(client[k].buffer, chunk)
                     /\ client' = [client EXCEPT ![k] = Took(k, NextFrame(heard))]
                     /\ net' = [net EXCEPT ![c] = read]
                  \/ /\ expected /\ last /\ ~FeedRefused(client[k].buffer, chunk)
                     /\ Return(k, read, "ok")
                  \/ /\ (~more /\ ~expected) \/ FeedRefused(client[k].buffer, chunk)
                     /\ Return(k, read, failed)
      /\ UNCHANGED <<client_frame, backlog>>

Caller(k) == connect(k) \/ Ask(k) \/ Hear(k)

-----------------------------------------------------------------------------
(***************************************************************************)
(* Another program that speaks the protocol: it sends some frames and then *)
(* neither reads nor closes.                                               *)
(***************************************************************************)
RawBurst(k) ==
  /\ listener = "listening" /\ net[<<k, 1>>].client = "none"
  /\ \E burst \in Bursts :
       net' = [net EXCEPT ![<<k, 1>>].client = "deaf",
                          ![<<k, 1>>].up = encode_frames(burst)]
  /\ backlog' = Append(backlog, <<k, 1>>)
  /\ UNCHANGED <<server_vars, worker_vars, runtime, client>>

Next ==
  \/ start \/ stop \/ StopCloses \/ request_shutdown
  \/ RunStep
  \/ \E c \in Connections : serve_connection(c)
  \/ \E k \in Callers : Caller(k)
  \/ \E k \in Raw : RawBurst(k)

\* A thread that can run does, a deadline expires, a call that stop or a client
\* has begun goes on.  Nobody has to start, stop, call or break anything.
Fairness ==
  /\ WF_vars(StopCloses) /\ WF_vars(RunStep)
  /\ \A c \in Connections : WF_vars(serve_connection(c))
  /\ \A k \in Callers : WF_vars(Ask(k) \/ Hear(k))

Spec == Init /\ [][Next]_vars /\ Fairness

-----------------------------------------------------------------------------
Cell == [part : {"header", "body"}, frame : [type : FrameType, arg : Nat]]

\* Types, and the bound of the decoder's buffer (FrameDecoder::feed).
TypeOK ==
  /\ stop_requested \in BOOLEAN
  /\ listener \in {"unbound", "listening", "closed"}
  /\ backlog \in Seq(Connections)
  /\ run \in {"not_running", "accept", "join", "join_failed", "ok", "failed"}
  /\ workers \subseteq Connections
  /\ worker \in [Connections -> WorkerState]
  /\ \A c \in Connections : buffer[c] \in Seq(Cell) /\ Len(buffer[c]) <= MaxBuffer
  /\ greeted \in [Connections -> BOOLEAN]
  /\ records_accepted \in Nat /\ records_rejected \in Nat
  /\ runtime \in {"up", "shutting_down"}
  /\ log \subseteq Clients \X (DOMAIN Good) \X (1..MaxAttempts)
  /\ \A k \in Callers : client[k].pc \in {"idle", "send", "recv"}

\* No more than max_connections threads serve a connection at a time, however
\* late finished ones are reaped (run: the bound is checked after
\* reap_finished).
ThreadsBounded == Cardinality({c \in Connections : worker[c] \notin {"none", "finished"}})
                    <= max_connections

\* run returns only after the last connection has ended, also when it returns
\* because accept failed (server.hpp: "joins every worker").
RunOutlivesConnections == Returned => \A c \in Connections : worker[c] \in {"none", "finished"}

\* The steps of a call that push a record, and the position of one among them.
Pushes(k) == {s \in DOMAIN Script[k] : Script[k][s].type = "ingest"}
Nth(k, s) == Cardinality({t \in Pushes(k) : t <= s})

\* What a caller has been told about each record of its call is what the server
\* did with it over the connection of this call: an acknowledgement is never
\* one of another record or of an earlier, broken call (exchange, and
\* serve_connection's acknowledgement).
AcknowledgementsTrue ==
  \A k \in Callers : \A s \in Pushes(k) :
    Nth(k, s) \in DOMAIN client[k].outcomes =>
      (client[k].outcomes[Nth(k, s)] = 1
         <=> <<k, Script[k][s].arg, client[k].attempt>> \in log)

\* A batch is pushed again after an error, and the server may still handle the
\* last record of the broken connection: no record is stored twice.
StoredOnce == \A d, e \in log : d[1] = e[1] /\ d[2] = e[2] => d = e

\* A push that reports success, after however many broken ones, leaves no good
\* record out, unless the runtime was shutting down.
PushIsComplete ==
  runtime = "up" =>
    \A k \in Callers : client[k].result = "ok" =>
      \A s \in Pushes(k) :
        Good[Script[k][s].arg] =>
          \E a \in 1..MaxAttempts : <<k, Script[k][s].arg, a>> \in log

\* The connections whose thread has stored a record and not counted it yet.
Uncounted == {c \in Connections : worker[c] \in {"ack_stored", "count_stored"}}

\* The statistics lag behind the store by the records that a thread is about to
\* acknowledge or to count, be its send blocked forever, and by acknowledgements
\* that could not be sent, each of which has ended its connection.
StatsTrue ==
  LET stored == Cardinality(log)
      counted == records_accepted + Cardinality(Uncounted)
  IN  /\ counted <= stored
      /\ stored <= counted + Cardinality({c \in Connections : Finished(c)})

\* Threads, buffers and statistics are under control at all times: decoders
\* and connection threads within their bounds, no thread left when run returns,
\* and no record counted that was not stored, whatever breaks in between.
ServerInv == TypeOK /\ ThreadsBounded /\ RunOutlivesConnections /\ StatsTrue

\* The thread of connection c is in send_all to a peer that does not read, and
\* stays there: nothing but the peer could end it.
Stuck(c) ==
  /\ Blocked(net[c], "down", "client")
  /\ \/ worker[c] \in {"fail", "ack_stored", "ack_refused"}
     \/ worker[c] = "drain" /\ (NextIsFrame(buffer[c]) \/ NextIsError(buffer[c]) \/ Ending)

\* A stop ends every thread, released from accept or a read by its deadline, but
\* one that is stuck in a send; and run, which joins them all, waits for no other.
StopEndsRun ==
  stop_requested ~>
    /\ \A c \in Connections : worker[c] = "none" \/ Finished(c) \/ Stuck(c)
    /\ Returned \/ \E c \in workers : Stuck(c)

\* Every call of a client returns, whatever happens to the server and its threads.
CallsReturn == \A k \in Callers : client[k].pc # "idle" ~> client[k].pc = "idle"

\* "a collector must not block forever on a peer that stopped talking"
\* (socket.hpp:15): no caller waits forever for a server that stops, refuses it or
\* is cut off, and no thread of the server for a peer that sends nothing.  For one
\* that does not read it does: send_all has no deadline (socket.cpp:159), and that
\* is the only thing that keeps a thread, and run behind it, from returning.
EverythingReturns == StopEndsRun /\ CallsReturn
=============================================================================
