-------------------------- MODULE IngestServerProofs --------------------------
(***************************************************************************)
(* Proofs about IngestServer: its threads, sockets and statistics, that no *)
(* record is stored twice, and what callers may conclude, for any callers, *)
(* scripts, bursts and limits.                                             *)
(***************************************************************************)
EXTENDS IngestServer, SequenceTheorems, FiniteSetTheorems, TLAPS

-----------------------------------------------------------------------------
(***************************************************************************)
(* The inductive invariant.                                                *)
(***************************************************************************)
RequestCell == {x \in Cell : x.frame \in RequestFrame}

Net == [up : Seq(RequestCell), down : Seq(Cell), client : {"none", "open", "deaf", "closed"},
        server : {"none", "open", "closed"}, reset : BOOLEAN]

CallState == [pc : {"idle", "send", "recv"}, attempt : 0..MaxAttempts, step : Nat,
              buffer : Seq(Cell), outcomes : Seq(Nat), result : {"none", "ok", "error"}]

Types ==
  /\ stop_requested \in BOOLEAN
  /\ listener \in {"unbound", "listening", "closed"}
  /\ backlog \in Seq(Connections)
  /\ run \in {"not_running", "accept", "join", "join_failed", "ok", "failed"}
  /\ workers \subseteq Connections
  /\ worker \in [Connections -> WorkerState]
  /\ buffer \in [Connections -> Seq(RequestCell)]
  /\ greeted \in [Connections -> BOOLEAN]
  /\ runtime \in {"up", "shutting_down"}
  /\ net \in [Connections -> Net]
  /\ client \in [Callers -> CallState]

\* A connection that waits for accept was made, has no thread and is not reset.
Waiting(c) == worker[c] = "none" /\ net[c].server = "none" /\ net[c].client # "none"
              /\ ~net[c].reset

\* The connections in the backlog are different ones.
BacklogOK ==
  /\ \A i \in 1..Len(backlog) : Waiting(backlog[i])
  /\ \A i, j \in 1..Len(backlog) : backlog[i] = backlog[j] => i = j

Unused == [up |-> <<>>, down |-> <<>>, client |-> "none", server |-> "none", reset |-> FALSE]

\* How a thread, its connection and run's vector of workers belong together.
ConnectionOK(c) ==
  /\ Len(buffer[c]) <= MaxBuffer
  /\ worker[c] \notin {"none", "finished"} => c \in workers /\ net[c].server = "open"
  /\ worker[c] \in {"none", "finished"} => buffer[c] = <<>>
  /\ worker[c] = "none" => c \notin workers
  /\ worker[c] = "finished" => net[c].server = "closed"
  /\ net[c].server = "none" => worker[c] = "none" /\ net[c].down = <<>>
  /\ net[c].server = "closed" => net[c].up = <<>> /\ worker[c] \in {"none", "finished"}
  /\ net[c].client = "none" => net[c] = Unused /\ worker[c] = "none"
  /\ net[c].server = "open" /\ net[c].client = "open" => ~net[c].reset

RunOK ==
  /\ listener = "unbound" => run = "not_running"
  /\ Returned => \A c \in workers : Finished(c)

\* The connection of an attempt that was not made yet is unused.
FreshOK ==
  \A k \in Callers : \A a \in 1..MaxAttempts :
    a > client[k].attempt => net[<<k, a>>].client = "none"

\* A call that has not returned is at a step of its script and its end is open.
CallsOpen ==
  \A k \in Callers : client[k].pc # "idle" =>
    /\ client[k].attempt > 0 /\ client[k].step \in 1..Len(Script[k])
    /\ net[Connection(k)].client = "open"

ServerOK ==
  /\ BacklogOK /\ RunOK /\ ThreadsBounded
  /\ \A c \in Connections : ConnectionOK(c)
  /\ FreshOK /\ CallsOpen

LogOK ==
  /\ records_accepted \in Nat /\ records_rejected \in Nat
  /\ IsFiniteSet(log)
  /\ log \subseteq Clients \X (DOMAIN Good) \X (1..MaxAttempts)
  /\ StoredOnce /\ StatsTrue

IndInv == Types /\ ServerOK /\ LogOK

-----------------------------------------------------------------------------
(***************************************************************************)
(* Frames and sockets.                                                     *)
(***************************************************************************)
AnyFrame == [type : FrameType, arg : Nat]

LEMMA EncodeFrame ==
  ASSUME NEW f \in AnyFrame
  PROVE  /\ encode_frame(f) \in Seq(Cell) /\ Len(encode_frame(f)) = 2
         /\ \A i \in 1..2 : encode_frame(f)[i].frame = f
         /\ f \in RequestFrame => encode_frame(f) \in Seq(RequestCell)
<1>1. /\ [part |-> "header", frame |-> f] \in Cell /\ [part |-> "body", frame |-> f] \in Cell
      /\ f \in RequestFrame => /\ [part |-> "header", frame |-> f] \in RequestCell
                               /\ [part |-> "body", frame |-> f] \in RequestCell
  BY DEF Cell, AnyFrame, RequestCell
<1>2. QED
  BY <1>1 DEF encode_frame

LEMMA EncodeFrames ==
  ASSUME NEW fs \in Seq(RequestFrame)
  PROVE  encode_frames(fs) \in Seq(RequestCell)
<1>1. Len(fs) \in Nat /\ \A i \in 1..Len(fs) : fs[i] \in RequestFrame
  BY LenProperties, ElementOfSeq
<1>2. ASSUME NEW i \in 1..(2 * Len(fs))
      PROVE  [part |-> IF i % 2 = 1 THEN "header" ELSE "body",
              frame |-> fs[(i + 1) \div 2]] \in RequestCell
  <2>1. (i + 1) \div 2 \in 1..Len(fs)
    BY <1>1
  <2>2. fs[(i + 1) \div 2] \in RequestFrame
    BY <1>1, <2>1
  <2>3. QED
    BY <2>2 DEF RequestCell, Cell, RequestFrame
<1>3. 2 * Len(fs) \in Nat
  BY <1>1
<1>4. QED
  BY <1>2, <1>3, IsASeq DEF encode_frames

LEMMA RequestsAreCells == Seq(RequestCell) \subseteq Seq(Cell)
BY DEF RequestCell

LEMMA SendsDown ==
  ASSUME NEW n \in Net, NEW f \in AnyFrame, NEW r \in Sends(n, "down", "client", f)
  PROVE  /\ r.net \in Net /\ r.ok \in BOOLEAN
         /\ r.net.up = n.up /\ r.net.client = n.client /\ r.net.server = n.server
         /\ r.net.reset = n.reset
         /\ IF ~n.reset /\ n.client # "closed"
              THEN r.ok = TRUE /\ r.net.down = n.down \o encode_frame(f) ELSE r.net = n
<1>1. n.down \in Seq(Cell) /\ n.down \o encode_frame(f) \in Seq(Cell)
  BY EncodeFrame, ConcatProperties DEF Net
<1>2. CASE ~n.reset /\ n.client # "closed"
  <2>1. r = [net |-> [n EXCEPT !["down"] = @ \o encode_frame(f)], ok |-> TRUE]
    BY <1>2 DEF Sends
  <2>2. r.net = [n EXCEPT !.down = n.down \o encode_frame(f)] /\ r.ok = TRUE
    BY <2>1
  <2>3. QED
    BY <1>1, <1>2, <2>2 DEF Net
<1>3. CASE ~(~n.reset /\ n.client # "closed")
  BY <1>3 DEF Sends
<1>4. QED
  BY <1>2, <1>3

LEMMA SendsUp ==
  ASSUME NEW n \in Net, NEW f \in RequestFrame, NEW r \in Sends(n, "up", "server", f)
  PROVE  /\ r.net \in Net /\ r.ok \in BOOLEAN
         /\ r.net.down = n.down /\ r.net.client = n.client /\ r.net.server = n.server
         /\ r.net.reset = n.reset
         /\ IF ~n.reset /\ n.server # "closed"
              THEN r.ok = TRUE /\ r.net.up = n.up \o encode_frame(f) ELSE r.net = n
<1>1. n.up \in Seq(RequestCell) /\ n.up \o encode_frame(f) \in Seq(RequestCell)
  BY EncodeFrame, ConcatProperties DEF Net, RequestFrame, AnyFrame
<1>2. CASE ~n.reset /\ n.server # "closed"
  <2>1. r = [net |-> [n EXCEPT !["up"] = @ \o encode_frame(f)], ok |-> TRUE]
    BY <1>2 DEF Sends
  <2>2. r.net = [n EXCEPT !.up = n.up \o encode_frame(f)] /\ r.ok = TRUE
    BY <2>1
  <2>3. QED
    BY <1>1, <1>2, <2>2 DEF Net
<1>3. CASE ~(~n.reset /\ n.server # "closed")
  BY <1>3 DEF Sends
<1>4. QED
  BY <1>2, <1>3

LEMMA ClosingsServer ==
  ASSUME NEW n \in Net, NEW m \in Closings(n, "server", "up"), n.client # "none"
  PROVE  /\ m \in Net /\ m.up = <<>> /\ m.server = "closed" /\ m.client # "none"
         /\ n.client = "open" => m.down = n.down /\ m.client = "open"
         /\ n.client # "open" => m = Gone
<1>1. CASE n.client \in {"closed", "deaf"}
  <2>1. m = Gone
    BY <1>1 DEF Closings
  <2>2. QED
    BY <1>1, <2>1 DEF Gone, Net
<1>2. CASE n.client \notin {"closed", "deaf"}
  <2>1. n.client = "open"
    BY <1>2 DEF Net
  <2>2. PICK r \in {n.reset, n.reset \/ n.up # <<>>} :
          m = [n EXCEPT !["server"] = "closed", !["up"] = <<>>, !.reset = r]
    BY <1>2 DEF Closings
  <2>3. n.reset \in BOOLEAN
    BY DEF Net
  <2>4. r \in BOOLEAN
    BY <2>2, <2>3, Zenon
  <2>5. m = [up |-> <<>>, down |-> n.down, client |-> n.client, server |-> "closed", reset |-> r]
    BY <2>2 DEF Net
  <2>6. QED
    BY <2>1, <2>4, <2>5 DEF Net
<1>3. QED
  BY <1>1, <1>2

LEMMA ClosingsClient ==
  ASSUME NEW n \in Net, NEW m \in Closings(n, "client", "down")
  PROVE  /\ m \in Net /\ m.down = <<>> /\ m.client = "closed" /\ m.server = n.server
         /\ n.server # "closed" => m.up = n.up
         /\ n.server = "closed" => m = Gone
         /\ n.server # "closed" /\ n.down = <<>> => m.reset = n.reset
<1>1. CASE n.server \in {"closed", "deaf"}
  <2>1. m = Gone /\ n.server = "closed"
    BY <1>1 DEF Closings, Net
  <2>2. QED
    BY <1>1, <2>1 DEF Gone, Net
<1>2. CASE n.server \notin {"closed", "deaf"}
  <2>1. PICK r \in {n.reset, n.reset \/ n.down # <<>>} :
          m = [n EXCEPT !["client"] = "closed", !["down"] = <<>>, !.reset = r]
    BY <1>2 DEF Closings
  <2>2. n.reset \in BOOLEAN
    BY DEF Net
  <2>3. r \in BOOLEAN /\ (n.down = <<>> => r = n.reset)
    BY <2>1, <2>2, Zenon
  <2>4. m = [up |-> n.up, down |-> <<>>, client |-> "closed", server |-> n.server, reset |-> r]
    BY <2>1 DEF Net
  <2>5. QED
    BY <1>2, <2>3, <2>4 DEF Net
<1>3. QED
  BY <1>1, <1>2

LEMMA ConsumeProperties ==
  ASSUME NEW S, NEW b \in Seq(S), Len(b) > 1
  PROVE  consume(b) \in Seq(S) /\ Len(consume(b)) = Len(b) - 2
<1>1. b # <<>> /\ Len(b) \in Nat
  BY LenProperties, EmptySeq
<1>2. Tail(b) \in Seq(S) /\ Len(Tail(b)) = Len(b) - 1
  BY <1>1, HeadTailProperties
<1>3. Tail(b) # <<>>
  <2>1. Len(Tail(b)) # 0
    BY <1>1, <1>2
  <2>2. Len(<<>>) = 0
    OBVIOUS
  <2>3. QED
    BY <2>1, <2>2, Zenon
<1>4. QED
  BY <1>1, <1>2, <1>3, HeadTailProperties DEF consume

LEMMA ChunkProperties ==
  ASSUME NEW S, NEW s \in Seq(S), NEW chunk \in Chunks(s)
  PROVE  /\ chunk \in Seq(S) /\ Len(chunk) \in 1..Len(s) /\ Len(s) \in Nat
         /\ \A i \in 1..Len(chunk) : chunk[i] = s[i]
         /\ After(s, chunk) \in Seq(S) /\ Len(After(s, chunk)) = Len(s) - Len(chunk)
         /\ \A i \in 1..(Len(s) - Len(chunk)) : After(s, chunk)[i] = s[i + Len(chunk)]
<1>1. PICK n \in 1..Len(s) : chunk = SubSeq(s, 1, n)
  BY DEF Chunks
<1>2. /\ Len(s) \in Nat
      /\ \A i \in 1..Len(s) : s[i] \in S
  BY LenProperties, ElementOfSeq
<1>3. \A i \in 1..n : s[i] \in S
  BY <1>1, <1>2
<1>4. /\ chunk \in Seq(S) /\ Len(chunk) = (IF 1 <= n THEN n - 1 + 1 ELSE 0)
      /\ \A i \in 1..(n - 1 + 1) : chunk[i] = s[1 + i - 1]
  <2>1. 1 \in Int /\ n \in Int
    BY <1>1, <1>2
  <2>2. QED
    BY <1>1, <1>3, <2>1, SubSeqProperties
<1>5. Len(chunk) = n
  BY <1>1, <1>2, <1>4
<1>6. ASSUME NEW i \in 1..n PROVE chunk[i] = s[i]
  <2>1. i \in 1..(n - 1 + 1) /\ 1 + i - 1 = i
    BY <1>1, <1>2
  <2>2. QED
    BY <1>4, <2>1
<1> DEFINE rest == After(s, chunk)
<1>7. rest = SubSeq(s, n + 1, Len(s))
  BY <1>5 DEF After
<1> HIDE DEF rest
<1>8. \A i \in (n + 1)..Len(s) : s[i] \in S
  BY <1>1, <1>2
<1>9. /\ rest \in Seq(S) /\ Len(rest) = (IF n + 1 <= Len(s) THEN Len(s) - (n + 1) + 1 ELSE 0)
      /\ \A i \in 1..(Len(s) - (n + 1) + 1) : rest[i] = s[(n + 1) + i - 1]
  <2>1. n + 1 \in Int /\ Len(s) \in Int
    BY <1>1, <1>2
  <2>2. QED
    BY <1>7, <1>8, <2>1, SubSeqProperties
<1>10. Len(rest) = Len(s) - n
  <2>1. CASE n + 1 <= Len(s)
    BY <1>1, <1>2, <1>9, <2>1
  <2>2. CASE ~(n + 1 <= Len(s))
    <3>1. n = Len(s)
      BY <1>1, <1>2, <2>2
    <3>2. QED
      BY <1>2, <1>9, <2>2, <3>1
  <2>3. QED
    BY <2>1, <2>2
<1>11. ASSUME NEW i \in 1..(Len(s) - n) PROVE rest[i] = s[i + n]
  <2>1. i \in 1..(Len(s) - (n + 1) + 1) /\ (n + 1) + i - 1 = i + n
    BY <1>1, <1>2
  <2>2. QED
    BY <1>9, <2>1
<1>12. QED
  BY <1>1, <1>2, <1>4, <1>5, <1>6, <1>9, <1>10, <1>11 DEF rest

-----------------------------------------------------------------------------
(***************************************************************************)
(* Steps of a connection's thread.                                         *)
(***************************************************************************)
Running == {c \in Connections : worker[c] \notin {"none", "finished"}}

Ended == {c \in Connections : Finished(c)}

LEMMA ConnectionsFinite == IsFiniteSet(Connections)
<1>1. Callers \subseteq Callers \cup Raw /\ Raw \subseteq Callers \cup Raw
  OBVIOUS
<1>2. IsFiniteSet(Callers) /\ IsFiniteSet(Raw)
  BY <1>1, ServerAssumption, FS_Subset
<1>3. IsFiniteSet(1..MaxAttempts)
  BY ServerAssumption, FS_Interval
<1>4. IsFiniteSet({1})
  BY FS_Singleton
<1>5. IsFiniteSet(Callers \X (1..MaxAttempts)) /\ IsFiniteSet(Raw \X {1})
  BY <1>2, <1>3, <1>4, FS_Product
<1>6. QED
  BY <1>5, FS_Union DEF Connections

LEMMA ConnectionParts ==
  ASSUME NEW c \in Connections
  PROVE  c = <<c[1], c[2]>> /\ c[1] \in Clients /\ c[2] \in 1..MaxAttempts
BY ServerAssumption DEF Connections, Clients

LEMMA CallConnection ==
  ASSUME Types, CallsOpen, NEW k \in Callers, client[k].pc # "idle"
  PROVE  /\ Connection(k) \in Connections /\ client[k].attempt \in 1..MaxAttempts
         /\ client[k].step \in 1..Len(Script[k])
<1>1. client[k] \in CallState /\ client[k].attempt > 0 /\ client[k].step \in 1..Len(Script[k])
  BY DEF Types, CallsOpen
<1>2. client[k].attempt \in 1..MaxAttempts
  BY <1>1, ServerAssumption DEF CallState
<1>3. QED
  BY <1>1, <1>2 DEF Connection, Connections

\* Connection c gets the socket n, its thread the state w and the buffer b.
LEMMA ServeStep ==
  ASSUME Types, ServerOK, NEW c \in Connections, worker[c] \notin {"none", "finished"},
         NEW n \in Net, NEW w \in WorkerState \ {"none"},
         NEW b \in Seq(RequestCell), Len(b) <= MaxBuffer,
         n.client # "none", net[c].client = "open" => n.client = "open",
         w # "finished" => n.server = "open" /\ n.client = net[c].client /\ n.reset = net[c].reset,
         w = "finished" => n.server = "closed" /\ n.up = <<>> /\ b = <<>>,
         net' = [net EXCEPT ![c] = n], worker' = [worker EXCEPT ![c] = w],
         buffer' = [buffer EXCEPT ![c] = b],
         greeted' \in [Connections -> BOOLEAN],
         UNCHANGED <<server_vars, backlog, runtime, client>>
  PROVE  Types' /\ ServerOK'
<1>1. UNCHANGED <<stop_requested, listener, run, workers, backlog, runtime, client>>
  BY DEF server_vars
<1>2. Types'
  BY <1>1 DEF Types, WorkerState
<1>3. /\ c \in workers /\ net[c].client # "none" /\ ~Returned
      /\ \A i \in 1..Len(backlog) : backlog[i] # c
  <2>1. ConnectionOK(c)
    BY DEF ServerOK
  <2>2. c \in workers /\ net[c].client # "none"
    BY <2>1 DEF ConnectionOK
  <2>3. ~Returned
    BY <2>2 DEF ServerOK, RunOK, Finished
  <2>4. QED
    BY <2>2, <2>3 DEF ServerOK, BacklogOK, Waiting
<1>4. \A d \in Connections : d # c =>
        net'[d] = net[d] /\ worker'[d] = worker[d] /\ buffer'[d] = buffer[d]
  BY DEF Types
<1>5. net'[c] = n /\ worker'[c] = w /\ buffer'[c] = b
  BY DEF Types
<1>6. BacklogOK'
  <2>1. ASSUME NEW i \in 1..Len(backlog) PROVE Waiting(backlog[i])'
    <3>1. backlog[i] \in Connections
      BY ElementOfSeq DEF Types
    <3>2. QED
      BY <1>1, <1>3, <1>4, <3>1 DEF ServerOK, BacklogOK, Waiting
  <2>2. QED
    BY <1>1, <2>1 DEF ServerOK, BacklogOK
<1>7. RunOK'
  BY <1>1, <1>3 DEF ServerOK, RunOK, Returned
<1>8. ThreadsBounded'
  <2>1. Running' \subseteq Running
    BY <1>4, <1>5 DEF Running, Types
  <2>2. IsFiniteSet(Running)
    BY ConnectionsFinite, FS_Subset DEF Running
  <2>3. Cardinality(Running') <= Cardinality(Running) /\ IsFiniteSet(Running')
    BY <2>1, <2>2, FS_Subset
  <2>4. Cardinality(Running) <= max_connections
    BY DEF ServerOK, ThreadsBounded, Running
  <2>5. Cardinality(Running') \in Nat /\ Cardinality(Running) \in Nat
    BY <2>2, <2>3, FS_CardinalityType
  <2>6. Cardinality(Running') <= max_connections
    BY <2>3, <2>4, <2>5, ServerAssumption
  <2>7. QED
    BY <2>6 DEF ThreadsBounded, Running
<1>9. ASSUME NEW d \in Connections PROVE ConnectionOK(d)'
  <2>1. CASE d # c
    BY <1>1, <1>4, <2>1 DEF ServerOK, ConnectionOK
  <2>2. CASE d = c
    <3>1. ConnectionOK(c)
      BY DEF ServerOK
    <3>2. QED
      BY <1>1, <1>3, <1>5, <2>2, <3>1 DEF ConnectionOK
  <2>3. QED
    BY <2>1, <2>2
<1>10. FreshOK'
  <2>1. ASSUME NEW k \in Callers, NEW a \in 1..MaxAttempts, a > client'[k].attempt
        PROVE  net'[<<k, a>>].client = "none"
    <3>1. <<k, a>> \in Connections
      BY DEF Connections
    <3>2. net[<<k, a>>].client = "none"
      BY <1>1, <2>1 DEF ServerOK, FreshOK
    <3>3. QED
      BY <1>3, <1>4, <3>1, <3>2
  <2>2. QED
    BY <2>1 DEF FreshOK
<1>11. CallsOpen'
  <2>1. ASSUME NEW k \in Callers, client[k].pc # "idle"
        PROVE  net'[Connection(k)].client = "open"
    <3>1. Connection(k) \in Connections /\ net[Connection(k)].client = "open"
      BY <2>1, CallConnection DEF ServerOK, CallsOpen
    <3>2. QED
      BY <1>4, <1>5, <3>1
  <2>2. QED
    BY <1>1, <2>1 DEF ServerOK, CallsOpen, Connection
<1>12. QED
  BY <1>2, <1>6, <1>7, <1>8, <1>9, <1>10, <1>11 DEF ServerOK

\* The frame conditions of every step of a thread.
Serving(c) ==
  /\ Types /\ ServerOK
  /\ worker[c] \notin {"none", "finished"}
  /\ greeted' \in [Connections -> BOOLEAN]
  /\ UNCHANGED <<server_vars, backlog, runtime, client>>

\* n is the socket of a running thread.
OpenSocket(c, n) ==
  /\ n \in Net /\ n.server = "open"
  /\ n.client = net[c].client /\ n.reset = net[c].reset

LEMMA ServingSocket ==
  ASSUME NEW c \in Connections, Serving(c)
  PROVE  OpenSocket(c, net[c]) /\ net[c].client # "none" /\ c \in workers
<1>1. ConnectionOK(c) /\ net[c] \in Net
  BY DEF Serving, ServerOK, Types
<1>2. QED
  BY <1>1 DEF ConnectionOK, OpenSocket, Serving

LEMMA EndsServe ==
  ASSUME NEW c \in Connections, Serving(c), NEW n, OpenSocket(c, n), Ends(c, n)
  PROVE  Types' /\ ServerOK' /\ worker' = [worker EXCEPT ![c] = "finished"]
<1>1. PICK m \in Closings(n, "server", "up") : net' = [net EXCEPT ![c] = m]
  BY DEF Ends
<1>2. n \in Net /\ n.client # "none"
  BY ServingSocket DEF OpenSocket
<1>3. /\ m \in Net /\ m.up = <<>> /\ m.server = "closed" /\ m.client # "none"
      /\ net[c].client = "open" => m.client = "open"
  BY <1>1, <1>2, ClosingsServer DEF OpenSocket
<1>4. <<>> \in Seq(RequestCell) /\ Len(<<>>) <= MaxBuffer
  BY EmptySeq, BufferAssumption
<1>5. "finished" \in WorkerState \ {"none"}
  BY DEF WorkerState
<1>6. QED
  BY <1>1, <1>3, <1>4, <1>5, ServeStep DEF Ends, Serving

LEMMA AnswerServe ==
  ASSUME NEW c \in Connections, Serving(c), NEW n, OpenSocket(c, n), NEW f \in AnyFrame,
         NEW r \in Sends(n, "down", "client", f), NEW last \in BOOLEAN,
         Answer(c, r, last), last \/ NextIsFrame(buffer[c])
  PROVE  /\ Types' /\ ServerOK'
         /\ r.ok /\ ~last => worker' = worker
         /\ ~r.ok \/ last => worker' = [worker EXCEPT ![c] = "finished"]
<1>1. OpenSocket(c, r.net)
  BY SendsDown DEF OpenSocket
<1>2. CASE r.ok /\ ~last
  <2>1. buffer[c] \in Seq(RequestCell) /\ Len(buffer[c]) > 1 /\ Len(buffer[c]) <= MaxBuffer
    BY <1>2 DEF NextIsFrame, Serving, Types, ServerOK, ConnectionOK
  <2>2. consume(buffer[c]) \in Seq(RequestCell) /\ Len(consume(buffer[c])) = Len(buffer[c]) - 2
    BY <2>1, ConsumeProperties
  <2>3. Len(consume(buffer[c])) <= MaxBuffer
    BY <2>1, <2>2, LenProperties, BufferAssumption
  <2>4. /\ net' = [net EXCEPT ![c] = r.net] /\ worker' = worker
        /\ buffer' = [buffer EXCEPT ![c] = consume(buffer[c])]
    BY <1>2 DEF Answer
  <2>5. /\ worker' = [worker EXCEPT ![c] = worker[c]] /\ worker[c] # "finished"
        /\ worker[c] \in WorkerState \ {"none"}
    BY <2>4 DEF Serving, Types
  <2>6. r.net \in Net /\ r.net.server = "open" /\ r.net.client = net[c].client
        /\ r.net.reset = net[c].reset /\ r.net.client # "none"
    BY <1>1, ServingSocket DEF OpenSocket
  <2>7. Types' /\ ServerOK'
    BY ZenonT(60), <2>2, <2>3, <2>4, <2>5, <2>6, ServeStep DEF Serving
  <2>8. QED
    BY <1>2, <2>4, <2>7
<1>3. CASE ~(r.ok /\ ~last)
  <2>1. Ends(c, r.net)
    BY <1>3 DEF Answer
  <2>2. QED
    BY <1>1, <1>3, <2>1, EndsServe
<1>4. QED
  BY <1>2, <1>3

LEMMA ReplyServe ==
  ASSUME NEW c \in Connections, Serving(c), NEW n, OpenSocket(c, n), NEW type \in FrameType,
         NEW last \in BOOLEAN, Reply(c, n, type, last), last \/ NextIsFrame(buffer[c])
  PROVE  /\ Types' /\ ServerOK' /\ UNCHANGED stats
         /\ worker' = worker \/ worker' = [worker EXCEPT ![c] = "finished"]
<1>1. Frame(type, 0) \in AnyFrame
  BY DEF Frame, AnyFrame
<1>2. PICK r \in Sends(n, "down", "client", Frame(type, 0)) : Answer(c, r, last)
  BY DEF Reply
<1>3. QED
  BY <1>1, <1>2, AnswerServe DEF Reply

\* What a thread reads moves from the socket to its buffer.
LEMMA RecvServe ==
  ASSUME NEW c \in Connections, Serving(c), WorkerRecv(c)
  PROVE  /\ Types' /\ ServerOK' /\ UNCHANGED <<stats, log>>
         /\ \E w \in {"fail", "drain", "finished"} : worker' = [worker EXCEPT ![c] = w]
<1>1. OpenSocket(c, net[c]) /\ net[c].client # "none" /\ worker[c] = "recv" /\ UNCHANGED log
  BY ServingSocket DEF WorkerRecv
<1>2. ASSUME NEW chunk \in Chunks(net[c].up), NEW w \in {"fail", "drain"},
             NEW b \in Seq(RequestCell), Len(b) <= MaxBuffer,
             net' = [net EXCEPT ![c] = [net[c] EXCEPT !.up = After(net[c].up, chunk)]],
             worker' = [worker EXCEPT ![c] = w], buffer' = [buffer EXCEPT ![c] = b]
      PROVE  Types' /\ ServerOK'
  <2> DEFINE read == [net[c] EXCEPT !.up = After(net[c].up, chunk)]
  <2>1. After(net[c].up, chunk) \in Seq(RequestCell)
    <3>1. net[c].up \in Seq(RequestCell)
      BY <1>1 DEF OpenSocket, Net
    <3>2. QED
      BY <3>1, ChunkProperties
  <2>2. OpenSocket(c, read)
    BY <1>1, <2>1 DEF OpenSocket, Net
  <2>3. net' = [net EXCEPT ![c] = read]
    BY <1>2
  <2> HIDE DEF read
  <2>4. /\ read \in Net /\ read.server = "open" /\ read.client = net[c].client
        /\ read.reset = net[c].reset /\ read.client # "none"
    BY <1>1, <2>2 DEF OpenSocket
  <2>5. w \in WorkerState \ {"none"} /\ w # "finished"
    BY DEF WorkerState
  <2>6. QED
    BY <1>2, <2>3, <2>4, <2>5, ServeStep DEF Serving
<1>3. CASE \E chunk \in Chunks(net[c].up) :
             LET read == [net[c] EXCEPT !.up = After(@, chunk)]
             IN  IF FeedRefused(buffer[c], chunk)
                   THEN /\ net' = [net EXCEPT ![c] = read]
                        /\ worker' = [worker EXCEPT ![c] = "fail"]
                        /\ UNCHANGED <<buffer, stats>>
                   ELSE /\ net' = [net EXCEPT ![c] = read]
                        /\ buffer' = [buffer EXCEPT ![c] = @ \o chunk]
                        /\ worker' = [worker EXCEPT ![c] = "drain"]
                        /\ UNCHANGED stats
  <2>1. PICK chunk \in Chunks(net[c].up) :
             LET read == [net[c] EXCEPT !.up = After(@, chunk)]
             IN  IF FeedRefused(buffer[c], chunk)
                   THEN /\ net' = [net EXCEPT ![c] = read]
                        /\ worker' = [worker EXCEPT ![c] = "fail"]
                        /\ UNCHANGED <<buffer, stats>>
                   ELSE /\ net' = [net EXCEPT ![c] = read]
                        /\ buffer' = [buffer EXCEPT ![c] = @ \o chunk]
                        /\ worker' = [worker EXCEPT ![c] = "drain"]
                        /\ UNCHANGED stats
    BY <1>3
  <2>2. buffer[c] \in Seq(RequestCell) /\ Len(buffer[c]) <= MaxBuffer
    BY DEF Serving, Types, ServerOK, ConnectionOK
  <2>3. CASE FeedRefused(buffer[c], chunk)
    <3>1. /\ net' = [net EXCEPT ![c] = [net[c] EXCEPT !.up = After(net[c].up, chunk)]]
          /\ worker' = [worker EXCEPT ![c] = "fail"] /\ UNCHANGED stats
          /\ buffer' = buffer
      BY <2>1, <2>3
    <3>2. buffer' = [buffer EXCEPT ![c] = buffer[c]]
      BY <3>1 DEF Serving, Types
    <3>3. Types' /\ ServerOK'
      BY <1>2, <2>2, <3>1, <3>2
    <3>4. QED
      BY <1>1, <3>1, <3>3
  <2>4. CASE ~FeedRefused(buffer[c], chunk)
    <3>1. buffer[c] \o chunk \in Seq(RequestCell) /\ Len(buffer[c] \o chunk) <= MaxBuffer
      <4>1. net[c].up \in Seq(RequestCell)
        BY <1>1 DEF OpenSocket, Net
      <4>2. chunk \in Seq(RequestCell)
        BY <4>1, ChunkProperties
      <4>3. /\ buffer[c] \o chunk \in Seq(RequestCell)
            /\ Len(buffer[c] \o chunk) = Len(buffer[c]) + Len(chunk)
            /\ Len(buffer[c]) \in Nat /\ Len(chunk) \in Nat
        BY <2>2, <4>2, ConcatProperties, LenProperties
      <4>4. QED
        BY <2>4, <4>3, BufferAssumption DEF FeedRefused
    <3>2. /\ net' = [net EXCEPT ![c] = [net[c] EXCEPT !.up = After(net[c].up, chunk)]]
          /\ buffer' = [buffer EXCEPT ![c] = buffer[c] \o chunk]
          /\ worker' = [worker EXCEPT ![c] = "drain"] /\ UNCHANGED stats
      BY <2>1, <2>4
    <3>3. Types' /\ ServerOK'
      BY <1>2, <3>1, <3>2
    <3>4. QED
      BY <1>1, <3>2, <3>3
  <2>5. QED
    BY <2>3, <2>4
<1>4. CASE Ends(c, net[c]) /\ UNCHANGED stats
  BY <1>1, <1>4, EndsServe
<1>5. QED
  BY <1>3, <1>4 DEF WorkerRecv

LEMMA FailsServe ==
  ASSUME NEW c \in Connections, Serving(c), WorkerFails(c)
  PROVE  /\ Types' /\ ServerOK' /\ UNCHANGED <<stats, log>>
         /\ worker' = [worker EXCEPT ![c] = "finished"]
<1>1. OpenSocket(c, net[c]) /\ "error" \in FrameType /\ UNCHANGED log
  BY ServingSocket DEF FrameType, WorkerFails
<1>2. Reply(c, net[c], "error", TRUE)
  BY DEF WorkerFails, fail
<1>3. Frame("error", 0) \in AnyFrame
  BY <1>1 DEF Frame, AnyFrame
<1>4. PICK r \in Sends(net[c], "down", "client", Frame("error", 0)) : Answer(c, r, TRUE)
  BY <1>2 DEF Reply
<1>5. UNCHANGED stats
  BY <1>2 DEF Reply
<1>6. QED
  BY <1>1, <1>3, <1>4, <1>5, AnswerServe

\* The acknowledgement is sent or the connection ends.
LEMMA AckServe ==
  ASSUME NEW c \in Connections, Serving(c), Acknowledge(c)
  PROVE  /\ Types' /\ ServerOK' /\ UNCHANGED <<stats, log>>
         /\ \/ /\ worker[c] = "ack_stored"
               /\ \/ worker' = [worker EXCEPT ![c] = "count_stored"]
                  \/ worker' = [worker EXCEPT ![c] = "finished"]
            \/ /\ worker[c] = "ack_refused"
               /\ \/ worker' = [worker EXCEPT ![c] = "count_refused"]
                  \/ worker' = [worker EXCEPT ![c] = "finished"]
<1> DEFINE stored == worker[c] = "ack_stored"
           w == IF stored THEN "count_stored" ELSE "count_refused"
<1>1. /\ OpenSocket(c, net[c]) /\ net[c].client # "none" /\ UNCHANGED <<stats, log>>
      /\ worker[c] \in {"ack_stored", "ack_refused"}
  BY ServingSocket DEF Acknowledge
<1>2. PICK r \in Sends(net[c], "down", "client", Ack(stored)) :
           IF r.ok
             THEN /\ net' = [net EXCEPT ![c] = r.net]
                  /\ worker' = [worker EXCEPT ![c] = w]
                  /\ UNCHANGED buffer
             ELSE Ends(c, r.net)
  BY DEF Acknowledge
<1>3. Ack(stored) \in AnyFrame
  BY DEF Ack, Frame, AnyFrame, FrameType
<1>4. OpenSocket(c, r.net)
  BY ZenonT(60), <1>1, <1>3, SendsDown DEF OpenSocket
<1>5. CASE r.ok
  <2>1. /\ net' = [net EXCEPT ![c] = r.net] /\ worker' = [worker EXCEPT ![c] = w]
        /\ buffer' = buffer
    BY <1>2, <1>5
  <2>2. /\ buffer' = [buffer EXCEPT ![c] = buffer[c]] /\ buffer[c] \in Seq(RequestCell)
        /\ Len(buffer[c]) <= MaxBuffer
    BY <2>1 DEF Serving, Types, ServerOK, ConnectionOK
  <2>3. /\ w \in WorkerState \ {"none"} /\ w # "finished"
    BY DEF WorkerState
  <2>4. /\ stored => w = "count_stored"
        /\ ~stored => w = "count_refused"
    OBVIOUS
  <2> HIDE DEF w, stored
  <2>5. r.net \in Net /\ r.net.server = "open" /\ r.net.client = net[c].client
        /\ r.net.reset = net[c].reset /\ r.net.client # "none"
    BY <1>1, <1>4 DEF OpenSocket
  <2>6. Types' /\ ServerOK'
    BY <2>1, <2>2, <2>3, <2>5, ServeStep DEF Serving
  <2>7. QED
    BY <1>1, <2>1, <2>4, <2>6 DEF stored
<1>6. CASE ~r.ok
  <2>1. Ends(c, r.net)
    BY <1>2, <1>6
  <2>2. QED
    BY <1>1, <1>4, <2>1, EndsServe
<1>7. QED
  BY <1>5, <1>6

LEMMA DrainedServe ==
  ASSUME NEW c \in Connections, Serving(c), WorkerDrained(c)
  PROVE  /\ Types' /\ ServerOK' /\ UNCHANGED <<stats, log>>
         /\ \/ worker' = [worker EXCEPT ![c] = "recv"] /\ worker[c] = "drain"
            \/ worker' = worker
            \/ worker' = [worker EXCEPT ![c] = "finished"]
<1>1. OpenSocket(c, net[c]) /\ net[c].client # "none" /\ worker[c] = "drain" /\ UNCHANGED log
  BY ServingSocket DEF WorkerDrained
<1>2. CASE Reply(c, net[c], "error", TRUE) \/ Reply(c, net[c], "bye", TRUE)
  <2>1. "error" \in FrameType /\ "bye" \in FrameType
    BY DEF FrameType
  <2>2. QED
    BY <1>1, <1>2, <2>1, ReplyServe
<1>3. CASE worker' = [worker EXCEPT ![c] = "recv"] /\ UNCHANGED <<net, buffer, stats>>
  <2>1. /\ net' = [net EXCEPT ![c] = net[c]] /\ buffer' = [buffer EXCEPT ![c] = buffer[c]]
        /\ buffer[c] \in Seq(RequestCell)
    BY <1>3 DEF Serving, Types
  <2>2. Len(buffer[c]) <= MaxBuffer
    BY DEF Serving, ServerOK, ConnectionOK
  <2>3. "recv" \in WorkerState \ {"none"}
    BY DEF WorkerState
  <2>4. QED
    BY <1>1, <1>3, <2>1, <2>2, <2>3, ServeStep DEF Serving, OpenSocket
<1>4. QED
  BY <1>2, <1>3 DEF WorkerDrained, fail

LEMMA FrameCases ==
  ASSUME NEW c, HandleFrame(c)
  PROVE  \/ NextFrame(buffer[c]).type = "ingest" /\ HandleIngest(c, NextFrame(buffer[c]).arg)
         \/ /\ UNCHANGED log
            /\ \E type \in FrameType \ {"ingest_ack"}, last \in BOOLEAN : Reply(c, net[c], type, last)
<1>1. {"welcome", "pong", "stats_reply", "bye", "error"} \subseteq FrameType \ {"ingest_ack"}
  BY DEF FrameType
<1>2. QED
  BY <1>1 DEF HandleFrame, fail

LEMMA FrameServe ==
  ASSUME NEW c \in Connections, Serving(c), NextIsFrame(buffer[c]), UNCHANGED log,
         NEW type \in FrameType, NEW last \in BOOLEAN, Reply(c, net[c], type, last)
  PROVE  /\ Types' /\ ServerOK' /\ UNCHANGED <<stats, log>>
         /\ worker' = worker \/ worker' = [worker EXCEPT ![c] = "finished"]
<1>1. OpenSocket(c, net[c])
  BY ServingSocket
<1>2. QED
  BY <1>1, ReplyServe

LEMMA GreetedType ==
  ASSUME NEW c \in Connections, Types, HandleFrame(c)
  PROVE  greeted' \in [Connections -> BOOLEAN]
<1>1. greeted' = [greeted EXCEPT ![c] = greeted[c] \/ NextFrame(buffer[c]).type = "hello"]
  BY DEF HandleFrame
<1>2. (greeted[c] \/ NextFrame(buffer[c]).type = "hello") \in BOOLEAN
  BY Zenon
<1>3. QED
  BY <1>1, <1>2 DEF Types

-----------------------------------------------------------------------------
(***************************************************************************)
(* The store and the statistics.                                           *)
(***************************************************************************)
Owing == {"ack_stored", "count_stored"}

LEMMA SetsFinite ==
  /\ IsFiniteSet(Ended) /\ Cardinality(Ended) \in Nat
  /\ IsFiniteSet(Uncounted) /\ Cardinality(Uncounted) \in Nat
<1>1. IsFiniteSet(Ended) /\ IsFiniteSet(Uncounted)
  BY ConnectionsFinite, FS_Subset DEF Ended, Uncounted
<1>2. QED
  BY <1>1, FS_CardinalityType

\* What a step of the thread of connection c does to the numbers of finished
\* threads and of those that owe a count.
LEMMA ThreadMoves ==
  ASSUME Types, NEW c \in Connections, NEW w \in WorkerState,
         worker' = [worker EXCEPT ![c] = w], worker[c] # "finished"
  PROVE  /\ w = "finished" => Cardinality(Ended') = Cardinality(Ended) + 1
         /\ w # "finished" => Cardinality(Ended') = Cardinality(Ended)
         /\ (w \in Owing <=> worker[c] \in Owing) => Cardinality(Uncounted') = Cardinality(Uncounted)
         /\ w \in Owing /\ worker[c] \notin Owing =>
              Cardinality(Uncounted') = Cardinality(Uncounted) + 1
         /\ w \notin Owing /\ worker[c] \in Owing =>
              Cardinality(Uncounted) = Cardinality(Uncounted') + 1
<1>1. IsFiniteSet(Ended) /\ IsFiniteSet(Ended') /\ IsFiniteSet(Uncounted) /\ IsFiniteSet(Uncounted')
  BY ConnectionsFinite, FS_Subset DEF Ended, Uncounted
<1>2. ASSUME w = "finished" PROVE Cardinality(Ended') = Cardinality(Ended) + 1
  <2>1. Ended' = Ended \cup {c} /\ c \notin Ended
    BY <1>2 DEF Ended, Finished, Types
  <2>2. QED
    BY <1>1, <2>1, FS_AddElement
<1>3. ASSUME w # "finished" PROVE Cardinality(Ended') = Cardinality(Ended)
  <2>1. Ended' = Ended
    BY <1>3 DEF Ended, Finished, Types
  <2>2. QED
    BY <2>1
<1>4. ASSUME w \in Owing <=> worker[c] \in Owing
      PROVE  Cardinality(Uncounted') = Cardinality(Uncounted)
  <2>1. Uncounted' = Uncounted
    BY <1>4 DEF Uncounted, Owing, Types
  <2>2. QED
    BY <2>1
<1>5. ASSUME w \in Owing, worker[c] \notin Owing
      PROVE  Cardinality(Uncounted') = Cardinality(Uncounted) + 1
  <2>1. Uncounted' = Uncounted \cup {c} /\ c \notin Uncounted
    BY <1>5 DEF Uncounted, Owing, Types
  <2>2. QED
    BY <1>1, <2>1, FS_AddElement
<1>6. ASSUME w \notin Owing, worker[c] \in Owing
      PROVE  Cardinality(Uncounted) = Cardinality(Uncounted') + 1
  <2>1. Uncounted = Uncounted' \cup {c} /\ c \notin Uncounted'
    BY <1>6 DEF Uncounted, Owing, Types
  <2>2. Cardinality(Uncounted' \cup {c}) = Cardinality(Uncounted') + 1
    BY <1>1, <2>1, FS_AddElement
  <2>3. QED
    BY <2>1, <2>2
<1>7. QED
  BY <1>2, <1>3, <1>4, <1>5, <1>6

\* The statistics are off by the threads that owe a count and at most by those
\* that have ended.
LEMMA StatsKept ==
  ASSUME NEW s \in Nat, NEW r \in Nat, NEW u \in Nat, NEW e \in Nat,
         s = Cardinality(log'), r = records_accepted', u = Cardinality(Uncounted'),
         e = Cardinality(Ended'), r + u <= s, s <= r + u + e
  PROVE  StatsTrue'
BY DEF StatsTrue, Ended

LEMMA StatsNow ==
  ASSUME LogOK
  PROVE  /\ Cardinality(log) \in Nat /\ records_accepted \in Nat /\ records_rejected \in Nat
         /\ records_accepted + Cardinality(Uncounted) <= Cardinality(log)
         /\ Cardinality(log) <= records_accepted + Cardinality(Uncounted) + Cardinality(Ended)
BY FS_CardinalityType DEF LogOK, StatsTrue, Ended

LEMMA LogKept ==
  ASSUME LogOK, UNCHANGED log,
         records_accepted' \in Nat, records_rejected' \in Nat,
         Cardinality(Ended') \in Nat, Cardinality(Uncounted') \in Nat,
         records_accepted + Cardinality(Uncounted) =
           records_accepted' + Cardinality(Uncounted') + Cardinality(Ended') - Cardinality(Ended)
         \/ records_accepted + Cardinality(Uncounted) = records_accepted' + Cardinality(Uncounted'),
         Cardinality(Ended) <= Cardinality(Ended')
  PROVE  LogOK'
<1>1. Cardinality(log') = Cardinality(log)
  OBVIOUS
<1>2. StatsTrue'
  <2>1. Cardinality(Ended) \in Nat /\ Cardinality(Uncounted) \in Nat
    BY SetsFinite
  <2>2. /\ Cardinality(log) \in Nat /\ records_accepted \in Nat
        /\ records_accepted + Cardinality(Uncounted) <= Cardinality(log)
        /\ Cardinality(log) <= records_accepted + Cardinality(Uncounted) + Cardinality(Ended)
    BY StatsNow
  <2>3. /\ records_accepted' + Cardinality(Uncounted') <= Cardinality(log)
        /\ Cardinality(log) <= records_accepted' + Cardinality(Uncounted') + Cardinality(Ended')
    BY <2>1, <2>2
  <2>4. QED
    BY <1>1, <2>2, <2>3, StatsKept
<1>3. QED
  BY <1>2 DEF LogOK, StoredOnce

\* A record that is stored is a new one.
LEMMA StorableIsNew ==
  ASSUME LogOK, NEW c \in Connections, NEW i \in DOMAIN Good, Storable(c[1], i)
  PROVE  LET e == <<c[1], i, c[2]>>
         IN  /\ e \in Clients \X (DOMAIN Good) \X (1..MaxAttempts)
             /\ \A d \in log : ~(d[1] = c[1] /\ d[2] = i)
             /\ e \notin log
<1>1. c[1] \in Clients /\ c[2] \in 1..MaxAttempts /\ i \in Nat
  BY ConnectionParts, ServerAssumption
<1>2. \A d \in log : ~(d[1] = c[1] /\ d[2] = i)
  BY <1>1 DEF Storable, Replayed
<1>3. QED
  BY <1>1, <1>2

\* The runtime stores the record or refuses it; the thread then owes an answer.
LEMMA IngestServe ==
  ASSUME NEW c \in Connections, Serving(c), LogOK, NEW i \in DOMAIN Good,
         NextIsFrame(buffer[c]), HandleIngest(c, i), worker[c] = "drain"
  PROVE  Types' /\ ServerOK' /\ LogOK'
<1> DEFINE e == <<c[1], i, c[2]>>
           w == IF Storable(c[1], i) THEN "ack_stored" ELSE "ack_refused"
<1>1. /\ worker' = [worker EXCEPT ![c] = w] /\ buffer' = [buffer EXCEPT ![c] = consume(buffer[c])]
      /\ net' = net /\ UNCHANGED stats
  BY DEF HandleIngest
<1>2. /\ Storable(c[1], i) => w = "ack_stored"
      /\ ~Storable(c[1], i) => w = "ack_refused"
      /\ w \in WorkerState \ {"none"} /\ w # "finished"
  BY DEF WorkerState
<1> HIDE DEF w
<1>3. Types' /\ ServerOK'
  <2>1. buffer[c] \in Seq(RequestCell) /\ Len(buffer[c]) > 1 /\ Len(buffer[c]) <= MaxBuffer
    BY DEF NextIsFrame, Serving, Types, ServerOK, ConnectionOK
  <2>2. consume(buffer[c]) \in Seq(RequestCell) /\ Len(consume(buffer[c])) = Len(buffer[c]) - 2
    BY <2>1, ConsumeProperties
  <2>3. Len(consume(buffer[c])) <= MaxBuffer
    BY <2>1, <2>2, LenProperties, BufferAssumption
  <2>4. /\ net[c] \in Net /\ net[c].server = "open" /\ net[c].client # "none"
        /\ net' = [net EXCEPT ![c] = net[c]]
    BY <1>1, ServingSocket DEF OpenSocket, Serving, Types
  <2>5. QED
    BY <1>1, <1>2, <2>2, <2>3, <2>4, ServeStep DEF Serving
<1>4. /\ Types /\ c \in Connections /\ w \in WorkerState /\ worker[c] # "finished"
      /\ UNCHANGED <<records_accepted, records_rejected>>
  BY <1>1, <1>2 DEF Serving, stats
<1>5. /\ Cardinality(Ended') = Cardinality(Ended)
      /\ Storable(c[1], i) => Cardinality(Uncounted') = Cardinality(Uncounted) + 1
      /\ ~Storable(c[1], i) => Cardinality(Uncounted') = Cardinality(Uncounted)
  <2>1. /\ Storable(c[1], i) => w \in Owing
        /\ ~Storable(c[1], i) => w \notin Owing
        /\ worker[c] \notin Owing
    BY <1>2 DEF Owing
  <2>2. QED
    BY <1>1, <1>2, <1>4, <2>1, ThreadMoves
<1>6. Cardinality(Ended) \in Nat /\ Cardinality(Uncounted) \in Nat
  BY SetsFinite
<1>7. /\ Cardinality(log) \in Nat /\ records_accepted \in Nat /\ records_rejected \in Nat
      /\ records_accepted + Cardinality(Uncounted) <= Cardinality(log)
      /\ Cardinality(log) <= records_accepted + Cardinality(Uncounted) + Cardinality(Ended)
  BY StatsNow
<1>8. CASE Storable(c[1], i)
  <2>1. log' = log \cup {e}
    BY <1>8 DEF HandleIngest
  <2>2. /\ e \in Clients \X (DOMAIN Good) \X (1..MaxAttempts)
        /\ \A d \in log : ~(d[1] = c[1] /\ d[2] = i)
        /\ e \notin log
    BY <1>8, StorableIsNew
  <2>3. IsFiniteSet(log') /\ Cardinality(log') = Cardinality(log) + 1
    BY <2>1, <2>2, FS_AddElement DEF LogOK
  <2>4. /\ records_accepted' + Cardinality(Uncounted') <= Cardinality(log')
        /\ Cardinality(log') <= records_accepted' + Cardinality(Uncounted') + Cardinality(Ended')
        /\ Cardinality(log') \in Nat /\ Cardinality(Uncounted') \in Nat /\ Cardinality(Ended') \in Nat
    BY <1>4, <1>5, <1>6, <1>7, <1>8, <2>3
  <2>5. StatsTrue'
    BY <1>4, <1>7, <2>4, StatsKept
  <2>6. StoredOnce'
    BY <2>1, <2>2 DEF LogOK, StoredOnce
  <2>7. QED
    BY <1>3, <1>4, <1>7, <2>1, <2>2, <2>3, <2>5, <2>6 DEF LogOK
<1>9. CASE ~Storable(c[1], i)
  <2>1. log' = log
    BY <1>9 DEF HandleIngest
  <2>2. /\ Cardinality(Ended') \in Nat /\ Cardinality(Uncounted') \in Nat
        /\ Cardinality(Ended) <= Cardinality(Ended')
        /\ records_accepted + Cardinality(Uncounted) = records_accepted' + Cardinality(Uncounted')
        /\ records_accepted' \in Nat /\ records_rejected' \in Nat
    BY <1>4, <1>5, <1>6, <1>7, <1>9
  <2>3. QED
    BY <1>3, <2>1, <2>2, LogKept
<1>10. QED
  BY <1>8, <1>9

\* A thread that counts the record it has acknowledged.
LEMMA CountServe ==
  ASSUME NEW c \in Connections, Serving(c), LogOK, CountRecord(c)
  PROVE  Types' /\ ServerOK' /\ LogOK'
<1> DEFINE stored == worker[c] = "count_stored"
<1>1. /\ worker' = [worker EXCEPT ![c] = "drain"] /\ net' = net /\ buffer' = buffer
      /\ log' = log /\ worker[c] \in {"count_stored", "count_refused"}
      /\ records_accepted' = records_accepted + (IF stored THEN 1 ELSE 0)
      /\ records_rejected' = records_rejected + (IF stored THEN 0 ELSE 1)
  BY DEF CountRecord
<1>2. "drain" \in WorkerState \ {"none"} /\ Types /\ worker[c] # "finished"
  BY <1>1 DEF WorkerState, Serving
<1>3. Types' /\ ServerOK'
  <2>1. /\ buffer[c] \in Seq(RequestCell) /\ Len(buffer[c]) <= MaxBuffer
        /\ buffer' = [buffer EXCEPT ![c] = buffer[c]]
    BY <1>1 DEF Serving, Types, ServerOK, ConnectionOK
  <2>2. /\ net[c] \in Net /\ net[c].server = "open" /\ net[c].client # "none"
        /\ net' = [net EXCEPT ![c] = net[c]]
    BY <1>1, ServingSocket DEF OpenSocket, Serving, Types
  <2>3. QED
    BY <1>1, <1>2, <2>1, <2>2, ServeStep DEF Serving
<1>4. /\ Cardinality(Ended') = Cardinality(Ended)
      /\ stored => Cardinality(Uncounted) = Cardinality(Uncounted') + 1
      /\ ~stored => Cardinality(Uncounted') = Cardinality(Uncounted)
  <2>1. /\ stored => worker[c] \in Owing
        /\ ~stored => worker[c] \notin Owing
        /\ "drain" \notin Owing
    BY <1>1 DEF Owing
  <2>2. QED
    BY <1>1, <1>2, <2>1, ThreadMoves
<1>5. /\ Cardinality(Ended) \in Nat /\ Cardinality(Uncounted) \in Nat
      /\ Cardinality(Ended') \in Nat /\ Cardinality(Uncounted') \in Nat
  <2>1. Cardinality(Ended) \in Nat /\ Cardinality(Uncounted) \in Nat
    BY SetsFinite
  <2>2. IsFiniteSet(Uncounted')
    BY ConnectionsFinite, FS_Subset DEF Uncounted
  <2>3. QED
    BY <1>4, <2>1, <2>2, FS_CardinalityType
<1>6. records_accepted \in Nat /\ records_rejected \in Nat
  BY DEF LogOK
<1> HIDE DEF stored
<1>7. /\ records_accepted' \in Nat /\ records_rejected' \in Nat
      /\ Cardinality(Ended) <= Cardinality(Ended')
      /\ records_accepted + Cardinality(Uncounted) = records_accepted' + Cardinality(Uncounted')
  BY <1>1, <1>4, <1>5, <1>6
<1>8. QED
  BY <1>1, <1>3, <1>5, <1>7, LogKept

\* The frame at the front of a thread's buffer is one a client sends.
LEMMA NextIsRequest ==
  ASSUME NEW c \in Connections, Types, NextIsFrame(buffer[c])
  PROVE  NextFrame(buffer[c]) \in RequestFrame
<1>1. buffer[c] \in Seq(RequestCell) /\ Len(buffer[c]) > 1 /\ Len(buffer[c]) \in Nat
  BY LenProperties DEF Types, NextIsFrame
<1>2. buffer[c][1] \in RequestCell
  BY <1>1, ElementOfSeq
<1>3. QED
  BY <1>2 DEF RequestCell, NextFrame

LEMMA ServeInv ==
  ASSUME IndInv, NEW c \in Connections, serve_connection(c)
  PROVE  IndInv'
<1>1. /\ Types /\ ServerOK /\ LogOK
      /\ UNCHANGED <<server_vars, backlog, runtime, client>>
  BY DEF IndInv, serve_connection
<1>2. worker[c] \notin {"none", "finished"} /\ worker[c] # "finished"
  BY DEF serve_connection, WorkerRecv, WorkerFails, HandleFrame, WorkerDrained, Acknowledge,
     CountRecord
<1>3. greeted' \in [Connections -> BOOLEAN]
  BY <1>1, GreetedType
     DEF serve_connection, WorkerRecv, WorkerFails, WorkerDrained, Acknowledge, CountRecord, Types
<1>4. Serving(c)
  BY <1>1, <1>2, <1>3 DEF Serving
<1>5. ASSUME Types', ServerOK', UNCHANGED <<stats, log>>, NEW w \in WorkerState,
             worker' = [worker EXCEPT ![c] = w],
             (w \in Owing <=> worker[c] \in Owing) \/ w = "finished"
      PROVE  IndInv'
  <2>1. /\ w = "finished" => Cardinality(Ended') = Cardinality(Ended) + 1
        /\ w # "finished" => Cardinality(Ended') = Cardinality(Ended)
        /\ (w \in Owing <=> worker[c] \in Owing) => Cardinality(Uncounted') = Cardinality(Uncounted)
        /\ w = "finished" /\ worker[c] \in Owing =>
             Cardinality(Uncounted) = Cardinality(Uncounted') + 1
    <3>1. w = "finished" => w \notin Owing
      BY DEF Owing
    <3>2. QED
      BY <1>1, <1>2, <1>5, <3>1, ThreadMoves
  <2>2. Cardinality(Ended) \in Nat /\ Cardinality(Uncounted) \in Nat
    BY SetsFinite
  <2>3. Cardinality(Ended') \in Nat /\ Cardinality(Uncounted') \in Nat
    <3>1. IsFiniteSet(Ended') /\ IsFiniteSet(Uncounted')
      BY ConnectionsFinite, FS_Subset DEF Ended, Uncounted
    <3>2. QED
      BY <3>1, FS_CardinalityType
  <2>4. UNCHANGED <<log, records_accepted, records_rejected>>
    BY <1>5 DEF stats
  <2>5. records_accepted \in Nat /\ records_rejected \in Nat
    BY <1>1 DEF LogOK
  <2>6. /\ \/ records_accepted + Cardinality(Uncounted) =
                records_accepted' + Cardinality(Uncounted') + Cardinality(Ended') - Cardinality(Ended)
           \/ records_accepted + Cardinality(Uncounted) = records_accepted' + Cardinality(Uncounted')
        /\ Cardinality(Ended) <= Cardinality(Ended')
    <3>1. w = "finished" => w \notin Owing
      BY DEF Owing
    <3>2. CASE w \in Owing <=> worker[c] \in Owing
      BY <2>1, <2>2, <2>3, <2>4, <2>5, <3>2
    <3>3. CASE w = "finished" /\ worker[c] \in Owing
      BY <2>1, <2>2, <2>3, <2>4, <2>5, <3>3
    <3>4. QED
      BY <1>5, <3>1, <3>2, <3>3
  <2>7. QED
    BY <1>1, <1>5, <2>3, <2>4, <2>5, <2>6, LogKept DEF IndInv
<1>6. ASSUME Types', ServerOK', UNCHANGED <<stats, log>>, worker' = worker
      PROVE  IndInv'
  <2>1. worker' = [worker EXCEPT ![c] = worker[c]] /\ worker[c] \in WorkerState
    BY <1>1, <1>6 DEF Types
  <2>2. QED
    BY <1>5, <1>6, <2>1
<1>7. CASE WorkerRecv(c)
  <2>1. worker[c] = "recv"
    BY <1>7 DEF WorkerRecv
  <2>2. /\ Types' /\ ServerOK' /\ UNCHANGED <<stats, log>>
        /\ \E w \in {"fail", "drain", "finished"} : worker' = [worker EXCEPT ![c] = w]
    BY <1>4, <1>7, RecvServe
  <2>3. QED
    BY <1>5, <2>1, <2>2 DEF WorkerState, Owing
<1>8. CASE WorkerFails(c)
  BY <1>4, <1>5, <1>8, FailsServe DEF WorkerState
<1>9. CASE WorkerDrained(c)
  <2>1. /\ Types' /\ ServerOK' /\ UNCHANGED <<stats, log>>
        /\ \/ worker' = [worker EXCEPT ![c] = "recv"] /\ worker[c] = "drain"
           \/ worker' = worker
           \/ worker' = [worker EXCEPT ![c] = "finished"]
    BY <1>4, <1>9, DrainedServe
  <2>2. QED
    BY <1>5, <1>6, <2>1 DEF WorkerState, Owing
<1>10. CASE Acknowledge(c)
  <2>1. /\ Types' /\ ServerOK' /\ UNCHANGED <<stats, log>>
        /\ \/ /\ worker[c] = "ack_stored"
              /\ \/ worker' = [worker EXCEPT ![c] = "count_stored"]
                 \/ worker' = [worker EXCEPT ![c] = "finished"]
           \/ /\ worker[c] = "ack_refused"
              /\ \/ worker' = [worker EXCEPT ![c] = "count_refused"]
                 \/ worker' = [worker EXCEPT ![c] = "finished"]
    BY <1>4, <1>10, AckServe
  <2>2. QED
    BY <1>5, <2>1 DEF WorkerState, Owing
<1>11. CASE CountRecord(c)
  BY <1>1, <1>4, <1>11, CountServe DEF IndInv
<1>12. CASE HandleFrame(c)
  <2>1. /\ NextIsFrame(buffer[c]) /\ NextFrame(buffer[c]) \in RequestFrame
        /\ worker[c] = "drain"
    BY <1>1, <1>12, NextIsRequest DEF HandleFrame
  <2>2. CASE NextFrame(buffer[c]).type = "ingest" /\ HandleIngest(c, NextFrame(buffer[c]).arg)
    <3>1. NextFrame(buffer[c]).arg \in DOMAIN Good
      BY <2>1, <2>2 DEF RequestFrame
    <3>2. QED
      BY <1>1, <1>4, <2>1, <2>2, <3>1, IngestServe DEF IndInv
  <2>3. CASE /\ UNCHANGED log
             /\ \E type \in FrameType \ {"ingest_ack"}, last \in BOOLEAN : Reply(c, net[c], type, last)
    <3>1. /\ Types' /\ ServerOK' /\ UNCHANGED <<stats, log>>
          /\ worker' = worker \/ worker' = [worker EXCEPT ![c] = "finished"]
      BY <1>4, <2>1, <2>3, FrameServe
    <3>2. QED
      BY <1>5, <1>6, <3>1 DEF WorkerState
  <2>4. QED
    BY <1>12, <2>2, <2>3, FrameCases
<1>13. QED
  BY <1>7, <1>8, <1>9, <1>10, <1>11, <1>12 DEF serve_connection

-----------------------------------------------------------------------------
(***************************************************************************)
(* Steps of the server's owner and of run.                                 *)
(***************************************************************************)
LEMMA SameThreads ==
  ASSUME Types, LogOK, UNCHANGED <<worker, log, stats>>
  PROVE  LogOK'
<1>1. Ended' = Ended /\ Uncounted' = Uncounted
  BY DEF Ended, Finished, Uncounted
<1>2. Cardinality(Ended) \in Nat /\ Cardinality(Uncounted) \in Nat
  BY SetsFinite
<1>3. UNCHANGED <<log, records_accepted, records_rejected>>
  BY DEF stats
<1>4. records_accepted \in Nat /\ records_rejected \in Nat
  BY DEF LogOK
<1>5. /\ Cardinality(Ended') \in Nat /\ Cardinality(Uncounted') \in Nat
      /\ Cardinality(Ended) <= Cardinality(Ended')
      /\ records_accepted + Cardinality(Uncounted) = records_accepted' + Cardinality(Uncounted')
  BY <1>1, <1>2, <1>3
<1>6. QED
  BY <1>3, <1>4, <1>5, LogKept

\* Steps that change neither connections nor callers.
LEMMA QuietStep ==
  ASSUME IndInv, UNCHANGED <<workers, backlog, worker_vars, net, client>>,
         stop_requested' \in BOOLEAN, listener' \in {"unbound", "listening", "closed"},
         run' \in {"not_running", "accept", "join", "join_failed", "ok", "failed"},
         runtime' \in {"up", "shutting_down"}, RunOK'
  PROVE  IndInv'
<1>1. UNCHANGED <<workers, backlog, worker, buffer, greeted, stats, log, net, client>>
  BY DEF worker_vars
<1>2. Types'
  BY <1>1 DEF IndInv, Types
<1>3. BacklogOK' /\ ThreadsBounded'
  BY <1>1 DEF IndInv, ServerOK, BacklogOK, Waiting, ThreadsBounded
<1>4. \A c \in Connections : ConnectionOK(c)'
  BY <1>1 DEF IndInv, ServerOK, ConnectionOK
<1>5. FreshOK' /\ CallsOpen'
  BY <1>1 DEF IndInv, ServerOK, FreshOK, CallsOpen, Connection
<1>6. LogOK'
  BY <1>1, SameThreads DEF IndInv
<1>7. QED
  BY <1>2, <1>3, <1>4, <1>5, <1>6 DEF IndInv, ServerOK

LEMMA OwnerInv ==
  ASSUME IndInv, start \/ stop \/ request_shutdown \/ AcceptFails \/ RunJoins
  PROVE  IndInv'
<1>1. Types /\ RunOK
  BY DEF IndInv, ServerOK
<1>2. CASE start
  <2>1. run' \in {"accept", "join"} /\ UNCHANGED <<stop_requested, runtime>> /\ listener' = "listening"
    BY <1>2 DEF start, LoopOrJoin
  <2>2. UNCHANGED <<workers, backlog, worker_vars, net, client>>
    BY <1>2 DEF start
  <2>3. RunOK'
    BY <2>1 DEF RunOK, Returned
  <2>4. QED
    BY <1>1, <2>1, <2>2, <2>3, QuietStep DEF Types
<1>3. CASE stop
  <2>1. UNCHANGED <<workers, backlog, worker_vars, net, client, listener, run, runtime>>
        /\ stop_requested' = TRUE
    BY <1>3 DEF stop
  <2>2. RunOK'
    BY <1>1, <2>1 DEF RunOK, Returned, Finished, worker_vars
  <2>3. QED
    BY <1>1, <2>1, <2>2, QuietStep DEF Types
<1>4. CASE request_shutdown
  <2>1. UNCHANGED <<workers, backlog, worker_vars, net, client, listener, run, stop_requested>>
        /\ runtime' = "shutting_down"
    BY <1>4 DEF request_shutdown, server_vars
  <2>2. RunOK'
    BY <1>1, <2>1 DEF RunOK, Returned, Finished, worker_vars
  <2>3. QED
    BY <1>1, <2>1, <2>2, QuietStep DEF Types
<1>5. CASE AcceptFails
  <2>1. UNCHANGED <<workers, backlog, worker_vars, net, client, listener, runtime, stop_requested>>
        /\ run' \in {"join", "join_failed"} /\ run = "accept"
    BY <1>5 DEF AcceptFails
  <2>2. RunOK'
    BY <1>1, <2>1 DEF RunOK, Returned
  <2>3. QED
    BY <1>1, <2>1, <2>2, QuietStep DEF Types
<1>6. CASE RunJoins
  <2>1. UNCHANGED <<workers, backlog, worker_vars, net, client, listener, runtime, stop_requested>>
        /\ run' \in {"ok", "failed"} /\ run \in {"join", "join_failed"}
    BY <1>6 DEF RunJoins
  <2>2. RunOK'
    BY <1>1, <1>6, <2>1 DEF RunJoins, RunOK, Returned, Finished, worker_vars
  <2>3. QED
    BY <1>1, <2>1, <2>2, QuietStep DEF Types
<1>7. QED
  BY <1>2, <1>3, <1>4, <1>5, <1>6

LEMMA StopClosesInv ==
  ASSUME IndInv, StopCloses
  PROVE  IndInv'
<1>1. Types /\ ServerOK /\ LogOK
  BY DEF IndInv
<1>2. /\ listener' = "closed" /\ backlog' = <<>>
      /\ UNCHANGED <<stop_requested, run, workers, worker, buffer, greeted, stats, log, runtime, client>>
      /\ listener # "unbound"
  BY DEF StopCloses, worker_vars
<1>3. ASSUME NEW c \in Connections
      PROVE  \/ net'[c] = net[c]
             \/ net'[c] = [net[c] EXCEPT !.reset = TRUE] /\ Waiting(c)
  <2>1. net'[c] = IF \E i \in DOMAIN backlog : backlog[i] = c
                    THEN [net[c] EXCEPT !.reset = TRUE] ELSE net[c]
    BY DEF StopCloses
  <2>2. DOMAIN backlog = 1..Len(backlog)
    BY <1>1, LenProperties DEF Types
  <2>3. QED
    BY <1>1, <2>1, <2>2 DEF ServerOK, BacklogOK
<1>4. ASSUME NEW c \in Connections
      PROVE  net'[c] \in Net /\ net'[c].client = net[c].client /\ ConnectionOK(c)'
  <2>1. net[c] \in Net /\ ConnectionOK(c)
    BY <1>1 DEF Types, ServerOK
  <2>2. CASE net'[c] = net[c]
    BY <1>2, <2>1, <2>2 DEF ConnectionOK
  <2>3. CASE net'[c] = [net[c] EXCEPT !.reset = TRUE] /\ Waiting(c)
    <3>1. /\ net'[c].reset = TRUE /\ net'[c].up = net[c].up /\ net'[c].down = net[c].down
          /\ net'[c].client = net[c].client /\ net'[c].server = net[c].server
          /\ net'[c] \in Net
      BY <2>1, <2>3 DEF Net
    <3>2. net[c].server = "none" /\ net[c].client # "none" /\ worker[c] = "none"
      BY <2>3 DEF Waiting
    <3>3. QED
      BY <1>2, <2>1, <3>1, <3>2 DEF ConnectionOK
  <2>4. QED
    BY <1>3, <2>2, <2>3
<1>5. net' \in [Connections -> Net]
  BY <1>4 DEF StopCloses
<1>6. Types'
  BY <1>1, <1>2, <1>5, EmptySeq DEF Types
<1>7. BacklogOK'
  BY <1>2 DEF BacklogOK
<1>8. RunOK' /\ ThreadsBounded'
  BY <1>1, <1>2 DEF ServerOK, RunOK, Returned, Finished, ThreadsBounded
<1>9. FreshOK' /\ CallsOpen'
  <2>1. \A k \in Callers, a \in 1..MaxAttempts : <<k, a>> \in Connections
    BY DEF Connections
  <2>2. FreshOK'
    BY <1>1, <1>2, <1>4, <2>1 DEF ServerOK, FreshOK
  <2>3. CallsOpen'
    BY <1>1, <1>2, <1>4, CallConnection DEF ServerOK, CallsOpen, Connection
  <2>4. QED
    BY <2>2, <2>3
<1>10. LogOK'
  BY <1>1, <1>2, SameThreads
<1>11. QED
  BY <1>4, <1>6, <1>7, <1>8, <1>9, <1>10 DEF IndInv, ServerOK

\* The first connection of the backlog, and the ones behind it.
LEMMA BacklogHead ==
  ASSUME Types, ServerOK, backlog # <<>>
  PROVE  /\ Head(backlog) \in Connections /\ Waiting(Head(backlog))
         /\ Tail(backlog) \in Seq(Connections)
         /\ \A i \in 1..Len(Tail(backlog)) :
              /\ Tail(backlog)[i] \in Connections
              /\ Tail(backlog)[i] # Head(backlog) /\ Waiting(Tail(backlog)[i])
         /\ \A i, j \in 1..Len(Tail(backlog)) : Tail(backlog)[i] = Tail(backlog)[j] => i = j
<1>1. backlog \in Seq(Connections) /\ Len(backlog) \in Nat
  BY LenProperties DEF Types
<1>2. /\ Head(backlog) \in Connections
      /\ Tail(backlog) \in Seq(Connections)
      /\ Len(Tail(backlog)) = Len(backlog) - 1
      /\ \A i \in 1..Len(Tail(backlog)) : Tail(backlog)[i] = backlog[i + 1]
  BY <1>1, HeadTailProperties
<1>3. Len(backlog) > 0 /\ Head(backlog) = backlog[1]
  BY <1>1, EmptySeq
<1>4. \A i \in 1..Len(Tail(backlog)) : i + 1 \in 1..Len(backlog) /\ i + 1 # 1
  BY <1>1, <1>2
<1>5. 1 \in 1..Len(backlog)
  BY <1>1, <1>3
<1>6. ASSUME NEW i \in 1..Len(Tail(backlog))
      PROVE  /\ Tail(backlog)[i] \in Connections
             /\ Tail(backlog)[i] # Head(backlog) /\ Waiting(Tail(backlog)[i])
  <2>1. backlog[i + 1] # backlog[1] /\ Waiting(backlog[i + 1])
    BY <1>4, <1>5 DEF ServerOK, BacklogOK
  <2>2. Tail(backlog)[i] \in Connections
    BY <1>2, ElementOfSeq
  <2>3. QED
    BY <1>2, <1>3, <2>1, <2>2
<1>7. ASSUME NEW i \in 1..Len(Tail(backlog)), NEW j \in 1..Len(Tail(backlog)),
             Tail(backlog)[i] = Tail(backlog)[j]
      PROVE  i = j
  <2>1. backlog[i + 1] = backlog[j + 1]
    BY <1>2, <1>7
  <2>2. i + 1 = j + 1
    BY <1>4, <2>1 DEF ServerOK, BacklogOK
  <2>3. QED
    BY <1>1, <1>2, <2>2
<1>8. Waiting(Head(backlog))
  BY <1>3, <1>5 DEF ServerOK, BacklogOK
<1>9. QED
  BY <1>2, <1>6, <1>7, <1>8

\* What both outcomes of accept have in common: connection c leaves the backlog
\* with the socket n, finished workers leave the vector.
LEMMA AcceptStep ==
  ASSUME IndInv, backlog # <<>>, listener = "listening",
         NEW c, c = Head(backlog), NEW n \in Net, n.client # "none",
         net[c].client = "open" => n.client = "open",
         NEW w \in {"none", "drain"},
         w = "none" => n.server = "closed" /\ n.up = <<>> /\ workers' = Reaped,
         w = "drain" => /\ n = [net[c] EXCEPT !.server = "open"]
                        /\ workers' = Reaped \cup {c} /\ ~AtLimit(Reaped),
         backlog' = Tail(backlog), run' = LoopOrJoin,
         worker' = [worker EXCEPT ![c] = w], net' = [net EXCEPT ![c] = n],
         UNCHANGED <<stop_requested, listener, buffer, greeted, stats, log, runtime, client>>
  PROVE  IndInv'
<1>1. Types /\ ServerOK /\ LogOK
  BY DEF IndInv
<1>2. /\ c \in Connections /\ Waiting(c)
      /\ Tail(backlog) \in Seq(Connections)
      /\ \A i \in 1..Len(Tail(backlog)) :
           /\ Tail(backlog)[i] \in Connections
           /\ Tail(backlog)[i] # c /\ Waiting(Tail(backlog)[i])
      /\ \A i, j \in 1..Len(Tail(backlog)) : Tail(backlog)[i] = Tail(backlog)[j] => i = j
  BY <1>1, BacklogHead
<1>3. ConnectionOK(c) /\ worker[c] = "none" /\ net[c].server = "none" /\ net[c].client # "none"
      /\ ~net[c].reset /\ c \notin workers /\ buffer[c] = <<>> /\ net[c] \in Net
  BY <1>1, <1>2 DEF ServerOK, ConnectionOK, Waiting, Types
<1>4. \A d \in Connections : d # c => net'[d] = net[d] /\ worker'[d] = worker[d]
  BY <1>1 DEF Types
<1>5. net'[c] = n /\ worker'[c] = w
  BY <1>1, <1>2 DEF Types
<1>6. run' \in {"accept", "join"} /\ workers' \subseteq Connections
  BY <1>1, <1>2 DEF LoopOrJoin, Reaped, Types
<1>7. Types'
  BY <1>1, <1>2, <1>6 DEF Types, WorkerState
<1>8. BacklogOK'
  BY <1>2, <1>4 DEF BacklogOK, Waiting
<1>9. RunOK'
  BY <1>6 DEF RunOK, Returned
<1>10. ThreadsBounded'
  <2>1. Running \subseteq Reaped
    BY <1>1 DEF Running, Reaped, Finished, ServerOK, ConnectionOK, Types, WorkerState
  <2>2. IsFiniteSet(Running) /\ IsFiniteSet(Reaped)
    BY <1>1, ConnectionsFinite, FS_Subset DEF Running, Reaped, Types
  <2>3. CASE w = "none"
    BY <1>1, <1>3, <1>4, <1>5, <2>3 DEF ServerOK, ThreadsBounded
  <2>4. CASE w = "drain"
    <3>1. Running' \subseteq Reaped \cup {c}
      BY <1>4, <2>1 DEF Running
    <3>2. IsFiniteSet(Reaped \cup {c}) /\ Cardinality(Reaped \cup {c}) = Cardinality(Reaped) + 1
      <4>1. c \notin Reaped
        BY <1>3 DEF Reaped
      <4>2. QED
        BY <2>2, <4>1, FS_AddElement
    <3>3. Cardinality(Running') <= Cardinality(Reaped \cup {c})
      BY <3>1, <3>2, FS_Subset
    <3>4. IsFiniteSet(Running')
      BY <3>1, <3>2, FS_Subset
    <3>5. /\ Cardinality(Running') \in Nat /\ Cardinality(Reaped \cup {c}) \in Nat
          /\ Cardinality(Reaped) \in Nat
      BY <2>2, <3>2, <3>4, FS_CardinalityType
    <3>6. ~(Cardinality(Reaped) >= max_connections)
      BY <2>4 DEF AtLimit
    <3>7. Cardinality(Running') <= max_connections
      BY <3>2, <3>3, <3>5, <3>6, ServerAssumption
    <3>8. QED
      BY <3>7 DEF ThreadsBounded, Running
  <2>5. QED
    BY <2>3, <2>4
<1>11. ASSUME NEW d \in Connections PROVE ConnectionOK(d)'
  <2>1. CASE d # c
    <3>1. ConnectionOK(d) /\ worker[d] \in WorkerState
      BY <1>1 DEF ServerOK, Types
    <3>2. /\ worker[d] \notin {"none", "finished"} /\ d \in workers => d \in workers'
          /\ worker[d] = "none" /\ d \notin workers => d \notin workers'
      BY <2>1 DEF Reaped, Finished
    <3>3. QED
      BY <1>4, <2>1, <3>1, <3>2 DEF ConnectionOK
  <2>2. CASE d = c /\ w = "none"
    BY <1>3, <1>5, <2>2, BufferAssumption DEF ConnectionOK, Reaped
  <2>3. CASE d = c /\ w = "drain"
    <3>1. /\ n.server = "open" /\ n.reset = net[c].reset /\ n.client = net[c].client
          /\ c \in workers'
      BY <1>3, <2>3 DEF Net
    <3>2. QED
      BY <1>3, <1>5, <2>3, <3>1, BufferAssumption DEF ConnectionOK
  <2>4. QED
    BY <2>1, <2>2, <2>3
<1>12. FreshOK' /\ CallsOpen'
  <2>1. \A d \in Connections : /\ net[d].client = "open" => net'[d].client = "open"
                               /\ net[d].client = "none" => net'[d].client = "none"
    BY <1>3, <1>4, <1>5
  <2>2. \A k \in Callers, a \in 1..MaxAttempts : <<k, a>> \in Connections
    BY DEF Connections
  <2>3. FreshOK'
    BY <1>1, <2>1, <2>2 DEF ServerOK, FreshOK
  <2>4. CallsOpen'
    BY <1>1, <2>1, CallConnection DEF ServerOK, CallsOpen, Connection
  <2>5. QED
    BY <2>3, <2>4
<1>13. LogOK'
  <2>1. /\ worker[c] # "finished" /\ w \in WorkerState /\ w # "finished"
        /\ w \notin Owing /\ worker[c] \notin Owing
    BY <1>3 DEF WorkerState, Owing
  <2>2. Cardinality(Ended') = Cardinality(Ended) /\ Cardinality(Uncounted') = Cardinality(Uncounted)
    BY <1>1, <1>2, <2>1, ThreadMoves
  <2>3. Cardinality(Ended) \in Nat /\ Cardinality(Uncounted) \in Nat
    BY SetsFinite
  <2>4. /\ UNCHANGED <<log, records_accepted, records_rejected>>
        /\ records_accepted \in Nat /\ records_rejected \in Nat
    BY <1>1 DEF stats, LogOK
  <2>5. /\ Cardinality(Ended) <= Cardinality(Ended')
        /\ Cardinality(Ended') \in Nat /\ Cardinality(Uncounted') \in Nat
        /\ records_accepted + Cardinality(Uncounted) = records_accepted' + Cardinality(Uncounted')
    BY <2>2, <2>3, <2>4
  <2>6. QED
    BY <1>1, <2>4, <2>5, LogKept
<1>14. QED
  BY <1>7, <1>8, <1>9, <1>10, <1>11, <1>12, <1>13 DEF IndInv, ServerOK

LEMMA AcceptInv ==
  ASSUME IndInv, Accept
  PROVE  IndInv'
<1> DEFINE c == Head(backlog)
<1>1. /\ backlog # <<>> /\ listener = "listening" /\ backlog' = Tail(backlog)
      /\ run' = LoopOrJoin
      /\ UNCHANGED <<stop_requested, listener, buffer, greeted, stats, log, runtime, client>>
  BY DEF Accept
<1>2. c \in Connections /\ Waiting(c) /\ net[c] \in Net /\ worker \in [Connections -> WorkerState]
  BY <1>1, BacklogHead DEF IndInv, Types
<1> HIDE DEF c
<1>3. CASE /\ workers' = Reaped
           /\ \E r \in Sends(net[c], "down", "client", Frame("error", 0)) :
                \E n \in Closings(r.net, "server", "up") : net' = [net EXCEPT ![c] = n]
           /\ UNCHANGED worker
  <2>1. PICK r \in Sends(net[c], "down", "client", Frame("error", 0)) :
               \E n \in Closings(r.net, "server", "up") : net' = [net EXCEPT ![c] = n]
    BY <1>3
  <2>2. PICK n \in Closings(r.net, "server", "up") : net' = [net EXCEPT ![c] = n]
    BY <2>1
  <2>3. Frame("error", 0) \in AnyFrame
    BY DEF Frame, AnyFrame, FrameType
  <2>4. r.net \in Net /\ r.net.client = net[c].client /\ net[c].client # "none"
    <3> DEFINE f == Frame("error", 0)
               s == net[c]
    <3>1. s \in Net /\ s.client # "none" /\ f \in AnyFrame /\ r \in Sends(s, "down", "client", f)
      BY <1>2, <2>1, <2>3 DEF Waiting
    <3> HIDE DEF f, s
    <3>2. r.net \in Net /\ r.net.client = s.client
      BY <3>1, SendsDown
    <3>3. QED
      BY <3>1, <3>2 DEF s
  <2>5. n \in Net /\ n.up = <<>> /\ n.server = "closed"
        /\ (net[c].client = "open" => n.client = "open") /\ n.client # "none"
    BY <2>2, <2>4, ClosingsServer
  <2>6. worker' = [worker EXCEPT ![c] = "none"]
    BY <1>2, <1>3 DEF Waiting
  <2>7. QED
    BY <1>1, <1>3, <2>2, <2>5, <2>6, AcceptStep DEF c
<1>4. CASE /\ ~AtLimit(Reaped)
           /\ workers' = Reaped \cup {c}
           /\ worker' = [worker EXCEPT ![c] = "drain"]
           /\ net' = [net EXCEPT ![c].server = "open"]
  <2>1. [net[c] EXCEPT !.server = "open"] \in Net
        /\ [net[c] EXCEPT !.server = "open"].client = net[c].client
    BY <1>2 DEF Net
  <2>2. net[c].client # "none"
    BY <1>2 DEF Waiting
  <2>3. QED
    BY <1>1, <1>4, <2>1, <2>2, AcceptStep DEF c
<1>5. QED
  BY <1>3, <1>4 DEF Accept, c

-----------------------------------------------------------------------------
(***************************************************************************)
(* Steps of the clients.                                                   *)
(***************************************************************************)
LEMMA ScriptStep ==
  ASSUME NEW k \in Callers, NEW s \in 1..Len(Script[k])
  PROVE  /\ Script[k][s] \in RequestFrame /\ Script[k][s] \in AnyFrame
         /\ Script[k][s].type \in {"hello", "ingest", "ping", "bye"}
         /\ Script[k][s].type = "bye" <=> s = Len(Script[k])
         /\ Len(Script[k]) \in Nat
<1>1. Script[k] \in Seq(RequestFrame)
  BY ScriptAssumption
<1>2. Script[k][s] \in RequestFrame /\ Len(Script[k]) \in Nat
  BY <1>1, ElementOfSeq, LenProperties
<1>3. QED
  BY <1>2, ScriptAssumption DEF RequestFrame, AnyFrame

\* A new connection c joins the backlog.
LEMMA BacklogJoin ==
  ASSUME IndInv, NEW c \in Connections, net[c].client = "none", NEW n \in Net,
         n.client # "none", n.server = "none", ~n.reset, n.down = <<>>,
         net' = [net EXCEPT ![c] = n], backlog' = Append(backlog, c),
         NEW K \in [Callers -> CallState], client' = K, FreshOK', CallsOpen',
         UNCHANGED <<server_vars, worker_vars, runtime>>
  PROVE  IndInv'
<1>1. Types /\ ServerOK /\ LogOK
  BY DEF IndInv
<1>2. UNCHANGED <<stop_requested, listener, run, workers, worker, buffer, greeted, stats, log, runtime>>
  BY DEF server_vars, worker_vars
<1>3. \A d \in Connections : d # c => net'[d] = net[d]
  BY <1>1 DEF Types
<1>4. net'[c] = n
  BY <1>1 DEF Types
<1>5. worker[c] = "none" /\ buffer[c] = <<>> /\ c \notin workers
  BY <1>1 DEF ServerOK, ConnectionOK
<1>6. /\ backlog' \in Seq(Connections) /\ Len(backlog') = Len(backlog) + 1 /\ Len(backlog) \in Nat
      /\ \A i \in 1..Len(backlog) : backlog'[i] = backlog[i] /\ backlog[i] \in Connections
      /\ backlog'[Len(backlog) + 1] = c
  BY <1>1, AppendProperties, LenProperties, ElementOfSeq DEF Types
<1>7. \A i \in 1..Len(backlog) : Waiting(backlog[i]) /\ backlog[i] # c
  BY <1>1 DEF ServerOK, BacklogOK, Waiting
<1>8. Types'
  BY <1>1, <1>2, <1>6 DEF Types
<1>9. BacklogOK'
  <2>1. ASSUME NEW i \in 1..Len(backlog')
        PROVE  /\ worker'[backlog'[i]] = "none" /\ net'[backlog'[i]].server = "none"
               /\ net'[backlog'[i]].client # "none" /\ ~net'[backlog'[i]].reset
    <3>1. CASE i \in 1..Len(backlog)
      <4>1. backlog'[i] = backlog[i] /\ net'[backlog[i]] = net[backlog[i]] /\ Waiting(backlog[i])
        BY <1>3, <1>6, <1>7, <3>1
      <4>2. QED
        BY <1>2, <4>1 DEF Waiting
    <3>2. CASE i = Len(backlog) + 1
      BY <1>2, <1>4, <1>5, <1>6, <3>2
    <3>3. QED
      BY <1>6, <3>1, <3>2
  <2>2. ASSUME NEW i \in 1..Len(backlog'), NEW j \in 1..Len(backlog'), backlog'[i] = backlog'[j]
        PROVE  i = j
    <3>1. CASE i \in 1..Len(backlog) /\ j \in 1..Len(backlog)
      BY <1>1, <1>6, <2>2, <3>1 DEF ServerOK, BacklogOK
    <3>2. CASE i = Len(backlog) + 1 \/ j = Len(backlog) + 1
      BY <1>6, <1>7, <2>2, <3>2
    <3>3. QED
      BY <1>6, <3>1, <3>2
  <2>3. QED
    BY <2>1, <2>2 DEF BacklogOK, Waiting
<1>10. RunOK' /\ ThreadsBounded'
  BY <1>1, <1>2 DEF ServerOK, RunOK, Returned, Finished, ThreadsBounded
<1>11. ASSUME NEW d \in Connections PROVE ConnectionOK(d)'
  <2>1. ConnectionOK(d)
    BY <1>1 DEF ServerOK
  <2>2. CASE d # c
    BY <1>2, <1>3, <2>1, <2>2 DEF ConnectionOK
  <2>3. CASE d = c
    BY <1>2, <1>4, <1>5, <2>1, <2>3 DEF ConnectionOK
  <2>4. QED
    BY <2>2, <2>3
<1>12. LogOK'
  BY <1>1, <1>2, SameThreads
<1>13. QED
  BY <1>8, <1>9, <1>10, <1>11, <1>12 DEF IndInv, ServerOK

LEMMA IdleState ==
  Idle \in CallState /\ Idle.buffer = <<>> /\ Idle.outcomes = <<>> /\ Idle.pc = "idle"
  /\ Idle.step = 0 /\ Idle.result = "none"
<1>1. 0 \in 0..MaxAttempts /\ 0 \in Nat
  BY ServerAssumption
<1>2. QED
  BY <1>1 DEF Idle, CallState

LEMMA ConnectInv ==
  ASSUME IndInv, NEW k \in Callers, connect(k)
  PROVE  IndInv'
<1> DEFINE a == client[k].attempt + 1
           c == <<k, a>>
<1>1. Types /\ ServerOK /\ LogOK
  BY DEF IndInv
<1>2. client[k] \in CallState /\ client[k].pc = "idle" /\ client[k].attempt < MaxAttempts
      /\ UNCHANGED <<server_vars, worker_vars, runtime>>
  BY <1>1 DEF connect, Types, client_frame
<1>3. a \in 1..MaxAttempts /\ a > client[k].attempt
  BY <1>2, ServerAssumption DEF CallState
<1>4. c \in Connections /\ net[c].client = "none" /\ net[c] = Unused
  <2>1. c \in Connections
    BY <1>3 DEF Connections
  <2>2. net[c].client = "none"
    BY <1>1, <1>3 DEF ServerOK, FreshOK
  <2>3. QED
    BY <1>1, <2>1, <2>2 DEF ServerOK, ConnectionOK
<1>5. CASE listener = "listening"
  <2> DEFINE s == [Idle EXCEPT !.pc = "send", !.attempt = a, !.step = 1]
             K == [client EXCEPT ![k] = s]
             n == [net[c] EXCEPT !.client = "open"]
  <2>1. /\ client' = K /\ backlog' = Append(backlog, c)
        /\ net' = [net EXCEPT ![c] = n]
    BY <1>5 DEF connect
  <2>2. /\ s \in CallState /\ s.pc = "send" /\ s.attempt = a /\ s.step = 1
    <3>1. s = [Idle EXCEPT !.pc = "send", !.attempt = a, !.step = 1]
      OBVIOUS
    <3> HIDE DEF s, a
    <3>2. s = [pc |-> "send", attempt |-> a, step |-> 1, buffer |-> <<>>,
               outcomes |-> <<>>, result |-> "none"]
      BY <3>1, IdleState DEF CallState
    <3>3. QED
      BY <1>3, <3>2 DEF CallState
  <2> HIDE DEF s
  <2>3. K \in [Callers -> CallState] /\ K[k] = s /\ \A j \in Callers : j # k => K[j] = client[j]
    BY <1>1, <2>2 DEF Types
  <2>4. n \in Net /\ n.client = "open" /\ n.server = "none" /\ ~n.reset /\ n.down = <<>>
    <3>1. net[c] \in Net
      BY <1>1, <1>4 DEF Types
    <3>2. n = [up |-> net[c].up, down |-> net[c].down, client |-> "open", server |-> net[c].server,
               reset |-> net[c].reset]
      BY <3>1 DEF Net
    <3>3. net[c].up = <<>> /\ net[c].down = <<>> /\ net[c].server = "none" /\ ~net[c].reset
      BY <1>4 DEF Unused
    <3> HIDE DEF n, c
    <3>4. n \in Net /\ n.reset = net[c].reset /\ n.client = "open"
          /\ n.server = net[c].server /\ n.down = net[c].down
      BY <3>1, <3>2 DEF Net
    <3>5. QED
      BY <3>3, <3>4, Zenon
  <2> HIDE DEF n
  <2>5. net'[c] = n /\ \A d \in Connections : d # c => net'[d] = net[d]
    BY <1>1, <1>4, <2>1 DEF Types
  <2>6. FreshOK'
    <3>1. ASSUME NEW j \in Callers, NEW i \in 1..MaxAttempts, i > K[j].attempt
          PROVE  net'[<<j, i>>].client = "none"
      <4>1. <<j, i>> \in Connections /\ <<j, i>> # c
        BY <2>2, <2>3, <3>1 DEF Connections
      <4>2. i > client[j].attempt
        BY <1>2, <1>3, <2>2, <2>3, <3>1 DEF CallState
      <4>3. QED
        BY <1>1, <2>5, <4>1, <4>2 DEF ServerOK, FreshOK
    <3>2. QED
      BY <2>1, <3>1 DEF FreshOK
  <2>7. CallsOpen'
    <3>1. ASSUME NEW j \in Callers, K[j].pc # "idle"
          PROVE  /\ K[j].attempt > 0 /\ K[j].step \in 1..Len(Script[j])
                 /\ net'[<<j, K[j].attempt>>].client = "open"
      <4>1. CASE j = k
        <5>1. 1 \in 1..Len(Script[k])
          <6>1. Script[k] \in Seq(RequestFrame) /\ Len(Script[k]) > 0
            BY ScriptAssumption
          <6>2. Len(Script[k]) \in Nat
            BY <6>1, LenProperties
          <6>3. QED
            BY <6>1, <6>2
        <5>2. QED
          BY <1>3, <2>2, <2>3, <2>4, <2>5, <4>1, <5>1
      <4>2. CASE j # k
        <5>1. K[j] = client[j] /\ Connection(j) \in Connections /\ Connection(j) # c
          BY <1>1, <2>3, <3>1, <4>2, CallConnection DEF ServerOK, Connection
        <5>2. QED
          BY <1>1, <2>5, <3>1, <5>1 DEF ServerOK, CallsOpen, Connection
      <4>3. QED
        BY <4>1, <4>2
    <3>2. QED
      BY <2>1, <3>1 DEF CallsOpen, Connection
  <2> HIDE DEF K, c
  <2>8. QED
    BY <1>2, <1>4, <2>1, <2>3, <2>4, <2>6, <2>7, BacklogJoin
<1>6. CASE listener # "listening"
  <2> DEFINE s == [Idle EXCEPT !.attempt = a, !.result = "error"]
             K == [client EXCEPT ![k] = s]
  <2>1. client' = K /\ UNCHANGED <<backlog, net>>
    BY <1>6 DEF connect
  <2>2. s \in CallState /\ s.pc = "idle" /\ s.attempt = a
    <3>1. s = [Idle EXCEPT !.attempt = a, !.result = "error"]
      OBVIOUS
    <3> HIDE DEF s, a
    <3>2. s = [pc |-> "idle", attempt |-> a, step |-> 0, buffer |-> <<>>,
               outcomes |-> <<>>, result |-> "error"]
      BY <3>1, IdleState DEF CallState
    <3>3. QED
      BY <1>3, <3>2 DEF CallState
  <2> HIDE DEF s
  <2>3. K \in [Callers -> CallState] /\ K[k] = s /\ \A j \in Callers : j # k => K[j] = client[j]
    BY <1>1, <2>2 DEF Types
  <2>4. UNCHANGED <<stop_requested, listener, run, workers, worker, buffer, greeted, stats, log, runtime>>
    BY <1>2 DEF server_vars, worker_vars
  <2>5. Types'
    BY <1>1, <2>1, <2>3, <2>4 DEF Types
  <2>6. BacklogOK' /\ RunOK' /\ ThreadsBounded'
    BY <1>1, <2>1, <2>4
       DEF ServerOK, BacklogOK, Waiting, RunOK, Returned, Finished, ThreadsBounded
  <2>7. \A d \in Connections : ConnectionOK(d)'
    BY <1>1, <2>1, <2>4 DEF ServerOK, ConnectionOK
  <2>8. FreshOK'
    <3>1. ASSUME NEW j \in Callers, NEW i \in 1..MaxAttempts, i > K[j].attempt
          PROVE  i > client[j].attempt
      BY <1>2, <1>3, <2>2, <2>3, <3>1 DEF CallState
    <3>2. QED
      BY <1>1, <2>1, <3>1 DEF ServerOK, FreshOK
  <2>9. CallsOpen'
    BY <1>1, <2>1, <2>2, <2>3 DEF ServerOK, CallsOpen, Connection
  <2>10. LogOK'
    BY <1>1, <2>4, SameThreads
  <2>11. QED
    BY <2>5, <2>6, <2>7, <2>8, <2>9, <2>10 DEF IndInv, ServerOK
<1>7. QED
  BY <1>5, <1>6

\* The call of caller k changes its socket to n and its own state to s.
LEMMA CallStep ==
  ASSUME IndInv, NEW k \in Callers, client[k].pc # "idle", NEW n \in Net, NEW s \in CallState,
         n.server = net[Connection(k)].server, n.client \in {"open", "closed"},
         n.server = "none" => n.down = <<>> /\ n.reset = net[Connection(k)].reset,
         n.server = "closed" => n.up = <<>>,
         n.server = "open" /\ n.client = "open" => ~n.reset,
         s.attempt = client[k].attempt,
         s.pc # "idle" => n.client = "open" /\ s.step \in 1..Len(Script[k]),
         net' = [net EXCEPT ![Connection(k)] = n], client' = [client EXCEPT ![k] = s],
         UNCHANGED <<client_frame, backlog>>
  PROVE  IndInv'
<1> DEFINE c == Connection(k)
<1>1. Types /\ ServerOK /\ LogOK
  BY DEF IndInv
<1>2. c \in Connections /\ net[c].client = "open" /\ client[k].attempt \in 1..MaxAttempts
  BY <1>1, CallConnection DEF ServerOK, CallsOpen
<1>3. UNCHANGED <<stop_requested, listener, run, workers, worker, buffer, greeted, stats, log,
                  runtime, backlog>>
  BY DEF client_frame, server_vars, worker_vars
<1> HIDE DEF c
<1>4. net'[c] = n /\ \A d \in Connections : d # c => net'[d] = net[d]
  BY <1>1, <1>2 DEF Types, c
<1>5. client'[k] = s /\ \A j \in Callers : j # k => client'[j] = client[j]
  BY <1>1 DEF Types
<1>6. Types'
  BY <1>1, <1>2, <1>3 DEF Types, c
<1>7. BacklogOK'
  <2>1. ASSUME NEW i \in 1..Len(backlog) PROVE Waiting(backlog[i])'
    <3>1. backlog[i] \in Connections /\ Waiting(backlog[i])
      BY <1>1, ElementOfSeq DEF Types, ServerOK, BacklogOK
    <3>2. CASE backlog[i] = c
      BY <1>2, <1>3, <1>4, <3>1, <3>2 DEF Waiting, c
    <3>3. CASE backlog[i] # c
      BY <1>3, <1>4, <3>1, <3>3 DEF Waiting
    <3>4. QED
      BY <3>2, <3>3
  <2>2. QED
    BY <1>1, <1>3, <2>1 DEF ServerOK, BacklogOK
<1>8. RunOK' /\ ThreadsBounded'
  BY <1>1, <1>3 DEF ServerOK, RunOK, Returned, Finished, ThreadsBounded
<1>9. ASSUME NEW d \in Connections PROVE ConnectionOK(d)'
  <2>1. ConnectionOK(d)
    BY <1>1 DEF ServerOK
  <2>2. CASE d # c
    BY <1>3, <1>4, <2>1, <2>2 DEF ConnectionOK
  <2>3. CASE d = c
    BY <1>3, <1>4, <2>1, <2>3 DEF ConnectionOK, c
  <2>4. QED
    BY <2>2, <2>3
<1>10. FreshOK'
  <2>1. ASSUME NEW j \in Callers, NEW i \in 1..MaxAttempts, i > client'[j].attempt
        PROVE  net'[<<j, i>>].client = "none"
    <3>1. i > client[j].attempt
      BY <1>5, <2>1
    <3>2. <<j, i>> \in Connections /\ net[<<j, i>>].client = "none"
      BY <1>1, <3>1 DEF Connections, ServerOK, FreshOK
    <3>3. QED
      BY <1>2, <1>4, <3>2
  <2>2. QED
    BY <2>1 DEF FreshOK
<1>11. CallsOpen'
  <2>1. ASSUME NEW j \in Callers, client'[j].pc # "idle"
        PROVE  /\ client'[j].attempt > 0 /\ client'[j].step \in 1..Len(Script[j])
               /\ net'[<<j, client'[j].attempt>>].client = "open"
    <3>1. CASE j = k
      <4>1. <<j, client'[j].attempt>> = c /\ client'[j].attempt > 0
        BY <1>2, <1>5, <3>1 DEF c, Connection
      <4>2. QED
        BY <1>4, <1>5, <2>1, <3>1, <4>1
    <3>2. CASE j # k
      <4>1. Connection(j) \in Connections /\ Connection(j) # c /\ client'[j] = client[j]
        BY <1>1, <1>5, <2>1, <3>2, CallConnection DEF ServerOK, Connection, c
      <4>2. QED
        BY <1>1, <1>4, <2>1, <4>1 DEF ServerOK, CallsOpen, Connection
    <3>3. QED
      BY <3>1, <3>2
  <2>2. QED
    BY <2>1 DEF CallsOpen, Connection
<1>12. LogOK'
  BY <1>1, <1>3, SameThreads
<1>13. QED
  BY <1>6, <1>7, <1>8, <1>9, <1>10, <1>11, <1>12 DEF IndInv, ServerOK

\* The socket of a call that has not returned.
LEMMA CallSocket ==
  ASSUME IndInv, NEW k \in Callers, client[k].pc # "idle"
  PROVE  LET n == net[Connection(k)]
         IN  /\ n \in Net /\ n.client = "open" /\ client[k] \in CallState
             /\ n.server = "none" => n.down = <<>>
             /\ n.server = "closed" => n.up = <<>> /\ buffer[Connection(k)] = <<>>
             /\ n.server = "open" => ~n.reset
             /\ Request(k) \in RequestFrame /\ client[k].step \in 1..Len(Script[k])
             /\ Connection(k) \in Connections /\ client[k].attempt \in 1..MaxAttempts
<1>1. Types /\ ServerOK /\ CallsOpen
  BY DEF IndInv, ServerOK
<1>2. Connection(k) \in Connections /\ client[k].step \in 1..Len(Script[k])
      /\ client[k].attempt \in 1..MaxAttempts
  BY <1>1, CallConnection
<1>3. net[Connection(k)] \in Net /\ ConnectionOK(Connection(k)) /\ client[k] \in CallState
      /\ net[Connection(k)].client = "open"
  BY <1>1, <1>2 DEF Types, ServerOK, CallsOpen
<1>4. Request(k) \in RequestFrame
  BY <1>2, ScriptStep DEF Request
<1>5. QED
  BY <1>2, <1>3, <1>4 DEF ConnectionOK

LEMMA ReturnInv ==
  ASSUME IndInv, NEW k \in Callers, client[k].pc # "idle", NEW n \in Net,
         n.server = net[Connection(k)].server, n.reset = net[Connection(k)].reset,
         n.server = "none" => n.down = <<>>,
         n.server = "closed" => n.up = <<>>,
         NEW result \in {"ok", "error"}, Return(k, n, result), UNCHANGED <<client_frame, backlog>>
  PROVE  IndInv'
<1>1. PICK m \in Closings(n, "client", "down") : net' = [net EXCEPT ![Connection(k)] = m]
  BY DEF Return
<1> DEFINE s == [client[k] EXCEPT !.pc = "idle", !.result = result, !.buffer = <<>>]
<1>2. client' = [client EXCEPT ![k] = s]
  BY DEF Return
<1>3. client[k] \in CallState
  BY CallSocket
<1>4. s \in CallState /\ s.pc = "idle" /\ s.attempt = client[k].attempt
  <2>1. s = [client[k] EXCEPT !.pc = "idle", !.result = result, !.buffer = <<>>]
    OBVIOUS
  <2> HIDE DEF s
  <2>2. s = [pc |-> "idle", attempt |-> client[k].attempt, step |-> client[k].step, buffer |-> <<>>,
             outcomes |-> client[k].outcomes, result |-> result]
    BY <1>3, <2>1 DEF CallState
  <2>3. QED
    BY <1>3, <2>2 DEF CallState
<1>5. /\ m \in Net /\ m.down = <<>> /\ m.client = "closed" /\ m.server = n.server
      /\ n.server # "closed" => m.up = n.up
      /\ n.server = "closed" => m = Gone
      /\ n.server # "closed" /\ n.down = <<>> => m.reset = n.reset
  BY <1>1, ClosingsClient
<1>6. /\ m.server = "none" => m.down = <<>> /\ m.reset = net[Connection(k)].reset
      /\ m.server = "closed" => m.up = <<>>
      /\ m.server = net[Connection(k)].server
  BY <1>5 DEF Gone
<1> HIDE DEF s
<1>7. QED
  BY <1>1, <1>2, <1>4, <1>5, <1>6, CallStep

LEMMA AskInv ==
  ASSUME IndInv, NEW k \in Callers, Ask(k)
  PROVE  IndInv'
<1> DEFINE c == Connection(k)
<1>1. PICK r \in Sends(net[c], "up", "server", Request(k)) :
           \/ /\ r.ok
              /\ net' = [net EXCEPT ![c] = r.net]
              /\ client' = [client EXCEPT ![k].pc = "recv", ![k].buffer = <<>>]
           \/ ~r.ok /\ Return(k, r.net, IF Request(k).type = "bye" THEN "ok" ELSE "error")
  BY DEF Ask
<1>2. client[k].pc = "send" /\ UNCHANGED <<client_frame, backlog>>
  BY DEF Ask
<1>3. /\ net[c] \in Net /\ net[c].client = "open" /\ client[k] \in CallState
      /\ net[c].server = "none" => net[c].down = <<>>
      /\ net[c].server = "closed" => net[c].up = <<>>
      /\ net[c].server = "open" => ~net[c].reset
      /\ Request(k) \in RequestFrame /\ client[k].step \in 1..Len(Script[k])
  BY <1>2, CallSocket
<1>4. /\ r.net \in Net /\ r.net.down = net[c].down /\ r.net.client = net[c].client
      /\ r.net.server = net[c].server /\ r.net.reset = net[c].reset
      /\ r.net.server = "closed" => r.net.up = <<>>
  <2> DEFINE n == net[c]
             f == Request(k)
  <2>1. n \in Net /\ f \in RequestFrame /\ r \in Sends(n, "up", "server", f)
        /\ (n.server = "closed" => n.up = <<>>)
    BY <1>1, <1>3
  <2> HIDE DEF n, f
  <2>2. /\ r.net \in Net /\ r.net.down = n.down /\ r.net.client = n.client
        /\ r.net.server = n.server /\ r.net.reset = n.reset
        /\ n.server = "closed" => r.net = n
    BY <2>1, SendsUp
  <2>3. QED
    BY <2>1, <2>2 DEF n
<1>5. CASE /\ net' = [net EXCEPT ![c] = r.net]
           /\ client' = [client EXCEPT ![k].pc = "recv", ![k].buffer = <<>>]
  <2> DEFINE s == [client[k] EXCEPT !.pc = "recv", !.buffer = <<>>]
  <2>1. client' = [client EXCEPT ![k] = s]
    BY <1>5
  <2>2. s \in CallState /\ s.attempt = client[k].attempt /\ s.step = client[k].step
    <3>1. s = [client[k] EXCEPT !.pc = "recv", !.buffer = <<>>]
      OBVIOUS
    <3> HIDE DEF s
    <3>2. s = [pc |-> "recv", attempt |-> client[k].attempt, step |-> client[k].step,
               buffer |-> <<>>, outcomes |-> client[k].outcomes, result |-> client[k].result]
      BY <1>3, <3>1 DEF CallState
    <3>3. QED
      BY <1>3, <3>2 DEF CallState
  <2> HIDE DEF s
  <2>3. /\ r.net.server = "none" => r.net.down = <<>>
        /\ r.net.server = "open" /\ r.net.client = "open" => ~r.net.reset
        /\ r.net.client = "open" /\ s.step \in 1..Len(Script[k]) /\ client[k].pc # "idle"
    BY <1>2, <1>3, <1>4, <2>2
  <2>4. QED
    BY <1>2, <1>4, <1>5, <2>1, <2>2, <2>3, CallStep
<1>6. CASE Return(k, r.net, IF Request(k).type = "bye" THEN "ok" ELSE "error")
  <2> DEFINE result == IF Request(k).type = "bye" THEN "ok" ELSE "error"
  <2>1. result \in {"ok", "error"} /\ Return(k, r.net, result)
    BY <1>6
  <2> HIDE DEF result
  <2>2. QED
    BY <1>2, <1>3, <1>4, <2>1, ReturnInv
<1>7. QED
  BY <1>1, <1>5, <1>6

\* The cases of the second half of exchange.
HearCases(k, chunk) ==
  LET heard == client[k].buffer \o chunk
      read == [net[Connection(k)] EXCEPT !.down = After(net[Connection(k)].down, chunk)]
      last == client[k].step = Len(Script[k])
      failed == IF Request(k).type = "bye" THEN "ok" ELSE "error"
  IN  \/ /\ ~NextIsFrame(heard) /\ ~NextIsError(heard)
         /\ client' = [client EXCEPT ![k].buffer = heard]
         /\ net' = [net EXCEPT ![Connection(k)] = read]
      \/ /\ NextIsFrame(heard) /\ NextFrame(heard).type = Expected(Request(k).type) /\ ~last
         /\ client' = [client EXCEPT ![k] = Took(k, NextFrame(heard))]
         /\ net' = [net EXCEPT ![Connection(k)] = read]
      \/ last /\ Return(k, read, "ok")
      \/ Return(k, read, failed)

LEMMA HearSplit ==
  ASSUME NEW k, Hear(k)
  PROVE  /\ client[k].pc = "recv" /\ UNCHANGED <<client_frame, backlog>>
         /\ \/ Return(k, net[Connection(k)], IF Request(k).type = "bye" THEN "ok" ELSE "error")
            \/ \E chunk \in Chunks(net[Connection(k)].down) : HearCases(k, chunk)
BY DEF Hear, HearCases

\* What caller k reads of its socket.
LEMMA HearReads ==
  ASSUME IndInv, NEW k \in Callers, client[k].pc = "recv",
         NEW chunk \in Chunks(net[Connection(k)].down)
  PROVE  LET n == net[Connection(k)]
             read == [n EXCEPT !.down = After(n.down, chunk)]
             heard == client[k].buffer \o chunk
         IN  /\ read \in Net /\ read.client = n.client /\ read.server = n.server
             /\ read.reset = n.reset /\ read.up = n.up /\ read.down = After(n.down, chunk)
             /\ n.server # "none"
             /\ heard \in Seq(Cell) /\ Len(heard) = Len(client[k].buffer) + Len(chunk)
             /\ \A i \in 1..Len(heard) : heard[i] = IF i <= Len(client[k].buffer)
                                                    THEN client[k].buffer[i]
                                                    ELSE chunk[i - Len(client[k].buffer)]
             /\ NextIsFrame(heard) => NextFrame(heard) \in AnyFrame /\ heard[1] \in Cell
<1> DEFINE n == net[Connection(k)]
           b == client[k].buffer
           heard == b \o chunk
<1>1. n \in Net /\ client[k] \in CallState /\ (n.server = "none" => n.down = <<>>)
  BY CallSocket
<1>2. n.down \in Seq(Cell) /\ b \in Seq(Cell)
  BY <1>1 DEF Net, CallState
<1>3. chunk \in Seq(Cell) /\ After(n.down, chunk) \in Seq(Cell) /\ Len(chunk) \in 1..Len(n.down)
  BY <1>2, ChunkProperties
<1>4. n.server # "none"
  <2>1. Len(<<>>) = 0
    OBVIOUS
  <2>2. Len(n.down) # 0
    BY <1>2, <1>3, LenProperties
  <2>3. QED
    BY <1>1, <2>1, <2>2, Zenon
<1>5. /\ heard \in Seq(Cell) /\ Len(heard) = Len(b) + Len(chunk)
      /\ \A i \in 1..(Len(b) + Len(chunk)) : heard[i] = IF i <= Len(b) THEN b[i] ELSE chunk[i - Len(b)]
  <2> HIDE DEF b
  <2> QED BY <1>2, <1>3, ConcatProperties
<1>6. NextIsFrame(heard) => NextFrame(heard) \in AnyFrame /\ heard[1] \in Cell
  <2> HIDE DEF heard
  <2>1. ASSUME NextIsFrame(heard) PROVE heard[1] \in Cell
    <3>1. Len(heard) > 1 /\ Len(heard) \in Nat
      BY <1>5, <2>1, LenProperties DEF NextIsFrame
    <3>2. QED
      BY <1>5, <3>1, ElementOfSeq
  <2>2. QED
    BY <2>1 DEF NextFrame, Cell, AnyFrame
<1>7. LET read == [n EXCEPT !.down = After(n.down, chunk)]
      IN  /\ read \in Net /\ read.client = n.client /\ read.server = n.server
          /\ read.reset = n.reset /\ read.up = n.up /\ read.down = After(n.down, chunk)
  BY <1>1, <1>3 DEF Net
<1>8. QED
  BY <1>4, <1>5, <1>6, <1>7

LEMMA TookProperties ==
  ASSUME NEW k \in Callers, client[k] \in CallState, NEW f \in AnyFrame
  PROVE  /\ Took(k, f) \in CallState /\ Took(k, f).pc = "send"
         /\ Took(k, f).attempt = client[k].attempt /\ Took(k, f).step = client[k].step + 1
         /\ Took(k, f).buffer = <<>> /\ Took(k, f).result = client[k].result
         /\ Took(k, f).outcomes = IF f.type = "ingest_ack" THEN Append(client[k].outcomes, f.arg)
                                                           ELSE client[k].outcomes
<1> DEFINE o == IF f.type = "ingest_ack" THEN Append(client[k].outcomes, f.arg)
                                         ELSE client[k].outcomes
<1>1. client[k].outcomes \in Seq(Nat) /\ f.arg \in Nat /\ client[k].step + 1 \in Nat
  BY DEF CallState, AnyFrame
<1>2. o \in Seq(Nat)
  BY <1>1, AppendProperties
<1>3. Took(k, f) = [client[k] EXCEPT !.pc = "send", !.step = client[k].step + 1,
                                     !.buffer = <<>>, !.outcomes = o]
  BY DEF Took
<1> HIDE DEF o
<1>4. Took(k, f) = [pc |-> "send", attempt |-> client[k].attempt, step |-> client[k].step + 1,
                    buffer |-> <<>>, outcomes |-> o, result |-> client[k].result]
  BY <1>3 DEF CallState
<1>5. QED
  BY <1>1, <1>2, <1>4 DEF CallState, o

LEMMA HearInv ==
  ASSUME IndInv, NEW k \in Callers, Hear(k)
  PROVE  IndInv'
<1> DEFINE c == Connection(k)
           failed == IF Request(k).type = "bye" THEN "ok" ELSE "error"
<1>1. client[k].pc = "recv" /\ UNCHANGED <<client_frame, backlog>>
  BY HearSplit
<1>2. /\ net[c] \in Net /\ net[c].client = "open" /\ client[k] \in CallState
      /\ net[c].server = "none" => net[c].down = <<>>
      /\ net[c].server = "closed" => net[c].up = <<>>
      /\ net[c].server = "open" => ~net[c].reset
      /\ client[k].step \in 1..Len(Script[k])
  BY <1>1, CallSocket
<1>3. failed \in {"ok", "error"} /\ "ok" \in {"ok", "error"}
  OBVIOUS
<1> HIDE DEF failed
<1>4. CASE Return(k, net[c], failed)
  BY <1>1, <1>2, <1>3, <1>4, ReturnInv
<1>5. ASSUME NEW chunk \in Chunks(net[c].down), HearCases(k, chunk)
      PROVE  IndInv'
  <2> DEFINE heard == client[k].buffer \o chunk
             read == [net[c] EXCEPT !.down = After(net[c].down, chunk)]
  <2>1. /\ read \in Net /\ read.client = net[c].client /\ read.server = net[c].server
        /\ read.reset = net[c].reset /\ read.up = net[c].up /\ net[c].server # "none"
        /\ heard \in Seq(Cell)
        /\ NextIsFrame(heard) => NextFrame(heard) \in AnyFrame
    BY <1>1, HearReads
  <2>2. \/ /\ client' = [client EXCEPT ![k].buffer = heard]
           /\ net' = [net EXCEPT ![c] = read]
        \/ /\ NextIsFrame(heard) /\ client[k].step # Len(Script[k])
           /\ client' = [client EXCEPT ![k] = Took(k, NextFrame(heard))]
           /\ net' = [net EXCEPT ![c] = read]
        \/ Return(k, read, "ok")
        \/ Return(k, read, failed)
    BY <1>5 DEF HearCases, failed
  <2> HIDE DEF heard, read
  <2>3. CASE /\ client' = [client EXCEPT ![k].buffer = heard]
             /\ net' = [net EXCEPT ![c] = read]
    <3> DEFINE s == [client[k] EXCEPT !.buffer = heard]
    <3>1. client' = [client EXCEPT ![k] = s]
      BY <2>3
    <3>2. s \in CallState /\ s.attempt = client[k].attempt /\ s.step = client[k].step
      BY <1>2, <2>1 DEF CallState
    <3> HIDE DEF s
    <3>3. QED
      BY <1>1, <1>2, <2>1, <2>3, <3>1, <3>2, CallStep, ZenonT(40)
  <2>4. CASE /\ NextIsFrame(heard) /\ client[k].step # Len(Script[k])
             /\ client' = [client EXCEPT ![k] = Took(k, NextFrame(heard))]
             /\ net' = [net EXCEPT ![c] = read]
    <3> DEFINE s == Took(k, NextFrame(heard))
    <3>1. /\ s \in CallState /\ s.attempt = client[k].attempt /\ s.step = client[k].step + 1
      BY <1>2, <2>1, <2>4, TookProperties
    <3>2. s.step \in 1..Len(Script[k])
      BY <1>2, <2>4, <3>1, ScriptStep
    <3> HIDE DEF s
    <3>3. client' = [client EXCEPT ![k] = s]
      BY <2>4 DEF s
    <3>4. /\ read.server = "closed" => read.up = <<>>
          /\ read.server = "open" /\ read.client = "open" => ~read.reset
          /\ read.client = "open" /\ read.server # "none" /\ client[k].pc # "idle"
      BY <1>1, <1>2, <2>1
    <3>5. QED
      BY <1>1, <2>1, <2>4, <3>1, <3>2, <3>3, <3>4, CallStep
  <2>5. CASE Return(k, read, "ok") \/ Return(k, read, failed)
    BY <1>1, <1>2, <1>3, <2>1, <2>5, ReturnInv
  <2>6. QED
    BY <2>2, <2>3, <2>4, <2>5
<1>6. QED
  BY <1>4, <1>5, HearSplit DEF failed

LEMMA RawBurstInv ==
  ASSUME IndInv, NEW k \in Raw, RawBurst(k)
  PROVE  IndInv'
<1> DEFINE c == <<k, 1>>
<1>1. Types /\ ServerOK
  BY DEF IndInv
<1>2. c \in Connections /\ net[c].client = "none"
  BY DEF Connections, RawBurst
<1>3. net[c] = Unused
  BY <1>1, <1>2 DEF ServerOK, ConnectionOK
<1>4. PICK burst \in Bursts :
        net' = [net EXCEPT ![c].client = "deaf", ![c].up = encode_frames(burst)]
  BY DEF RawBurst
<1> DEFINE n == [up |-> encode_frames(burst), down |-> <<>>, client |-> "deaf", server |-> "none",
                 reset |-> FALSE]
<1>5. net' = [net EXCEPT ![c] = n]
  <2> DEFINE m == [net[c] EXCEPT !.client = "deaf"]
             net1 == [net EXCEPT ![c] = m]
  <2>1. net' = [net1 EXCEPT ![c] = [net1[c] EXCEPT !.up = encode_frames(burst)]]
    BY <1>4
  <2>2. net1[c] = m /\ net[c] \in Net
    BY <1>1, <1>2 DEF Types
  <2>3. net' = [net EXCEPT ![c] = [m EXCEPT !.up = encode_frames(burst)]]
    BY <1>1, <2>1, <2>2 DEF Types
  <2>4. m = [up |-> net[c].up, down |-> net[c].down, client |-> "deaf", server |-> net[c].server,
             reset |-> net[c].reset]
    BY <2>2 DEF Net
  <2> HIDE DEF m, c
  <2>5. [m EXCEPT !.up = encode_frames(burst)]
          = [up |-> encode_frames(burst), down |-> net[c].down, client |-> "deaf",
             server |-> net[c].server, reset |-> net[c].reset]
    BY <2>4
  <2>6. [m EXCEPT !.up = encode_frames(burst)] = n
    BY <1>3, <2>5 DEF Unused
  <2>7. QED
    BY <2>3, <2>6
<1>6. encode_frames(burst) \in Seq(RequestCell)
  BY ScriptAssumption, EncodeFrames
<1>7. n \in Net
  BY <1>6 DEF Net
<1>8. backlog' = Append(backlog, c) /\ UNCHANGED <<server_vars, worker_vars, runtime, client>>
  BY DEF RawBurst
<1>9. \A j \in Callers, i \in 1..MaxAttempts : <<j, i>> \in Connections /\ <<j, i>> # c
  BY ServerAssumption DEF Connections
<1>10. \A d \in Connections : d # c => net'[d] = net[d]
  BY <1>1, <1>5 DEF Types
<1>11. FreshOK'
  BY <1>1, <1>8, <1>9, <1>10 DEF ServerOK, FreshOK
<1>12. CallsOpen'
  <2>1. ASSUME NEW j \in Callers, client[j].pc # "idle"
        PROVE  net'[Connection(j)].client = "open"
    BY <1>1, <1>9, <1>10, <2>1, CallConnection DEF ServerOK, CallsOpen, Connection
  <2>2. QED
    BY <1>1, <1>8, <2>1 DEF ServerOK, CallsOpen, Connection
<1>13. client \in [Callers -> CallState] /\ client' = client
  BY <1>1, <1>8 DEF Types
<1>14. n.client # "none" /\ n.server = "none" /\ ~n.reset /\ n.down = <<>>
  OBVIOUS
<1> HIDE DEF n, c
<1>15. QED
  BY <1>2, <1>5, <1>7, <1>8, <1>11, <1>12, <1>13, <1>14, BacklogJoin

-----------------------------------------------------------------------------
(***************************************************************************)
(* The invariant holds.                                                    *)
(***************************************************************************)
LEMMA InitInv == Init => IndInv
<1> SUFFICES ASSUME Init PROVE IndInv
  OBVIOUS
<1>1. Types
  <2>1. net \in [Connections -> Net]
    <3>1. [up |-> <<>>, down |-> <<>>, client |-> "none", server |-> "none", reset |-> FALSE] \in Net
      BY DEF Net
    <3>2. QED
      BY <3>1 DEF Init
  <2>2. client \in [Callers -> CallState]
    BY IdleState DEF Init
  <2>3. /\ backlog \in Seq(Connections) /\ workers \subseteq Connections
        /\ worker \in [Connections -> WorkerState]
        /\ buffer \in [Connections -> Seq(RequestCell)]
    BY DEF Init, WorkerState
  <2>4. greeted \in [Connections -> BOOLEAN] /\ stop_requested \in BOOLEAN
    BY Zenon DEF Init
  <2>5. /\ listener \in {"unbound", "listening", "closed"} /\ runtime \in {"up", "shutting_down"}
        /\ run \in {"not_running", "accept", "join", "join_failed", "ok", "failed"}
    BY DEF Init
  <2>6. QED
    BY <2>1, <2>2, <2>3, <2>4, <2>5 DEF Types
<1>2. Len(backlog) = 0 /\ Cardinality(workers) = 0 /\ Cardinality(log) = 0 /\ IsFiniteSet(log)
  BY FS_EmptySet DEF Init
<1>3. BacklogOK /\ RunOK /\ ThreadsBounded
  <2>1. Cardinality({c \in Connections : worker[c] \notin {"none", "finished"}}) = 0
    <3>1. {c \in Connections : worker[c] \notin {"none", "finished"}} = {}
      BY DEF Init
    <3>2. QED
      BY <3>1, FS_EmptySet
  <2>2. QED
    BY <1>2, <2>1, ServerAssumption DEF Init, BacklogOK, RunOK, ThreadsBounded, Returned
<1>4. \A c \in Connections : ConnectionOK(c)
  BY BufferAssumption DEF Init, ConnectionOK, Unused
<1>5. FreshOK
  BY DEF Init, FreshOK, Connections
<1>6. CallsOpen
  BY IdleState DEF Init, CallsOpen
<1>7. LogOK
  <2>1. Cardinality({c \in Connections : Finished(c)}) \in Nat
    BY ConnectionsFinite, FS_Subset, FS_CardinalityType
  <2>2. StoredOnce /\ log \subseteq Clients \X (DOMAIN Good) \X (1..MaxAttempts)
    BY DEF Init, StoredOnce
  <2>3. Uncounted = {}
    BY DEF Init, Uncounted
  <2>4. Cardinality(Uncounted) = 0
    BY <2>3, FS_EmptySet
  <2>5. QED
    BY <1>2, <2>1, <2>2, <2>4 DEF Init, LogOK, StatsTrue
<1>8. QED
  BY <1>1, <1>3, <1>4, <1>5, <1>6, <1>7 DEF IndInv, ServerOK

LEMMA NextInv == IndInv /\ [Next]_vars => IndInv'
<1> SUFFICES ASSUME IndInv, [Next]_vars PROVE IndInv'
  OBVIOUS
<1>1. CASE UNCHANGED vars
  BY <1>1 DEF vars, server_vars, worker_vars, stats, IndInv, Types, ServerOK, LogOK, BacklogOK,
     Waiting, RunOK, Returned, Finished, ThreadsBounded, ConnectionOK, FreshOK, CallsOpen,
     Connection, StoredOnce, StatsTrue, Uncounted
<1>2. CASE start \/ stop \/ request_shutdown \/ AcceptFails \/ RunJoins
  BY <1>2, OwnerInv
<1>3. CASE StopCloses
  BY <1>3, StopClosesInv
<1>4. CASE Accept
  BY <1>4, AcceptInv
<1>5. ASSUME NEW c \in Connections, serve_connection(c) PROVE IndInv'
  BY <1>5, ServeInv
<1>6. ASSUME NEW k \in Callers, Caller(k) PROVE IndInv'
  BY <1>6, ConnectInv, AskInv, HearInv DEF Caller
<1>7. ASSUME NEW k \in Raw, RawBurst(k) PROVE IndInv'
  BY <1>7, RawBurstInv
<1>8. QED
  BY <1>1, <1>2, <1>3, <1>4, <1>5, <1>6, <1>7 DEF Next, RunStep

\* The threads, the sockets, run's vector of workers, the backlog and the
\* statistics always belong together as the inductive invariant says.
THEOREM Invariance == Spec => []IndInv
BY InitInv, NextInv, PTL DEF Spec

\* No more threads than max_connections serve at any time, run returns only
\* after the last of them has ended, and the statistics are true of the log but
\* for the records that a thread has stored and is about to acknowledge or to
\* count, and for the connections that ended before their acknowledgement.
THEOREM ServerCorrect == Spec => []ServerInv
<1>1. ASSUME IndInv PROVE ServerInv
  <2>1. Types /\ ServerOK /\ LogOK
    BY <1>1 DEF IndInv
  <2>2. \A c \in Connections : buffer[c] \in Seq(Cell) /\ Len(buffer[c]) <= MaxBuffer
    <3>1. ASSUME NEW c \in Connections
          PROVE  buffer[c] \in Seq(RequestCell) /\ Len(buffer[c]) <= MaxBuffer
      BY <2>1 DEF Types, ServerOK, ConnectionOK
    <3>2. QED
      BY <3>1, RequestsAreCells
  <2>3. TypeOK
    <3>1. \A k \in Callers : client[k].pc \in {"idle", "send", "recv"}
      BY <2>1 DEF Types, CallState
    <3>2. QED
      BY <2>1, <2>2, <3>1, Zenon DEF TypeOK, Types, LogOK
  <2>4. RunOutlivesConnections
    <3>1. ASSUME Returned, NEW c \in Connections PROVE worker[c] \in {"none", "finished"}
      <4>1. worker[c] \in WorkerState /\ ConnectionOK(c) /\ RunOK
        BY <2>1 DEF Types, ServerOK
      <4>2. c \in workers => Finished(c)
        BY <3>1, <4>1 DEF RunOK
      <4>3. QED
        BY <4>1, <4>2 DEF ConnectionOK, WorkerState, Finished
    <3>2. QED
      BY <3>1 DEF RunOutlivesConnections
  <2>5. QED
    BY <2>1, <2>3, <2>4 DEF ServerInv, ServerOK, LogOK
<1>2. QED
  BY Invariance, <1>1, PTL

\* However often a caller repeats a push after a broken connection, while the
\* server still works on the old one, a record of it is stored at most once.
THEOREM NothingStoredTwice == Spec => []StoredOnce
<1>1. IndInv => StoredOnce
  BY DEF IndInv, LogOK
<1>2. QED
  BY Invariance, <1>1, PTL

-----------------------------------------------------------------------------
(***************************************************************************)
(* What a caller may conclude: from the acknowledgements it has read, and  *)
(* from a push that succeeded after any number of broken ones.  The        *)
(* inductive invariant, on top of IndInv.                                  *)
(***************************************************************************)
\* Two adjacent streams, a buffer and what has not been read into it yet, hold
\* exactly frame f.
Holds(b, u, f) ==
  /\ Len(b) + Len(u) = 2
  /\ \A i \in 1..Len(b) : b[i] = encode_frame(f)[i]
  /\ \A i \in 1..Len(u) : u[i] = encode_frame(f)[i + Len(b)]

\* ... or nothing.
Nothing(b, u) == b = <<>> /\ u = <<>>

Record(k, s) == Script[k][s].arg

Stored(k, s) == \E a \in 1..MaxAttempts : <<k, Record(k, s), a>> \in log

\* While the runtime is up, the good records before step s are stored.
Covered(k, s) ==
  runtime = "up" => \A t \in Pushes(k) : t < s /\ Good[Record(k, t)] => Stored(k, t)

\* Whatever is stored of a caller, so are the good records before it.
PrefixStored(k) ==
  \A e \in log : e[1] = k =>
    \A t \in Pushes(k) : Record(k, t) <= e[2] /\ Good[Record(k, t)] => Stored(k, t)

\* The request of step s is on its way to the runtime over connection <<k, a>>.
OnItsWay(k, a, s) ==
  /\ Holds(buffer[<<k, a>>], net[<<k, a>>].up, Script[k][s])
  /\ Covered(k, s)
  /\ a <= client[k].attempt
  /\ s \in Pushes(k) => <<k, Record(k, s), a>> \notin log
  /\ a = client[k].attempt => s = client[k].step /\ client[k].pc # "send"

RequestsOK(k) ==
  \A a \in 1..MaxAttempts :
    \/ Nothing(buffer[<<k, a>>], net[<<k, a>>].up)
    \/ \E s \in 1..Len(Script[k]) : OnItsWay(k, a, s)

\* What cell x of a reply says of the record of the current step is true.
ReplyOK(k, x) ==
  x.frame.type = "ingest_ack" =>
    /\ client[k].step \in Pushes(k)
    /\ Nothing(buffer[Connection(k)], net[Connection(k)].up)
    /\ (x.frame.arg = 1) <=> <<k, Record(k, client[k].step), client[k].attempt>> \in log
    /\ Covered(k, client[k].step + 1)

Sending(k) ==
  LET n == net[Connection(k)]
  IN  /\ client[k].buffer = <<>> /\ Nothing(buffer[Connection(k)], n.up)
      /\ n.server # "closed" => n.down = <<>>
      /\ \A i \in 1..Len(n.down) : n.down[i].frame.type # "ingest_ack"
      /\ client[k].step \in Pushes(k) =>
           <<k, Record(k, client[k].step), client[k].attempt>> \notin log

\* The thread of a connection has handed a record to the runtime and is to say so.
Acking == {"ack_stored", "ack_refused"}

\* Either the request or its reply is there, or the reply is due, as long as the
\* connection is.
Exchanging(k) ==
  LET n == net[Connection(k)]
      b == client[k].buffer
  IN  n.server # "closed" /\ ~n.reset =>
        \/ Holds(buffer[Connection(k)], n.up, Request(k)) /\ Nothing(b, n.down)
        \/ Nothing(buffer[Connection(k)], n.up) /\ Len(b) + Len(n.down) = 2
        \/ worker[Connection(k)] \in Acking

RepliesOK(k) ==
  LET d == net[Connection(k)].down
      b == client[k].buffer
  IN  /\ \A i \in 1..Len(b) : ReplyOK(k, b[i])
      /\ \A i \in 1..Len(d) : IF i + Len(b) <= 2 THEN ReplyOK(k, d[i])
                               ELSE d[i].frame.type # "ingest_ack"

Receiving(k) == Len(client[k].buffer) <= 1 /\ Exchanging(k) /\ RepliesOK(k)

\* A call that has not returned.
CallOK(k) ==
  /\ client[k].pc # "idle" => Covered(k, client[k].step)
  /\ client[k].pc = "send" => Sending(k)
  /\ client[k].pc = "recv" => Receiving(k)
  /\ client[k].result = "ok" => Covered(k, Len(Script[k]) + 1)

\* What was said about the records before the current step; the ones after it
\* were not stored over this connection, and none over a later one.
OutcomesOK(k) ==
  /\ Len(client[k].outcomes) = Cardinality({t \in Pushes(k) : t < client[k].step})
  /\ \A t \in Pushes(k) : t < client[k].step =>
       (client[k].outcomes[Nth(k, t)] = 1 <=> <<k, Record(k, t), client[k].attempt>> \in log)
  /\ \A t \in Pushes(k) : t > client[k].step => <<k, Record(k, t), client[k].attempt>> \notin log
  /\ \A e \in log : e[1] = k => e[3] <= client[k].attempt

\* An acknowledgement that is due is the one the caller waits for, and is true.
AcksOK(k) ==
  LET c == Connection(k)
  IN  client[k].pc # "idle" /\ worker[c] \in Acking =>
        /\ client[k].pc = "recv"
        /\ Nothing(buffer[c], net[c].up) /\ Nothing(client[k].buffer, net[c].down)
        /\ client[k].step \in Pushes(k) /\ Covered(k, client[k].step + 1)
        /\ worker[c] = "ack_stored" <=> <<k, Record(k, client[k].step), client[k].attempt>> \in log

CallerOK(k) == RequestsOK(k) /\ CallOK(k) /\ OutcomesOK(k) /\ PrefixStored(k) /\ AcksOK(k)

CallersInv == \A k \in Callers : CallerOK(k)

-----------------------------------------------------------------------------
(***************************************************************************)
(* What a step of the server, or of another caller, leaves true.           *)
(***************************************************************************)
\* No step takes a record out of the log or brings the runtime up again.
Grows == log \subseteq log' /\ (runtime' = "up" => runtime = "up")

LEMMA CoveredKept ==
  ASSUME Grows, NEW k, NEW s, Covered(k, s)
  PROVE  Covered(k, s)'
BY DEF Grows, Covered, Stored, Record, Pushes

\* Outcomes are about the request the caller is at, and the log.
LEMMA SameOutcomes ==
  ASSUME NEW k, OutcomesOK(k), log' = log,
         client'[k].outcomes = client[k].outcomes, client'[k].step = client[k].step,
         client'[k].attempt = client[k].attempt
  PROVE  OutcomesOK(k)'
BY DEF OutcomesOK, Pushes, Nth, Record

\* What connection <<k, b>> carries stays on its way.
LEMMA OtherRequests ==
  ASSUME NEW k \in Callers, RequestsOK(k), Grows, NEW b \in 1..MaxAttempts,
         buffer'[<<k, b>>] = buffer[<<k, b>>], net'[<<k, b>>].up = net[<<k, b>>].up,
         \A r : <<k, r, b>> \in log' => <<k, r, b>> \in log,
         \/ client'[k] = client[k]
         \/ b # client'[k].attempt /\ \A c \in 1..MaxAttempts :
              c <= client[k].attempt => c <= client'[k].attempt
  PROVE  \/ Nothing(buffer'[<<k, b>>], net'[<<k, b>>].up)
         \/ \E s \in 1..Len(Script[k]) : OnItsWay(k, b, s)'
<1>1. CASE Nothing(buffer[<<k, b>>], net[<<k, b>>].up)
  BY <1>1 DEF Nothing
<1>2. ASSUME NEW s \in 1..Len(Script[k]), OnItsWay(k, b, s)
      PROVE  OnItsWay(k, b, s)'
  <2>1. Covered(k, s)'
    BY <1>2, CoveredKept DEF OnItsWay
  <2>2. Holds(buffer'[<<k, b>>], net'[<<k, b>>].up, Script[k][s])
    BY <1>2 DEF OnItsWay
  <2>3. s \in Pushes(k) => <<k, Record(k, s), b>> \notin log'
    BY <1>2 DEF OnItsWay
  <2>4. b <= client'[k].attempt
    BY <1>2 DEF OnItsWay
  <2>5. b = client'[k].attempt => s = client'[k].step /\ client'[k].pc # "send"
    BY <1>2 DEF OnItsWay
  <2>6. QED
    BY <2>1, <2>2, <2>3, <2>4, <2>5 DEF OnItsWay, Holds, Record, Pushes, encode_frame
<1>3. QED
  BY <1>1, <1>2 DEF RequestsOK

\* What was said to caller k stays true.
LEMMA OtherOutcomes ==
  ASSUME NEW k \in Callers, OutcomesOK(k), PrefixStored(k), Grows, client'[k] = client[k],
         \A e \in log' : e[1] = k => e \in log
  PROVE  OutcomesOK(k)' /\ PrefixStored(k)'
<1>1. \A r, a : <<k, r, a>> \in log' <=> <<k, r, a>> \in log
  BY DEF Grows
<1>2. OutcomesOK(k)'
  BY <1>1 DEF OutcomesOK, Pushes, Nth, Record
<1>3. \A t : Stored(k, t) => Stored(k, t)'
  BY <1>1 DEF Stored, Record
<1>4. PrefixStored(k)'
  BY <1>3 DEF PrefixStored, Pushes, Record
<1>5. QED
  BY <1>2, <1>4

\* A step of the server that touches connection <<k, a>> only.
LEMMA ServerSide ==
  ASSUME IndInv, NEW k \in Callers, CallerOK(k), Grows, client'[k] = client[k],
         NEW a \in 1..MaxAttempts,
         \A b \in 1..MaxAttempts : b # a =>
           /\ buffer'[<<k, b>>] = buffer[<<k, b>>] /\ net'[<<k, b>>] = net[<<k, b>>]
           /\ worker'[<<k, b>>] = worker[<<k, b>>]
           /\ \A r : <<k, r, b>> \in log' => <<k, r, b>> \in log,
         OutcomesOK(k)', PrefixStored(k)',
         \/ Nothing(buffer'[<<k, a>>], net'[<<k, a>>].up)
         \/ \E s \in 1..Len(Script[k]) : OnItsWay(k, a, s)',
         a = client[k].attempt /\ client[k].pc = "send" => Sending(k)',
         a = client[k].attempt /\ client[k].pc = "recv" => Receiving(k)',
         a = client[k].attempt => AcksOK(k)'
  PROVE  CallerOK(k)'
<1>1. RequestsOK(k) /\ CallOK(k) /\ AcksOK(k)
  BY DEF CallerOK
<1>2. RequestsOK(k)'
  <2>1. ASSUME NEW b \in 1..MaxAttempts
        PROVE  \/ Nothing(buffer'[<<k, b>>], net'[<<k, b>>].up)
               \/ \E s \in 1..Len(Script[k]) : OnItsWay(k, b, s)'
    <3>1. CASE b = a
      BY <3>1
    <3>2. CASE b # a
      BY <1>1, <3>2, OtherRequests
    <3>3. QED
      BY <3>1, <3>2
  <2>2. QED
    BY <2>1 DEF RequestsOK, Nothing
<1>3. \A s : Covered(k, s) => Covered(k, s)'
  BY CoveredKept
<1>4. CASE client[k].pc = "idle"
  BY <1>1, <1>2, <1>3, <1>4 DEF CallOK, CallerOK, AcksOK
<1>5. CASE client[k].pc # "idle"
  <2>1. client[k].attempt \in 1..MaxAttempts /\ client[k] \in CallState
    BY <1>5, CallSocket
  <2>2. client[k].pc = "send" \/ client[k].pc = "recv"
    BY <1>5, <2>1 DEF CallState
  <2>3. CASE client[k].attempt = a
    BY <1>1, <1>2, <1>3, <2>3 DEF CallOK, CallerOK
  <2>4. CASE client[k].attempt # a
    <3>1. /\ Connection(k)' = Connection(k) /\ net'[Connection(k)] = net[Connection(k)]
          /\ buffer'[Connection(k)] = buffer[Connection(k)]
          /\ worker'[Connection(k)] = worker[Connection(k)]
      BY <2>1, <2>4 DEF Connection
    <3>2. \A r : <<k, r, client[k].attempt>> \in log' <=> <<k, r, client[k].attempt>> \in log
      BY <2>1, <2>4 DEF Grows
    <3>3. Sending(k) => Sending(k)'
      BY <3>1, <3>2 DEF Sending, Nothing, Record, Pushes
    <3>4. \A x : ReplyOK(k, x) => ReplyOK(k, x)'
      BY <1>3, <3>1, <3>2 DEF ReplyOK, Nothing, Record, Pushes
    <3>5. Receiving(k) => Receiving(k)'
      BY <3>1, <3>4 DEF Receiving, Exchanging, RepliesOK, Nothing, Request
    <3>6. AcksOK(k)'
      BY <1>1, <1>3, <3>1, <3>2 DEF AcksOK, Nothing, Record, Pushes
    <3>7. QED
      BY <1>1, <1>2, <1>3, <3>3, <3>5, <3>6 DEF CallOK, CallerOK
  <2>5. QED
    BY <2>3, <2>4
<1>6. QED
  BY <1>4, <1>5

\* The thread of connection c owes the same acknowledgement as before, or none.
SameAck(c) == worker[c] \in Acking \/ worker'[c] \in Acking => worker'[c] = worker[c]

\* Nothing that matters to caller k happens: its connections carry the same, at
\* most one of them is accepted or reset.
LEMMA CallerSame ==
  ASSUME IndInv, NEW k \in Callers, CallerOK(k), Grows, client'[k] = client[k],
         \A a \in 1..MaxAttempts :
           /\ buffer'[<<k, a>>] = buffer[<<k, a>>]
           /\ net'[<<k, a>>].up = net[<<k, a>>].up /\ net'[<<k, a>>].down = net[<<k, a>>].down
           /\ net'[<<k, a>>].server = "closed" <=> net[<<k, a>>].server = "closed"
           /\ net[<<k, a>>].reset => net'[<<k, a>>].reset
           /\ SameAck(<<k, a>>),
         \A e \in log' : e[1] = k => e \in log
  PROVE  CallerOK(k)'
<1>1. RequestsOK(k) /\ CallOK(k) /\ OutcomesOK(k) /\ PrefixStored(k) /\ AcksOK(k)
  BY DEF CallerOK
<1>2. \A r, a : <<k, r, a>> \in log' <=> <<k, r, a>> \in log
  BY DEF Grows
<1>3. RequestsOK(k)'
  <2>1. ASSUME NEW b \in 1..MaxAttempts
        PROVE  \/ Nothing(buffer'[<<k, b>>], net'[<<k, b>>].up)
               \/ \E s \in 1..Len(Script[k]) : OnItsWay(k, b, s)'
    BY <1>1, <1>2, OtherRequests
  <2>2. QED
    BY <2>1 DEF RequestsOK, Nothing
<1>4. OutcomesOK(k)' /\ PrefixStored(k)'
  BY <1>1, OtherOutcomes
<1>5. \A s : Covered(k, s) => Covered(k, s)'
  BY CoveredKept
<1>6. CASE client[k].pc = "idle"
  BY <1>1, <1>3, <1>4, <1>5, <1>6 DEF CallOK, CallerOK, AcksOK
<1>7. CASE client[k].pc # "idle"
  <2>1. client[k].attempt \in 1..MaxAttempts
    BY <1>7, CallSocket
  <2>2. /\ Connection(k)' = Connection(k)
        /\ net'[Connection(k)].up = net[Connection(k)].up
        /\ net'[Connection(k)].down = net[Connection(k)].down
        /\ net'[Connection(k)].server = "closed" <=> net[Connection(k)].server = "closed"
        /\ net[Connection(k)].reset => net'[Connection(k)].reset
        /\ buffer'[Connection(k)] = buffer[Connection(k)]
        /\ worker[Connection(k)] \in Acking \/ worker'[Connection(k)] \in Acking =>
             worker'[Connection(k)] = worker[Connection(k)]
    BY <2>1 DEF Connection, SameAck
  <2>3. Sending(k) => Sending(k)'
    BY <1>2, <2>2 DEF Sending, Nothing, Record, Pushes
  <2>4. \A x : ReplyOK(k, x) => ReplyOK(k, x)'
    BY <1>2, <1>5, <2>2 DEF ReplyOK, Nothing, Record, Pushes
  <2>5. Receiving(k) => Receiving(k)'
    BY <2>2, <2>4 DEF Receiving, Exchanging, RepliesOK, Nothing, Request
  <2>6. AcksOK(k)'
    BY <1>1, <1>2, <1>5, <2>2 DEF AcksOK, Nothing, Record, Pushes
  <2>7. QED
    BY <1>1, <1>3, <1>4, <1>5, <2>3, <2>5, <2>6 DEF CallOK, CallerOK
<1>8. QED
  BY <1>6, <1>7

\* The server closes connection <<k, a>>, perhaps after a last frame that is no
\* acknowledgement.
LEMMA ServerEnds ==
  ASSUME IndInv, NEW k \in Callers, CallerOK(k), NEW a \in 1..MaxAttempts,
         Grows, client'[k] = client[k], OutcomesOK(k)', PrefixStored(k)',
         \A b \in 1..MaxAttempts : b # a =>
           /\ buffer'[<<k, b>>] = buffer[<<k, b>>] /\ net'[<<k, b>>] = net[<<k, b>>]
           /\ worker'[<<k, b>>] = worker[<<k, b>>]
           /\ \A r : <<k, r, b>> \in log' => <<k, r, b>> \in log,
         worker'[<<k, a>>] \notin Acking,
         a = client[k].attempt /\ client[k].pc # "idle" => log' = log,
         buffer'[<<k, a>>] = <<>>, net'[<<k, a>>].up = <<>>, net'[<<k, a>>].server = "closed",
         \A i \in 1..Len(net'[<<k, a>>].down) :
           \/ i \in 1..Len(net[<<k, a>>].down) /\ net'[<<k, a>>].down[i] = net[<<k, a>>].down[i]
           \/ net'[<<k, a>>].down[i].frame.type # "ingest_ack"
  PROVE  CallerOK(k)'
<1>1. CallOK(k)
  BY DEF CallerOK
<1>2. Nothing(buffer'[<<k, a>>], net'[<<k, a>>].up)
  BY DEF Nothing
<1>3. ASSUME a = client[k].attempt, client[k].pc = "send" PROVE Sending(k)'
  <2>1. Sending(k) /\ Connection(k) = <<k, a>> /\ Connection(k)' = <<k, a>> /\ log' = log
    BY <1>1, <1>3 DEF CallOK, Connection
  <2>2. \A i \in 1..Len(net'[<<k, a>>].down) : net'[<<k, a>>].down[i].frame.type # "ingest_ack"
    BY SMTT(60), <2>1 DEF Sending
  <2>3. QED
    BY <1>2, <2>1, <2>2 DEF Sending, Nothing, Record, Pushes
<1>4. ASSUME a = client[k].attempt, client[k].pc = "recv" PROVE Receiving(k)'
  <2>1. Receiving(k) /\ Connection(k) = <<k, a>> /\ Connection(k)' = <<k, a>> /\ log' = log
    BY <1>1, <1>4 DEF CallOK, Connection
  <2>2. \A s : Covered(k, s) => Covered(k, s)'
    BY CoveredKept
  <2>3. \A x : ReplyOK(k, x) => ReplyOK(k, x)'
    BY <1>2, <2>1, <2>2 DEF ReplyOK, Nothing, Record, Pushes
  <2>4. \A x : x.frame.type # "ingest_ack" => ReplyOK(k, x)'
    BY DEF ReplyOK
  <2>5. ASSUME NEW i \in 1..Len(net'[<<k, a>>].down), NEW x, x = net'[<<k, a>>].down[i]
        PROVE  IF i + Len(client[k].buffer) <= 2 THEN ReplyOK(k, x)'
               ELSE x.frame.type # "ingest_ack"
    <3>1. CASE x.frame.type # "ingest_ack"
      BY <2>4, <3>1
    <3>2. CASE i \in 1..Len(net[<<k, a>>].down) /\ x = net[<<k, a>>].down[i]
      <4>1. IF i + Len(client[k].buffer) <= 2 THEN ReplyOK(k, x) ELSE x.frame.type # "ingest_ack"
        BY <2>1, <3>2 DEF Receiving, RepliesOK
      <4>2. QED
        BY <2>3, <4>1
    <3>3. QED
      BY <2>5, <3>1, <3>2
  <2>6. RepliesOK(k)'
    BY <2>1, <2>3, <2>5 DEF Receiving, RepliesOK
  <2>7. QED
    BY <2>1, <2>6 DEF Receiving, Exchanging
<1>5. a = client[k].attempt => AcksOK(k)'
  BY DEF AcksOK, Connection
<1>6. QED
  BY <1>2, <1>3, <1>4, <1>5, ServerSide

-----------------------------------------------------------------------------
(***************************************************************************)
(* The requests of a call and their replies.                               *)
(***************************************************************************)
LEMMA HoldsRead ==
  ASSUME NEW S, NEW b \in Seq(S), NEW u \in Seq(S), NEW f, Holds(b, u, f), NEW chunk \in Chunks(u)
  PROVE  Holds(b \o chunk, After(u, chunk), f) /\ Len(b) + Len(chunk) <= 2
<1> DEFINE n == Len(chunk)
           h == b \o chunk
           w == After(u, chunk)
<1>1. /\ chunk \in Seq(S) /\ n \in 1..Len(u) /\ Len(u) \in Nat /\ Len(b) \in Nat
      /\ \A i \in 1..n : chunk[i] = u[i]
      /\ Len(w) = Len(u) - n
      /\ \A i \in 1..(Len(u) - n) : w[i] = u[i + n]
  BY ChunkProperties, LenProperties
<1>2. /\ Len(h) = Len(b) + n
      /\ \A i \in 1..(Len(b) + n) : h[i] = IF i <= Len(b) THEN b[i] ELSE chunk[i - Len(b)]
  BY <1>1, ConcatProperties
<1>3. /\ Len(b) + Len(u) = 2
      /\ \A i \in 1..Len(b) : b[i] = encode_frame(f)[i]
      /\ \A i \in 1..Len(u) : u[i] = encode_frame(f)[i + Len(b)]
  BY DEF Holds
<1> HIDE DEF n, h, w
<1>4. ASSUME NEW i \in 1..Len(h) PROVE h[i] = encode_frame(f)[i]
  <2>1. CASE i <= Len(b)
    BY <1>1, <1>2, <1>3, <2>1
  <2>2. CASE ~(i <= Len(b))
    <3>1. i - Len(b) \in 1..n /\ i - Len(b) \in 1..Len(u) /\ (i - Len(b)) + Len(b) = i
      BY <1>1, <1>2, <2>2
    <3>2. h[i] = u[i - Len(b)]
      BY <1>1, <1>2, <2>2, <3>1
    <3>3. QED
      BY <1>3, <3>1, <3>2
  <2>3. QED
    BY <2>1, <2>2
<1>5. ASSUME NEW i \in 1..Len(w) PROVE w[i] = encode_frame(f)[i + Len(h)]
  <2>1. i + n \in 1..Len(u) /\ (i + n) + Len(b) = i + Len(h) /\ i \in 1..(Len(u) - n)
    BY <1>1, <1>2
  <2>2. QED
    BY <1>1, <1>3, <2>1
<1>6. Len(h) + Len(w) = 2 /\ Len(b) + n <= 2
  BY <1>1, <1>2, <1>3
<1>7. QED
  BY <1>4, <1>5, <1>6 DEF Holds, h, w, n

\* A request that has been read whole is the only one there.
LEMMA HoldsWhole ==
  ASSUME NEW S, NEW b \in Seq(S), NEW u \in Seq(S), NEW f, Holds(b, u, f), Len(b) > 1
  PROVE  NextFrame(b) = f /\ Nothing(consume(b), u)
<1>1. Len(b) \in Nat /\ Len(u) \in Nat /\ Len(b) = 2 /\ Len(u) = 0
  <2>1. Len(b) \in Nat /\ Len(u) \in Nat
    BY LenProperties
  <2>2. Len(b) + Len(u) = 2
    BY DEF Holds
  <2>3. QED
    BY <2>1, <2>2
<1>2. b[1] = encode_frame(f)[1]
  BY <1>1 DEF Holds
<1>3. NextFrame(b) = f
  BY <1>2 DEF NextFrame, encode_frame
<1>4. consume(b) \in Seq(S) /\ Len(consume(b)) = 0
  <2>1. consume(b) \in Seq(S) /\ Len(consume(b)) = Len(b) - 2
    BY ConsumeProperties
  <2>2. QED
    BY <1>1, <2>1
<1>5. QED
  BY <1>1, <1>3, <1>4, EmptySeq DEF Nothing

\* The records of a call ascend.
LEMMA PushesAscend ==
  ASSUME NEW k \in Callers
  PROVE  /\ \A t \in Pushes(k) : t \in 1..Len(Script[k]) /\ t \in Nat /\ Record(k, t) \in Nat
                                 /\ Record(k, t) \in DOMAIN Good
         /\ \A t, s \in Pushes(k) : t < s => Record(k, t) < Record(k, s)
         /\ \A t, s \in Pushes(k) : Record(k, t) <= Record(k, s) => t <= s
         /\ \A t, s \in Pushes(k) : Record(k, t) = Record(k, s) => t = s
<1>1. DOMAIN Script[k] = 1..Len(Script[k]) /\ Len(Script[k]) \in Nat
  BY ScriptAssumption, LenProperties
<1>2. ASSUME NEW t \in Pushes(k)
      PROVE  /\ t \in 1..Len(Script[k]) /\ t \in Nat /\ Record(k, t) \in Nat
             /\ Record(k, t) \in DOMAIN Good /\ Script[k][t].type = "ingest"
  <2>1. t \in 1..Len(Script[k]) /\ Script[k][t].type = "ingest"
    BY <1>1 DEF Pushes
  <2>2. Script[k][t] \in RequestFrame
    BY <2>1, ScriptStep
  <2>3. QED
    BY <1>1, <2>1, <2>2 DEF RequestFrame, Record
<1>3. \A t, s \in Pushes(k) : t < s => Record(k, t) < Record(k, s)
  BY <1>2, ScriptAssumption DEF Record
<1>4. QED
  BY <1>2, <1>3

-----------------------------------------------------------------------------
(***************************************************************************)
(* Steps of the thread of a caller's connection.                           *)
(***************************************************************************)
\* The thread reads a chunk.
LEMMA ServerReads ==
  ASSUME IndInv, NEW k \in Callers, CallerOK(k), NEW a \in 1..MaxAttempts,
         UNCHANGED <<client, log, runtime>>,
         \A b \in 1..MaxAttempts : b # a =>
           /\ buffer'[<<k, b>>] = buffer[<<k, b>>] /\ net'[<<k, b>>] = net[<<k, b>>]
           /\ worker'[<<k, b>>] = worker[<<k, b>>],
         worker'[<<k, a>>] \notin Acking,
         NEW chunk \in Chunks(net[<<k, a>>].up),
         buffer'[<<k, a>>] = buffer[<<k, a>>] \o chunk,
         net'[<<k, a>>] = [net[<<k, a>>] EXCEPT !.up = After(net[<<k, a>>].up, chunk)]
  PROVE  CallerOK(k)'
<1> DEFINE c == <<k, a>>
<1>1. RequestsOK(k) /\ CallOK(k) /\ OutcomesOK(k) /\ PrefixStored(k) /\ Grows /\ AcksOK(k)
  BY DEF CallerOK, Grows
<1>2. OutcomesOK(k)' /\ PrefixStored(k)'
  BY <1>1, OtherOutcomes
<1>3. c \in Connections /\ net[c] \in Net /\ buffer[c] \in Seq(RequestCell)
      /\ net[c].up \in Seq(RequestCell)
  BY DEF Connections, IndInv, Types, Net
<1>4. /\ net'[c].up = After(net[c].up, chunk) /\ net'[c].down = net[c].down
      /\ net'[c].server = net[c].server /\ net'[c].reset = net[c].reset
  BY <1>3 DEF Net
<1>5. Len(net[c].up) # 0 /\ ~Nothing(buffer[c], net[c].up)
  <2>1. Len(net[c].up) \in Nat /\ Len(chunk) \in 1..Len(net[c].up)
    BY <1>3, ChunkProperties
  <2>2. Len(net[c].up) # 0
    BY <2>1
  <2>3. Len(<<>>) = 0
    OBVIOUS
  <2>4. QED
    BY <2>2, <2>3, Zenon DEF Nothing
<1>6. PICK s \in 1..Len(Script[k]) : OnItsWay(k, a, s)
  BY <1>1, <1>5 DEF RequestsOK
<1>7. \A f : Holds(buffer[c], net[c].up, f) => Holds(buffer'[c], net'[c].up, f)
  <2> DEFINE b == buffer[c]
             u == net[c].up
  <2>1. b \in Seq(RequestCell) /\ u \in Seq(RequestCell) /\ chunk \in Chunks(u)
    BY <1>3
  <2> HIDE DEF b, u
  <2>2. \A f : Holds(b, u, f) => Holds(b \o chunk, After(u, chunk), f)
    BY <2>1, HoldsRead
  <2>3. QED
    BY <1>4, <2>2 DEF b, u
<1>8. OnItsWay(k, a, s)'
  <2>1. Covered(k, s)'
    BY <1>1, <1>6, CoveredKept DEF OnItsWay
  <2>2. Holds(buffer'[c], net'[c].up, Script[k][s])
    BY <1>6, <1>7 DEF OnItsWay
  <2>3. QED
    BY <1>6, <2>1, <2>2 DEF OnItsWay, Record, Pushes
<1>9. ASSUME a = client[k].attempt, client[k].pc = "recv" PROVE Receiving(k)'
  <2>1. Receiving(k) /\ Connection(k) = c /\ Connection(k)' = c
    BY <1>1, <1>9 DEF CallOK, Connection
  <2>2. \A x : ReplyOK(k, x) => x.frame.type # "ingest_ack" /\ ReplyOK(k, x)'
    BY <1>5, <2>1 DEF ReplyOK
  <2>3. RepliesOK(k)'
    BY ZenonT(60), <1>4, <2>1, <2>2 DEF Receiving, RepliesOK
  <2>4. net'[c].server # "closed" /\ ~net'[c].reset =>
          Holds(buffer'[c], net'[c].up, Request(k)) /\ Nothing(client[k].buffer, net'[c].down)
    <3>1. worker[c] \notin Acking
      BY <1>1, <1>5, <1>9, <2>1 DEF AcksOK
    <3>2. QED
      BY <1>4, <1>5, <1>7, <2>1, <3>1 DEF Receiving, Exchanging
  <2>5. Request(k)' = Request(k)
    BY DEF Request
  <2>6. Exchanging(k)'
    BY <2>1, <2>4, <2>5 DEF Exchanging, Nothing
  <2>7. QED
    BY <2>1, <2>3, <2>6 DEF Receiving
<1>10. ~(a = client[k].attempt /\ client[k].pc = "send")
  BY <1>6 DEF OnItsWay
<1>11. a = client[k].attempt => AcksOK(k)'
  BY DEF AcksOK, Connection
<1>12. QED
  BY <1>1, <1>2, <1>8, <1>9, <1>10, <1>11, ServerSide

\* The thread answers the request it has read whole, with frame g.
LEMMA ReplySent ==
  ASSUME IndInv, NEW k \in Callers, CallerOK(k), NEW a \in 1..MaxAttempts,
         Grows, client'[k] = client[k], OutcomesOK(k)', PrefixStored(k)',
         \A b \in 1..MaxAttempts : b # a =>
           /\ buffer'[<<k, b>>] = buffer[<<k, b>>] /\ net'[<<k, b>>] = net[<<k, b>>]
           /\ worker'[<<k, b>>] = worker[<<k, b>>]
           /\ \A r : <<k, r, b>> \in log' => <<k, r, b>> \in log,
         net[<<k, a>>].server = "open", worker'[<<k, a>>] \notin Acking,
         Nothing(buffer'[<<k, a>>], net[<<k, a>>].up),
         a = client[k].attempt => client[k].pc # "send",
         a = client[k].attempt /\ client[k].pc = "recv" =>
           Nothing(client[k].buffer, net[<<k, a>>].down),
         NEW g \in AnyFrame, NEW r \in Sends(net[<<k, a>>], "down", "client", g),
         net'[<<k, a>>] = r.net,
         g.type = "ingest_ack" /\ a = client[k].attempt /\ client[k].pc = "recv" =>
           /\ client[k].step \in Pushes(k) /\ Covered(k, client[k].step + 1)'
           /\ g.arg = 1 <=> <<k, Record(k, client[k].step), a>> \in log'
  PROVE  CallerOK(k)'
<1> DEFINE c == <<k, a>>
<1>1. RequestsOK(k) /\ CallOK(k)
  BY DEF CallerOK
<1>2. c \in Connections /\ net[c] \in Net /\ buffer[c] \in Seq(RequestCell)
      /\ net[c].up \in Seq(RequestCell) /\ net[c].down \in Seq(Cell) /\ ConnectionOK(c)
  BY DEF Connections, IndInv, Types, Net, ServerOK
<1>3. Nothing(buffer'[c], net[c].up)
  OBVIOUS
<1>4. /\ net'[c].up = net[c].up /\ net'[c].server = net[c].server /\ net'[c].reset = net[c].reset
      /\ ~net[c].reset /\ net[c].client # "closed" =>
           net'[c].down = net[c].down \o encode_frame(g)
  <2> DEFINE n == net[c]
  <2>1. n \in Net /\ r \in Sends(n, "down", "client", g)
    BY <1>2
  <2> HIDE DEF n
  <2>2. /\ r.net.up = n.up /\ r.net.server = n.server /\ r.net.reset = n.reset
        /\ ~n.reset /\ n.client # "closed" => r.net.down = n.down \o encode_frame(g)
    BY ZenonT(60), <2>1, SendsDown
  <2>3. QED
    BY <2>2 DEF n
<1>5. ASSUME a = client[k].attempt, client[k].pc = "recv" PROVE Receiving(k)'
  <2>1. Receiving(k) /\ Connection(k) = c /\ Connection(k)' = c
    BY <1>1, <1>5 DEF CallOK, Connection
  <2>2. net[c].client = "open" /\ ~net[c].reset
    BY <1>2, <1>5, <2>1, CallSocket
  <2>3. Nothing(client[k].buffer, net[c].down)
    BY <1>5
  <2>4. net'[c].down = encode_frame(g) /\ Len(net'[c].down) = 2 /\ client[k].buffer = <<>>
    <3>1. net'[c].down = <<>> \o encode_frame(g) /\ encode_frame(g) \in Seq(Cell)
          /\ Len(encode_frame(g)) = 2
      BY <1>4, <2>2, <2>3, EncodeFrame DEF Nothing
    <3>2. QED
      BY <2>3, <3>1, ConcatEmptySeq DEF Nothing
  <2>5. ASSUME NEW x, x.frame = g PROVE ReplyOK(k, x)'
    <3>1. CASE g.type # "ingest_ack"
      BY <2>5, <3>1 DEF ReplyOK
    <3>2. CASE g.type = "ingest_ack"
      <4>1. /\ client'[k].step \in Pushes(k) /\ Covered(k, client[k].step + 1)'
            /\ Nothing(buffer'[c], net'[c].up)
        BY <1>3, <1>4, <1>5, <3>2
      <4>2. x.frame.arg = 1 <=> <<k, Record(k, client'[k].step), client'[k].attempt>> \in log'
        BY <1>5, <2>1, <2>5, <3>2
      <4>3. QED
        BY <2>1, <4>1, <4>2 DEF ReplyOK, Nothing, Record, Pushes
    <3>3. QED
      BY <3>1, <3>2
  <2>6. \A i \in 1..2 : net'[c].down[i].frame = g
    BY <2>4, EncodeFrame
  <2>7. Nothing(buffer'[c], net'[c].up)
    BY <1>3, <1>4
  <2>8. Len(client[k].buffer) = 0
    BY <2>4
  <2>9. RepliesOK(k)'
    <3>1. PICK d, b : d = net'[c].down /\ b = client'[k].buffer
      OBVIOUS
    <3>2. Len(d) = 2 /\ Len(b) = 0 /\ \A i \in 1..2 : d[i].frame = g
      BY <2>4, <2>6, <2>8, <3>1
    <3>3. \A i \in 1..2 : ReplyOK(k, d[i])' /\ i + 0 <= 2
      BY <2>5, <3>2
    <3>4. \A i \in 1..0 : FALSE
      OBVIOUS
    <3>5. /\ \A i \in 1..Len(b) : ReplyOK(k, b[i])'
          /\ \A i \in 1..Len(d) : IF i + Len(b) <= 2 THEN ReplyOK(k, d[i])'
                                   ELSE d[i].frame.type # "ingest_ack"
      BY <3>2, <3>3, <3>4, Zenon
    <3>6. QED
      BY <2>1, <3>1, <3>5, Zenon DEF RepliesOK
  <2>10. Exchanging(k)'
    BY <2>1, <2>4, <2>7, <2>8 DEF Exchanging, Nothing
  <2>11. QED
    BY <2>8, <2>9, <2>10 DEF Receiving
<1>6. ~(a = client[k].attempt /\ client[k].pc = "send")
  OBVIOUS
<1>7. Nothing(buffer'[c], net'[c].up)
  BY <1>3, <1>4
<1>8. a = client[k].attempt => AcksOK(k)'
  BY DEF AcksOK, Connection
<1>9. QED
  BY <1>5, <1>6, <1>7, <1>8, ServerSide

\* The request of a caller that the thread has read whole is the only thing on
\* the connection.
LEMMA RequestAlone ==
  ASSUME IndInv, NEW k \in Callers, CallerOK(k), NEW a \in 1..MaxAttempts,
         net[<<k, a>>].server = "open", Len(buffer[<<k, a>>]) > 1,
         NEW s \in 1..Len(Script[k]), OnItsWay(k, a, s)
  PROVE  /\ Nothing(consume(buffer[<<k, a>>]), net[<<k, a>>].up)
         /\ a = client[k].attempt => client[k].pc # "send"
         /\ a = client[k].attempt /\ client[k].pc = "recv" =>
              Nothing(client[k].buffer, net[<<k, a>>].down)
<1> DEFINE c == <<k, a>>
<1>1. c \in Connections /\ net[c] \in Net /\ buffer[c] \in Seq(RequestCell)
      /\ net[c].up \in Seq(RequestCell) /\ ConnectionOK(c)
  BY DEF Connections, IndInv, Types, Net, ServerOK
<1>2. Nothing(consume(buffer[c]), net[c].up) /\ ~Nothing(buffer[c], net[c].up)
  <2> DEFINE b == buffer[c]
             u == net[c].up
             f == Script[k][s]
  <2>1. b \in Seq(RequestCell) /\ u \in Seq(RequestCell) /\ Holds(b, u, f) /\ Len(b) > 1
    BY <1>1 DEF OnItsWay
  <2> HIDE DEF b, u, f
  <2>2. Nothing(consume(b), u)
    BY <2>1, HoldsWhole
  <2>3. Len(b) # 0 /\ Len(<<>>) = 0
    BY <2>1
  <2>4. b # <<>>
    BY <2>3, Zenon
  <2>5. QED
    BY <2>2, <2>4 DEF b, u, Nothing
<1>3. ASSUME a = client[k].attempt, client[k].pc = "recv"
      PROVE  Nothing(client[k].buffer, net[c].down)
  <2>1. Receiving(k) /\ AcksOK(k) /\ Connection(k) = c
    BY <1>3 DEF CallerOK, CallOK, Connection
  <2>2. worker[c] \notin Acking
    BY <1>2, <1>3, <2>1 DEF AcksOK
  <2>3. ~net[c].reset
    BY <1>1, <1>3, <2>1, CallSocket
  <2>4. QED
    BY <1>2, <2>1, <2>2, <2>3 DEF Receiving, Exchanging
<1>4. QED
  BY <1>2, <1>3 DEF OnItsWay

\* The record of step s is handed to the runtime.

LEMMA RecordHandled ==
  ASSUME IndInv, NEW k \in Callers, CallerOK(k), NEW a \in 1..MaxAttempts,
         NEW s \in Pushes(k), OnItsWay(k, a, s), UNCHANGED <<client, runtime>>,
         log' = IF Storable(k, Record(k, s)) THEN log \cup {<<k, Record(k, s), a>>} ELSE log
  PROVE  /\ Grows /\ OutcomesOK(k)' /\ PrefixStored(k)' /\ Covered(k, s + 1)'
         /\ \A b \in 1..MaxAttempts : b # a =>
              \A r : <<k, r, b>> \in log' => <<k, r, b>> \in log
         /\ <<k, Record(k, s), a>> \in log' <=> Storable(k, Record(k, s))
<1> DEFINE i == Record(k, s)
           e == <<k, i, a>>
<1>1. OutcomesOK(k) /\ PrefixStored(k) /\ Covered(k, s) /\ e \notin log
  BY DEF CallerOK, OnItsWay
<1>2. Grows
  BY DEF Grows
<1>3. \A d \in log' : d \in log \/ (d = e /\ Storable(k, i))
  OBVIOUS
<1>4. e \in log' <=> Storable(k, i)
  BY <1>1
<1>5. \A r, b : <<k, r, b>> \in log' => <<k, r, b>> \in log \/ (r = i /\ b = a)
  BY <1>3
<1>6. Covered(k, s)'
  BY <1>1, <1>2, CoveredKept
<1>7. \A t : Stored(k, t) => Stored(k, t)'
  BY <1>2 DEF Grows, Stored, Record
<1>8. Covered(k, s + 1)'
  <2>1. ASSUME runtime' = "up", NEW t \in Pushes(k), t < s + 1, Good[Record(k, t)]
        PROVE  Stored(k, t)'
    <3>1. t \in Nat /\ s \in Nat
      BY PushesAscend
    <3>2. CASE t < s
      BY <1>6, <2>1, <3>2 DEF Covered, Record, Pushes
    <3>3. CASE t = s /\ Storable(k, i)
      BY <1>4, <3>3 DEF Stored, Record
    <3>4. CASE t = s /\ ~Storable(k, i)
      <4>1. PICK d \in log : d[1] = k /\ d[2] >= i
        BY <2>1, <3>4 DEF Storable, Replayed
      <4>2. d[2] \in Nat /\ i \in Nat
        BY ServerAssumption, PushesAscend DEF IndInv, LogOK
      <4>3. Stored(k, t)
        BY <1>1, <2>1, <3>4, <4>1, <4>2 DEF PrefixStored
      <4>4. QED
        BY <1>7, <4>3
    <3>5. QED
      BY <2>1, <3>1, <3>2, <3>3, <3>4
  <2>2. QED
    BY <2>1 DEF Covered, Record, Pushes
<1>9. PrefixStored(k)'
  <2>1. ASSUME NEW d \in log', d[1] = k, NEW t \in Pushes(k), Record(k, t) <= d[2],
               Good[Record(k, t)]
        PROVE  Stored(k, t)'
    <3>1. CASE d \in log
      BY <1>1, <1>7, <2>1, <3>1 DEF PrefixStored
    <3>2. CASE d = e /\ Storable(k, i)
      <4>1. t <= s /\ t \in Nat /\ s \in Nat
        BY <2>1, <3>2, PushesAscend
      <4>2. t < s + 1 /\ runtime' = "up"
        BY <3>2, <4>1 DEF Storable
      <4>3. QED
        BY <1>8, <2>1, <4>2 DEF Covered, Record, Pushes
    <3>3. QED
      BY <1>3, <3>1, <3>2
  <2>2. QED
    BY <2>1 DEF PrefixStored, Record, Pushes
<1>10. OutcomesOK(k)'
  <2>1. a <= client[k].attempt /\ (a = client[k].attempt => s = client[k].step)
    BY DEF OnItsWay
  <2>2. ASSUME NEW t \in Pushes(k), t # client[k].step
        PROVE  <<k, Record(k, t), client[k].attempt>> \in log'
                 <=> <<k, Record(k, t), client[k].attempt>> \in log
    <3>1. ASSUME client[k].attempt = a PROVE Record(k, t) # i
      BY <2>1, <2>2, <3>1, PushesAscend
    <3>2. QED
      BY <1>2, <1>5, <3>1 DEF Grows
  <2>3. \A t \in Pushes(k) : t < client[k].step \/ t > client[k].step => t # client[k].step
    BY PushesAscend DEF IndInv, Types, CallState
  <2>4. ASSUME NEW d \in log', d[1] = k PROVE d[3] <= client[k].attempt
    BY <1>1, <1>3, <2>1, <2>4 DEF OutcomesOK
  <2>5. /\ Len(client[k].outcomes) = Cardinality({t \in Pushes(k) : t < client[k].step})
        /\ \A t \in Pushes(k) : t < client[k].step =>
             (client[k].outcomes[Nth(k, t)] = 1 <=> <<k, Record(k, t), client[k].attempt>> \in log')
        /\ \A t \in Pushes(k) : t > client[k].step =>
             <<k, Record(k, t), client[k].attempt>> \notin log'
    BY <1>1, <2>2, <2>3 DEF OutcomesOK
  <2>6. QED
    BY <2>4, <2>5 DEF OutcomesOK, Pushes, Record, Nth
<1>11. QED
  BY <1>2, <1>4, <1>5, <1>8, <1>9, <1>10

\* Stream e is stream d, perhaps cut short, and then no acknowledgement.
NoAck(d, e) ==
  \A i \in 1..Len(e) :
    (i \in 1..Len(d) /\ e[i] = d[i]) \/ e[i].frame.type # "ingest_ack"

LEMMA SendNoAck ==
  ASSUME NEW n \in Net, NEW g \in AnyFrame, g.type # "ingest_ack",
         NEW r \in Sends(n, "down", "client", g)
  PROVE  NoAck(n.down, r.net.down)
<1>1. CASE ~n.reset /\ n.client # "closed"
  <2> DEFINE d == n.down
             f == encode_frame(g)
  <2>1. d \in Seq(Cell) /\ f \in Seq(Cell) /\ Len(f) = 2 /\ \A i \in 1..2 : f[i].frame = g
    <3>1. d \in Seq(Cell)
      BY DEF Net
    <3>2. QED
      BY <3>1, EncodeFrame
  <2>2. r.net.down = d \o f
    BY <1>1, SendsDown
  <2> HIDE DEF d, f
  <2>3. /\ Len(d \o f) = Len(d) + 2 /\ Len(d) \in Nat
        /\ \A i \in 1..(Len(d) + 2) : (d \o f)[i] = IF i <= Len(d) THEN d[i] ELSE f[i - Len(d)]
    <3>1. /\ Len(d \o f) = Len(d) + Len(f)
          /\ \A i \in 1..(Len(d) + Len(f)) :
               (d \o f)[i] = IF i <= Len(d) THEN d[i] ELSE f[i - Len(d)]
      BY <2>1, ConcatProperties
    <3>2. QED
      BY <2>1, <3>1, LenProperties
  <2>4. ASSUME NEW i \in 1..Len(d \o f)
        PROVE  \/ i \in 1..Len(d) /\ (d \o f)[i] = d[i]
               \/ (d \o f)[i].frame.type # "ingest_ack"
    <3>1. CASE i <= Len(d)
      BY <2>3, <3>1
    <3>2. CASE ~(i <= Len(d))
      <4>1. i - Len(d) \in 1..2
        BY <2>3, <3>2
      <4>2. QED
        BY <2>1, <2>3, <3>2, <4>1
    <3>3. QED
      BY <3>1, <3>2
  <2>5. QED
    BY <2>2, <2>4 DEF NoAck, d
<1>2. CASE ~(~n.reset /\ n.client # "closed")
  <2>1. r.net = n
    BY <1>2, SendsDown
  <2>2. QED
    BY <2>1 DEF NoAck
<1>3. QED
  BY <1>1, <1>2

\* The server closes its socket, which looks like n.
LEMMA EndsCaller ==
  ASSUME IndInv, NEW k \in Callers, CallerOK(k), NEW a \in 1..MaxAttempts,
         NEW n \in Net, n.client # "none", NoAck(net[<<k, a>>].down, n.down),
         \E m \in Closings(n, "server", "up") : net' = [net EXCEPT ![<<k, a>>] = m],
         buffer' = [buffer EXCEPT ![<<k, a>>] = <<>>],
         worker'[<<k, a>>] \notin Acking,
         Grows, client'[k] = client[k], OutcomesOK(k)', PrefixStored(k)',
         \A b \in 1..MaxAttempts : b # a =>
           /\ worker'[<<k, b>>] = worker[<<k, b>>]
           /\ \A r : <<k, r, b>> \in log' => <<k, r, b>> \in log,
         a = client[k].attempt /\ client[k].pc # "idle" => log' = log
  PROVE  CallerOK(k)'
<1> DEFINE c == <<k, a>>
<1>1. c \in Connections /\ \A b \in 1..MaxAttempts : <<k, b>> \in Connections
  BY DEF Connections
<1>2. net \in [Connections -> Net] /\ buffer \in [Connections -> Seq(RequestCell)]
  BY DEF IndInv, Types
<1>3. PICK m \in Closings(n, "server", "up") : net' = [net EXCEPT ![c] = m]
  OBVIOUS
<1>4. buffer' = [buffer EXCEPT ![c] = <<>>]
  OBVIOUS
<1>5. \A b \in 1..MaxAttempts : b # a =>
           /\ buffer'[<<k, b>>] = buffer[<<k, b>>] /\ net'[<<k, b>>] = net[<<k, b>>]
           /\ worker'[<<k, b>>] = worker[<<k, b>>]
           /\ \A r : <<k, r, b>> \in log' => <<k, r, b>> \in log
  BY <1>1, <1>2, <1>3, <1>4
<1>6. net'[c] = m /\ buffer'[c] = <<>>
  BY <1>1, <1>2, <1>3, <1>4
<1>7. /\ m.up = <<>> /\ m.server = "closed"
      /\ n.client = "open" => m.down = n.down
      /\ n.client # "open" => m = Gone
  BY <1>3, ClosingsServer
<1>8. NoAck(net[c].down, m.down)
  <2>1. CASE n.client = "open"
    BY <1>7, <2>1
  <2>2. CASE n.client # "open"
    <3>1. Len(m.down) = 0
      BY <1>7, <2>2 DEF Gone
    <3>2. QED
      BY <3>1 DEF NoAck
  <2>3. QED
    BY <2>1, <2>2
<1>9. \A i \in 1..Len(net'[c].down) :
           \/ i \in 1..Len(net[c].down) /\ net'[c].down[i] = net[c].down[i]
           \/ net'[c].down[i].frame.type # "ingest_ack"
  BY <1>6, <1>8 DEF NoAck
<1>10. net'[c].up = <<>> /\ net'[c].server = "closed"
  BY <1>6, <1>7
<1>11. QED
  BY <1>5, <1>6, <1>9, <1>10, ServerEnds

\* The frame in the buffer of a caller's connection is the request of a step.
LEMMA RequestRead ==
  ASSUME IndInv, NEW k \in Callers, CallerOK(k), NEW a \in 1..MaxAttempts,
         NextIsFrame(buffer[<<k, a>>])
  PROVE  \E s \in 1..Len(Script[k]) :
           OnItsWay(k, a, s) /\ NextFrame(buffer[<<k, a>>]) = Script[k][s]
<1> DEFINE b == buffer[<<k, a>>]
           u == net[<<k, a>>].up
<1>1. b \in Seq(RequestCell) /\ u \in Seq(RequestCell) /\ Len(b) > 1
  BY DEF Connections, IndInv, Types, Net, NextIsFrame
<1>2. b # <<>>
  <2> HIDE DEF b
  <2>1. Len(b) # 0 /\ Len(<<>>) = 0
    BY <1>1
  <2>2. QED
    BY <2>1, Zenon
<1>3. PICK s \in 1..Len(Script[k]) : OnItsWay(k, a, s)
  BY <1>2 DEF CallerOK, RequestsOK, Nothing
<1>4. Holds(b, u, Script[k][s])
  BY <1>3 DEF OnItsWay
<1> HIDE DEF b, u
<1>5. NextFrame(b) = Script[k][s]
  BY <1>1, <1>4, HoldsWhole
<1>6. QED
  BY <1>3, <1>5 DEF b

\* A thread that has ended owes nothing.
LEMMA EndedThread ==
  ASSUME IndInv, NEW k \in Callers, NEW a \in 1..MaxAttempts, NEW n, Ends(<<k, a>>, n)
  PROVE  /\ worker'[<<k, a>>] \notin Acking
         /\ \A b \in 1..MaxAttempts : b # a => worker'[<<k, b>>] = worker[<<k, b>>]
<1>1. <<k, a>> \in Connections /\ \A b \in 1..MaxAttempts : <<k, b>> \in Connections
  BY DEF Connections
<1>2. worker \in [Connections -> WorkerState] /\ worker' = [worker EXCEPT ![<<k, a>>] = "finished"]
  BY DEF IndInv, Types, Ends
<1>3. QED
  BY <1>1, <1>2 DEF Acking

\* The thread replies with a frame that is no acknowledgement.
LEMMA ReplyCaller ==
  ASSUME IndInv, NEW k \in Callers, CallerOK(k), NEW a \in 1..MaxAttempts,
         NEW n, n = net[<<k, a>>], OpenSocket(<<k, a>>, n), net[<<k, a>>].client # "none",
         worker[<<k, a>>] \notin Acking,
         NEW type \in FrameType, type # "ingest_ack", NEW last \in BOOLEAN,
         Reply(<<k, a>>, n, type, last), UNCHANGED <<client, log, runtime>>,
         last \/ NextIsFrame(buffer[<<k, a>>])
  PROVE  CallerOK(k)'
<1> DEFINE c == <<k, a>>
           g == Frame(type, 0)
<1>1. g \in AnyFrame /\ g.type # "ingest_ack"
  BY DEF Frame, AnyFrame
<1>2. PICK r \in Sends(n, "down", "client", g) : Answer(c, r, last)
  BY DEF Reply
<1> HIDE DEF g
<1>3. n \in Net /\ n.client # "none" /\ n.server = "open"
  BY DEF OpenSocket
<1>4. r.net \in Net /\ r.net.client # "none" /\ NoAck(n.down, r.net.down)
  BY <1>1, <1>2, <1>3, SendsDown, SendNoAck, ZenonT(90)
<1>5. Grows /\ OutcomesOK(k)' /\ PrefixStored(k)'
  <2>1. Grows /\ OutcomesOK(k) /\ PrefixStored(k)
    BY DEF Grows, CallerOK
  <2>2. QED
    BY <2>1, OtherOutcomes
<1>6. CASE r.ok /\ ~last
  <2>1. /\ net' = [net EXCEPT ![c] = r.net] /\ buffer' = [buffer EXCEPT ![c] = consume(buffer[c])]
        /\ NextIsFrame(buffer[c]) /\ worker' = worker
    BY <1>2, <1>6 DEF Answer
  <2>2. c \in Connections /\ \A b \in 1..MaxAttempts : <<k, b>> \in Connections
    BY DEF Connections
  <2>3. net \in [Connections -> Net] /\ buffer \in [Connections -> Seq(RequestCell)]
    BY DEF IndInv, Types
  <2>4. net'[c] = r.net /\ buffer'[c] = consume(buffer[c])
    BY <2>1, <2>2, <2>3
  <2>5. \A b \in 1..MaxAttempts : b # a =>
           /\ buffer'[<<k, b>>] = buffer[<<k, b>>] /\ net'[<<k, b>>] = net[<<k, b>>]
           /\ worker'[<<k, b>>] = worker[<<k, b>>]
           /\ \A x : <<k, x, b>> \in log' => <<k, x, b>> \in log
    BY <2>1, <2>2, <2>3
  <2>6. PICK s \in 1..Len(Script[k]) : OnItsWay(k, a, s)
    BY <2>1, RequestRead
  <2>7. Len(buffer[c]) > 1 /\ net[c].server = "open"
    BY <1>3, <2>1 DEF NextIsFrame
  <2>8. r \in Sends(net[c], "down", "client", g)
    BY <1>2
  <2>9. /\ Nothing(buffer'[c], net[c].up)
        /\ a = client[k].attempt => client[k].pc # "send"
        /\ a = client[k].attempt /\ client[k].pc = "recv" =>
             Nothing(client[k].buffer, net[c].down)
    BY <2>4, <2>6, <2>7, RequestAlone
  <2>10. worker'[c] \notin Acking
    BY <2>1
  <2>11. QED
    BY <1>1, <1>5, <2>4, <2>5, <2>7, <2>8, <2>9, <2>10, ReplySent
<1>7. CASE ~(r.ok /\ ~last)
  <2>1. Ends(c, r.net)
    BY <1>2, <1>7 DEF Answer
  <2>2. NoAck(net[c].down, r.net.down)
    BY <1>4
  <2>3. /\ worker'[c] \notin Acking
        /\ \A b \in 1..MaxAttempts : b # a => worker'[<<k, b>>] = worker[<<k, b>>]
    BY <2>1, EndedThread
  <2>4. QED
    BY <1>4, <1>5, <2>1, <2>2, <2>3, EndsCaller DEF Ends
<1>8. QED
  BY <1>6, <1>7

\* The thread hands the record of a caller's connection to the runtime.
LEMMA IngestCaller ==
  ASSUME IndInv, NEW k \in Callers, CallerOK(k), NEW a \in 1..MaxAttempts,
         Serving(<<k, a>>), NextIsFrame(buffer[<<k, a>>]),
         NextFrame(buffer[<<k, a>>]).type = "ingest",
         HandleIngest(<<k, a>>, NextFrame(buffer[<<k, a>>]).arg)
  PROVE  CallerOK(k)'
<1> DEFINE c == <<k, a>>
<1>1. c \in Connections /\ \A b \in 1..MaxAttempts : <<k, b>> \in Connections
  BY DEF Connections
<1>2. worker \in [Connections -> WorkerState] /\ buffer \in [Connections -> Seq(RequestCell)]
  BY DEF IndInv, Types
<1>3. net[c].server = "open" /\ Len(buffer[c]) > 1
  BY <1>1, ServingSocket DEF OpenSocket, NextIsFrame
<1>4. PICK s \in 1..Len(Script[k]) : OnItsWay(k, a, s) /\ NextFrame(buffer[c]) = Script[k][s]
  BY RequestRead
<1>5. s \in Pushes(k) /\ NextFrame(buffer[c]).arg = Record(k, s)
  <2>1. DOMAIN Script[k] = 1..Len(Script[k])
    BY ScriptAssumption, LenProperties
  <2>2. QED
    BY <1>4, <2>1 DEF Pushes, Record
<1> DEFINE i == Record(k, s)
           w == IF Storable(k, i) THEN "ack_stored" ELSE "ack_refused"
<1>6. HandleIngest(c, i)
  BY <1>5
<1>7. /\ log' = IF Storable(k, i) THEN log \cup {<<k, i, a>>} ELSE log
      /\ worker' = [worker EXCEPT ![c] = w] /\ net' = net
      /\ buffer' = [buffer EXCEPT ![c] = consume(buffer[c])]
  BY <1>6 DEF HandleIngest
<1>8. UNCHANGED <<client, runtime>>
  BY DEF Serving
<1>9. /\ Grows /\ OutcomesOK(k)' /\ PrefixStored(k)' /\ Covered(k, s + 1)'
      /\ \A b \in 1..MaxAttempts : b # a =>
           \A r : <<k, r, b>> \in log' => <<k, r, b>> \in log
      /\ <<k, i, a>> \in log' <=> Storable(k, i)
  BY <1>4, <1>5, <1>7, <1>8, RecordHandled
<1>10. w = "ack_stored" <=> <<k, i, a>> \in log'
  BY <1>9
<1>11. w \in Acking
  BY DEF Acking
<1> HIDE DEF w, i
<1>12. worker'[c] = w /\ buffer'[c] = consume(buffer[c])
  BY <1>1, <1>2, <1>7
<1>13. \A b \in 1..MaxAttempts : b # a =>
           /\ buffer'[<<k, b>>] = buffer[<<k, b>>] /\ net'[<<k, b>>] = net[<<k, b>>]
           /\ worker'[<<k, b>>] = worker[<<k, b>>]
           /\ \A r : <<k, r, b>> \in log' => <<k, r, b>> \in log
  BY <1>1, <1>2, <1>7, <1>9
<1>14. /\ Nothing(buffer'[c], net'[c].up)
       /\ a = client[k].attempt => client[k].pc # "send"
       /\ a = client[k].attempt /\ client[k].pc = "recv" =>
            Nothing(client[k].buffer, net'[c].down)
  BY <1>3, <1>4, <1>7, <1>12, RequestAlone
<1>15. ASSUME a = client[k].attempt, client[k].pc = "recv" PROVE Receiving(k)' /\ AcksOK(k)'
  <2>1. /\ Receiving(k) /\ Connection(k) = c /\ Connection(k)' = c /\ s = client[k].step
        /\ client'[k] = client[k]
    BY <1>4, <1>8, <1>15 DEF CallerOK, CallOK, Connection, OnItsWay
  <2>2. client[k].buffer = <<>> /\ net'[c].down = <<>>
    BY <1>14, <1>15 DEF Nothing
  <2>3. Len(client'[k].buffer) = 0 /\ Len(net'[c].down) = 0
    BY <2>1, <2>2
  <2>4. Exchanging(k)'
    BY <1>11, <1>12, <2>1 DEF Exchanging
  <2>5. RepliesOK(k)'
    BY <2>1, <2>3 DEF RepliesOK
  <2>6. Receiving(k)'
    BY <2>3, <2>4, <2>5 DEF Receiving
  <2>7. worker'[c] = "ack_stored" <=> <<k, Record(k, client[k].step), client[k].attempt>> \in log'
    BY <1>10, <1>12, <1>15, <2>1 DEF i
  <2>8. /\ Covered(k, client[k].step + 1)' /\ client[k].step \in Pushes(k)
        /\ Nothing(buffer'[c], net'[c].up) /\ Nothing(client[k].buffer, net'[c].down)
    BY <1>5, <1>9, <1>14, <1>15, <2>1
  <2>9. AcksOK(k)'
    BY <1>15, <2>1, <2>7, <2>8, Zenon DEF AcksOK, Nothing, Record, Pushes
  <2>10. QED
    BY <2>6, <2>9
<1>16. ASSUME a = client[k].attempt PROVE AcksOK(k)'
  <2>1. CASE client[k].pc = "idle"
    BY <1>8, <2>1 DEF AcksOK
  <2>2. client[k].pc \in {"idle", "send", "recv"}
    BY DEF IndInv, Types, CallState
  <2>3. QED
    BY <1>14, <1>15, <1>16, <2>1, <2>2
<1>17. client'[k] = client[k]
  BY <1>8
<1>18. QED
  BY <1>9, <1>13, <1>14, <1>15, <1>16, <1>17, ServerSide

\* The thread acknowledges the record it has handed to the runtime.
LEMMA AckCaller ==
  ASSUME IndInv, NEW k \in Callers, CallerOK(k), NEW a \in 1..MaxAttempts,
         Serving(<<k, a>>), Acknowledge(<<k, a>>)
  PROVE  CallerOK(k)'
<1> DEFINE c == <<k, a>>
           stored == worker[c] = "ack_stored"
           g == Ack(stored)
<1>1. c \in Connections /\ \A b \in 1..MaxAttempts : <<k, b>> \in Connections
  BY DEF Connections
<1>2. net \in [Connections -> Net] /\ worker \in [Connections -> WorkerState]
  BY DEF IndInv, Types
<1>3. net[c] \in Net /\ net[c].server = "open" /\ net[c].client # "none" /\ worker[c] \in Acking
  BY <1>1, ServingSocket DEF OpenSocket, Acknowledge, Acking
<1>4. /\ UNCHANGED <<client, runtime, log>> /\ client'[k] = client[k]
  BY DEF Serving, Acknowledge
<1>5. PICK r \in Sends(net[c], "down", "client", g) :
           IF r.ok
             THEN /\ net' = [net EXCEPT ![c] = r.net]
                  /\ worker' = [worker EXCEPT ![c] = IF stored THEN "count_stored"
                                                     ELSE "count_refused"]
                  /\ UNCHANGED buffer
             ELSE Ends(c, r.net)
  BY DEF Acknowledge
<1>6. g \in AnyFrame /\ (g.arg = 1 <=> stored) /\ g.type = "ingest_ack"
  BY DEF Ack, Frame, AnyFrame, FrameType
<1> HIDE DEF g, stored
<1>7. Grows /\ OutcomesOK(k)' /\ PrefixStored(k)' /\ AcksOK(k) /\ RequestsOK(k)
  <2>1. Grows /\ OutcomesOK(k) /\ PrefixStored(k) /\ AcksOK(k) /\ RequestsOK(k)
    BY <1>4 DEF Grows, CallerOK
  <2>2. QED
    BY <1>4, <2>1, OtherOutcomes
<1>8. ASSUME a = client[k].attempt, client[k].pc # "idle"
      PROVE  /\ client[k].pc = "recv" /\ Nothing(buffer[c], net[c].up)
             /\ Nothing(client[k].buffer, net[c].down)
             /\ client[k].step \in Pushes(k) /\ Covered(k, client[k].step + 1)
             /\ stored <=> <<k, Record(k, client[k].step), a>> \in log
  BY <1>3, <1>7, <1>8 DEF AcksOK, Connection, stored
<1>9. CASE r.ok
  <2>1. /\ net' = [net EXCEPT ![c] = r.net] /\ buffer' = buffer
        /\ \E w \in {"count_stored", "count_refused"} : worker' = [worker EXCEPT ![c] = w]
    BY <1>5, <1>9
  <2>2. net'[c] = r.net /\ worker'[c] \notin Acking
    BY <1>1, <1>2, <2>1 DEF Acking
  <2>3. \A b \in 1..MaxAttempts : b # a =>
           /\ buffer'[<<k, b>>] = buffer[<<k, b>>] /\ net'[<<k, b>>] = net[<<k, b>>]
           /\ worker'[<<k, b>>] = worker[<<k, b>>]
           /\ \A x : <<k, x, b>> \in log' => <<k, x, b>> \in log
    BY <1>1, <1>2, <1>4, <2>1
  <2>4. CASE a = client[k].attempt /\ client[k].pc # "idle"
    <3>1. /\ client[k].pc = "recv" /\ Nothing(buffer'[c], net[c].up)
          /\ Nothing(client[k].buffer, net[c].down) /\ client[k].step \in Pushes(k)
      BY <1>8, <2>1, <2>4
    <3>2. Covered(k, client[k].step + 1)'
      <4> DEFINE next == client[k].step + 1
      <4>1. Covered(k, next) /\ next' = next
        BY <1>4, <1>8, <2>4
      <4> HIDE DEF next
      <4>2. Covered(k, next)'
        BY <1>7, <4>1, CoveredKept
      <4>3. QED
        BY <4>2 DEF next
    <3>3. g.arg = 1 <=> <<k, Record(k, client[k].step), a>> \in log'
      BY <1>4, <1>6, <1>8, <2>4
    <3>4. QED
      BY <1>3, <1>4, <1>5, <1>6, <1>7, <2>2, <2>3, <2>4, <3>1, <3>2, <3>3, ReplySent
  <2>5. CASE ~(a = client[k].attempt /\ client[k].pc # "idle")
    <3>1. net'[c].up = net[c].up
      <4> DEFINE n == net[c]
      <4>1. n \in Net /\ r \in Sends(n, "down", "client", g)
        BY <1>3, <1>5
      <4> HIDE DEF n
      <4>2. r.net.up = n.up
        BY <1>6, <4>1, SendsDown
      <4>3. QED
        BY <2>2, <4>2 DEF n
    <3>2. \/ Nothing(buffer'[c], net'[c].up)
          \/ \E s \in 1..Len(Script[k]) : OnItsWay(k, a, s)'
      <4>1. /\ buffer'[c] = buffer[c]
            /\ \A x : <<k, x, a>> \in log' => <<k, x, a>> \in log
        BY <1>4, <2>1
      <4>2. QED
        BY <1>4, <1>7, <3>1, <4>1, OtherRequests
    <3>3. a = client[k].attempt => AcksOK(k)'
      BY <1>4, <2>5 DEF AcksOK
    <3>4. /\ ~(a = client[k].attempt /\ client[k].pc = "send")
          /\ ~(a = client[k].attempt /\ client[k].pc = "recv")
      BY <2>5
    <3>5. QED
      BY <1>4, <1>7, <2>3, <3>2, <3>3, <3>4, ServerSide
  <2>6. QED
    BY <2>4, <2>5
<1>10. CASE ~r.ok
  <2>1. Ends(c, r.net)
    BY <1>5, <1>10
  <2>2. r.net = net[c]
    BY <1>3, <1>5, <1>6, <1>10, SendsDown
  <2>3. NoAck(net[c].down, r.net.down)
    BY <2>2 DEF NoAck
  <2>4. /\ worker'[c] \notin Acking
        /\ \A b \in 1..MaxAttempts : b # a => worker'[<<k, b>>] = worker[<<k, b>>]
    BY <2>1, EndedThread
  <2>5. r.net \in Net /\ r.net.client # "none"
    BY <1>3, <2>2
  <2>6. QED
    BY <1>4, <1>7, <2>1, <2>3, <2>4, <2>5, EndsCaller DEF Ends
<1>11. QED
  BY <1>9, <1>10

\* A step that touches the socket, the buffer and the state of connection c only.
Local(c) ==
  /\ \E n : net' = [net EXCEPT ![c] = n]
  /\ \E b : buffer' = [buffer EXCEPT ![c] = b]
  /\ \E w : worker' = [worker EXCEPT ![c] = w]

LEMMA LocalSteps ==
  ASSUME Types, NEW c \in Connections, serve_connection(c)
  PROVE  Local(c)
<1>1. /\ net = [net EXCEPT ![c] = net[c]] /\ buffer = [buffer EXCEPT ![c] = buffer[c]]
      /\ worker = [worker EXCEPT ![c] = worker[c]]
  BY DEF Types
<1>2. \A n : Ends(c, n) => Local(c)
  BY DEF Ends, Local
<1>3. \A r, last : Answer(c, r, last) => Local(c)
  BY <1>1, <1>2 DEF Answer, Local
<1>4. \A n, type, last : Reply(c, n, type, last) => Local(c)
  BY <1>3 DEF Reply
<1>5. CASE WorkerRecv(c)
  BY <1>1, <1>2, <1>5 DEF WorkerRecv, Local
<1>6. CASE WorkerFails(c)
  BY <1>4, <1>6 DEF WorkerFails, fail
<1>7. CASE WorkerDrained(c)
  <2>1. CASE UNCHANGED <<net, buffer>> /\ worker' = [worker EXCEPT ![c] = "recv"]
    BY <1>1, <2>1 DEF Local
  <2>2. QED
    BY <1>4, <1>7, <2>1 DEF WorkerDrained, fail
<1>8. CASE HandleFrame(c)
  <2>1. \A i : HandleIngest(c, i) => Local(c)
    BY <1>1 DEF HandleIngest, Local
  <2>2. QED
    BY <1>4, <1>8, <2>1, FrameCases
<1>9. CASE Acknowledge(c)
  BY <1>1, <1>2, <1>9 DEF Acknowledge, Local
<1>10. CASE CountRecord(c)
  BY <1>1, <1>10 DEF CountRecord, Local
<1>11. QED
  BY <1>5, <1>6, <1>7, <1>8, <1>9, <1>10 DEF serve_connection

\* What a step of the thread of connection c leaves alone.
LEMMA ServeFrame ==
  ASSUME IndInv, NEW c \in Connections, serve_connection(c)
  PROVE  /\ Serving(c) /\ UNCHANGED <<client, runtime>>
         /\ \A d \in Connections : d # c =>
              buffer'[d] = buffer[d] /\ net'[d] = net[d] /\ worker'[d] = worker[d]
         /\ Grows /\ \A e \in log' : e[1] # c[1] => e \in log
<1>1. Types /\ ServerOK /\ UNCHANGED <<server_vars, backlog, runtime, client>>
  BY DEF IndInv, serve_connection
<1>2. Serving(c)
  <2>1. worker[c] \notin {"none", "finished"}
    BY DEF serve_connection, WorkerRecv, WorkerFails, HandleFrame, WorkerDrained, Acknowledge,
       CountRecord
  <2>2. greeted' \in [Connections -> BOOLEAN]
    BY <1>1, GreetedType
       DEF serve_connection, WorkerRecv, WorkerFails, WorkerDrained, Acknowledge, CountRecord, Types
  <2>3. QED
    BY <1>1, <2>1, <2>2 DEF Serving
<1>3. /\ net \in [Connections -> Net] /\ buffer \in [Connections -> Seq(RequestCell)]
      /\ worker \in [Connections -> WorkerState]
  BY <1>1 DEF Types
<1>4. Local(c)
  BY <1>1, LocalSteps
<1>5. \A d \in Connections : d # c =>
        buffer'[d] = buffer[d] /\ net'[d] = net[d] /\ worker'[d] = worker[d]
  BY <1>3, <1>4 DEF Local
<1>6. log \subseteq log' /\ \A e \in log' : e[1] # c[1] => e \in log
  <2>1. CASE UNCHANGED log
    BY <2>1
  <2>2. ASSUME NEW i, HandleIngest(c, i)
        PROVE  log \subseteq log' /\ \A e \in log' : e[1] # c[1] => e \in log
    BY <2>2 DEF HandleIngest
  <2>3. QED
    BY <2>1, <2>2, FrameCases
       DEF serve_connection, WorkerRecv, WorkerFails, WorkerDrained, Acknowledge, CountRecord
<1>7. QED
  BY <1>1, <1>2, <1>5, <1>6 DEF Grows

\* No caller sends more than a decoder takes.
LEMMA CallerFits ==
  ASSUME IndInv, NEW k \in Callers, CallerOK(k), NEW a \in 1..MaxAttempts,
         NEW chunk \in Chunks(net[<<k, a>>].up)
  PROVE  ~FeedRefused(buffer[<<k, a>>], chunk)
<1> DEFINE b == buffer[<<k, a>>]
           u == net[<<k, a>>].up
<1>1. b \in Seq(RequestCell) /\ u \in Seq(RequestCell) /\ chunk \in Chunks(u)
  BY DEF Connections, IndInv, Types, Net
<1>2. ~Nothing(b, u)
  <2> HIDE DEF b, u
  <2>1. Len(u) \in Nat /\ Len(chunk) \in 1..Len(u)
    BY <1>1, ChunkProperties
  <2>2. Len(u) # 0 /\ Len(<<>>) = 0
    BY <2>1
  <2>3. QED
    BY <2>2, Zenon DEF Nothing
<1>3. PICK s \in 1..Len(Script[k]) : OnItsWay(k, a, s)
  BY <1>2 DEF CallerOK, RequestsOK
<1>4. Holds(b, u, Script[k][s])
  BY <1>3 DEF OnItsWay
<1> HIDE DEF b, u
<1>5. Len(b) + Len(chunk) <= 2
  BY <1>1, <1>4, HoldsRead
<1>6. Len(b) \in Nat /\ Len(chunk) \in Nat
  <2>1. chunk \in Seq(RequestCell)
    BY <1>1, ChunkProperties
  <2>2. QED
    BY <1>1, <2>1, LenProperties
<1>7. ~FeedRefused(b, chunk)
  BY <1>5, <1>6, BufferAssumption DEF FeedRefused
<1>8. QED
  BY <1>7 DEF b

LEMMA ServeCallers ==
  ASSUME IndInv, CallersInv, NEW c \in Connections, serve_connection(c)
  PROVE  CallersInv'
<1>1. /\ Serving(c) /\ UNCHANGED <<client, runtime>>
      /\ \A d \in Connections : d # c =>
           buffer'[d] = buffer[d] /\ net'[d] = net[d] /\ worker'[d] = worker[d]
      /\ Grows /\ \A e \in log' : e[1] # c[1] => e \in log
  BY ServeFrame
<1>2. \A k \in Callers, b \in 1..MaxAttempts : <<k, b>> \in Connections
  BY DEF Connections
<1>3. ASSUME NEW k \in Callers, k # c[1] PROVE CallerOK(k)'
  <2>1. \A b \in 1..MaxAttempts :
          /\ buffer'[<<k, b>>] = buffer[<<k, b>>] /\ net'[<<k, b>>] = net[<<k, b>>]
          /\ SameAck(<<k, b>>)
    BY <1>1, <1>2, <1>3 DEF SameAck
  <2>2. CallerOK(k) /\ client'[k] = client[k] /\ \A e \in log' : e[1] = k => e \in log
    BY <1>1, <1>3 DEF CallersInv
  <2>3. QED
    BY <1>1, <2>1, <2>2, CallerSame
<1>4. ASSUME NEW k \in Callers, k = c[1] PROVE CallerOK(k)'
  <2>1. PICK a \in 1..MaxAttempts : c = <<k, a>>
    BY <1>4, ConnectionParts
  <2>2. CallerOK(k)
    BY DEF CallersInv
  <2>3. \A b \in 1..MaxAttempts : b # a =>
          /\ buffer'[<<k, b>>] = buffer[<<k, b>>] /\ net'[<<k, b>>] = net[<<k, b>>]
          /\ worker'[<<k, b>>] = worker[<<k, b>>]
    BY <1>1, <1>2, <2>1
  <2>4. /\ OpenSocket(<<k, a>>, net[<<k, a>>]) /\ net[<<k, a>>].client # "none"
        /\ net[<<k, a>>] \in Net /\ Serving(<<k, a>>)
    BY <1>1, <2>1, ServingSocket DEF OpenSocket
  <2>5. ASSUME NEW type \in FrameType \ {"ingest_ack"}, NEW last \in BOOLEAN,
               Reply(<<k, a>>, net[<<k, a>>], type, last), UNCHANGED log,
               worker[<<k, a>>] \notin Acking, last \/ NextIsFrame(buffer[<<k, a>>])
        PROVE  CallerOK(k)'
    BY <1>1, <2>2, <2>4, <2>5, ReplyCaller
  <2>6. "error" \in FrameType \ {"ingest_ack"} /\ "bye" \in FrameType \ {"ingest_ack"}
        /\ TRUE \in BOOLEAN
    BY DEF FrameType
  <2>7. ASSUME UNCHANGED <<net, buffer, log>>, worker[<<k, a>>] \notin Acking,
               NEW w, w \notin Acking, worker' = [worker EXCEPT ![<<k, a>>] = w]
        PROVE  CallerOK(k)'
    <3>1. worker'[<<k, a>>] = w
      BY <1>2, <2>7 DEF IndInv, Types
    <3>2. \A b \in 1..MaxAttempts : SameAck(<<k, b>>)
      BY <2>3, <2>7, <3>1 DEF SameAck
    <3>3. QED
      BY <1>1, <2>2, <2>7, <3>2, CallerSame
  <2>8. CASE WorkerRecv(<<k, a>>)
    <3>1. UNCHANGED log
      BY <2>8 DEF WorkerRecv
    <3>2. CASE Ends(<<k, a>>, net[<<k, a>>])
      <4>1. OutcomesOK(k)' /\ PrefixStored(k)'
        BY <1>1, <2>2, <3>1, OtherOutcomes DEF CallerOK
      <4>2. NoAck(net[<<k, a>>].down, net[<<k, a>>].down)
        BY DEF NoAck
      <4>3. /\ worker'[<<k, a>>] \notin Acking
            /\ \A b \in 1..MaxAttempts : b # a => worker'[<<k, b>>] = worker[<<k, b>>]
        BY <3>2, EndedThread
      <4>4. QED
        BY <1>1, <2>2, <2>4, <3>1, <3>2, <4>1, <4>2, <4>3, EndsCaller DEF Ends
    <3>3. ASSUME NEW chunk \in Chunks(net[<<k, a>>].up),
                 ~FeedRefused(buffer[<<k, a>>], chunk) =>
                   /\ net' = [net EXCEPT ![<<k, a>>] =
                                [net[<<k, a>>] EXCEPT !.up = After(net[<<k, a>>].up, chunk)]]
                   /\ buffer' = [buffer EXCEPT ![<<k, a>>] = buffer[<<k, a>>] \o chunk]
                   /\ worker' = [worker EXCEPT ![<<k, a>>] = "drain"]
          PROVE  CallerOK(k)'
      <4> DEFINE read == [net[<<k, a>>] EXCEPT !.up = After(net[<<k, a>>].up, chunk)]
      <4>1. ~FeedRefused(buffer[<<k, a>>], chunk)
        BY <2>2, CallerFits
      <4>2. /\ net' = [net EXCEPT ![<<k, a>>] = read]
            /\ buffer' = [buffer EXCEPT ![<<k, a>>] = buffer[<<k, a>>] \o chunk]
            /\ worker' = [worker EXCEPT ![<<k, a>>] = "drain"]
        BY <3>3, <4>1
      <4>3. /\ net'[<<k, a>>] = read /\ buffer'[<<k, a>>] = buffer[<<k, a>>] \o chunk
            /\ worker'[<<k, a>>] = "drain"
        <5> HIDE DEF read
        <5> QED BY <1>2, <4>2 DEF IndInv, Types
      <4>4. worker'[<<k, a>>] \notin Acking
        BY <4>3 DEF Acking
      <4>5. QED
        BY <1>1, <2>2, <2>3, <3>1, <4>3, <4>4, ServerReads
    <3>4. QED
      BY <2>8, <3>2, <3>3 DEF WorkerRecv
  <2>9. CASE WorkerFails(<<k, a>>)
    <3>1. Reply(<<k, a>>, net[<<k, a>>], "error", TRUE) /\ UNCHANGED log
          /\ worker[<<k, a>>] \notin Acking
      BY <2>9 DEF WorkerFails, fail, Acking
    <3>2. QED
      BY <2>5, <2>6, <3>1
  <2>10. CASE WorkerDrained(<<k, a>>)
    <3>1. UNCHANGED log /\ worker[<<k, a>>] \notin Acking
      BY <2>10 DEF WorkerDrained, Acking
    <3>2. CASE Reply(<<k, a>>, net[<<k, a>>], "error", TRUE)
      BY <2>5, <2>6, <3>1, <3>2
    <3>3. CASE Reply(<<k, a>>, net[<<k, a>>], "bye", TRUE)
      BY <2>5, <2>6, <3>1, <3>3
    <3>4. CASE UNCHANGED <<net, buffer>> /\ worker' = [worker EXCEPT ![<<k, a>>] = "recv"]
      <4>1. "recv" \notin Acking
        BY DEF Acking
      <4>2. QED
        BY <2>7, <3>1, <3>4, <4>1
    <3>5. QED
      BY <2>10, <3>2, <3>3, <3>4 DEF WorkerDrained, fail
  <2>11. CASE HandleFrame(<<k, a>>)
    <3>1. NextIsFrame(buffer[<<k, a>>]) /\ worker[<<k, a>>] \notin Acking
      BY <2>11 DEF HandleFrame, Acking
    <3>2. CASE /\ NextFrame(buffer[<<k, a>>]).type = "ingest"
               /\ HandleIngest(<<k, a>>, NextFrame(buffer[<<k, a>>]).arg)
      BY <2>2, <2>4, <3>1, <3>2, IngestCaller
    <3>3. CASE /\ UNCHANGED log
               /\ \E type \in FrameType \ {"ingest_ack"}, last \in BOOLEAN :
                    Reply(<<k, a>>, net[<<k, a>>], type, last)
      BY <2>5, <3>1, <3>3
    <3>4. QED
      BY <2>11, <3>2, <3>3, FrameCases
  <2>12. CASE Acknowledge(<<k, a>>)
    BY <2>2, <2>4, <2>12, AckCaller
  <2>13. CASE CountRecord(<<k, a>>)
    <3>1. /\ UNCHANGED <<net, buffer, log>> /\ worker[<<k, a>>] \notin Acking
          /\ worker' = [worker EXCEPT ![<<k, a>>] = "drain"] /\ "drain" \notin Acking
      BY <2>13 DEF CountRecord, Acking
    <3>2. QED
      BY <2>7, <3>1
  <2>14. QED
    BY <2>1, <2>8, <2>9, <2>10, <2>11, <2>12, <2>13 DEF serve_connection
<1>5. QED
  BY <1>3, <1>4 DEF CallersInv

-----------------------------------------------------------------------------
(***************************************************************************)
(* Steps of the server's owner, of run and of other programs.              *)
(***************************************************************************)
LEMMA QuietCallers ==
  ASSUME IndInv, CallersInv, Grows, UNCHANGED <<worker, buffer, net, client, log>>
  PROVE  CallersInv'
<1>1. ASSUME NEW k \in Callers PROVE CallerOK(k)'
  BY CallerSame DEF CallersInv, SameAck
<1>2. QED
  BY <1>1 DEF CallersInv

LEMMA OwnerCallers ==
  ASSUME IndInv, CallersInv, start \/ stop \/ request_shutdown \/ AcceptFails \/ RunJoins
  PROVE  CallersInv'
<1>1. UNCHANGED <<worker, buffer, net, client, log>>
  BY DEF start, stop, request_shutdown, AcceptFails, RunJoins, worker_vars
<1>2. Grows
  BY <1>1 DEF start, stop, request_shutdown, AcceptFails, RunJoins, Grows
<1>3. QED
  BY <1>1, <1>2, QuietCallers

LEMMA StopClosesCallers ==
  ASSUME IndInv, CallersInv, StopCloses
  PROVE  CallersInv'
<1>1. UNCHANGED <<worker, buffer, log, runtime, client>>
  BY DEF StopCloses, worker_vars
<1>2. ASSUME NEW c \in Connections
      PROVE  /\ net'[c].up = net[c].up /\ net'[c].down = net[c].down
             /\ net'[c].server = net[c].server /\ (net[c].reset => net'[c].reset)
  <2>1. net'[c] = net[c] \/ net'[c] = [net[c] EXCEPT !.reset = TRUE]
    BY DEF StopCloses
  <2>2. net[c] \in Net
    BY DEF IndInv, Types
  <2>3. QED
    BY <2>1, <2>2 DEF Net
<1>3. ASSUME NEW k \in Callers PROVE CallerOK(k)'
  <2>1. \A a \in 1..MaxAttempts : <<k, a>> \in Connections
    BY DEF Connections
  <2>2. Grows /\ CallerOK(k)
    BY <1>1 DEF Grows, CallersInv
  <2>3. QED
    BY <1>1, <1>2, <2>1, <2>2, CallerSame DEF SameAck
<1>4. QED
  BY <1>3 DEF CallersInv

\* Steps that touch no connection of a caller but c, which run accepts.
LEMMA AcceptCallers ==
  ASSUME IndInv, CallersInv, Accept
  PROVE  CallersInv'
<1> DEFINE c == Head(backlog)
<1>1. backlog # <<>> /\ UNCHANGED <<buffer, log, runtime, client>> /\ Types /\ ServerOK
  BY DEF Accept, IndInv
<1>2. c \in Connections /\ Waiting(c) /\ net[c] \in Net /\ ConnectionOK(c)
  BY <1>1, BacklogHead DEF Types, ServerOK
<1>3. \/ net' = [net EXCEPT ![c].server = "open"]
      \/ \E r \in Sends(net[c], "down", "client", Frame("error", 0)) :
           \E n \in Closings(r.net, "server", "up") : net' = [net EXCEPT ![c] = n]
  BY DEF Accept
<1>0. worker' = worker \/ worker' = [worker EXCEPT ![c] = "drain"]
  BY DEF Accept
<1> HIDE DEF c
<1>01. /\ \A d \in Connections : SameAck(d) /\ (d # c => worker'[d] = worker[d])
      /\ worker'[c] \notin Acking
  <2>1. worker[c] = "none" /\ worker \in [Connections -> WorkerState]
    BY <1>1, <1>2 DEF Waiting, Types
  <2>2. worker'[c] \in {"none", "drain"} /\ \A d \in Connections : d # c => worker'[d] = worker[d]
    BY <1>0, <1>2, <2>1
  <2>3. worker[c] \notin Acking /\ worker'[c] \notin Acking
    BY <2>1, <2>2 DEF Acking
  <2>4. QED
    BY <2>2, <2>3 DEF SameAck
<1>4. \A d \in Connections : d # c => net'[d] = net[d]
  BY <1>1, <1>2, <1>3 DEF Types
<1>5. \A k \in Callers, b \in 1..MaxAttempts : <<k, b>> \in Connections
  BY DEF Connections
<1>6. ASSUME NEW k \in Callers PROVE CallerOK(k)'
  <2>1. CallerOK(k) /\ Grows
    BY <1>1 DEF CallersInv, Grows
  <2>2. CASE k # c[1]
    BY <1>01, <1>1, <1>4, <1>5, <2>1, <2>2, CallerSame
  <2>3. CASE net' = [net EXCEPT ![c].server = "open"]
    <3>1. \A d \in Connections :
            /\ net'[d].up = net[d].up /\ net'[d].down = net[d].down
            /\ net'[d].server = "closed" <=> net[d].server = "closed"
            /\ net[d].reset => net'[d].reset
      <4>1. net[c].server = "none"
        BY <1>2 DEF Waiting
      <4>2. /\ net'[c].up = net[c].up /\ net'[c].down = net[c].down
            /\ net'[c].server = "open" /\ net'[c].reset = net[c].reset
        BY <1>1, <1>2, <2>3 DEF Types, Net
      <4>3. QED
        BY <1>4, <4>1, <4>2
    <3>2. QED
      BY <1>01, <1>1, <1>5, <2>1, <3>1, CallerSame
  <2>4. CASE /\ k = c[1]
             /\ \E r \in Sends(net[c], "down", "client", Frame("error", 0)) :
                  \E n \in Closings(r.net, "server", "up") : net' = [net EXCEPT ![c] = n]
    <3>1. PICK a \in 1..MaxAttempts : c = <<k, a>>
      BY <1>2, <2>4, ConnectionParts
    <3>2. PICK r \in Sends(net[c], "down", "client", Frame("error", 0)) :
                  \E n \in Closings(r.net, "server", "up") : net' = [net EXCEPT ![c] = n]
      BY <2>4
    <3> DEFINE g == Frame("error", 0)
    <3>3. g \in AnyFrame /\ g.type # "ingest_ack"
      BY DEF Frame, AnyFrame, FrameType
    <3>4. r \in Sends(net[c], "down", "client", g)
      BY <3>2
    <3> HIDE DEF g
    <3>5. r.net \in Net /\ r.net.client = net[c].client /\ NoAck(net[c].down, r.net.down)
      <4> DEFINE n == net[c]
      <4>1. n \in Net /\ r \in Sends(n, "down", "client", g)
        BY <1>2, <3>4
      <4> HIDE DEF n
      <4>2. r.net \in Net /\ r.net.client = n.client
        BY <3>3, <4>1, SendsDown
      <4>3. NoAck(n.down, r.net.down)
        BY <3>3, <4>1, SendNoAck
      <4>4. QED
        BY <4>2, <4>3 DEF n
    <3>6. r.net.client # "none"
      BY <1>2, <3>5 DEF Waiting
    <3>7. buffer' = [buffer EXCEPT ![c] = <<>>]
      BY <1>1, <1>2 DEF Waiting, ConnectionOK, Types
    <3>8. OutcomesOK(k)' /\ PrefixStored(k)'
      BY <1>1, <2>1, OtherOutcomes DEF CallerOK
    <3>9. NoAck(net[<<k, a>>].down, r.net.down)
      BY <3>1, <3>5
    <3>10. /\ \E n \in Closings(r.net, "server", "up") : net' = [net EXCEPT ![<<k, a>>] = n]
           /\ buffer' = [buffer EXCEPT ![<<k, a>>] = <<>>]
      BY <3>1, <3>2, <3>7
    <3>11. /\ worker'[<<k, a>>] \notin Acking
           /\ \A b \in 1..MaxAttempts : b # a => worker'[<<k, b>>] = worker[<<k, b>>]
      BY <1>01, <1>5, <3>1
    <3>12. QED
      BY <1>1, <2>1, <3>5, <3>6, <3>8, <3>9, <3>10, <3>11, EndsCaller
  <2>5. QED
    BY <1>3, <2>2, <2>3, <2>4
<1>7. QED
  BY <1>6 DEF CallersInv

LEMMA RawCallers ==
  ASSUME IndInv, CallersInv, NEW k \in Raw, RawBurst(k)
  PROVE  CallersInv'
<1>1. UNCHANGED <<worker, buffer, log, runtime, client>>
  BY DEF RawBurst, worker_vars
<1>2. \A j \in Callers, a \in 1..MaxAttempts : <<j, a>> \in Connections /\ <<j, a>> # <<k, 1>>
  BY ServerAssumption DEF Connections
<1>3. \A d \in Connections : d # <<k, 1>> => net'[d] = net[d]
  BY DEF RawBurst, IndInv, Types
<1>4. ASSUME NEW j \in Callers PROVE CallerOK(j)'
  <2>1. Grows /\ CallerOK(j) /\ \A a \in 1..MaxAttempts : net'[<<j, a>>] = net[<<j, a>>]
    BY <1>1, <1>2, <1>3 DEF Grows, CallersInv
  <2>2. QED
    BY <1>1, <2>1, CallerSame DEF SameAck
<1>5. QED
  BY <1>4 DEF CallersInv

-----------------------------------------------------------------------------
(***************************************************************************)
(* Steps of a caller.                                                      *)
(***************************************************************************)
\* A step of caller k matters to no other caller.
LEMMA OtherCallers ==
  ASSUME IndInv, CallersInv, NEW k \in Callers, UNCHANGED <<worker, buffer, log, runtime>>,
         \A d \in Connections : d[1] # k => net'[d] = net[d],
         \A j \in Callers : j # k => client'[j] = client[j],
         CallerOK(k)'
  PROVE  CallersInv'
<1>1. ASSUME NEW j \in Callers, j # k PROVE CallerOK(j)'
  <2>1. Grows /\ CallerOK(j) /\ client'[j] = client[j]
    BY <1>1 DEF Grows, CallersInv
  <2>2. \A a \in 1..MaxAttempts : net'[<<j, a>>] = net[<<j, a>>]
    BY <1>1 DEF Connections
  <2>3. QED
    BY <2>1, <2>2, CallerSame DEF SameAck
<1>2. QED
  BY <1>1 DEF CallersInv

\* A step of caller k on the connection of its current attempt.
LEMMA CallerSide ==
  ASSUME IndInv, NEW k \in Callers, CallerOK(k), UNCHANGED <<buffer, log, runtime>>,
         NEW a \in 1..MaxAttempts, client'[k].attempt = a,
         \A b \in 1..MaxAttempts : b # a => net'[<<k, b>>].up = net[<<k, b>>].up,
         \A b \in 1..MaxAttempts : b <= client[k].attempt => b <= a,
         \/ Nothing(buffer'[<<k, a>>], net'[<<k, a>>].up)
         \/ \E s \in 1..Len(Script[k]) : OnItsWay(k, a, s)',
         CallOK(k)', OutcomesOK(k)', client'[k].pc = "idle" \/ worker'[<<k, a>>] \notin Acking
  PROVE  CallerOK(k)'
<1>1. RequestsOK(k) /\ PrefixStored(k) /\ Grows
  BY DEF CallerOK, Grows
<1>2. RequestsOK(k)'
  <2>1. ASSUME NEW b \in 1..MaxAttempts
        PROVE  \/ Nothing(buffer'[<<k, b>>], net'[<<k, b>>].up)
               \/ \E s \in 1..Len(Script[k]) : OnItsWay(k, b, s)'
    <3>1. CASE b = a
      BY <3>1
    <3>2. CASE b # a
      BY <1>1, <3>2, OtherRequests
    <3>3. QED
      BY <3>1, <3>2
  <2>2. QED
    BY <2>1 DEF RequestsOK, Nothing
<1>3. PrefixStored(k)'
  BY <1>1 DEF PrefixStored, Stored, Record, Pushes
<1>4. AcksOK(k)'
  BY DEF AcksOK, Connection
<1>5. QED
  BY <1>2, <1>3, <1>4 DEF CallerOK

\* The frame conditions of a step of a caller that has not returned.
LEMMA CallFrame ==
  ASSUME IndInv, NEW k \in Callers, client[k].pc # "idle", NEW n, NEW s,
         net' = [net EXCEPT ![Connection(k)] = n], client' = [client EXCEPT ![k] = s],
         UNCHANGED <<client_frame, backlog>>
  PROVE  /\ UNCHANGED <<worker, buffer, log, runtime>>
         /\ net'[Connection(k)] = n /\ client'[k] = s
         /\ \A d \in Connections : d # Connection(k) => net'[d] = net[d]
         /\ \A d \in Connections : d[1] # k => net'[d] = net[d]
         /\ \A j \in Callers : j # k => client'[j] = client[j]
         /\ \A b \in 1..MaxAttempts : b # client[k].attempt => net'[<<k, b>>] = net[<<k, b>>]
<1>1. Connection(k) \in Connections
  BY CallSocket
<1>2. net \in [Connections -> Net] /\ client \in [Callers -> CallState]
  BY DEF IndInv, Types
<1>3. net'[Connection(k)] = n /\ \A d \in Connections : d # Connection(k) => net'[d] = net[d]
  BY <1>1, <1>2
<1>4. client'[k] = s /\ \A j \in Callers : j # k => client'[j] = client[j]
  BY <1>2
<1>5. /\ \A d \in Connections : d[1] # k => d # Connection(k)
      /\ \A b \in 1..MaxAttempts : b # client[k].attempt =>
           <<k, b>> # Connection(k) /\ <<k, b>> \in Connections
  BY DEF Connection, Connections
<1>6. UNCHANGED <<worker, buffer, log, runtime>>
  BY DEF client_frame, worker_vars
<1>7. QED
  BY <1>3, <1>4, <1>5, <1>6

\* The call returns: with success only when there was nothing left to push.
LEMMA ReturnCaller ==
  ASSUME IndInv, CallersInv, NEW k \in Callers, client[k].pc # "idle", NEW n \in Net,
         n.server = net[Connection(k)].server, n.up = net[Connection(k)].up,
         NEW result, result = "ok" => client[k].step = Len(Script[k]),
         Return(k, n, result), UNCHANGED <<client_frame, backlog>>
  PROVE  CallersInv'
<1> DEFINE c == Connection(k)
<1>0. PICK a, s : /\ a = client[k].attempt
                  /\ s = [client[k] EXCEPT !.pc = "idle", !.result = result, !.buffer = <<>>]
  OBVIOUS
<1>1. PICK m \in Closings(n, "client", "down") : net' = [net EXCEPT ![c] = m]
  BY DEF Return
<1>2. client' = [client EXCEPT ![k] = s]
  BY <1>0 DEF Return
<1>3. /\ client[k] \in CallState /\ a \in 1..MaxAttempts /\ client[k].step \in 1..Len(Script[k])
      /\ net[c].server = "closed" => buffer[c] = <<>>
  BY <1>0, CallSocket
<1>4. /\ s.pc = "idle" /\ s.result = result /\ s.step = client[k].step /\ s.attempt = a
      /\ s.outcomes = client[k].outcomes
  BY <1>0, <1>3 DEF CallState
<1>5. /\ UNCHANGED <<worker, buffer, log, runtime>> /\ net'[c] = m /\ client'[k] = s
      /\ \A d \in Connections : d[1] # k => net'[d] = net[d]
      /\ \A j \in Callers : j # k => client'[j] = client[j]
      /\ \A b \in 1..MaxAttempts : b # a => net'[<<k, b>>] = net[<<k, b>>]
  <2>1. Connection(k) \in Connections /\ net' = [net EXCEPT ![Connection(k)] = m]
    BY <1>1, CallSocket
  <2>2. /\ UNCHANGED <<worker, buffer, log, runtime>>
        /\ net'[Connection(k)] = m /\ client'[k] = s
        /\ \A d \in Connections : d # Connection(k) => net'[d] = net[d]
        /\ \A d \in Connections : d[1] # k => net'[d] = net[d]
        /\ \A j \in Callers : j # k => client'[j] = client[j]
        /\ \A b \in 1..MaxAttempts : b # client[k].attempt => net'[<<k, b>>] = net[<<k, b>>]
    BY <1>2, <2>1, CallFrame, Zenon
  <2>3. QED
    BY <1>0, <2>2
<1>6. n.server # "closed" => m.up = n.up
  BY <1>1, ClosingsClient
<1>7. n.server = "closed" => m.up = <<>>
  BY <1>1, ClosingsClient DEF Gone
<1>8. CallerOK(k) /\ RequestsOK(k) /\ CallOK(k) /\ OutcomesOK(k) /\ Grows
  BY <1>5 DEF CallersInv, CallerOK, Grows
<1>9. \/ Nothing(buffer'[<<k, a>>], net'[<<k, a>>].up)
      \/ \E t \in 1..Len(Script[k]) : OnItsWay(k, a, t)'
  <2>1. c = <<k, a>>
    BY <1>0 DEF Connection
  <2>2. CASE n.server = "closed"
    BY <1>3, <1>5, <1>7, <2>1, <2>2 DEF Nothing
  <2>3. CASE n.server # "closed" /\ Nothing(buffer[c], net[c].up)
    BY <1>5, <1>6, <2>1, <2>3
  <2>4. ASSUME n.server # "closed", NEW t \in 1..Len(Script[k]), OnItsWay(k, a, t)
        PROVE  OnItsWay(k, a, t)'
    <3>1. Covered(k, t)'
      BY <1>8, <2>4, CoveredKept DEF OnItsWay
    <3>2. Holds(buffer'[<<k, a>>], net'[<<k, a>>].up, Script[k][t])
      BY <1>5, <1>6, <2>1, <2>4 DEF OnItsWay
    <3>3. QED
      BY <1>0, <1>4, <1>5, <2>4, <3>1, <3>2 DEF OnItsWay, Record, Pushes
  <2>5. QED
    BY <1>3, <1>8, <2>1, <2>2, <2>3, <2>4 DEF RequestsOK
<1>10. CallOK(k)'
  <2>1. ASSUME result = "ok" PROVE Covered(k, Len(Script[k]) + 1)'
    <3>1. client[k].step = Len(Script[k]) /\ Covered(k, Len(Script[k]))
      BY <1>8, <2>1 DEF CallOK
    <3>2. Script[k][Len(Script[k])].type = "bye"
      BY <1>3, <3>1, ScriptStep
    <3>3. Len(Script[k]) \notin Pushes(k) /\ Len(Script[k]) \in Nat
      BY <1>3, <3>1, <3>2, ScriptStep DEF Pushes
    <3>4. \A t \in Pushes(k) : t < Len(Script[k]) + 1 => t < Len(Script[k])
      BY <3>3, PushesAscend
    <3>5. Covered(k, Len(Script[k]) + 1)
      BY <3>1, <3>4 DEF Covered
    <3>6. QED
      BY <1>8, <3>5, CoveredKept
  <2>2. QED
    BY <1>4, <1>5, <2>1 DEF CallOK
<1>11. OutcomesOK(k)'
  BY <1>0, <1>4, <1>5, <1>8 DEF OutcomesOK, Pushes, Nth, Record
<1>12. CallerOK(k)'
  <2>1. \A b \in 1..MaxAttempts : b # a => net'[<<k, b>>].up = net[<<k, b>>].up
    BY <1>5
  <2>2. client'[k].attempt = a
    BY <1>4, <1>5
  <2>3. \A b \in 1..MaxAttempts : b <= client[k].attempt => b <= a
    BY <1>0
  <2>4. client'[k].pc = "idle"
    BY <1>4, <1>5
  <2>5. QED
    BY <1>3, <1>5, <1>8, <1>9, <1>10, <1>11, <2>1, <2>2, <2>3, <2>4, CallerSide
<1>13. QED
  BY <1>5, <1>12, OtherCallers

\* Caller k has not returned yet: its socket becomes n, its own state s.
LEMMA CallGoesOn ==
  ASSUME IndInv, CallersInv, NEW k \in Callers, client[k].pc # "idle", NEW n, NEW s,
         NEW a \in 1..MaxAttempts, a = client[k].attempt, s.attempt = a,
         net' = [net EXCEPT ![Connection(k)] = n], client' = [client EXCEPT ![k] = s],
         UNCHANGED <<client_frame, backlog>>,
         \/ Nothing(buffer[<<k, a>>], n.up)
         \/ \E t \in 1..Len(Script[k]) : OnItsWay(k, a, t)',
         CallOK(k)', OutcomesOK(k)', worker[<<k, a>>] \notin Acking
  PROVE  CallersInv'
<1>1. /\ UNCHANGED <<worker, buffer, log, runtime>>
      /\ net'[Connection(k)] = n /\ client'[k] = s
      /\ \A d \in Connections : d # Connection(k) => net'[d] = net[d]
      /\ \A d \in Connections : d[1] # k => net'[d] = net[d]
      /\ \A j \in Callers : j # k => client'[j] = client[j]
      /\ \A b \in 1..MaxAttempts : b # client[k].attempt => net'[<<k, b>>] = net[<<k, b>>]
  BY CallFrame, Zenon
<1>2. Connection(k) = <<k, a>> /\ CallerOK(k)
  BY DEF Connection, CallersInv
<1>3. \/ Nothing(buffer'[<<k, a>>], net'[<<k, a>>].up)
      \/ \E t \in 1..Len(Script[k]) : OnItsWay(k, a, t)'
  BY <1>1, <1>2
<1>4. client'[k].attempt = a /\ \A b \in 1..MaxAttempts : b # a => net'[<<k, b>>].up = net[<<k, b>>].up
  BY <1>1
<1>5. CallerOK(k)'
  BY <1>1, <1>2, <1>3, <1>4, CallerSide
<1>6. QED
  BY <1>1, <1>5, OtherCallers

LEMMA AskCaller ==
  ASSUME IndInv, CallersInv, NEW k \in Callers, Ask(k)
  PROVE  CallersInv'
<1> DEFINE c == Connection(k)
           f == Request(k)
<1>1. PICK r \in Sends(net[c], "up", "server", f) :
           \/ /\ r.ok
              /\ net' = [net EXCEPT ![c] = r.net]
              /\ client' = [client EXCEPT ![k].pc = "recv", ![k].buffer = <<>>]
           \/ ~r.ok /\ Return(k, r.net, IF f.type = "bye" THEN "ok" ELSE "error")
  BY DEF Ask
<1>2. client[k].pc = "send" /\ UNCHANGED <<client_frame, backlog>>
  BY DEF Ask
<1>3. /\ net[c] \in Net /\ client[k] \in CallState /\ f \in RequestFrame
      /\ client[k].step \in 1..Len(Script[k]) /\ client[k].attempt \in 1..MaxAttempts
      /\ c \in Connections
  BY <1>2, CallSocket
<1>4. PICK a \in 1..MaxAttempts, t \in 1..Len(Script[k]) :
        a = client[k].attempt /\ t = client[k].step
  BY <1>3
<1>5. /\ r.net \in Net /\ r.net.down = net[c].down /\ r.net.server = net[c].server
      /\ r.net.reset = net[c].reset
      /\ IF ~net[c].reset /\ net[c].server # "closed"
           THEN r.ok = TRUE /\ r.net.up = net[c].up \o encode_frame(f) ELSE r.net = net[c]
  <2> DEFINE n == net[c]
  <2>1. n \in Net /\ f \in RequestFrame /\ r \in Sends(n, "up", "server", f)
    BY <1>1, <1>3
  <2> HIDE DEF n, f
  <2>2. /\ r.net \in Net /\ r.ok \in BOOLEAN
        /\ r.net.down = n.down /\ r.net.client = n.client /\ r.net.server = n.server
        /\ r.net.reset = n.reset
        /\ IF ~n.reset /\ n.server # "closed"
             THEN r.ok = TRUE /\ r.net.up = n.up \o encode_frame(f) ELSE r.net = n
    BY <2>1, SendsUp, Zenon
  <2>3. QED
    BY <2>2, Zenon DEF n
<1>6. c = <<k, a>> /\ f = Script[k][t] /\ f \in AnyFrame
  BY <1>4, ScriptStep DEF Connection, Request
<1>7. CallerOK(k) /\ CallOK(k) /\ Sending(k) /\ OutcomesOK(k) /\ Covered(k, t) /\ AcksOK(k)
  BY <1>2, <1>4 DEF CallersInv, CallerOK, CallOK
<1>8. /\ Nothing(buffer[c], net[c].up) /\ (net[c].server # "closed" => net[c].down = <<>>)
      /\ \A i \in 1..Len(net[c].down) : net[c].down[i].frame.type # "ingest_ack"
      /\ t \in Pushes(k) => <<k, Record(k, t), a>> \notin log
  BY <1>4, <1>7 DEF Sending
<1>01. worker[<<k, a>>] \notin Acking
  BY <1>2, <1>6, <1>7 DEF AcksOK
<1> HIDE DEF c, f
<1>9. CASE /\ net' = [net EXCEPT ![c] = r.net]
           /\ client' = [client EXCEPT ![k].pc = "recv", ![k].buffer = <<>>]
  <2>1. PICK s : s = [client[k] EXCEPT !.pc = "recv", !.buffer = <<>>]
    OBVIOUS
  <2>2. /\ s.pc = "recv" /\ s.buffer = <<>> /\ s.attempt = a /\ s.step = t
        /\ s.outcomes = client[k].outcomes /\ s.result = client[k].result
    BY <1>3, <1>4, <2>1 DEF CallState
  <2>3. client' = [client EXCEPT ![k] = s] /\ net' = [net EXCEPT ![Connection(k)] = r.net]
    BY <1>9, <2>1 DEF c
  <2>4. client'[k] = s /\ net'[c] = r.net /\ UNCHANGED <<buffer, log, runtime>> /\ Grows
    BY <1>2, <1>3, <1>9, <2>3 DEF IndInv, Types, client_frame, worker_vars, Grows
  <2>5. Covered(k, t)' /\ (Covered(k, Len(Script[k]) + 1) => Covered(k, Len(Script[k]) + 1)')
    BY <1>7, <2>4, CoveredKept
  <2>6. Connection(k)' = c /\ Request(k)' = f /\ Len(client'[k].buffer) = 0
    BY <1>6, <2>2, <2>4 DEF Connection, Request
  <2>7. OutcomesOK(k)'
    BY <1>4, <1>7, <2>2, <2>4 DEF OutcomesOK, Pushes, Nth, Record
  <2>8. CASE ~net[c].reset /\ net[c].server # "closed"
    <3>1. r.net.up = encode_frame(f) /\ Len(encode_frame(f)) = 2 /\ Len(buffer[c]) = 0
          /\ buffer[c] = <<>> /\ r.net.down = <<>> /\ Len(r.net.down) = 0
      <4>1. r.net.up = <<>> \o encode_frame(f)
        BY <1>5, <1>8, <2>8 DEF Nothing
      <4>2. encode_frame(f) \in Seq(Cell) /\ Len(encode_frame(f)) = 2
        BY <1>6, EncodeFrame
      <4>3. r.net.up = encode_frame(f)
        BY <4>1, <4>2, ConcatEmptySeq
      <4>4. QED
        BY <1>5, <1>8, <2>8, <4>2, <4>3 DEF Nothing
    <3>2. Holds(buffer[c], r.net.up, f)
      BY <3>1 DEF Holds
    <3>3. OnItsWay(k, a, t)'
      <4>1. Holds(buffer'[<<k, a>>], net'[<<k, a>>].up, Script[k][t])
        BY <1>6, <2>4, <3>2
      <4>2. a <= client'[k].attempt
        BY <2>2, <2>4
      <4>3. QED
        BY <1>8, <2>2, <2>4, <2>5, <4>1, <4>2 DEF OnItsWay, Record, Pushes
    <3>4. Exchanging(k)'
      BY <2>2, <2>4, <2>6, <3>1, <3>2 DEF Exchanging, Nothing
    <3>5. RepliesOK(k)'
      BY <2>4, <2>6, <3>1 DEF RepliesOK
    <3>6. CallOK(k)'
      BY <1>7, <2>2, <2>4, <2>5, <2>6, <3>4, <3>5 DEF CallOK, Receiving
    <3>7. QED
      BY <1>2, <1>4, <2>2, <2>3, <2>7, <3>3, <3>6, <1>01, CallGoesOn
  <2>9. CASE ~(~net[c].reset /\ net[c].server # "closed")
    <3>1. r.net = net[c] /\ Nothing(buffer[<<k, a>>], r.net.up)
      BY <1>5, <1>6, <1>8, <2>9
    <3>2. Exchanging(k)'
      BY <2>4, <2>6, <2>9, <3>1 DEF Exchanging
    <3>3. \A x : x.frame.type # "ingest_ack" => ReplyOK(k, x)'
      BY DEF ReplyOK
    <3>4. RepliesOK(k)'
      BY <1>8, <2>4, <2>6, <3>1, <3>3 DEF RepliesOK
    <3>5. CallOK(k)'
      BY <1>7, <2>2, <2>4, <2>5, <2>6, <3>2, <3>4 DEF CallOK, Receiving
    <3>6. QED
      BY <1>2, <1>4, <2>2, <2>3, <2>7, <3>1, <3>5, <1>01, CallGoesOn
  <2>10. QED
    BY <2>8, <2>9
<1>10. CASE ~r.ok /\ Return(k, r.net, IF f.type = "bye" THEN "ok" ELSE "error")
  <2>1. r.net = net[c] /\ r.net \in Net
    BY <1>5, <1>10
  <2>2. PICK result : result = IF f.type = "bye" THEN "ok" ELSE "error"
    OBVIOUS
  <2>3. result = "ok" => client[k].step = Len(Script[k])
    BY <1>4, <1>6, <2>2, ScriptStep
  <2>4. Return(k, r.net, result) /\ r.net = net[Connection(k)]
    BY <1>10, <2>1, <2>2 DEF c
  <2>5. QED
    BY <1>2, <2>1, <2>3, <2>4, ReturnCaller
<1>11. QED
  BY <1>1, <1>9, <1>10 DEF c, f

\* Nothing is stored or on its way over the connection of a new attempt.
LEMMA FreshConnection ==
  ASSUME IndInv, CallersInv, NEW k \in Callers, client[k].attempt < MaxAttempts
  PROVE  LET c == <<k, client[k].attempt + 1>>
         IN  /\ c \in Connections /\ client[k].attempt + 1 \in 1..MaxAttempts
             /\ net[c] = Unused /\ buffer[c] = <<>> /\ worker[c] = "none"
             /\ \A r : <<k, r, client[k].attempt + 1>> \notin log
             /\ \A e \in log : e[1] = k => e[3] <= client[k].attempt + 1
<1>1. PICK a : a = client[k].attempt + 1
  OBVIOUS
<1>2. Types /\ ServerOK /\ LogOK /\ OutcomesOK(k)
  BY DEF IndInv, CallersInv, CallerOK
<1>3. client[k].attempt \in Nat /\ a \in 1..MaxAttempts /\ a > client[k].attempt
  BY <1>1, <1>2, ServerAssumption DEF Types, CallState
<1>4. <<k, a>> \in Connections
  BY <1>3 DEF Connections
<1>5. net[<<k, a>>].client = "none"
  BY <1>2, <1>3 DEF ServerOK, FreshOK
<1>6. net[<<k, a>>] = Unused /\ buffer[<<k, a>>] = <<>> /\ worker[<<k, a>>] = "none"
  BY <1>2, <1>4, <1>5 DEF ServerOK, ConnectionOK
<1>7. ASSUME NEW r, <<k, r, a>> \in log PROVE FALSE
  <2>1. <<k, r, a>>[3] <= client[k].attempt
    BY <1>2, <1>7 DEF OutcomesOK
  <2>2. QED
    BY <1>3, <2>1
<1>8. ASSUME NEW e \in log, e[1] = k PROVE e[3] <= a
  <2>1. e[3] <= client[k].attempt /\ e[3] \in Nat
    BY <1>2, <1>8, ServerAssumption DEF OutcomesOK, LogOK
  <2>2. QED
    BY <1>1, <1>3, <2>1
<1>9. QED
  BY <1>1, <1>3, <1>4, <1>6, <1>7, <1>8

\* Before the first step no record has been pushed.
LEMMA NoneBefore ==
  ASSUME NEW k \in Callers, NEW s \in 0..1
  PROVE  Cardinality({t \in Pushes(k) : t < s}) = 0 /\ \A t \in Pushes(k) : ~(t < s)
<1>1. \A t \in Pushes(k) : t \in Nat /\ t > 0
  BY ScriptAssumption DEF Pushes
<1>2. {t \in Pushes(k) : t < s} = {}
  BY <1>1
<1>3. QED
  BY <1>1, <1>2, FS_EmptySet

LEMMA ConnectCaller ==
  ASSUME IndInv, CallersInv, NEW k \in Callers, connect(k)
  PROVE  CallersInv'
<1>1. PICK a : a = client[k].attempt + 1
  OBVIOUS
<1>2. UNCHANGED <<worker, buffer, log, runtime>> /\ client[k].attempt < MaxAttempts
  BY DEF connect, client_frame, worker_vars
<1>3. /\ <<k, a>> \in Connections /\ a \in 1..MaxAttempts /\ client[k].attempt \in Nat
      /\ net[<<k, a>>] = Unused /\ buffer[<<k, a>>] = <<>> /\ worker[<<k, a>>] = "none"
      /\ \A r : <<k, r, a>> \notin log
      /\ \A e \in log : e[1] = k => e[3] <= a
  <2>1. client[k].attempt \in Nat
    BY ServerAssumption DEF IndInv, Types, CallState
  <2>2. QED
    BY <1>1, <1>2, <2>1, FreshConnection
<1>4. /\ net \in [Connections -> Net] /\ client \in [Callers -> CallState] /\ CallerOK(k)
      /\ net[<<k, a>>] \in Net
  BY <1>3 DEF IndInv, Types, CallersInv
<1>5. \A b \in 1..MaxAttempts : b <= client[k].attempt => b <= a
  BY <1>1, <1>3
<1>6. PICK n, s :
        /\ client' = [client EXCEPT ![k] = s]
        /\ s.attempt = a /\ s.buffer = <<>> /\ s.outcomes = <<>> /\ s.result # "ok"
        /\ \/ net' = net /\ s.pc = "idle" /\ s.step = 0
           \/ /\ net' = [net EXCEPT ![<<k, a>>] = n] /\ s.pc = "send" /\ s.step = 1
              /\ n.up = <<>> /\ n.down = <<>>
  <2>1. CASE listener = "listening"
    <3>1. PICK s : s = [Idle EXCEPT !.pc = "send", !.attempt = a, !.step = 1]
      OBVIOUS
    <3>2. PICK n : n = [net[<<k, a>>] EXCEPT !.client = "open"]
      OBVIOUS
    <3>3. client' = [client EXCEPT ![k] = s] /\ net' = [net EXCEPT ![<<k, a>>] = n]
      BY <1>1, <2>1, <3>1, <3>2 DEF connect
    <3>4. s = [pc |-> "send", attempt |-> a, step |-> 1, buffer |-> <<>>,
               outcomes |-> <<>>, result |-> "none"]
      BY <3>1 DEF Idle
    <3>5. n.up = <<>> /\ n.down = <<>>
      BY <1>3, <3>2 DEF Unused
    <3>6. /\ s.attempt = a /\ s.buffer = <<>> /\ s.outcomes = <<>> /\ s.result # "ok"
          /\ s.pc = "send" /\ s.step = 1
      BY <3>4
    <3>7. QED
      BY <3>3, <3>5, <3>6, Zenon
  <2>2. CASE listener # "listening"
    <3>1. PICK s : s = [Idle EXCEPT !.attempt = a, !.result = "error"]
      OBVIOUS
    <3>2. client' = [client EXCEPT ![k] = s] /\ net' = net
      BY <1>1, <2>2, <3>1 DEF connect
    <3>3. s = [pc |-> "idle", attempt |-> a, step |-> 0, buffer |-> <<>>,
               outcomes |-> <<>>, result |-> "error"]
      BY <3>1 DEF Idle
    <3>4. /\ s.attempt = a /\ s.buffer = <<>> /\ s.outcomes = <<>> /\ s.result # "ok"
          /\ s.pc = "idle" /\ s.step = 0
      BY <3>3
    <3>5. QED
      BY <3>2, <3>4, Zenon
  <2>3. QED
    BY <2>1, <2>2
<1>7. /\ client'[k] = s /\ \A j \in Callers : j # k => client'[j] = client[j]
      /\ \A d \in Connections : d # <<k, a>> => net'[d] = net[d]
      /\ net'[<<k, a>>].up = <<>> /\ net'[<<k, a>>].down = <<>>
  BY <1>3, <1>4, <1>6 DEF Unused
<1>8. /\ \A d \in Connections : d[1] # k => net'[d] = net[d]
      /\ \A b \in 1..MaxAttempts : b # a => net'[<<k, b>>].up = net[<<k, b>>].up
  BY <1>7 DEF Connections
<1>9. Nothing(buffer'[<<k, a>>], net'[<<k, a>>].up)
  BY <1>2, <1>3, <1>7 DEF Nothing
<1>10. OutcomesOK(k)'
  <2>1. /\ client'[k].step \in 0..1 /\ client'[k].attempt = a /\ Len(client'[k].outcomes) = 0
    BY <1>6, <1>7
  <2>2. QED
    BY <1>2, <1>3, <2>1, NoneBefore DEF OutcomesOK, Pushes, Record
<1>11. CallOK(k)'
  <2>1. CASE s.pc = "idle"
    BY <1>6, <1>7, <2>1 DEF CallOK
  <2>2. CASE s.pc = "send" /\ s.step = 1
    <3>1. Covered(k, 1)'
      <4>1. 1 \in 0..1
        OBVIOUS
      <4>2. \A t \in Pushes(k) : ~(t < 1)
        BY <4>1, NoneBefore
      <4>3. QED
        BY <4>2 DEF Covered, Pushes
    <3>2. Connection(k)' = <<k, a>>
      BY <1>6, <1>7 DEF Connection
    <3>3. Sending(k)'
      BY <1>2, <1>3, <1>6, <1>7, <1>9, <2>2, <3>2 DEF Sending, Record
    <3>4. QED
      BY <1>6, <1>7, <2>2, <3>1, <3>3 DEF CallOK
  <2>3. QED
    BY <1>6, <2>1, <2>2
<1>12. CallerOK(k)'
  <2>1. client'[k].attempt = a
    BY <1>6, <1>7
  <2>2. worker'[<<k, a>>] \notin Acking
    BY <1>2, <1>3 DEF Acking
  <2>3. QED
    BY <1>2, <1>3, <1>4, <1>5, <1>8, <1>9, <1>10, <1>11, <2>1, <2>2, CallerSide
<1>13. QED
  BY <1>2, <1>7, <1>8, <1>12, OtherCallers

-----------------------------------------------------------------------------
(***************************************************************************)
(* The second half of exchange: acknowledgements are counted.              *)
(***************************************************************************)
\* The pushes before step s.
Before(k, s) == {t \in Pushes(k) : t < s}

LEMMA BeforeFinite ==
  ASSUME NEW k \in Callers, NEW s \in Nat
  PROVE  /\ IsFiniteSet(Before(k, s)) /\ Cardinality(Before(k, s)) \in Nat
         /\ IsFiniteSet({t \in Pushes(k) : t <= s})
         /\ \A t \in Pushes(k) : t \in Nat /\ t > 0
<1>1. Len(Script[k]) \in Nat /\ Pushes(k) \subseteq 1..Len(Script[k])
  BY ScriptAssumption, LenProperties DEF Pushes
<1>2. IsFiniteSet(Pushes(k))
  <2>1. Pushes(k) \in SUBSET Nat /\ \A t \in Pushes(k) : t <= Len(Script[k])
    BY <1>1
  <2>2. QED
    BY <1>1, <2>1, FS_BoundedSetOfNaturals
<1>3. Before(k, s) \subseteq Pushes(k) /\ {t \in Pushes(k) : t <= s} \subseteq Pushes(k)
  BY DEF Before
<1>4. IsFiniteSet(Before(k, s)) /\ IsFiniteSet({t \in Pushes(k) : t <= s})
  BY <1>2, <1>3, FS_Subset
<1>5. Cardinality(Before(k, s)) \in Nat
  BY <1>4, FS_CardinalityType
<1>6. QED
  BY <1>1, <1>4, <1>5

\* What is counted before the next step, and where.
LEMMA CountPushes ==
  ASSUME NEW k \in Callers, NEW s \in Nat
  PROVE  /\ s \notin Pushes(k) => Before(k, s + 1) = Before(k, s)
         /\ s \in Pushes(k) =>
              /\ Cardinality(Before(k, s + 1)) = Cardinality(Before(k, s)) + 1
              /\ Nth(k, s) = Cardinality(Before(k, s)) + 1
<1>1. IsFiniteSet(Before(k, s)) /\ \A t \in Pushes(k) : t \in Nat
  BY BeforeFinite
<1>2. ASSUME s \notin Pushes(k) PROVE Before(k, s + 1) = Before(k, s)
  BY <1>1, <1>2 DEF Before
<1>3. ASSUME s \in Pushes(k)
      PROVE  /\ Cardinality(Before(k, s + 1)) = Cardinality(Before(k, s)) + 1
             /\ Nth(k, s) = Cardinality(Before(k, s)) + 1
  <2>1. /\ Before(k, s + 1) = Before(k, s) \cup {s} /\ s \notin Before(k, s)
        /\ {t \in Pushes(k) : t <= s} = Before(k, s) \cup {s}
    <3>1. ASSUME NEW t \in Pushes(k)
          PROVE  (t < s + 1 <=> t < s \/ t = s) /\ (t <= s <=> t < s \/ t = s) /\ ~(s < s)
      BY <1>1
    <3>2. QED
      BY <1>3, <3>1, Zenon DEF Before
  <2>2. Cardinality(Before(k, s) \cup {s}) = Cardinality(Before(k, s)) + 1
    BY <1>1, <2>1, FS_AddElement
  <2>3. QED
    BY <2>1, <2>2 DEF Nth
<1>4. QED
  BY <1>2, <1>3

\* The n-th outcome is there exactly when the n-th push is over.
LEMMA NthBefore ==
  ASSUME NEW k \in Callers, NEW s \in Nat, NEW t \in Pushes(k)
  PROVE  /\ Nth(k, t) \in Nat /\ Nth(k, t) > 0
         /\ t < s => Nth(k, t) <= Cardinality(Before(k, s))
         /\ t >= s => Nth(k, t) > Cardinality(Before(k, s))
<1>1. t \in Nat /\ Nth(k, t) = Cardinality(Before(k, t)) + 1
      /\ Nth(k, t) = Cardinality(Before(k, t + 1))
  <2>1. t \in Nat
    BY BeforeFinite
  <2>2. Nth(k, t) = Cardinality(Before(k, t)) + 1
        /\ Cardinality(Before(k, t + 1)) = Cardinality(Before(k, t)) + 1
    BY <2>1, CountPushes
  <2>3. QED
    BY <2>1, <2>2
<1>2. /\ IsFiniteSet(Before(k, s)) /\ IsFiniteSet(Before(k, t))
      /\ Cardinality(Before(k, s)) \in Nat /\ Cardinality(Before(k, t)) \in Nat
      /\ \A u \in Pushes(k) : u \in Nat
  BY <1>1, BeforeFinite
<1>3. ASSUME t < s PROVE Nth(k, t) <= Cardinality(Before(k, s))
  <2>1. Before(k, t + 1) \subseteq Before(k, s)
    <3>1. ASSUME NEW u \in Pushes(k) PROVE u < t + 1 => u < s
      BY <1>1, <1>2, <1>3
    <3>2. QED
      BY <3>1, Zenon DEF Before
  <2>2. Cardinality(Before(k, t + 1)) <= Cardinality(Before(k, s))
    BY <1>2, <2>1, FS_Subset
  <2>3. QED
    BY <1>1, <2>2
<1>4. ASSUME t >= s PROVE Nth(k, t) > Cardinality(Before(k, s))
  <2>1. Before(k, s) \subseteq Before(k, t)
    <3>1. ASSUME NEW u \in Pushes(k) PROVE u < s => u < t
      BY <1>1, <1>2, <1>4
    <3>2. QED
      BY <3>1, Zenon DEF Before
  <2>2. Cardinality(Before(k, s)) <= Cardinality(Before(k, t))
    BY <1>2, <2>1, FS_Subset
  <2>3. QED
    BY <1>1, <1>2, <2>2
<1>5. QED
  BY <1>1, <1>2, <1>3, <1>4

\* The outcome of step t, a push or not, is added to those before it.
LEMMA TookOutcomes ==
  ASSUME NEW k \in Callers, client[k] \in CallState, OutcomesOK(k),
         NEW t \in 1..Len(Script[k]), client[k].step = t, NEW a, client[k].attempt = a,
         NEW f \in AnyFrame, f.type = "ingest_ack" <=> t \in Pushes(k),
         t \in Pushes(k) => (f.arg = 1 <=> <<k, Record(k, t), a>> \in log),
         client'[k].step = t + 1, client'[k].attempt = a, log' = log,
         NEW o, client'[k].outcomes = o,
         o = IF f.type = "ingest_ack" THEN Append(client[k].outcomes, f.arg)
                                      ELSE client[k].outcomes
  PROVE  OutcomesOK(k)'
<1>1. PICK p : p = client[k].outcomes
  OBVIOUS
<1>2. p \in Seq(Nat) /\ Len(p) \in Nat /\ t \in Nat /\ Len(p) = Cardinality(Before(k, t))
  BY <1>1, LenProperties, ScriptStep DEF CallState, OutcomesOK, Before
<1>3. \A u \in Pushes(k) : u < t =>
        (p[Nth(k, u)] = 1 <=> <<k, Record(k, u), a>> \in log)
  BY <1>1 DEF OutcomesOK
<1>4. \A u \in Pushes(k) :
        u \in Nat /\ (u < t => Nth(k, u) \in 1..Len(p)) /\ Nth(k, u) \in Nat
  <2>1. ASSUME NEW u \in Pushes(k)
        PROVE  /\ u \in Nat /\ Nth(k, u) \in Nat /\ Nth(k, u) > 0
               /\ u < t => Nth(k, u) <= Cardinality(Before(k, t))
    BY <1>2, NthBefore, BeforeFinite
  <2>2. QED
    BY <1>2, <2>1
<1>5. /\ Len(o) = Cardinality(Before(k, t + 1))
      /\ \A u \in Pushes(k) : u < t + 1 =>
           (o[Nth(k, u)] = 1 <=> <<k, Record(k, u), a>> \in log)
  <2>1. CASE t \notin Pushes(k)
    <3>1. o = p /\ Before(k, t + 1) = Before(k, t)
      BY <1>1, <1>2, <2>1, CountPushes
    <3>2. \A u \in Pushes(k) : u < t + 1 => u < t
      BY <1>2, <1>4, <2>1
    <3>3. QED
      BY <1>2, <1>3, <3>1, <3>2
  <2>2. CASE t \in Pushes(k)
    <3>1. o = Append(p, f.arg) /\ Cardinality(Before(k, t + 1)) = Len(p) + 1
          /\ Nth(k, t) = Len(p) + 1
      BY <1>1, <1>2, <2>2, CountPushes
    <3>2. /\ Len(o) = Len(p) + 1 /\ o[Len(p) + 1] = f.arg
          /\ \A i \in 1..Len(p) : o[i] = p[i]
      <4>1. f.arg \in Nat
        BY DEF AnyFrame
      <4>2. /\ Len(Append(p, f.arg)) = Len(p) + 1
            /\ \A i \in 1..Len(p) : Append(p, f.arg)[i] = p[i]
            /\ Append(p, f.arg)[Len(p) + 1] = f.arg
        BY <1>2, <4>1
      <4>3. QED
        BY <3>1, <4>2, Zenon
    <3>3. ASSUME NEW u \in Pushes(k), u < t + 1
          PROVE  o[Nth(k, u)] = 1 <=> <<k, Record(k, u), a>> \in log
      <4>1. CASE u < t
        BY <1>3, <1>4, <3>2, <4>1
      <4>2. CASE u = t
        BY <2>2, <3>1, <3>2, <4>2
      <4>3. u < t \/ u = t
        BY <1>2, <1>4, <3>3
      <4>4. QED
        BY <4>1, <4>2, <4>3, Zenon
    <3>4. QED
      BY <3>1, <3>2, <3>3
  <2>3. QED
    BY <2>1, <2>2
<1>6. \A u \in Pushes(k) : u > t + 1 => <<k, Record(k, u), a>> \notin log
  <2>1. \A u \in Pushes(k) : u > t => <<k, Record(k, u), a>> \notin log
    BY DEF OutcomesOK
  <2>2. \A u \in Pushes(k) : u > t + 1 => u > t
    BY <1>2, <1>4
  <2>3. QED
    BY <2>1, <2>2
<1>7. \A e \in log : e[1] = k => e[3] <= a
  BY DEF OutcomesOK
<1>8. /\ Len(client'[k].outcomes) = Cardinality({u \in Pushes(k) : u < client'[k].step})
      /\ \A u \in Pushes(k) : u < client'[k].step =>
           (client'[k].outcomes[Nth(k, u)] = 1
              <=> <<k, Record(k, u), client'[k].attempt>> \in log')
      /\ \A u \in Pushes(k) : u > client'[k].step =>
           <<k, Record(k, u), client'[k].attempt>> \notin log'
      /\ \A e \in log' : e[1] = k => e[3] <= client'[k].attempt
  BY <1>5, <1>6, <1>7, Zenon DEF Before
<1>9. QED
  BY <1>8, Zenon DEF OutcomesOK, Pushes, Nth, Record

\* A chunk of a reply and what is left of it.
LEMMA ChunkOfCells ==
  ASSUME NEW d \in Seq(Cell), NEW chunk \in Chunks(d)
  PROVE  LET rest == After(d, chunk)
         IN  /\ Len(chunk) \in 1..Len(d) /\ \A i \in 1..Len(chunk) : chunk[i] = d[i]
             /\ Len(rest) = Len(d) - Len(chunk)
             /\ \A i \in 1..Len(rest) :
                  rest[i] = d[i + Len(chunk)] /\ i + Len(chunk) \in 1..Len(d)
<1>1. PICK rest : rest = After(d, chunk)
  OBVIOUS
<1>2. /\ Len(d) \in Nat /\ Len(chunk) \in 1..Len(d)
      /\ \A i \in 1..Len(chunk) : chunk[i] = d[i]
      /\ Len(rest) = Len(d) - Len(chunk)
      /\ \A i \in 1..(Len(d) - Len(chunk)) : rest[i] = d[i + Len(chunk)]
  BY <1>1, ChunkProperties
<1>3. \A i \in 1..Len(rest) : rest[i] = d[i + Len(chunk)] /\ i + Len(chunk) \in 1..Len(d)
  BY <1>2
<1>4. QED
  BY <1>1, <1>2, <1>3

\* What caller k has read of a reply, when it reads chunk.
Heard(k, d, chunk, b, heard, rest) ==
  /\ Len(b) \in 0..1 /\ Len(chunk) \in 1..Len(d) /\ Len(d) \in Nat
  /\ Len(heard) = Len(b) + Len(chunk) /\ ReplyOK(k, heard[1])
  /\ Len(rest) = Len(d) - Len(chunk)
  /\ \A i \in 1..Len(rest) :
       rest[i] = d[i + Len(chunk)] /\ i + Len(chunk) \in 1..Len(d)
  /\ \A i \in 1..Len(d) : IF i + Len(b) <= 2 THEN ReplyOK(k, d[i])
                          ELSE d[i].frame.type # "ingest_ack"
  /\ Nothing(buffer[Connection(k)], net[Connection(k)].up)
  /\ net[Connection(k)].server # "closed" /\ ~net[Connection(k)].reset =>
       Len(b) + Len(d) = 2
  /\ net[Connection(k)].server # "closed" => ~net[Connection(k)].reset
  /\ worker[Connection(k)] \notin Acking

LEMMA HeardReply ==
  ASSUME IndInv, CallersInv, NEW k \in Callers, client[k].pc = "recv",
         NEW d, d = net[Connection(k)].down, NEW chunk \in Chunks(d),
         NEW b, b = client[k].buffer, NEW heard, heard = b \o chunk,
         NEW rest, rest = After(d, chunk)
  PROVE  Heard(k, d, chunk, b, heard, rest)
<1> DEFINE n == net[Connection(k)]
<1>1. CallerOK(k) /\ Receiving(k) /\ AcksOK(k)
  BY DEF CallersInv, CallerOK, CallOK
<1>2. /\ n \in Net /\ client[k] \in CallState
      /\ n.server = "closed" => n.up = <<>> /\ buffer[Connection(k)] = <<>>
      /\ n.server = "open" => ~n.reset
  BY CallSocket
<1>3. n.server # "none" /\ Len(heard) = Len(b) + Len(chunk)
      /\ \A i \in 1..Len(heard) : heard[i] = IF i <= Len(b) THEN b[i] ELSE chunk[i - Len(b)]
  BY HearReads
<1>4. d \in Seq(Cell) /\ b \in Seq(Cell) /\ Len(b) \in 0..1 /\ Len(d) \in Nat
  <2>1. d \in Seq(Cell) /\ b \in Seq(Cell)
    BY <1>2 DEF Net, CallState
  <2>2. Len(d) \in Nat /\ Len(b) \in Nat
    BY <2>1, LenProperties
  <2>3. Len(b) <= 1
    BY <1>1 DEF Receiving
  <2>4. ASSUME NEW m \in Nat, m <= 1 PROVE m \in 0..1
    BY <2>4
  <2>5. QED
    BY <2>1, <2>2, <2>3, <2>4, Zenon
<1>5. /\ Len(chunk) \in 1..Len(d) /\ \A i \in 1..Len(chunk) : chunk[i] = d[i]
      /\ Len(rest) = Len(d) - Len(chunk)
      /\ \A i \in 1..Len(rest) : rest[i] = d[i + Len(chunk)] /\ i + Len(chunk) \in 1..Len(d)
  BY <1>4, ChunkOfCells
<1>6. /\ \A i \in 1..Len(b) : ReplyOK(k, b[i])
      /\ \A i \in 1..Len(d) : IF i + Len(b) <= 2 THEN ReplyOK(k, d[i])
                              ELSE d[i].frame.type # "ingest_ack"
  BY <1>1 DEF Receiving, RepliesOK
<1>7. ReplyOK(k, heard[1])
  <2>1. CASE Len(b) = 1
    BY <1>3, <1>4, <1>5, <1>6, <2>1
  <2>2. CASE Len(b) = 0
    <3>1. heard[1] = d[1] /\ 1 + Len(b) <= 2 /\ 1 \in 1..Len(d)
      BY <1>3, <1>4, <1>5, <2>2
    <3>2. QED
      BY <1>6, <3>1
  <2>3. Len(b) = 0 \/ Len(b) = 1
    BY <1>4
  <2>4. QED
    BY <2>1, <2>2, <2>3, Zenon
<1>8. n.server # "closed" => n.server = "open"
  BY <1>2, <1>3 DEF Net
<1>01. ~Nothing(b, d)
  <2>1. Len(d) # 0 /\ Len(<<>>) = 0
    BY <1>4, <1>5
  <2>2. QED
    BY <2>1, Zenon DEF Nothing
<1>02. worker[Connection(k)] \notin Acking
  BY <1>1, <1>01, Zenon DEF AcksOK
<1>9. ASSUME n.server # "closed"
      PROVE  Nothing(buffer[Connection(k)], n.up) /\ Len(b) + Len(d) = 2
  <2>1. \/ Nothing(b, d)
        \/ Nothing(buffer[Connection(k)], n.up) /\ Len(b) + Len(d) = 2
    BY <1>02, <1>1, <1>2, <1>8, <1>9 DEF Receiving, Exchanging
  <2>2. QED
    BY <1>01, <2>1
<1>10. Nothing(buffer[Connection(k)], n.up)
  BY <1>2, <1>9 DEF Nothing
<1>11. QED
  BY <1>2, <1>3, <1>4, <1>5, <1>6, <1>7, <1>8, <1>9, <1>10, <1>02 DEF Heard

\* The reply is not complete.
LEMMA HearMore ==
  ASSUME IndInv, CallersInv, NEW k \in Callers, client[k].pc = "recv",
         NEW d, d = net[Connection(k)].down, NEW chunk \in Chunks(d),
         NEW heard, heard = client[k].buffer \o chunk,
         ~NextIsFrame(heard), ~NextIsError(heard),
         NEW n \in Net, n.server = net[Connection(k)].server, n.up = net[Connection(k)].up,
         n.reset = net[Connection(k)].reset, n.down = After(d, chunk),
         client' = [client EXCEPT ![k].buffer = heard],
         net' = [net EXCEPT ![Connection(k)] = n], UNCHANGED <<client_frame, backlog>>
  PROVE  CallersInv'
<1> DEFINE c == Connection(k)
<1>1. PICK b, s, rest : /\ b = client[k].buffer /\ s = [client[k] EXCEPT !.buffer = heard]
                        /\ rest = After(d, chunk) /\ heard = b \o chunk
  OBVIOUS
<1>2. /\ Len(b) \in 0..1 /\ Len(chunk) \in 1..Len(d) /\ Len(d) \in Nat
      /\ Len(heard) = Len(b) + Len(chunk) /\ ReplyOK(k, heard[1])
      /\ Len(rest) = Len(d) - Len(chunk)
      /\ \A i \in 1..Len(rest) :
           rest[i] = d[i + Len(chunk)] /\ i + Len(chunk) \in 1..Len(d)
      /\ \A i \in 1..Len(d) : IF i + Len(b) <= 2 THEN ReplyOK(k, d[i])
                              ELSE d[i].frame.type # "ingest_ack"
      /\ Nothing(buffer[c], net[c].up)
      /\ net[c].server # "closed" /\ ~net[c].reset => Len(b) + Len(d) = 2
      /\ net[c].server # "closed" => ~net[c].reset
      /\ worker[c] \notin Acking
  <2>1. Heard(k, d, chunk, b, heard, rest)
    BY <1>1, HeardReply, Zenon
  <2>2. QED
    BY <2>1, Zenon DEF Heard
<1>3. ~(Len(heard) > 1)
  BY DEF NextIsFrame
<1>4. Len(heard) = 1 /\ Len(b) = 0 /\ Len(chunk) = 1
  <2>1. \A x \in 0..1, m \in Nat : \A y \in 1..m : ~(x + y > 1) => x = 0 /\ y = 1 /\ x + y = 1
    OBVIOUS
  <2>2. QED
    BY <1>2, <1>3, <2>1, Zenon
<1>5. /\ client[k] \in CallState /\ client[k].attempt \in 1..MaxAttempts
      /\ client[k].step \in 1..Len(Script[k])
  BY CallSocket
<1>6. PICK a \in 1..MaxAttempts : a = client[k].attempt
  BY <1>5
<1>7. /\ s.pc = "recv" /\ s.attempt = a /\ s.step = client[k].step /\ s.buffer = heard
      /\ s.outcomes = client[k].outcomes /\ s.result = client[k].result
  BY <1>1, <1>5, <1>6 DEF CallState
<1>8. client' = [client EXCEPT ![k] = s] /\ client[k].pc # "idle"
  BY <1>1
<1>9. client'[k] = s /\ net'[c] = n /\ UNCHANGED <<worker, buffer, log, runtime>> /\ Grows
  <2>1. client'[k] = s /\ net'[c] = n /\ UNCHANGED <<worker, buffer, log, runtime>>
    <3>1. /\ UNCHANGED <<worker, buffer, log, runtime>>
          /\ net'[Connection(k)] = n /\ client'[k] = s
          /\ \A e \in Connections : e # Connection(k) => net'[e] = net[e]
          /\ \A e \in Connections : e[1] # k => net'[e] = net[e]
          /\ \A j \in Callers : j # k => client'[j] = client[j]
          /\ \A e \in 1..MaxAttempts : e # client[k].attempt => net'[<<k, e>>] = net[<<k, e>>]
      BY <1>8, CallFrame, ZenonT(40)
    <3>2. QED
      BY <3>1, Zenon
  <2>2. QED
    BY <2>1 DEF Grows
<1>10. c = <<k, a>> /\ Connection(k)' = c /\ Request(k)' = Request(k)
  BY <1>6, <1>7, <1>9 DEF Connection, Request
<1>11. CallerOK(k) /\ CallOK(k) /\ OutcomesOK(k) /\ RequestsOK(k)
  BY DEF CallersInv, CallerOK
<1>12. \A i : Covered(k, i) => Covered(k, i)'
  BY <1>9, CoveredKept
<1>13. OutcomesOK(k)'
  <2>1. /\ client'[k].outcomes = client[k].outcomes /\ client'[k].step = client[k].step
        /\ client'[k].attempt = client[k].attempt /\ log' = log
    BY <1>6, <1>7, <1>9
  <2>2. QED
    BY <1>11, <2>1, SameOutcomes
<1>14. Exchanging(k)'
  <2>1. net[c].server # "closed" /\ ~net[c].reset => Len(heard) + Len(rest) = 2
    BY <1>2, <1>4
  <2>2. net'[c].down = rest /\ net'[c].up = net[c].up /\ net'[c].server = net[c].server
        /\ net'[c].reset = net[c].reset /\ client'[k].buffer = heard /\ buffer' = buffer
    BY <1>1, <1>7, <1>9
  <2>3. Nothing(buffer'[c], net'[c].up)
    BY <1>2, <2>2
  <2>4. QED
    BY <1>10, <2>1, <2>2, <2>3, Zenon DEF Exchanging
<1>15. RepliesOK(k)'
  <2>1. \A x : ReplyOK(k, x) => ReplyOK(k, x)'
    BY <1>6, <1>7, <1>9, <1>10, <1>12 DEF ReplyOK, Nothing, Record, Pushes
  <2>2. \A i \in 1..Len(heard) : ReplyOK(k, heard[i])
    BY <1>2, <1>4
  <2>3. ASSUME NEW i \in 1..Len(rest)
        PROVE  IF i + Len(heard) <= 2 THEN ReplyOK(k, rest[i])
               ELSE rest[i].frame.type # "ingest_ack"
    <3>1. rest[i] = d[i + 1] /\ i + 1 \in 1..Len(d) /\ i + Len(heard) = i + 1 + Len(b)
      BY <1>2, <1>4
    <3>2. QED
      BY <1>2, <3>1
  <2>4. net'[c].down = rest /\ client'[k].buffer = heard
    BY <1>1, <1>7, <1>9
  <2>5. /\ \A i \in 1..Len(heard) : ReplyOK(k, heard[i])'
        /\ \A i \in 1..Len(rest) : IF i + Len(heard) <= 2 THEN ReplyOK(k, rest[i])'
                                   ELSE rest[i].frame.type # "ingest_ack"
    BY <2>1, <2>2, <2>3
  <2>6. QED
    BY <1>10, <2>4, <2>5, Zenon DEF RepliesOK
<1>16. CallOK(k)'
  BY <1>4, <1>7, <1>9, <1>11, <1>12, <1>14, <1>15 DEF CallOK, Receiving
<1>17. \/ Nothing(buffer[<<k, a>>], n.up)
       \/ \E t \in 1..Len(Script[k]) : OnItsWay(k, a, t)'
  BY <1>2, <1>10
<1>01. worker[<<k, a>>] \notin Acking
  BY <1>2, <1>10
<1>18. QED
  BY <1>6, <1>7, <1>8, <1>13, <1>16, <1>17, <1>01, CallGoesOn

\* The expected reply is complete: the call goes on with the next request.
Takes(k, d, chunk, heard, f, n) ==
  /\ client[k].pc = "recv" /\ d = net[Connection(k)].down /\ chunk \in Chunks(d)
  /\ heard = client[k].buffer \o chunk /\ Len(heard) > 1
  /\ f \in AnyFrame /\ f = heard[1].frame /\ f.type = Expected(Request(k).type)
  /\ n \in Net /\ n.server = net[Connection(k)].server /\ n.up = net[Connection(k)].up
  /\ n.reset = net[Connection(k)].reset /\ n.down = After(d, chunk)
  /\ client' = [client EXCEPT ![k] = Took(k, f)]
  /\ net' = [net EXCEPT ![Connection(k)] = n] /\ UNCHANGED <<client_frame, backlog>>

LEMMA HearTook ==
  ASSUME IndInv, CallersInv, NEW k \in Callers, NEW d, NEW chunk, NEW heard, NEW f, NEW n,
         Takes(k, d, chunk, heard, f, n)
  PROVE  CallersInv'
<1> USE DEF Takes
<1> DEFINE c == Connection(k)
<1>1. PICK b, s, rest : /\ b = client[k].buffer /\ s = Took(k, f)
                        /\ rest = After(d, chunk) /\ heard = b \o chunk
  OBVIOUS
<1>2. /\ Len(b) \in 0..1 /\ Len(chunk) \in 1..Len(d) /\ Len(d) \in Nat
      /\ Len(heard) = Len(b) + Len(chunk) /\ ReplyOK(k, heard[1])
      /\ Len(rest) = Len(d) - Len(chunk)
      /\ \A i \in 1..Len(rest) :
           rest[i] = d[i + Len(chunk)] /\ i + Len(chunk) \in 1..Len(d)
      /\ \A i \in 1..Len(d) : IF i + Len(b) <= 2 THEN ReplyOK(k, d[i])
                              ELSE d[i].frame.type # "ingest_ack"
      /\ Nothing(buffer[c], net[c].up)
      /\ net[c].server # "closed" => Len(b) + Len(d) = 2
      /\ worker[c] \notin Acking
  <2>1. Heard(k, d, chunk, b, heard, rest)
    BY <1>1, HeardReply, Zenon
  <2>2. QED
    BY <2>1, Zenon DEF Heard
<1>3. /\ client[k] \in CallState /\ client[k].attempt \in 1..MaxAttempts
      /\ client[k].step \in 1..Len(Script[k]) /\ net[c] \in Net
  BY CallSocket
<1>4. PICK a \in 1..MaxAttempts, t \in 1..Len(Script[k]) :
        a = client[k].attempt /\ t = client[k].step
  BY <1>3
<1>5. t \in Nat /\ Script[k][t].type \in {"hello", "ingest", "ping", "bye"}
      /\ Request(k) = Script[k][t] /\ (t \in Pushes(k) <=> Script[k][t].type = "ingest")
  <2>1. DOMAIN Script[k] = 1..Len(Script[k])
    BY ScriptAssumption, LenProperties
  <2>2. QED
    BY <1>4, <2>1, ScriptStep DEF Request, Pushes
<1>6. f.type = "ingest_ack" <=> t \in Pushes(k)
  BY <1>5 DEF Expected
<1>7. /\ s.pc = "send" /\ s.attempt = a /\ s.step = t + 1 /\ s.buffer = <<>>
      /\ s.result = client[k].result
      /\ s.outcomes = IF f.type = "ingest_ack" THEN Append(client[k].outcomes, f.arg)
                                               ELSE client[k].outcomes
  <2>1. /\ Took(k, f).pc = "send" /\ Took(k, f).attempt = client[k].attempt
        /\ Took(k, f).step = client[k].step + 1 /\ Took(k, f).buffer = <<>>
        /\ Took(k, f).result = client[k].result
        /\ Took(k, f).outcomes = IF f.type = "ingest_ack" THEN Append(client[k].outcomes, f.arg)
                                                          ELSE client[k].outcomes
    BY <1>3, TookProperties, Zenon
  <2>2. QED
    BY <1>1, <1>4, <2>1, Zenon
<1>8. client' = [client EXCEPT ![k] = s] /\ client[k].pc # "idle"
  BY <1>1
<1>9. client'[k] = s /\ net'[c] = n /\ UNCHANGED <<worker, buffer, log, runtime>> /\ Grows
  <2>1. client'[k] = s /\ net'[c] = n /\ UNCHANGED <<worker, buffer, log, runtime>>
    <3>1. /\ UNCHANGED <<worker, buffer, log, runtime>>
          /\ net'[Connection(k)] = n /\ client'[k] = s
          /\ \A e \in Connections : e # Connection(k) => net'[e] = net[e]
          /\ \A e \in Connections : e[1] # k => net'[e] = net[e]
          /\ \A j \in Callers : j # k => client'[j] = client[j]
          /\ \A e \in 1..MaxAttempts : e # client[k].attempt => net'[<<k, e>>] = net[<<k, e>>]
      BY <1>8, CallFrame, Zenon
    <3>2. QED
      BY <3>1, Zenon
  <2>2. QED
    BY <2>1 DEF Grows
<1>10. c = <<k, a>> /\ Connection(k)' = c
  BY <1>4, <1>7, <1>9 DEF Connection
<1>11. CallOK(k) /\ OutcomesOK(k) /\ Covered(k, t)
  BY <1>4 DEF CallersInv, CallerOK, CallOK
<1>12. t \in Pushes(k) => /\ f.arg = 1 <=> <<k, Record(k, t), a>> \in log
                          /\ Covered(k, t + 1)
  BY <1>2, <1>4, <1>6 DEF ReplyOK
<1>13. Covered(k, t + 1) /\ \A i : Covered(k, i) => Covered(k, i)'
  <2>1. CASE t \notin Pushes(k)
    <3>1. \A u \in Pushes(k) : u < t + 1 => u < t
      BY <1>5, <2>1, PushesAscend
    <3>2. Covered(k, t + 1)
      BY <1>11, <3>1 DEF Covered
    <3>3. QED
      BY <1>9, <3>2, CoveredKept
  <2>2. CASE t \in Pushes(k)
    BY <1>9, <1>12, <2>2, CoveredKept
  <2>3. QED
    BY <2>1, <2>2
<1>14. OutcomesOK(k)'
  <2>1. PICK o : o = client'[k].outcomes
    OBVIOUS
  <2>2. /\ client'[k].step = t + 1 /\ client'[k].attempt = a /\ log' = log
        /\ o = IF f.type = "ingest_ack" THEN Append(client[k].outcomes, f.arg)
                                        ELSE client[k].outcomes
    BY <1>7, <1>9, <2>1, Zenon
  <2>3. QED
    BY <1>3, <1>4, <1>6, <1>11, <1>12, <2>1, <2>2, TookOutcomes, Zenon
<1>15. Sending(k)'
  <2>1. /\ net'[c].down = rest /\ net'[c].up = net[c].up /\ net'[c].server = net[c].server
        /\ client'[k].buffer = <<>> /\ buffer' = buffer
    BY <1>1, <1>7, <1>9
  <2>2. Nothing(buffer'[c], net'[c].up)
    BY <1>2, <2>1
  <2>3. \A x \in 0..1, m \in Nat : \A y \in 1..m : x + y > 1 =>
          /\ \A i \in Nat : i > 0 => ~(i + y + x <= 2)
          /\ x + m = 2 => m - y = 0
    OBVIOUS
  <2>4. \A i \in 1..Len(rest) : rest[i].frame.type # "ingest_ack"
    <3>1. ASSUME NEW i \in 1..Len(rest) PROVE i \in Nat /\ i > 0
      OBVIOUS
    <3>2. QED
      BY <1>2, <2>3, <3>1, Zenon
  <2>5. net[c].server # "closed" => rest = <<>>
    <3>1. rest \in Seq(Cell)
      BY <1>1 DEF Net
    <3>2. net[c].server # "closed" => Len(rest) = 0
      BY <1>2, <2>3, Zenon
    <3>3. QED
      BY <3>1, <3>2, EmptySeq
  <2>6. t + 1 \in Pushes(k) => <<k, Record(k, t + 1), a>> \notin log
    <3>1. \A u \in Pushes(k) : u > t => <<k, Record(k, u), a>> \notin log
      BY <1>4, <1>11 DEF OutcomesOK
    <3>2. t + 1 > t
      BY <1>5
    <3>3. QED
      BY <3>1, <3>2, Zenon
  <2>7. client'[k].step = t + 1 /\ client'[k].attempt = a /\ log' = log
    BY <1>7, <1>9
  <2>8. (client[k].step \in Pushes(k) =>
           <<k, Record(k, client[k].step), client[k].attempt>> \notin log)'
    <3> HIDE DEF Takes
    <3> QED BY <2>6, <2>7 DEF Record, Pushes
  <2>9. QED
    BY <1>10, <2>1, <2>2, <2>4, <2>5, <2>8, Zenon DEF Sending
<1>16. CallOK(k)'
  BY <1>7, <1>9, <1>11, <1>13, <1>15 DEF CallOK
<1>17. \/ Nothing(buffer[<<k, a>>], n.up)
       \/ \E u \in 1..Len(Script[k]) : OnItsWay(k, a, u)'
  BY <1>2, <1>10
<1>01. worker[<<k, a>>] \notin Acking
  BY <1>2, <1>10
<1>18. QED
  BY <1>4, <1>7, <1>8, <1>14, <1>16, <1>17, <1>01, CallGoesOn

LEMMA HearCaller ==
  ASSUME IndInv, CallersInv, NEW k \in Callers, Hear(k)
  PROVE  CallersInv'
<1> DEFINE c == Connection(k)
<1>1. client[k].pc = "recv" /\ UNCHANGED <<client_frame, backlog>>
  BY HearSplit
<1>2. net[c] \in Net /\ client[k].step \in 1..Len(Script[k])
  BY <1>1, CallSocket
<1>3. PICK failed : failed = IF Request(k).type = "bye" THEN "ok" ELSE "error"
  OBVIOUS
<1>4. failed = "ok" => client[k].step = Len(Script[k])
  BY <1>2, <1>3, ScriptStep DEF Request
<1>5. CASE Return(k, net[c], failed)
  BY <1>1, <1>2, <1>4, <1>5, ReturnCaller
<1>6. ASSUME NEW chunk \in Chunks(net[c].down), HearCases(k, chunk)
      PROVE  CallersInv'
  <2>1. PICK heard, read : /\ heard = client[k].buffer \o chunk
                           /\ read = [net[c] EXCEPT !.down = After(net[c].down, chunk)]
    OBVIOUS
  <2>2. /\ read \in Net /\ read.server = net[c].server
        /\ read.reset = net[c].reset /\ read.up = net[c].up
        /\ read.down = After(net[c].down, chunk)
        /\ NextIsFrame(heard) => NextFrame(heard) \in AnyFrame
    BY <1>1, <2>1, HearReads
  <2>3. \/ /\ ~NextIsFrame(heard) /\ ~NextIsError(heard)
           /\ client' = [client EXCEPT ![k].buffer = heard]
           /\ net' = [net EXCEPT ![c] = read]
        \/ /\ NextIsFrame(heard) /\ NextFrame(heard).type = Expected(Request(k).type)
           /\ client' = [client EXCEPT ![k] = Took(k, NextFrame(heard))]
           /\ net' = [net EXCEPT ![c] = read]
        \/ client[k].step = Len(Script[k]) /\ Return(k, read, "ok")
        \/ Return(k, read, failed)
    BY <1>3, <1>6, <2>1, Zenon DEF HearCases
  <2>4. CASE /\ ~NextIsFrame(heard) /\ ~NextIsError(heard)
             /\ client' = [client EXCEPT ![k].buffer = heard]
             /\ net' = [net EXCEPT ![c] = read]
    BY <1>1, <2>1, <2>2, <2>4, HearMore
  <2>5. CASE /\ NextIsFrame(heard) /\ NextFrame(heard).type = Expected(Request(k).type)
             /\ client' = [client EXCEPT ![k] = Took(k, NextFrame(heard))]
             /\ net' = [net EXCEPT ![c] = read]
    <3>1. PICK f, d : f = NextFrame(heard) /\ d = net[Connection(k)].down
      OBVIOUS
    <3>2. f \in AnyFrame /\ f = heard[1].frame /\ f.type = Expected(Request(k).type)
          /\ client' = [client EXCEPT ![k] = Took(k, f)] /\ Len(heard) > 1
      BY <2>2, <2>5, <3>1 DEF NextFrame, NextIsFrame
    <3>3. chunk \in Chunks(d) /\ read.down = After(d, chunk)
      BY <1>6, <2>2, <3>1
    <3>4. QED
      <4>1. Takes(k, d, chunk, heard, f, read)
        BY <1>1, <2>1, <2>2, <2>5, <3>1, <3>2, <3>3, Zenon DEF Takes
      <4>2. QED
        BY <4>1, HearTook, Zenon
  <2>6. CASE client[k].step = Len(Script[k]) /\ Return(k, read, "ok")
    BY <1>1, <2>2, <2>6, ReturnCaller
  <2>7. CASE Return(k, read, failed)
    BY <1>1, <1>4, <2>2, <2>7, ReturnCaller
  <2>8. QED
    BY <2>3, <2>4, <2>5, <2>6, <2>7
<1>7. QED
  BY <1>3, <1>5, <1>6, HearSplit

-----------------------------------------------------------------------------
(***************************************************************************)
(* The theorems.                                                           *)
(***************************************************************************)
LEMMA CallersInit == Init => CallersInv
<1> SUFFICES ASSUME Init, NEW k \in Callers PROVE CallerOK(k)
  BY DEF CallersInv
<1>1. /\ client[k].pc = "idle" /\ client[k].step = 0 /\ client[k].outcomes = <<>>
      /\ client[k].result = "none" /\ log = {}
  BY DEF Init, Idle
<1>2. RequestsOK(k)
  <2>1. ASSUME NEW a \in 1..MaxAttempts PROVE Nothing(buffer[<<k, a>>], net[<<k, a>>].up)
    <3>1. <<k, a>> \in Connections
      BY DEF Connections
    <3>2. buffer[<<k, a>>] = <<>> /\ net[<<k, a>>].up = <<>>
      BY <3>1 DEF Init
    <3>3. QED
      BY <3>2 DEF Nothing
  <2>2. QED
    BY <2>1 DEF RequestsOK
<1>3. CallOK(k) /\ PrefixStored(k) /\ AcksOK(k)
  BY <1>1 DEF CallOK, PrefixStored, AcksOK
<1>4. OutcomesOK(k)
  <2>1. 0 \in 0..1 /\ Len(<<>>) = 0
    OBVIOUS
  <2>2. Cardinality({t \in Pushes(k) : t < 0}) = 0 /\ \A t \in Pushes(k) : ~(t < 0)
    BY <2>1, NoneBefore
  <2>3. QED
    BY <1>1, <2>1, <2>2 DEF OutcomesOK
<1>5. QED
  BY <1>2, <1>3, <1>4 DEF CallerOK

LEMMA CallersNext == IndInv /\ CallersInv /\ [Next]_vars => CallersInv'
<1> SUFFICES ASSUME IndInv, CallersInv, [Next]_vars PROVE CallersInv'
  OBVIOUS
<1>1. CASE UNCHANGED vars
  <2>1. UNCHANGED <<worker, buffer, net, client, log>> /\ Grows
    BY <1>1 DEF vars, worker_vars, Grows
  <2>2. QED
    BY <2>1, QuietCallers
<1>2. CASE start \/ stop \/ request_shutdown \/ AcceptFails \/ RunJoins
  BY <1>2, OwnerCallers
<1>3. CASE StopCloses
  BY <1>3, StopClosesCallers
<1>4. CASE Accept
  BY <1>4, AcceptCallers
<1>5. ASSUME NEW c \in Connections, serve_connection(c) PROVE CallersInv'
  BY <1>5, ServeCallers
<1>6. ASSUME NEW k \in Callers, Caller(k) PROVE CallersInv'
  BY <1>6, ConnectCaller, AskCaller, HearCaller DEF Caller
<1>7. ASSUME NEW k \in Raw, RawBurst(k) PROVE CallersInv'
  BY <1>7, RawCallers
<1>8. QED
  BY <1>1, <1>2, <1>3, <1>4, <1>5, <1>6, <1>7 DEF Next, RunStep

\* Of every call either the request or its reply is on its way, what a reply
\* says of a record is so, and the records before it are not left out.
THEOREM CallersCorrect == Spec => []CallersInv
<1>1. Spec => []IndInv
  BY Invariance
<1>2. QED
  BY <1>1, CallersInit, CallersNext, PTL DEF Spec

\* What a caller has been told of a record is what the server did with it over
\* the connection of this call: no acknowledgement of another record, nor one
\* of an earlier, broken call, is taken for it (push_records and exchange,
\* serve_connection).
THEOREM AcknowledgementsAreTrue == Spec => []AcknowledgementsTrue
<1>1. ASSUME IndInv, CallersInv PROVE AcknowledgementsTrue
  <2>1. SUFFICES ASSUME NEW k \in Callers, NEW s \in Pushes(k),
                        Nth(k, s) \in DOMAIN client[k].outcomes
                 PROVE  client[k].outcomes[Nth(k, s)] = 1
                          <=> <<k, Script[k][s].arg, client[k].attempt>> \in log
    BY DEF AcknowledgementsTrue
  <2>2. OutcomesOK(k) /\ client[k] \in CallState
    BY <1>1 DEF CallersInv, CallerOK, IndInv, Types
  <2>3. client[k].step \in Nat /\ client[k].outcomes \in Seq(Nat)
    BY <2>2 DEF CallState
  <2>4. DOMAIN client[k].outcomes = 1..Len(client[k].outcomes)
        /\ Len(client[k].outcomes) = Cardinality(Before(k, client[k].step))
    BY <2>2, <2>3, LenProperties DEF OutcomesOK, Before
  <2>5. Nth(k, s) <= Cardinality(Before(k, client[k].step))
        /\ Cardinality(Before(k, client[k].step)) \in Nat
    BY <2>1, <2>3, <2>4, BeforeFinite
  <2>6. s < client[k].step
    <3>1. s \in Nat /\ Nth(k, s) \in Nat
          /\ (s >= client[k].step => Nth(k, s) > Cardinality(Before(k, client[k].step)))
      BY <2>3, NthBefore, BeforeFinite
    <3>2. QED
      BY <2>3, <2>5, <3>1
  <2>7. QED
    BY <2>2, <2>6 DEF OutcomesOK, Record
<1>2. QED
  BY <1>1, Invariance, CallersCorrect, PTL

\* A push that reports success, after however many broken ones, has left out no
\* good record while the runtime is up.
THEOREM PushesAreComplete == Spec => []PushIsComplete
<1>1. ASSUME CallersInv PROVE PushIsComplete
  <2>1. SUFFICES ASSUME runtime = "up", NEW k \in Callers, client[k].result = "ok",
                        NEW s \in Pushes(k), Good[Script[k][s].arg]
                 PROVE  \E a \in 1..MaxAttempts : <<k, Script[k][s].arg, a>> \in log
    BY DEF PushIsComplete
  <2>2. Covered(k, Len(Script[k]) + 1)
    BY <1>1, <2>1 DEF CallersInv, CallerOK, CallOK
  <2>3. s < Len(Script[k]) + 1
    <3>1. s \in 1..Len(Script[k]) /\ Len(Script[k]) \in Nat
      BY PushesAscend, ScriptAssumption, LenProperties
    <3>2. QED
      BY <3>1
  <2>4. QED
    BY <2>1, <2>2, <2>3 DEF Covered, Stored, Record
<1>2. QED
  BY <1>1, CallersCorrect, PTL
=============================================================================
