--------------------------- MODULE MCIngestServer ---------------------------
(***************************************************************************)
(* A collector that pushes two records, another program, and the server.   *)
(***************************************************************************)
EXTENDS IngestServer

CONSTANTS p, x

Scripts == [k \in Callers |-> <<Frame("hello", 0), Frame("ingest", 1), Frame("ingest", 2),
                                Frame("bye", 0)>>]
GoodRecords == <<TRUE, TRUE, FALSE>>
SomeBursts == {<<Frame("hello", 0), Frame("ingest", 3)>>, <<Frame("stats", 0), Frame("ingest", 1)>>,
               <<Frame("ping", 0), Frame("foreign", 0)>>}
=============================================================================
