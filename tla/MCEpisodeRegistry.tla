------------------------- MODULE MCEpisodeRegistry -------------------------
(***************************************************************************)
(* A small instance of EpisodeRegistry: the episodes of two subjects for   *)
(* one place, so that a new one has to displace an old one, and a restored *)
(* one finds the registry full.                                            *)
(***************************************************************************)
EXTENDS EpisodeRegistry

CONSTANTS port, link

Subjects == {port, link}

OneEach == [id \in Ids |-> IF id = 2 THEN link ELSE port]
=============================================================================
