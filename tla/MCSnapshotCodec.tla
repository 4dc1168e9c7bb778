-------------------------- MODULE MCSnapshotCodec --------------------------
(* Four configurations and two policies; topologies with and without an    *)
(* attributed flow; more episodes and records than fit; sections of        *)
(* another writer that break one rule each.                                *)
EXTENDS SnapshotCodec

Object(id, refs, labels, texts) ==
  [id |-> id, refs |-> refs, labels |-> labels, texts |-> texts]

Fabric(texts, labels) ==
  [generation |-> 1, label |-> 0,
   objects |-> [node |-> <<Object(1, <<>>, labels, <<>>)>>,
                port |-> <<Object(2, <<1>>, <<>>, <<>>), Object(3, <<1>>, <<>>, <<>>)>>,
                link |-> <<Object(4, <<2, 3>>, <<>>, <<>>)>>,
                queue |-> <<>>, buffer |-> <<>>,
                path |-> <<Object(5, <<4, 4>>, <<>>, <<>>)>>,
                flow |-> <<Object(6, <<5>>, <<>>, texts)>>]]

Episode(id, key) == [id |-> id, key |-> key, tenant |-> "", citations |-> <<1>>]
Record(id, body) == [id |-> id, body |-> body, labels |-> <<>>]

Episodes(n) == [i \in 1..n |-> Episode(i, i)]
Records(n) == [i \in 1..n |-> Record(i, i)]

Content(tenant, labels, n, k) ==
  [created_at |-> 7, topology |-> Fabric(<<tenant, "c">>, labels),
   episodes |-> Episodes(n), evidence |-> Records(k)]

MCContents ==
  {Content("t", <<1>>, 1, 3), Content("t", <<1>>, 3, 1),
   Content("", <<>>, 0, 0), Content("t", <<1, 2>>, 0, 1)}

Config(digest, bytes, sections) ==
  [digest |-> digest, max_snapshot_bytes |-> bytes, max_snapshot_sections |-> sections,
   max_snapshot_episodes |-> 2, max_snapshot_evidence |-> 2, max_labels |-> 2,
   max_path_hops |-> 2, max_citations |-> 1,
   max_objects |-> [k \in Kinds |-> 2]]

MCLimitSets ==
  {Config("tiny", 17, 4), Config("small", 26, 4), Config("large", 30, 4), Config("narrow", 30, 3)}

MCPolicies == {[version |-> 1, digest |-> 1], [version |-> 2, digest |-> 2]}

\* A fabric with one object changed.
Without(kind) == [Fabric(<<"t", "c">>, <<>>) EXCEPT !.objects[kind] = <<>>]

MCSections ==
  <<{encode_topology_section(Without("link")), encode_topology_section(Without("flow")),
     Append(encode_topology_section(Without("flow")), [count |-> 0])},
    {Counted(<<Episode(1, 2)>>), Counted(Episodes(3)), Append(Counted(Episodes(1)), Episode(2, 2)),
     Counted(<<[Episode(1, 1) EXCEPT !.citations = <<1, 2>>]>>)},
    {Counted(<<Record(1, 2)>>), Counted(Records(3)), <<[count |-> 3]>>, <<[count |-> 1]>>,
     Counted(<<Episode(1, 1)>>)},
    {<<>>, <<[policy_version |-> 2, created_at |-> 7, generation |-> 1]>>}>>
=============================================================================
