--------------------------- MODULE SnapshotCodec ---------------------------
(***************************************************************************)
(* The snapshot format (src/src/persistence/snapshot.cpp): encode_snapshot *)
(* lays a snapshot out as header, section table and payload;               *)
(* decode_snapshot checks everything before it returns anything.           *)
(*                                                                         *)
(* A file is a header, a table and a payload of tokens.  A token is one    *)
(* fixed-width record of the stream: a count, the metadata, the head of    *)
(* the topology, an object, an episode or an evidence record; offsets,     *)
(* lengths and sizes count tokens.  Digests and checksums are the values   *)
(* they are taken over: two values never collide.                          *)
(*                                                                         *)
(* Between a save and a load a file may be damaged, in one field of the    *)
(* header or of the table, in the payload or by being cut short or         *)
(* extended, or a section may have been replaced, checksums and all, by    *)
(* another writer of the same format.                                      *)
(***************************************************************************)
EXTENDS Integers, SequencesExt

CONSTANTS
  Contents,      \* what the runtime may hand to save
  LimitSets,     \* configurations of Limits
  Policies,      \* classification policies, [version, digest]
  Sections,      \* id -> the token sequences another writer may put there
  HeaderSize, EntrySize,
  LabelCut,      \* the labels of a node that are written (64 in the code)
  MaxDamaged,    \* bound of the model: damaged places of a file
  Garbled        \* a field or token that is not what was written

kTopology == 1
kEpisodes == 2
kEvidence == 3
kMetadata == 4

\* The order in which objects are written and read, so that references are known.
KindOrder == <<"node", "port", "link", "queue", "buffer", "path", "flow">>

Kinds == ToSet(KindOrder)

(***************************************************************************)
(* What is kept in a file.  Names and texts that only need to be told      *)
(* apart are numbers; a text that may be empty is a string.                *)
(***************************************************************************)
Object_t == [id : Nat, refs : Seq(Nat), labels : Seq(Nat), texts : Seq(STRING)]
Episode_t == [id : Nat, key : Nat, tenant : STRING, citations : Seq(Nat)]
Evidence_t == [id : Nat, body : Nat, labels : Seq(Nat)]
Topology_t == [generation : Nat, label : Nat, objects : [Kinds -> Seq(Object_t)]]
Content_t == [created_at : Nat, topology : Topology_t, episodes : Seq(Episode_t),
              evidence : Seq(Evidence_t)]

Tokens ==
  [count : Nat] \cup [generation : Nat, label : Nat]
    \cup [policy_version : Nat, created_at : Nat, generation : Nat]
    \cup Object_t \cup Episode_t \cup Evidence_t

Bytes == Seq(Tokens \cup {Garbled})

Header_t ==
  [magic : {"COSNAP01"}, major : Nat, minor : Nat, limits_digest : {l.digest : l \in LimitSets},
   policy_digest : {p.digest : p \in Policies}, topology_digest : Topology_t, created_at : Nat,
   section_count : Nat, payload_bytes : Nat, payload_crc : Bytes]

VARIABLES
  file,          \* the bytes of the snapshot file
  saved,         \* what it was made from: [content, limits, policy]
  damaged,       \* how many places were damaged since
  rewritten,     \* another writer replaced a section
  decoded        \* what loading the file gave, [limits, policy, content]

codec_vars == <<file, saved, damaged, rewritten, decoded>>

NoFile == [header |-> Garbled]
NotDecoded == [content |-> Garbled]
Refused == Garbled

-----------------------------------------------------------------------------
(***************************************************************************)
(* Encoding                                                                *)
(***************************************************************************)
UpTo(s, n) == IF Len(s) > n THEN SubSeq(s, 1, n) ELSE s

Counted(items) == <<[count |-> Len(items)]>> \o items

\* write_name_list cuts the labels of a node.
WriteObject(o) == [o EXCEPT !.labels = UpTo(@, LabelCut)]

encode_topology_section(t) ==
  LET listed(k) == Counted([j \in DOMAIN t.objects[k] |-> WriteObject(t.objects[k][j])])
  IN <<[generation |-> t.generation, label |-> t.label]>>
       \o (listed("node") \o (listed("port") \o (listed("link") \o (listed("queue")
       \o (listed("buffer") \o (listed("path") \o listed("flow")))))))

\* Mutant: the count is taken before the cut.
EpisodeSection_CountAll(episodes, limits) ==
  <<[count |-> Len(episodes)]>> \o UpTo(episodes, limits.max_snapshot_episodes)

EpisodeSection(episodes, limits) == Counted(UpTo(episodes, limits.max_snapshot_episodes))

EvidenceSection(evidence, limits) == Counted(UpTo(evidence, limits.max_snapshot_evidence))

MetadataSection(content, policy) ==
  <<[policy_version |-> policy.version, created_at |-> content.created_at,
     generation |-> content.topology.generation]>>

Seal(ids, sections) ==
  [i \in DOMAIN ids |->
    [id |-> ids[i],
     offset |-> Len(FlattenSeq(SubSeq(sections, 1, i - 1))),
     length |-> Len(sections[i]),
     crc64 |-> sections[i]]]

Header(created_at, limits_digest, policy_digest, topology_digest, table, payload) ==
  [magic |-> "COSNAP01", major |-> 1, minor |-> 0, limits_digest |-> limits_digest,
   policy_digest |-> policy_digest, topology_digest |-> topology_digest,
   created_at |-> created_at, section_count |-> Len(table),
   payload_bytes |-> Len(payload), payload_crc |-> payload]

Pending(content, limits, policy) ==
  <<MetadataSection(content, policy), encode_topology_section(content.topology),
    EpisodeSection(content.episodes, limits), EvidenceSection(content.evidence, limits)>>

PayloadFits(payload, limits) == Len(payload) <= limits.max_snapshot_bytes

encode_snapshot(content, limits, policy) ==
  LET sections == Pending(content, limits, policy)
      payload == FlattenSeq(sections)
      table == Seal(<<kMetadata, kTopology, kEpisodes, kEvidence>>, sections)
  IN [header |-> Header(content.created_at, limits.digest, policy.digest, content.topology,
                        table, payload),
      table |-> table, payload |-> payload]

FileSize(f) == HeaderSize + EntrySize * Len(f.table) + Len(f.payload)

-----------------------------------------------------------------------------
(***************************************************************************)
(* Decoding                                                                *)
(***************************************************************************)
HeaderOk(h, limits, policy) ==
  /\ h.magic = "COSNAP01" /\ h.major = 1 /\ h.minor = 0
  /\ h.section_count <= limits.max_snapshot_sections
  /\ h.payload_bytes <= limits.max_snapshot_bytes
  /\ h.limits_digest = limits.digest
  /\ h.policy_digest = policy.digest

\* The declared sizes make up the file.  (A wrong number of entries would
\* shift the payload, and its checksum would not match.)
PayloadOk(f) ==
  /\ HeaderSize + EntrySize * f.header.section_count + f.header.payload_bytes = FileSize(f)
  /\ f.header.section_count = Len(f.table)
  /\ f.header.payload_crc = f.payload

Slice(f, e) == SubSeq(f.payload, e.offset + 1, e.offset + e.length)

TableOk(f) ==
  \A i \in DOMAIN f.table :
    LET e == f.table[i]
    IN /\ e.offset + e.length <= f.header.payload_bytes
       /\ e.crc64 = Slice(f, e)
       /\ \A j \in 1..i-1 : f.table[j].id # e.id

Has(f, id) == \E i \in DOMAIN f.table : f.table[i].id = id

Section(f, id) == Slice(f, f.table[CHOOSE i \in DOMAIN f.table : f.table[i].id = id])

\* Tokens of one kind have the same fields.
CountFields == {"count"}
TopologyFields == {"generation", "label"}
MetadataFields == {"policy_version", "created_at", "generation"}
ObjectFields == {"id", "refs", "labels", "texts"}
EpisodeFields == {"id", "key", "tenant", "citations"}
EvidenceFields == {"id", "body", "labels"}

Is(token, fields) == token # Garbled /\ DOMAIN token = fields

(***************************************************************************)
(* ByteReader: what is left of a section, whether all went well, and the   *)
(* lists read so far.                                                      *)
(***************************************************************************)
Reader(s) == [rest |-> s, ok |-> TRUE, lists |-> <<>>]

\* A count within the bound, and as many items that can be read.
ListThere(r, bound, fields) ==
  /\ r.ok /\ r.rest # <<>>
  /\ Is(r.rest[1], CountFields)
  /\ r.rest[1].count <= bound
  /\ r.rest[1].count < Len(r.rest)
  /\ \A i \in 1..r.rest[1].count : Is(r.rest[i + 1], fields)

AfterList(r) ==
  [rest |-> SubSeq(r.rest, r.rest[1].count + 2, Len(r.rest)), ok |-> TRUE,
   lists |-> Append(r.lists, SubSeq(r.rest, 2, r.rest[1].count + 1))]

Failed(r) == [rest |-> r.rest, ok |-> FALSE, lists |-> r.lists]

ReadList(r, bound, fields) ==
  IF ListThere(r, bound, fields) THEN AfterList(r) ELSE Failed(r)

\* ok() and remaining() == 0
AtEnd(r) == r.ok /\ r.rest = <<>>

MetadataOk(s, policy) ==
  /\ s # <<>>
  /\ Is(s[1], MetadataFields)
  /\ s[1].policy_version = policy.version

\* The objects of a topology section, kind by kind.
TopologyReader(s, limits) ==
  LET read(r, k) == ReadList(r, limits.max_objects[k], ObjectFields)
      links == read(read(read(Reader(Tail(s)), "node"), "port"), "link")
      paths == read(read(read(links, "queue"), "buffer"), "path")
  IN read(paths, "flow")

TopologyOf(s, limits) ==
  [generation |-> s[1].generation, label |-> s[1].label,
   objects |-> [k \in Kinds |->
     TopologyReader(s, limits).lists[CHOOSE i \in DOMAIN KindOrder : KindOrder[i] = k]]]

\* What TopologyBuilder checks: no duplicates, references to objects read before.
ObjectFits(o, before, limits) ==
  /\ Len(o.labels) <= limits.max_labels
  /\ Len(o.refs) <= limits.max_path_hops
  /\ ToSet(o.refs) \subseteq before
  /\ o.id \notin before

\* Parsing an object also asks that every text is a name.
ObjectOk(o, before, limits) ==
  ObjectFits(o, before, limits) /\ \A t \in ToSet(o.texts) : t # ""

ObjectsOk(all, limits) ==
  \A i \in DOMAIN all : ObjectOk(all[i], {all[j].id : j \in 1..i-1}, limits)

AllObjects(t) == FlattenSeq([i \in DOMAIN KindOrder |-> t.objects[KindOrder[i]]])

decode_topology_section(s, limits) ==
  /\ s # <<>> /\ Is(s[1], TopologyFields)
  /\ AtEnd(TopologyReader(s, limits))
  /\ ObjectsOk(AllObjects(TopologyOf(s, limits)), limits)

EpisodeReader(s, limits) ==
  ReadList(Reader(s), limits.max_snapshot_episodes, EpisodeFields)

\* Mutant: the identity of an episode is taken as it is.
EpisodeOk_Trusted(e, limits) == Len(e.citations) <= limits.max_citations

\* An empty tenant is "not attributed".
EpisodeOk(e, limits) ==
  /\ Len(e.citations) <= limits.max_citations
  /\ e.id = e.key

EpisodesOk(s, limits) ==
  /\ AtEnd(EpisodeReader(s, limits))
  /\ \A e \in ToSet(EpisodeReader(s, limits).lists[1]) : EpisodeOk(e, limits)

\* A count over the bound is read as none, but flagged.
OverCount(s, limits) == s # <<>> /\ Is(s[1], CountFields) /\ s[1].count > limits.max_snapshot_evidence

EvidenceReader(s, limits) ==
  IF OverCount(s, limits)
  THEN [rest |-> Tail(s), ok |-> TRUE, lists |-> <<<<>>>>]
  ELSE ReadList(Reader(s), limits.max_snapshot_evidence, EvidenceFields)

EvidenceOk(s, limits) ==
  /\ AtEnd(EvidenceReader(s, limits))
  /\ \A e \in ToSet(EvidenceReader(s, limits).lists[1]) :
       e.id = e.body /\ Len(e.labels) <= limits.max_labels

Decodable(f, limits, policy) ==
  /\ f.header # Garbled
  /\ HeaderOk(f.header, limits, policy)
  /\ PayloadOk(f)
  /\ TableOk(f)
  /\ Has(f, kMetadata) /\ MetadataOk(Section(f, kMetadata), policy)
  /\ Has(f, kTopology) /\ decode_topology_section(Section(f, kTopology), limits)
  /\ TopologyOf(Section(f, kTopology), limits) = f.header.topology_digest
  /\ Has(f, kEpisodes) => EpisodesOk(Section(f, kEpisodes), limits)
  /\ Has(f, kEvidence) => EvidenceOk(Section(f, kEvidence), limits)

\* Mutant: the time stays that of the unprotected header.
CreatedAt_Header(f) == f.header.created_at

CreatedAt(f) == Section(f, kMetadata)[1].created_at

decode_snapshot(f, limits) ==
  [created_at |-> CreatedAt(f),
   topology |-> TopologyOf(Section(f, kTopology), limits),
   episodes |-> IF Has(f, kEpisodes)
                THEN EpisodeReader(Section(f, kEpisodes), limits).lists[1] ELSE <<>>,
   evidence |-> IF Has(f, kEvidence)
                THEN EvidenceReader(Section(f, kEvidence), limits).lists[1] ELSE <<>>]

\* read_file bounds the whole file.
Readable(f, limits) == f.header # Garbled => FileSize(f) <= limits.max_snapshot_bytes

-----------------------------------------------------------------------------
(***************************************************************************)
(* What the components of a running process have let in under its limits.  *)
(***************************************************************************)
Admitted(content, limits) ==
  LET all == AllObjects(content.topology)
  IN /\ \A k \in Kinds : Len(content.topology.objects[k]) <= limits.max_objects[k]
     /\ \A i \in DOMAIN all : ObjectFits(all[i], {all[j].id : j \in 1..i-1}, limits)
     /\ \A e \in ToSet(content.episodes) : EpisodeOk(e, limits)
     /\ \A e \in ToSet(content.evidence) : e.id = e.body /\ Len(e.labels) <= limits.max_labels

(***************************************************************************)
(* Digests tell configurations apart, and what is garbled is nothing that  *)
(* was written.  Another writer may put anything that can be read as       *)
(* tokens into a section.                                                  *)
(***************************************************************************)
ASSUME CodecAssumption ==
  /\ {HeaderSize, EntrySize, LabelCut, MaxDamaged} \subseteq Nat
  /\ Contents \subseteq Content_t
  /\ \A l \in LimitSets :
       /\ {l.max_snapshot_bytes, l.max_snapshot_sections, l.max_snapshot_episodes,
           l.max_snapshot_evidence} \subseteq Nat
       /\ l.digest # Garbled
       /\ \A m \in LimitSets : l.digest = m.digest => l = m
  /\ \A p \in Policies :
       /\ p.version \in Nat
       /\ p.digest # Garbled
       /\ \A q \in Policies : p.digest = q.digest => p = q
  /\ \A id \in 1..4 : Sections[id] \subseteq Seq(Tokens)
  /\ Garbled \notin Tokens \cup Bytes \cup Topology_t \cup Header_t

-----------------------------------------------------------------------------
(***************************************************************************)
(* A file's life                                                           *)
(***************************************************************************)
CodecInit ==
  /\ file = NoFile
  /\ saved = [content |-> Garbled]
  /\ damaged = 0
  /\ rewritten = FALSE
  /\ decoded = NotDecoded

SaveFile(content, limits, policy) ==
  /\ file = NoFile
  /\ PayloadFits(FlattenSeq(Pending(content, limits, policy)), limits)
  /\ file' = encode_snapshot(content, limits, policy)
  /\ saved' = [content |-> content, limits |-> limits, policy |-> policy]
  /\ UNCHANGED <<damaged, rewritten, decoded>>

Becomes(f) ==
  /\ damaged < MaxDamaged /\ ~rewritten
  /\ file' = f
  /\ damaged' = damaged + 1
  /\ decoded' = NotDecoded
  /\ UNCHANGED <<saved, rewritten>>

Near(n) == {n - 1, n + 1} \cap Nat

DamageHeader ==
  \/ Becomes([file EXCEPT !.header = Garbled, !.table = <<>>, !.payload = <<>>])
  \/ \E f \in {"magic", "limits_digest", "policy_digest", "topology_digest", "created_at",
               "payload_crc"} :
       Becomes([file EXCEPT !.header[f] = Garbled])
  \/ \E f \in {"major", "minor", "section_count", "payload_bytes"} :
       \E v \in Near(file.header[f]) : Becomes([file EXCEPT !.header[f] = v])

DamageTable ==
  \E i \in DOMAIN file.table :
    \/ \E v \in 0..5 \ {file.table[i].id} : Becomes([file EXCEPT !.table[i].id = v])
    \/ \E f \in {"offset", "length"} : \E v \in Near(file.table[i][f]) :
         Becomes([file EXCEPT !.table[i][f] = v])
    \/ Becomes([file EXCEPT !.table[i].crc64 = Garbled])
    \/ Becomes([file EXCEPT !.table = SubSeq(@, 1, i - 1), !.payload = <<>>])

DamagePayload ==
  \/ \E i \in DOMAIN file.payload : Becomes([file EXCEPT !.payload[i] = Garbled])
  \/ \E n \in 0..Len(file.payload) - 1 : Becomes([file EXCEPT !.payload = SubSeq(@, 1, n)])
  \/ Becomes([file EXCEPT !.payload = Append(@, Garbled)])

\* Another writer leaves a section out, repeats it, or writes it in its own
\* way; the table, the checksums and the topology digest are right.
Replaced(f, ids, sections, digest) ==
  LET table == Seal(ids, sections)
      payload == FlattenSeq(sections)
  IN [header |-> Header(f.header.created_at, f.header.limits_digest, f.header.policy_digest,
                        digest, table, payload),
      table |-> table, payload |-> payload]

Rewrite ==
  /\ damaged = 0 /\ ~rewritten
  /\ \E i \in DOMAIN file.table :
       LET id == file.table[i].id
           ids == [j \in DOMAIN file.table |-> file.table[j].id]
           sections == [j \in DOMAIN ids |-> Slice(file, file.table[j])]
           same == file.header.topology_digest
       IN \/ file' = Replaced(file, RemoveAt(ids, i), RemoveAt(sections, i), same)
          \/ file' = Replaced(file, Append(ids, id), Append(sections, sections[i]), same)
          \/ \E s \in Sections[id] :
               file' = Replaced(file, ids, [sections EXCEPT ![i] = s],
                                IF id = kTopology THEN TopologyOf(s, saved.limits) ELSE same)
  /\ rewritten' = TRUE
  /\ decoded' = NotDecoded
  /\ UNCHANGED <<saved, damaged>>

\* What loading a file gives.
Loaded(f, limits, policy) ==
  [limits |-> limits, policy |-> policy,
   content |-> IF Readable(f, limits) /\ Decodable(f, limits, policy)
               THEN decode_snapshot(f, limits) ELSE Refused]

LoadFile(limits, policy) ==
  /\ file # NoFile
  /\ decoded' = Loaded(file, limits, policy)
  /\ UNCHANGED <<file, saved, damaged, rewritten>>

CodecNext ==
  \/ \E l \in LimitSets, p \in Policies, c \in Contents : SaveFile(c, l, p) /\ Admitted(c, l)
  \/ /\ file # NoFile
     /\ file.header # Garbled
     /\ DamageHeader \/ DamageTable \/ DamagePayload \/ Rewrite
  \/ \E l \in LimitSets, p \in Policies : LoadFile(l, p)

CodecSpec == CodecInit /\ [][CodecNext]_codec_vars

-----------------------------------------------------------------------------
Accepted == decoded.content # Refused

FileBounded ==
  /\ file # NoFile /\ ~rewritten =>
       \/ file.header = Garbled
       \/ FileSize(file) <= saved.limits.max_snapshot_bytes + HeaderSize + 4 * EntrySize + MaxDamaged
  /\ damaged \in 0..MaxDamaged
  /\ rewritten \in BOOLEAN
  /\ Accepted => decoded.limits \in LimitSets /\ decoded.policy \in Policies

\* What the format keeps of a content.
Kept(content, limits) ==
  [content EXCEPT !.episodes = UpTo(@, limits.max_snapshot_episodes),
                  !.evidence = UpTo(@, limits.max_snapshot_evidence)]

\* What the decoder asks of an object and the encoder does not: a name for
\* every text (the tenant and the class of a flow) and no more labels than
\* are written.
PortableObject(o) == "" \notin ToSet(o.texts) /\ Len(o.labels) <= LabelCut

\* And of the file: room for header and table too, and a limit that allows
\* four sections.
Portable(content, limits) ==
  /\ FileSize(file) <= limits.max_snapshot_bytes
  /\ Len(file.table) <= limits.max_snapshot_sections
  /\ \A k \in Kinds : \A o \in ToSet(content.topology.objects[k]) : PortableObject(o)

(***************************************************************************)
(* What a save wrote, a load under the same limits and policy returns:     *)
(* the topology, and the episodes and records up to the bounds, in order.  *)
(* No other reason to refuse one's own snapshot exists.                    *)
(***************************************************************************)
RoundTrip ==
  (/\ decoded # NotDecoded /\ damaged = 0 /\ ~rewritten
   /\ decoded.limits = saved.limits /\ decoded.policy = saved.policy
   /\ Portable(saved.content, saved.limits))
    => decoded.content = Kept(saved.content, saved.limits)

\* Entry i of the table still says which section it describes.
Named(f, i, id) == i \in DOMAIN f.table /\ f.table[i].id = id

(***************************************************************************)
(* Damage is never read as data: a damaged file that still loads gives the *)
(* metadata and the topology that were saved, and the episodes and the     *)
(* records that were kept, all of them.  (The header's time is not         *)
(* protected by a checksum; the decoder must not use it.)                  *)
(*                                                                         *)
(* With one exception, which is not what the format's description says:    *)
(* no checksum covers the identity of a section in the table, an unknown   *)
(* one is skipped and episodes and evidence are optional.  So damage to    *)
(* that identity, and to nothing else, makes a file load without them.     *)
(***************************************************************************)
DamageIsNotData ==
  Accepted /\ damaged > 0 =>
    LET kept == Kept(saved.content, saved.limits)
        c == decoded.content
    IN /\ c.created_at = kept.created_at
       /\ c.topology = kept.topology
       /\ c.episodes = kept.episodes \/ (c.episodes = <<>> /\ ~Named(file, 3, kEpisodes))
       /\ c.evidence = kept.evidence \/ (c.evidence = <<>> /\ ~Named(file, 4, kEvidence))

(***************************************************************************)
(* Whoever wrote the file: what is accepted respects the bounds, refers to *)
(* nothing missing, and every episode and record has the identity that its *)
(* own content gives it.                                                   *)
(***************************************************************************)
AcceptedIsSound ==
  Accepted =>
    LET c == decoded.content
        l == decoded.limits
        all == AllObjects(c.topology)
    IN /\ Len(c.episodes) <= l.max_snapshot_episodes
       /\ Len(c.evidence) <= l.max_snapshot_evidence
       /\ \A e \in ToSet(c.episodes) : e.id = e.key /\ Len(e.citations) <= l.max_citations
       /\ \A e \in ToSet(c.evidence) : e.id = e.body
       /\ \A i \in DOMAIN all : \A r \in ToSet(all[i].refs) : \E j \in 1..i-1 : all[j].id = r

(***************************************************************************)
(* A snapshot is only ever loaded by a process with the limits and the     *)
(* policy of the one that saved it.                                        *)
(***************************************************************************)
SameConfiguration ==
  Accepted => decoded.limits = saved.limits /\ decoded.policy = saved.policy

(***************************************************************************)
(* Whatever was written, damaged or forged: what decode_snapshot accepts   *)
(* is sound in itself and was saved under the limits and the policy of the *)
(* process that loads it.                                                  *)
(***************************************************************************)
AcceptedInv == FileBounded /\ AcceptedIsSound /\ SameConfiguration
=============================================================================
