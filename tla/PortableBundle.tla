--------------------------- MODULE PortableBundle ---------------------------
(***************************************************************************)
(* Moving a table between two hosts.  POST /resources/{id}/export of the   *)
(* source (crates/queryfabric-demo/src/http.rs, sovereignty.rs) writes a   *)
(* CSV artifact and a sealed bundle to fixed paths of its object store,    *)
(* one call at a time, while other exports and writes of the host go on;   *)
(* the operator carries copies of bundle and artifact and the digest an    *)
(* export answered with to the target, whose POST /imports/dry-run         *)
(* validates them (crates/queryfabric-portability/src/import.rs).  What    *)
(* happens after validation is the subject of ImportProtocol.              *)
(*                                                                         *)
(* Digests stand for what was hashed: BLAKE3 is taken to be injective.     *)
(* A bundle on the wire is a sequence of members <<key, value>>; citations *)
(* and licence, which nothing reads, are left out.                         *)
(***************************************************************************)
EXTENDS CsvProfile, FiniteSets

CONSTANTS
    Exports,        \* export requests of one station, served concurrently
    Schemas,        \* schemas the two hosts may have predeclared
    Tables(_),      \* what the table may hold: sequences of rows of texts,
                    \* NaN among them
    Characters,     \* what UTF-8 decodes to
    Foreign(_),     \* bundles of other producers, see CarryForeign
    Limits,         \* ImportLimits, and how many bytes a provenance entry has
    Reasons,        \* lengths of the reason an owner may give for an erasure
    MaxEvents       \* how many faults, writes and garblings there are

ASSUME EventsAssumption == MaxEvents \in Nat /\ Reasons \subseteq Nat

NaN == <<"NaN">>
Absent == <<>>
NoCount == -1        \* byteCount is optional

VARIABLES
    schema,         \* readings_schema of both hosts
    table,          \* rows of the station in the source's database
    store,          \* objects at the two fixed paths
    provenance,     \* the station's provenance entries, in insertion order: time,
                    \* activity and length of the longest string
    export,         \* state of each export handler
    clock,
    carried,        \* what the operator holds: bundle, artifact, digest and
                    \* the target revision
    meant,          \* history: digest and rows of everything sealed
    imported,       \* digest and rows of the dry-runs that succeeded
    events

vars == <<schema, table, store, provenance, export, clock, carried, meant,
          imported, events>>
source == <<table, store, provenance, export, clock>>

-----------------------------------------------------------------------------
(* Documents.                                                              *)

Digest(content) == <<"blake3-256", content>>
TypedDigest(d) == d # Absent /\ d[1] = "blake3-256"

\* RFC 8785: the same members in any order give the same text.
Keys(wire) == {wire[i][1] : i \in DOMAIN wire}
Member(wire, key) == LET i == CHOOSE j \in DOMAIN wire : wire[j][1] = key IN wire[i][2]
Canonical(wire) == [key \in Keys(wire) |-> Member(wire, key)]

\* The strict visitor refuses a key that comes twice.
NoDuplicateKeys(wire) == Cardinality(Keys(wire)) = Len(wire)

\* The size of a bundle is that of its provenance, and of what is in it always.
BundleBytes(wire) == Limits.fixedBytes + Limits.entryBytes * Len(Member(wire, "provenance"))

\* SQL row -> JSON object: a double that JSON cannot say becomes null.
CellToJson(cell, type) ==
    IF cell = NaN THEN [kind |-> "null", text |-> <<>>]
    ELSE [kind |-> CASE type = "Boolean" -> "bool"
                     [] type \in {"Int64", "Float64"} -> "number"
                     [] OTHER -> "string",
          text |-> cell]
RowToJson(s, row) ==
    [name \in ToSet(Names(s)) |->
        LET i == CHOOSE j \in DOMAIN s.columns : s.columns[j].name = name
        IN  CellToJson(row[i], s.columns[i].type)]

\* The CSV artifact of rows.
ReadingsCsv(s, rows) == WriteTabularCsv(s, [i \in DOMAIN rows |-> RowToJson(s, rows[i])], Limits)

\* A table of texts, a text for every column.
IsTable(rows, s) ==
    rows \in Seq(Seq(Seq(Characters))) /\ \A i \in DOMAIN rows : Len(rows[i]) = Len(s.columns)

\* The marks of the profile are characters; what is not UTF-8 is none.
ASSUME CharacterAssumptions == Special \subseteq Characters /\ "not-utf8" \notin Characters

ColumnTypes == {"Boolean", "Int64", "Float64", "String", "Uuid", "Timestamp"}

\* The hosts' columns have names without a byte order mark, and what their
\* database holds are texts.
ASSUME TableAssumptions ==
    \A s \in Schemas :
        /\ s.columns \in Seq([name : Seq(Characters \ {"BOM"}), type : ColumnTypes])
        /\ \A rows \in Tables(s) : IsTable(rows, s)

\* The bundle of another producer describes the artifact it comes with.  That is
\* a legal text of the producer's rows or any other text; one which the profile
\* does not have and the reader takes all the same means what the reader reads.
ASSUME ForeignAssumptions ==
    \A s \in Schemas : \A f \in Foreign(s) :
        /\ "artifacts" \in Keys(f.wire)
        /\ LET artifacts == Member(f.wire, "artifacts") IN
           Len(artifacts) = 1 /\ Head(artifacts).schema = s =>
                /\ TypedDigest(Head(artifacts).contentHash)
                       => Head(artifacts).contentHash = Digest(f.artifact)
                /\ LET parsed == ParseCsv(f.artifact, s, Limits)
                   IN  \/ IsTable(f.rows, s) /\ f.artifact \in Sheets(s, f.rows)
                       \/ parsed.ok => parsed.rows = f.rows

\* The limits leave room for the document a host seals, whatever its artifact.
ASSUME LimitsAssumptions ==
    /\ \A limit \in DOMAIN Limits : Limits[limit] \in Nat
    /\ {"rows", "columns", "depth", "string", "extension", "artifacts", "artifact", "total",
        "bundle", "fixedBytes", "entryBytes"} \subseteq DOMAIN Limits
    /\ Limits.depth >= 6 /\ Limits.string >= 1 /\ Limits.extension >= 1 /\ Limits.artifacts >= 1

Manifest(csv, count) ==
    [kind |-> "table_export", format |-> "csv", uri |-> "relative",
     fingerprint |-> Digest(schema), contentHash |-> Digest(csv),
     rowCount |-> count, byteCount |-> Len(csv), schema |-> schema]

\* The history is sorted by time, entries of one time by insertion.
History ==
    LET earlier(i, j) == \/ provenance[i].at < provenance[j].at
                         \/ provenance[i].at = provenance[j].at /\ i < j
        rank(j) == 1 + Cardinality({i \in DOMAIN provenance : earlier(i, j)})
    IN  [k \in DOMAIN provenance |-> provenance[CHOOSE j \in DOMAIN provenance : rank(j) = k]]

ImportBundle(at, manifest) ==
    << <<"exportBundle", [version |-> "2.0", at |-> at]>>,
       <<"metadata", [depth |-> 2, longest |-> 1, bytes |-> 1]>>,
       <<"provenance", History>>,
       <<"artifacts", <<manifest>> >> >>

-----------------------------------------------------------------------------
(* Validation at the target.                                               *)

\* A column name stands deepest: artifacts, manifest, schema, columns, column, name.
SchemaDepth == 6
SchemaBytes(s) == Len(FlattenSeq(Names(s)))

\* Lengths of the strings a producer or its users chose: in the metadata, the
\* provenance (a reason for an erasure) and the schemas.
StringLengths(wire) ==
    {Member(wire, "metadata").longest}
      \cup {entry.longest : entry \in ToSet(Member(wire, "provenance"))}
      \cup UNION {{Len(name) : name \in ToSet(Names(m.schema))} :
                      m \in ToSet(Member(wire, "artifacts"))}

\* Depth and string lengths of the whole document.
WithinJsonLimits(wire) ==
    /\ \A depth \in {Member(wire, "metadata").depth + 1, SchemaDepth} : depth <= Limits.depth
    /\ \A length \in StringLengths(wire) : length <= Limits.string

\* Faulty: the artifact is trusted when its size is right.
ArtifactMatches_SizeOnly(manifest, artifact) == Len(artifact) = manifest.byteCount

ArtifactMatches(manifest, artifact) ==
    Digest(artifact) = manifest.contentHash /\ Len(artifact) = manifest.byteCount

\* The bytes the manifests announce together.
AnnouncedBytes(manifests) ==
    LET sum[i \in 0 .. Len(manifests)] ==
            IF i = 0 THEN 0 ELSE sum[i - 1] + manifests[i].byteCount
    IN  sum[Len(manifests)]

\* What one turn of the artifact loop refuses; seen: the turns before.
ManifestRefusal(manifest, seen) ==
    IF manifest.kind # "table_export" \/ manifest.format # "csv" THEN "manifest"
    ELSE IF manifest.byteCount = NoCount THEN "manifest"
    ELSE IF manifest.byteCount > Limits.artifact THEN "artifact too large"
    ELSE IF AnnouncedBytes(seen) + manifest.byteCount > Limits.total THEN "aggregate too large"
    ELSE IF ~TypedDigest(manifest.contentHash) \/ ~TypedDigest(manifest.fingerprint)
         THEN "manifest"
    ELSE IF \E m \in ToSet(seen) : m.uri = manifest.uri THEN "duplicate"
    ELSE IF manifest.uri # "relative" THEN "manifest"
    ELSE IF SchemaBytes(manifest.schema) > Limits.extension THEN "json limits"
    ELSE IF ~ValidateSchema(manifest.schema, Limits.columns) THEN "profile"
    ELSE IF Digest(manifest.schema) # manifest.fingerprint THEN "fingerprint"
    ELSE "none"

ValidateImportBundle(wire, expected) ==
    LET artifacts == Member(wire, "artifacts")
        refusals  == {i \in DOMAIN artifacts :
                        ManifestRefusal(artifacts[i], SubSeq(artifacts, 1, i - 1)) # "none"}
    IN  IF BundleBytes(wire) > Limits.bundle THEN "bundle too large"
        ELSE IF ~NoDuplicateKeys(wire) THEN "json"
        ELSE IF ~WithinJsonLimits(wire) THEN "json limits"
        ELSE IF Member(wire, "exportBundle").version # "2.0" THEN "version"
        ELSE IF Member(wire, "metadata").bytes > Limits.extension THEN "json limits"
        ELSE IF ~TypedDigest(expected) THEN "digest"
        ELSE IF Digest(Canonical(wire)) # expected THEN "digest mismatch"
        ELSE IF Len(artifacts) \notin 1 .. Limits.artifacts THEN "artifacts"
        ELSE IF refusals # {} THEN
            LET i == CHOOSE j \in refusals : \A k \in refusals : j <= k
            IN  ManifestRefusal(artifacts[i], SubSeq(artifacts, 1, i - 1))
        ELSE "none"

\* After validation; the target adapter expects its own schema.
PlanTabularImport(wire, artifact, revision) ==
    LET artifacts == Member(wire, "artifacts")
        manifest  == Head(artifacts)
        parsed    == ParseCsv(artifact, manifest.schema, Limits)
    IN  IF Len(artifacts) # 1 THEN "manifest"
        ELSE IF Len(artifact) > Limits.artifact THEN "artifact too large"
        ELSE IF ~ValidateSchema(schema, Limits.columns) THEN "profile"
        ELSE IF manifest.schema # schema THEN "target"
        ELSE IF ~ArtifactMatches(manifest, artifact) THEN "artifact mismatch"
        ELSE IF ~parsed.ok THEN parsed.why
        ELSE IF Len(parsed.rows) # manifest.rowCount THEN "artifact mismatch"
        ELSE IF revision = "blank" THEN "target"
        ELSE "none"

PrepareImport(c) ==
    LET refusal == ValidateImportBundle(c.bundle, c.digest)
    IN  IF refusal # "none" THEN refusal ELSE PlanTabularImport(c.bundle, c.artifact, c.revision)

-----------------------------------------------------------------------------
(* POST /resources/{id}/export.                                            *)

Event == events < MaxEvents /\ events' = events + 1
At(e, pc) == export[e].pc = pc
Quiet == UNCHANGED <<schema, carried, imported>>

\* The query, and the CSV of its rows; a row that cannot be written panics
\* the handler.
Query(e) ==
    LET csv == ReadingsCsv(schema, table) IN
    /\ At(e, "idle")
    /\ clock' = clock + 1
    /\ export' = [export EXCEPT ![e].pc = IF csv.ok THEN "csv" ELSE "failed",
                                ![e].at = clock, ![e].csv = csv.text, ![e].rows = table]
    /\ UNCHANGED <<table, store, provenance, meant, events>> /\ Quiet

PutCsv(e) ==
    /\ At(e, "csv")
    /\ store' = [store EXCEPT !.csv = export[e].csv]
    /\ export' = [export EXCEPT ![e].pc = "build"]
    /\ UNCHANGED <<table, provenance, clock, meant, events>> /\ Quiet

\* build_import_bundle: the history is read, the bundle sealed.
Build(e) ==
    LET wire == ImportBundle(export[e].at, Manifest(export[e].csv, Len(export[e].rows)))
    IN
    /\ At(e, "build")
    /\ export' = [export EXCEPT ![e].pc = "bundle", ![e].sealed = wire]
    /\ meant' = meant \cup {[digest |-> Digest(Canonical(wire)), rows |-> export[e].rows]}
    /\ UNCHANGED <<table, store, provenance, clock, events>> /\ Quiet

PutBundle(e) ==
    /\ At(e, "bundle")
    /\ store' = [store EXCEPT !.bundle = export[e].sealed]
    /\ export' = [export EXCEPT ![e].pc = "anchor"]
    /\ UNCHANGED <<table, provenance, clock, meant, events>> /\ Quiet

Anchor(e) ==
    /\ At(e, "anchor")
    /\ provenance' = Append(provenance, [at |-> export[e].at, activity |-> e, longest |-> 1])
    /\ export' = [export EXCEPT ![e].pc = "done"]
    /\ UNCHANGED <<table, store, clock, meant, events>> /\ Quiet

\* A call fails, or the client goes away: a put may have taken effect.
ExportFails(e) ==
    /\ export[e].pc \in {"csv", "build", "bundle", "anchor"}
    /\ Event
    /\ \/ UNCHANGED store
       \/ At(e, "csv") /\ store' = [store EXCEPT !.csv = export[e].csv]
       \/ At(e, "bundle") /\ store' = [store EXCEPT !.bundle = export[e].sealed]
    /\ export' = [export EXCEPT ![e].pc = "failed"]
    /\ UNCHANGED <<table, provenance, clock, meant>> /\ Quiet

\* POST /resources/{id}/erase: an entry with the owner's reason; the resource
\* stays and can be exported on.
Erase ==
    /\ Event
    /\ clock' = clock + 1
    /\ \E n \in Reasons :
         provenance' = Append(provenance, [at |-> clock, activity |-> "deleted", longest |-> n])
    /\ UNCHANGED <<table, store, export, meant>> /\ Quiet

\* The host writes its table.
WriteTable ==
    /\ Event
    /\ table' \in Tables(schema)
    /\ UNCHANGED <<store, provenance, export, clock, meant>> /\ Quiet

-----------------------------------------------------------------------------
(* The operator.                                                           *)

Carry(c) == carried' = c /\ UNCHANGED <<schema, source, imported>>

\* GET /resources/{id}/bundle.
FetchBundle ==
    /\ store.bundle # Absent
    /\ Carry([carried EXCEPT !.bundle = store.bundle])
    /\ UNCHANGED <<meant, events>>

FetchArtifact ==
    /\ store.csv # Absent
    /\ Carry([carried EXCEPT !.artifact = store.csv])
    /\ UNCHANGED <<meant, events>>

\* The contentHash an export answered with.
NoteDigest(e) ==
    /\ At(e, "done")
    /\ Carry([carried EXCEPT !.digest = Digest(Canonical(export[e].sealed))])
    /\ UNCHANGED <<meant, events>>

\* A copy suffers on its way: members in another order, a member twice, an
\* edited row count, a cut-off or edited artifact, a digest without its type, a blank target
\* revision.
Garbled(c) ==
    LET edited == [Head(Member(c.bundle, "artifacts")) EXCEPT !.rowCount = @ + 1]
    IN
    (IF c.bundle = Absent THEN {} ELSE
        {[c EXCEPT !.bundle = Reverse(@)],
         [c EXCEPT !.bundle = Append(@, Head(@))],
         [c EXCEPT !.bundle = Append(Front(@), <<"artifacts", <<edited>> >>)]}) \cup
    (IF c.artifact = Absent THEN {} ELSE
        {[c EXCEPT !.artifact = Front(@)],
         [c EXCEPT !.artifact = [@ EXCEPT ![1] = "x"]]}) \cup
    (IF c.digest = Absent THEN {} ELSE {[c EXCEPT !.digest = <<"hex", @[2]>>]}) \cup
    {[c EXCEPT !.revision = "blank"]}

Garble ==
    /\ Event
    /\ \E c \in Garbled(carried) : Carry(c)
    /\ UNCHANGED meant

\* A bundle of another producer, with an announced digest: [wire, artifact,
\* rows], where rows is what that producer meant.
CarryForeign ==
    /\ events = 0 /\ clock = 0 /\ carried.bundle = Absent
    /\ \E f \in Foreign(schema) :
        /\ Carry([bundle |-> f.wire, artifact |-> f.artifact,
                  digest |-> Digest(Canonical(f.wire)), revision |-> "snapshot"])
        /\ meant' = meant \cup {[digest |-> Digest(Canonical(f.wire)), rows |-> f.rows]}
    /\ events' = MaxEvents

\* POST /imports/dry-run; a refusal changes nothing.
DryRun ==
    LET refusal == PrepareImport(carried)
        decoded == DecodeTabularCsv(carried.artifact, schema, Limits)
    IN
    /\ Absent \notin {carried.bundle, carried.artifact, carried.digest}
    /\ refusal = "none"
    /\ imported' = imported \cup {[digest |-> carried.digest, rows |-> decoded.rows]}
    /\ UNCHANGED <<schema, source, carried, meant, events>>

-----------------------------------------------------------------------------
Init ==
    /\ schema \in Schemas
    /\ table \in Tables(schema)
    /\ store = [csv |-> Absent, bundle |-> Absent]
    /\ provenance = <<[at |-> 0, activity |-> "created", longest |-> 1]>>
    /\ export = [e \in Exports |-> [pc |-> "idle", at |-> 0, csv |-> <<>>,
                                    rows |-> <<>>, sealed |-> <<>>]]
    /\ clock = 0
    /\ carried = [bundle |-> Absent, artifact |-> Absent, digest |-> Absent,
                  revision |-> "snapshot"]
    /\ meant = {} /\ imported = {}
    /\ events = 0

Next ==
    \/ \E e \in Exports : Query(e) \/ PutCsv(e) \/ Build(e) \/ PutBundle(e)
                          \/ Anchor(e) \/ ExportFails(e) \/ NoteDigest(e)
    \/ WriteTable \/ Erase \/ FetchBundle \/ FetchArtifact \/ Garble \/ CarryForeign \/ DryRun

Spec == Init /\ [][Next]_vars

-----------------------------------------------------------------------------
(* Properties.                                                             *)

\* Rows enter the target only as some producer's query returned them, and
\* under the digest of the very bundle that producer sealed: exports of one
\* station that overwrite each other's objects (sovereignty.rs:203), copies
\* garbled on the way and every legal spelling of a CSV field included.
ImportedAsExported == imported \subseteq meant

\* Neither a name of the schema nor a value of the rows holds a line break,
\* which the writer quotes and the reader refuses (import.rs:609).
Unbroken(rows) ==
    \A record \in ToSet(<<Names(schema)>> \o rows) : \A i \in DOMAIN record :
        ToSet(record[i]) \cap Newline = {}

\* A bundle and an artifact of one export, unaltered but for the order of
\* members, are accepted; unless a field holds a line break, the writer has
\* written more bytes than a target takes (import.rs:204), the provenance has
\* outgrown the bundle limit (bundle.rs:173), or a string which nothing bounds
\* where it is written, such as the reason of an erasure (http.rs:597), exceeds
\* the limits on strings and schemas (import.rs:507, 234).
HonestCopyIsAccepted ==
    \A e \in Exports :
        (/\ export[e].sealed # <<>>
         /\ carried.bundle # Absent /\ carried.artifact = export[e].csv
         /\ NoDuplicateKeys(carried.bundle) /\ carried.revision # "blank"
         /\ Canonical(carried.bundle) = Canonical(export[e].sealed)
         /\ carried.digest = Digest(Canonical(export[e].sealed))
         /\ Unbroken(export[e].rows)
         /\ Len(export[e].csv) <= Limits.artifact /\ Len(export[e].csv) <= Limits.total
         /\ BundleBytes(export[e].sealed) <= Limits.bundle
         /\ \A length \in StringLengths(export[e].sealed) : length <= Limits.string
         /\ SchemaBytes(schema) <= Limits.extension)
        => PrepareImport(carried) = "none"

\* What the profile document (04-reference-host-and-release-proof.md:59-64) says
\* of the scalar types: JSON numbers without a leading plus, integers in range,
\* finite floats, lowercase hyphenated UUIDs.
AllDigits(t) == t # <<>> /\ ToSet(t) \subseteq Digits
JsonInteger(s) ==
    LET digits == Unsigned(s) IN AllDigits(digits) /\ (Len(digits) > 1 => Head(digits) # "0")
JsonFraction(t) == t = <<>> \/ (Head(t) = "." /\ AllDigits(Tail(t)))
JsonExponent(t) ==
    \/ t = <<>>
    \/ /\ Head(t) = "e" /\ Len(t) > 1
       /\ AllDigits(Tail(t)) \/ (t[2] \in {"+", "-"} /\ AllDigits(SubSeq(t, 3, Len(t))))
JsonNumber(s) ==
    \E i \in 1 .. Len(s) : \E j \in i .. Len(s) :
        /\ JsonInteger(SubSeq(s, 1, i))
        /\ JsonFraction(SubSeq(s, i + 1, j))
        /\ JsonExponent(SubSeq(s, j + 1, Len(s)))
InGrammar(text, type) ==
    CASE type = "Int64"   -> /\ JsonInteger(text)
                             /\ IF Head(text) = "-" THEN DigitsValue(Tail(text)) <= Int64Max + 1
                                ELSE DigitsValue(text) <= Int64Max
      [] type = "Float64" -> JsonNumber(text) /\ Finite(text)
      [] type = "Boolean" -> text \in {<<"true">>, <<"false">>}
      [] type = "Uuid"    -> text = <<"uuid">>
      [] type = "Timestamp" -> text = <<"instantZ">>
      [] type = "String"  -> TRUE

\* Where the reader takes more than the document says: the spellings of a UUID
\* without hyphens, as a URN and in braces (import.rs:700).
Lenient(text, type) == type = "Uuid" /\ text \in UuidTexts

\* A legal text of a producer's rows, carried with a bundle in order that
\* describes it, is accepted exactly when every value of every row is in the
\* grammar of its column or one of the three other spellings of a UUID, none
\* holds a line break, and the rows are no more than the limit.
AcceptedIffInGrammar ==
    \A m \in meant :
        (/\ m.digest = carried.digest /\ carried.bundle # Absent /\ carried.revision # "blank"
         /\ IsTable(m.rows, schema) /\ carried.artifact \in Sheets(schema, m.rows)
         /\ ValidateImportBundle(carried.bundle, carried.digest) = "none"
         /\ Member(carried.bundle, "artifacts") = <<Manifest(carried.artifact, Len(m.rows))>>)
        => (PrepareImport(carried) = "none" <=>
              /\ Len(m.rows) <= Limits.rows /\ Unbroken(m.rows)
              /\ \A row \in ToSet(m.rows), i \in DOMAIN schema.columns :
                     \/ InGrammar(row[i], schema.columns[i].type)
                     \/ Lenient(row[i], schema.columns[i].type))
=============================================================================
