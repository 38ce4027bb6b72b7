-------------------------- MODULE MCPortableBundle --------------------------
(***************************************************************************)
(* Hosts with four schemas: a text and a float column, one integer, one    *)
(* float, and a UUID with a Boolean and a timestamp.  Tables of the first  *)
(* hold fields with quotes, commas and line breaks, and one is too large   *)
(* for the target; other producers send every short numeral, every legal   *)
(* spelling of a row, and texts the profile does not have.                 *)
(***************************************************************************)
EXTENDS PortableBundle

Symmetry == Permutations(Exports)

LongColumn == [name |-> <<"a", "a", "x">>, type |-> "String"]
Column(name, type) == [name |-> <<name>>, type |-> type]
Schema(columns) == [profile |-> Profile1, columns |-> columns]
TextSchema == Schema(<<Column("label", "String"), Column("value", "Float64")>>)
IntSchema == Schema(<<Column("count", "Int64")>>)
FloatSchema == Schema(<<Column("value", "Float64")>>)
KindSchema == Schema(<<Column("id", "Uuid"), Column("up", "Boolean"), Column("at", "Timestamp")>>)

MCSchemas == {TextSchema, IntSchema, FloatSchema, KindSchema}

TextCells == {<<"a", "DQUOTE">>, <<"DQUOTE", "COMMA">>}
QuotedRows == {<< <<c, <<"1">> >> >> : c \in TextCells}

Numeral == {"0", "1", "-", "+", ".", "e"}
Uuids == {"uuid", "uuid-simple", "uuid-urn", "uuid-braced", "UUID"}
Booleans == {"true", "false", "True"}
Instants == {"instantZ", "instant+00"}
MCCharacters == Special \cup Numeral \cup Uuids \cup Booleans \cup Instants \cup
                {"a", "x", "NaN", "label", "value", "count", "id", "up", "at"}

MCTables(s) ==
    IF s = TextSchema
    THEN QuotedRows \cup
         {<< << <<"a">>, <<"0", ".", "1">> >>, << <<>>, <<"1">> >> >>, << << <<"a">>, NaN >> >>,
          << << <<"a", "LF">>, <<"1">> >> >>,
          << << <<"a", "DQUOTE">>, <<"1">> >>, << <<"DQUOTE", "COMMA">>, <<"1">> >> >>}
    ELSE {<<>>}

\* Numbers on both sides of the largest exponent, 2, among them zeros.
Numerals == UNION {[1 .. n -> Numeral] : n \in 1 .. 3} \cup
            {<<"1", "0", "0", "0">>, <<"-", "1", "1">>, <<"-", "1", "0", "0">>,
             <<"1", "e", "1", "0">>, <<"0", "e", "1", "1">>, <<"1", "e", "-", "1", "1">>,
             <<"1", "0", "e", "1">>, <<"1", "0", "0", "e", "1">>, <<"1", "0", "0", "0", "e", "-", "1">>,
             <<"0", ".", "1", "e", "+", "1">>, <<"0", ".", "0", "1", "e", "1", "0">>,
             <<"0", ".", "0", "e", "1", "0">>, <<"-", "0", ".", "0">>, <<"1", ".", "1", "e">>}

\* Texts in the style of a writer that quotes what it must.
Line(values) == EncodeRecord(values)
Header(s) == Line(Names(s))

Document(artifacts) ==
    << <<"exportBundle", [version |-> "2.0", at |-> 9]>>,
       <<"metadata", [depth |-> 2, longest |-> 1, bytes |-> 1]>>,
       <<"provenance", <<>> >>, <<"artifacts", artifacts>> >>
Describes(s, text, count) ==
    [kind |-> "table_export", format |-> "csv", uri |-> "relative",
     fingerprint |-> Digest(s), contentHash |-> Digest(text),
     rowCount |-> count, byteCount |-> Len(text), schema |-> s]
Producer(s, text, rows) ==
    [wire |-> Document(<<Describes(s, text, Len(rows))>>), artifact |-> text, rows |-> rows]

\* Manifests and documents with one thing wrong each.
Misdescribed(s, text) ==
    LET good == Describes(s, text, 1) IN
    {[good EXCEPT !.kind = "bundle"], [good EXCEPT !.byteCount = NoCount],
     [good EXCEPT !.byteCount = Limits.artifact + 1], [good EXCEPT !.contentHash = <<"hex", text>>],
     [good EXCEPT !.uri = "/absolute"], [good EXCEPT !.fingerprint = Digest(IntSchema)],
     [good EXCEPT !.schema.profile = "other"], [good EXCEPT !.rowCount = 2]} \cup
    {[good EXCEPT !.schema = Schema(columns), !.fingerprint = Digest(Schema(columns))] :
        columns \in {<<LongColumn>>, <<Column("a", "String"), LongColumn, LongColumn>>}}
WithMember(doc, key, value) ==
    [i \in DOMAIN doc |-> IF doc[i][1] = key THEN <<key, value>> ELSE doc[i]]

MCForeign(s) ==
    IF s = TextSchema
    THEN LET row   == << <<"a", "DQUOTE">>, <<"1">> >>
             text  == Header(s) \o Line(row)
             good  == Document(<<Describes(s, text, 1)>>)
             wires == {Document(<<m>>) : m \in Misdescribed(s, text)} \cup
                      {Document(<<>>), Document(<<Describes(s, text, 1), Describes(s, text, 1)>>),
                       Document(<<Describes(s, text, 1), [Describes(s, text, 1) EXCEPT !.uri = "/x"]>>),
                       WithMember(good, "exportBundle", [version |-> "1.0", at |-> 9]),
                       WithMember(good, "metadata", [depth |-> 9, longest |-> 1, bytes |-> 1]),
                       WithMember(good, "metadata", [depth |-> 2, longest |-> 1, bytes |-> 9]),
                       WithMember(good, "provenance", <<[at |-> 0, activity |-> "x", longest |-> 9]>>)}
             texts == {<<"BOM">> \o text, <<"not-utf8">> \o text, Front(text), text \o <<"x">>,
                       Header(s) \o <<"a", "DQUOTE", "DQUOTE", "COMMA", "1">> \o CRLF,
                       Header(s) \o <<"a", "COMMA", "1", "LF">>, Header(s) \o <<"a">> \o CRLF,
                       Line(<< <<"x">>, <<"value">> >>)}
             \* A quoted part with a rest, a carriage return alone.
             odd   == {<< <<"DQUOTE", "a", "DQUOTE", "x">>, <<"a", "x">> >>,
                       << <<"a", "CR", "x">>, <<"a", "CR", "x">> >>}
         IN  UNION {{Producer(s, t, rows) : t \in Sheets(s, rows)} : rows \in QuotedRows} \cup
             {[wire |-> w, artifact |-> text, rows |-> <<row>>] : w \in wires} \cup
             {Producer(s, t, << << <<"unreadable">> >> >>) : t \in texts} \cup
             {Producer(s, Header(s) \o o[1] \o <<"COMMA", "1">> \o CRLF, << <<o[2], <<"1">> >> >>) :
                  o \in odd} \cup
             {Producer(IntSchema, Header(IntSchema) \o Line(<< <<"1">> >>), << << <<"1">> >> >>)}
    ELSE IF s = KindSchema
    THEN {Producer(s, Header(s) \o Line(row), <<row>>) :
             row \in {<< <<u>>, <<b>>, <<t>> >> : u \in Uuids, b \in Booleans, t \in Instants}}
    ELSE {Producer(s, Header(s) \o Line(<<v>>), << <<v>> >>) : v \in Numerals} \cup
         {Producer(s, Header(s) \o Line(<< <<"1">> >>) \o Line(<< <<"0">> >>) \o Line(<< <<"1">> >>),
                   << << <<"1">> >>, << <<"0">> >>, << <<"1">> >> >>)}

MCLimits == [bundle |-> 3, fixedBytes |-> 1, entryBytes |-> 1, depth |-> 6, string |-> 4,
             extension |-> 4, artifacts |-> 2, artifact |-> 20, total |-> 60, rows |-> 2, columns |-> 3]
=============================================================================
