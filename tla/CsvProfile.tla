----------------------------- MODULE CsvProfile -----------------------------
(***************************************************************************)
(* The tabular CSV profile of crates/queryfabric-portability/src/import.rs:*)
(* the writer, the character by character reader, and the lexical rules of *)
(* the scalar types.  A text is a sequence of characters; a run of         *)
(* characters that no rule tells apart (a word, a timestamp, a UUID) is    *)
(* one character of the model.                                             *)
(***************************************************************************)
EXTENDS Integers, Sequences, SequencesExt

CONSTANTS
    Int64Max,       \* stands for 2^63 - 1
    MaxExponent,    \* stands for 308: with the digits 0 and 1 alone a number is a
                    \* finite f64 when its first digit stands for at most 10^308
    MaxNameBytes    \* stands for 256, the longest name of a column

ASSUME CsvAssumptions == {Int64Max, MaxExponent, MaxNameBytes} \subseteq Nat

Digits == {"0", "1"}
Newline == {"CR", "LF"}
Special == Newline \cup {"COMMA", "DQUOTE"}
CRLF == <<"CR", "LF">>

\* Members of a schema: [profile, columns], a column being [name, type]; the
\* name is a text.
Profile1 == "queryfabric.tabular-csv/1"
Names(schema) == [i \in DOMAIN schema.columns |-> schema.columns[i].name]

\* What a step of the reader or the writer failed with, if it failed.
Refused(why) == [ok |-> FALSE, why |-> why, rows |-> <<>>, text |-> <<>>]
Written(text) == [ok |-> TRUE, why |-> "none", rows |-> <<>>, text |-> text]
Read(rows) == [ok |-> TRUE, why |-> "none", rows |-> rows, text |-> <<>>]

-----------------------------------------------------------------------------
(* Faulty variants of definitions below.                                   *)

\* Quotes inside a field are not doubled.
EncodeCsvField_NotDoubled(value) ==
    IF ToSet(value) \cap Special # {} THEN <<"DQUOTE">> \o value \o <<"DQUOTE">> ELSE value

\* A leading zero is let through.
IntegerPart_LeadingZero(value, start) ==
    LET stop == CHOOSE k \in start .. Len(value) + 1 :
                   /\ \A j \in start .. k - 1 : value[j] \in Digits
                   /\ k <= Len(value) => value[k] \notin Digits
    IN  IF stop = start THEN 0 ELSE stop

-----------------------------------------------------------------------------
(* Lexical rules.                                                          *)

\* Index of the first character from start on that is no digit.
SkipDigits(value, start) ==
    CHOOSE k \in start .. Len(value) + 1 :
        /\ \A j \in start .. k - 1 : value[j] \in Digits
        /\ k <= Len(value) => value[k] \notin Digits

\* The number a sequence of digits stands for.
DigitsValue(digits) ==
    FoldLeft(LAMBDA n, d : 10 * n + (IF d = "1" THEN 1 ELSE 0), 0, digits)

Unsigned(value) == IF value # <<>> /\ Head(value) = "-" THEN Tail(value) ELSE value

\* str::parse::<i64>, which also takes a leading plus.
ParsesAsI64(value) ==
    LET digits == IF value # <<>> /\ Head(value) \in {"-", "+"} THEN Tail(value) ELSE value
    IN  /\ digits # <<>>
        /\ ToSet(digits) \subseteq Digits
        /\ DigitsValue(digits) <= Int64Max + (IF Head(value) = "-" THEN 1 ELSE 0)

ValidInteger(value) ==
    /\ value # <<>> /\ Head(value) # "+" /\ ParsesAsI64(value)
    /\ LET digits == Unsigned(value) IN digits = <<"0">> \/ Head(digits) # "0"

\* Index behind the integer part, 0 if there is none or it has a leading zero.
IntegerPart(value, start) ==
    LET stop == SkipDigits(value, start)
    IN  IF stop = start \/ (stop - start > 1 /\ value[start] = "0") THEN 0 ELSE stop

\* Index behind a fraction that may be absent, 0 if it has no digits.
FractionPart(value, start) ==
    IF start > Len(value) \/ value[start] # "." THEN start
    ELSE LET stop == SkipDigits(value, start + 1) IN IF stop = start + 1 THEN 0 ELSE stop

\* Index behind an exponent that may be absent, 0 if it has no digits.
ExponentPart(value, start) ==
    IF start > Len(value) \/ value[start] # "e" THEN start
    ELSE LET first == IF start + 1 <= Len(value) /\ value[start + 1] \in {"+", "-"}
                        THEN start + 2 ELSE start + 1
             stop  == SkipDigits(value, first)
         IN  IF stop = first THEN 0 ELSE stop

\* The exponent of a well-formed decimal, 0 if it has none.
ExponentOf(value) ==
    LET marks    == {i \in DOMAIN value : value[i] = "e"}
        exponent == SubSeq(value, (CHOOSE i \in marks : TRUE) + 1, Len(value))
    IN  IF marks = {} THEN 0
        ELSE CASE Head(exponent) = "-" -> -DigitsValue(Tail(exponent))
               [] Head(exponent) = "+" -> DigitsValue(Tail(exponent))
               [] OTHER                -> DigitsValue(exponent)

\* Whether the f64 next to a well-formed decimal is finite: no digit of it but
\* zeros stands for more than 10^MaxExponent.
Finite(value) ==
    LET point    == SkipDigits(value, IF Head(value) = "-" THEN 2 ELSE 1)
        power(i) == ExponentOf(value) + (IF i < point THEN point - i - 1 ELSE point - i)
    IN  \A i \in DOMAIN value :
            value[i] \in Digits \ {"0"} /\ (\A j \in 1 .. i : value[j] # "e")
                => power(i) <= MaxExponent

ValidFloat(value) ==
    LET start    == IF value # <<>> /\ Head(value) = "-" THEN 2 ELSE 1
        integer  == IntegerPart(value, start)
        fraction == IF integer = 0 THEN 0 ELSE FractionPart(value, integer)
        exponent == IF fraction = 0 THEN 0 ELSE ExponentPart(value, fraction)
    IN  exponent # 0 /\ exponent = Len(value) + 1 /\ Finite(value)

\* The four spellings the uuid crate parses, in lower case; RFC 3339 offsets
\* other than Z do not pass.
UuidTexts == {<<"uuid">>, <<"uuid-simple">>, <<"uuid-urn">>, <<"uuid-braced">>}

ValidValue(value, type) ==
    CASE type = "Boolean"   -> value \in {<<"true">>, <<"false">>}
      [] type = "Int64"     -> ValidInteger(value)
      [] type = "Float64"   -> ValidFloat(value)
      [] type = "String"    -> TRUE
      [] type = "Uuid"      -> value \in UuidTexts
      [] type = "Timestamp" -> value = <<"instantZ">>

ValidateValues(row, schema) ==
    \A i \in DOMAIN schema.columns : ValidValue(row[i], schema.columns[i].type)

ValidateSchema(schema, maxColumns) ==
    /\ schema.profile = Profile1
    /\ Len(schema.columns) \in 1 .. maxColumns
    /\ \A name \in ToSet(Names(schema)) : Len(name) \in 1 .. MaxNameBytes
    /\ IsInjective(Names(schema))

-----------------------------------------------------------------------------
(* The writer.                                                             *)

Doubled(value) ==
    FlattenSeq([i \in DOMAIN value |->
                   IF value[i] = "DQUOTE" THEN <<value[i], value[i]>> ELSE <<value[i]>>])

InQuotes(value) == <<"DQUOTE">> \o Doubled(value) \o <<"DQUOTE">>

EncodeCsvField(value) ==
    IF ToSet(value) \cap Special # {} THEN InQuotes(value) ELSE value

Separator(i) == IF i = 1 THEN <<>> ELSE <<"COMMA">>

EncodeRecord(values) ==
    FlattenSeq([i \in DOMAIN values |-> Separator(i) \o EncodeCsvField(values[i])]) \o CRLF

\* A JSON value is [kind, text].  Strings pass for every type and meet its
\* lexical rule afterwards.
ValueHasText(value, type) ==
    \/ value.kind = "string"
    \/ value.kind = "bool" /\ type = "Boolean"
    \/ value.kind = "number" /\ type \in {"Int64", "Float64"}

\* A row is a JSON object: a function from names to values.
WriteTabularCsv(schema, rows, limits) ==
    LET texts(row) == [i \in DOMAIN schema.columns |-> row[schema.columns[i].name].text]
        writable(row) ==
            /\ DOMAIN row = ToSet(Names(schema))
            /\ \A i \in DOMAIN schema.columns :
                 ValueHasText(row[schema.columns[i].name], schema.columns[i].type)
            /\ ValidateValues(texts(row), schema)
    IN  IF /\ ValidateSchema(schema, limits.columns)
           /\ Len(rows) <= limits.rows
           /\ \A row \in ToSet(rows) : writable(row)
        THEN Written(EncodeRecord(Names(schema)) \o
                     FlattenSeq([i \in DOMAIN rows |-> EncodeRecord(texts(rows[i]))]))
        ELSE Refused("row")

-----------------------------------------------------------------------------
(* Other writers.  The profile lets a field stand in quotes that needs     *)
(* none.                                                                   *)

Styles == {"quoted", "needed"}

Spelling(value, style) == IF style = "quoted" THEN InQuotes(value) ELSE EncodeCsvField(value)

Fields(values, styles) ==
    [i \in DOMAIN values |-> Separator(i) \o Spelling(values[i], styles[i])]
RecordText(values, styles) == FlattenSeq(Fields(values, styles)) \o CRLF

Lines(rows, styles) == [i \in DOMAIN rows |-> RecordText(rows[i], styles[i])]
Sheet(schema, rows, top, styles) ==
    RecordText(Names(schema), top) \o FlattenSeq(Lines(rows, styles))

\* Every legal text of a table.
Sheets(schema, rows) ==
    {Sheet(schema, rows, top, styles) :
        top \in [DOMAIN schema.columns -> Styles],
        styles \in [DOMAIN rows -> [DOMAIN schema.columns -> Styles]]}

-----------------------------------------------------------------------------
(* The reader.                                                             *)

ReaderStart == [rows |-> <<>>, row |-> <<>>, field |-> <<>>, quoted |-> FALSE,
                started |-> FALSE, ended |-> FALSE, header |-> FALSE,
                skip |-> FALSE, why |-> "none"]

\* A record is complete: the header, or a row.
EndRecord(s, schema, limits) ==
    LET row   == Append(s.row, s.field)
        clean == [s EXCEPT !.row = <<>>, !.field = <<>>, !.started = FALSE,
                           !.ended = TRUE, !.skip = TRUE]
    IN  CASE Len(row) # Len(schema.columns) -> [s EXCEPT !.why = "fields"]
          [] Len(row) = Len(schema.columns) /\ ~s.header ->
               IF row = Names(schema) THEN [clean EXCEPT !.header = TRUE]
                                      ELSE [s EXCEPT !.why = "header"]
          [] OTHER ->
               IF ~ValidateValues(row, schema) THEN [s EXCEPT !.why = "value"]
               ELSE IF Len(s.rows) >= limits.rows THEN [s EXCEPT !.why = "rows"]
               ELSE [clean EXCEPT !.rows = Append(@, row)]

\* One turn of the loop of parse_csv; next is the character that follows.
ReadCharacter(s, c, next, schema, limits) ==
    CASE s.why # "none" -> s
      [] s.why = "none" /\ s.skip -> [s EXCEPT !.skip = FALSE]
      [] s.why = "none" /\ ~s.skip /\ s.quoted ->
           CASE c = "DQUOTE" /\ next = "DQUOTE" -> [s EXCEPT !.field = Append(@, c), !.skip = TRUE]
             [] c = "DQUOTE" /\ next # "DQUOTE" -> [s EXCEPT !.quoted = FALSE]
             [] c \in Newline           -> [s EXCEPT !.why = "newline"]
             [] OTHER                   -> [s EXCEPT !.field = Append(@, c)]
      [] OTHER ->
           CASE c = "DQUOTE" -> IF s.started THEN [s EXCEPT !.why = "quote"]
                            ELSE [s EXCEPT !.quoted = TRUE, !.started = TRUE]
             [] c = "COMMA"  -> [s EXCEPT !.row = Append(@, s.field), !.field = <<>>,
                                      !.started = FALSE]
             [] c = "CR" /\ next = "LF" -> EndRecord(s, schema, limits)
             [] c = "LF" -> [s EXCEPT !.why = "crlf"]
             [] OTHER    -> [s EXCEPT !.field = Append(@, c), !.started = TRUE,
                                      !.ended = FALSE]

\* Where the loop is after each character.
ReaderStates(text, schema, limits) ==
    LET next(i) == IF i < Len(text) THEN text[i + 1] ELSE "end"
        states[i \in 0 .. Len(text)] ==
            IF i = 0 THEN ReaderStart
            ELSE ReadCharacter(states[i - 1], text[i], next(i), schema, limits)
    IN  states

ParseCsv(text, schema, limits) ==
    LET final == ReaderStates(text, schema, limits)[Len(text)]
    IN  IF text # <<>> /\ Head(text) = "BOM" THEN Refused("bom")
        ELSE IF "not-utf8" \in ToSet(text) THEN Refused("utf8")
        ELSE IF final.why # "none" THEN Refused(final.why)
        ELSE IF final.quoted \/ ~final.ended \/ final.row # <<>> \/ final.field # <<>>
        THEN Refused("end")
        ELSE Read(final.rows)

DecodeTabularCsv(text, schema, limits) ==
    IF ValidateSchema(schema, limits.columns) THEN ParseCsv(text, schema, limits)
    ELSE Refused("schema")
=============================================================================
