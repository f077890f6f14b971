---------------------------- MODULE HttpMessages ----------------------------
(***************************************************************************)
(* Texts that the client and the server exchange: how utility.hpp encodes, *)
(* writes and parses them, and where the client finds the end of a header. *)
(* A text is a sequence of bytes; a multimap is the sequence of its pairs  *)
(* <<name, value>> in the order they were put in.                          *)
(***************************************************************************)
EXTENDS Integers, SequencesExt

LF == 10   CR == 13   SP == 32   QUOTE == 34   PERCENT == 37   AMP == 38
PLUS == 43   MINUS == 45   SLASH == 47   COLON == 58   SEMICOLON == 59   EQUALS == 61   QUESTION == 63
HTTP == <<72, 84, 84, 80>>
V11 == <<49, 46, 49>>      \* 1.1
CRLF == <<CR, LF>>

\* std::string::find, from a place on, and substr; a text's end is its length + 1.
Find(text, byte, from) ==
    LET places == {i \in from .. Len(text) : text[i] = byte}
    IN  IF places = {} THEN 0 ELSE Min(places)

Slice(text, from, end) == SubSeq(text, from, end - 1)
From(text, from) == SubSeq(text, from, Len(text))
-----------------------------------------------------------------------------
(* Percent *)

Digits == 48 .. 57
Letters == 65 .. 90 \cup 97 .. 122
Unreserved == Digits \cup Letters \cup {45, 46, 95, 126}

HexChar(n) == IF n < 10 THEN 48 + n ELSE 55 + n

Code(byte) ==
    IF byte \in Unreserved THEN <<byte>>
    ELSE <<PERCENT, HexChar(byte \div 16), HexChar(byte % 16)>>
Encode(value) == FlattenSeq([i \in DOMAIN value |-> Code(value[i])])

\* strtol of two characters: a blank or a sign may come first, what is not a digit
\* ends the number, and a negative one becomes the byte of its last eight bits.
HexDigits == Digits \cup 65 .. 70 \cup 97 .. 102
Blanks == 9 .. 13 \cup {SP}
HexValue(byte) == IF byte \in Digits THEN byte - 48 ELSE (byte % 32) + 9
HexByte(first, second) ==
    CASE first \in HexDigits /\ second \in HexDigits -> 16 * HexValue(first) + HexValue(second)
      [] first \in HexDigits /\ second \notin HexDigits -> HexValue(first)
      [] first \in Blanks \cup {PLUS} /\ second \in HexDigits -> HexValue(second)
      [] first = MINUS /\ second \in HexDigits -> (-HexValue(second)) % 256
      [] OTHER -> 0

HasCode(value, i) == i + 2 <= Len(value)

NotDecoded == [text |-> <<>>, skip |-> 0]
DecodeNext(value, acc, i) ==
    CASE acc.skip > 0 -> [acc EXCEPT !.skip = @ - 1]
      [] acc.skip = 0 /\ value[i] = PERCENT /\ HasCode(value, i) ->
            [text |-> Append(acc.text, HexByte(value[i + 1], value[i + 2])), skip |-> 2]
      [] OTHER ->
            [acc EXCEPT !.text = Append(@, IF value[i] = PLUS THEN SP ELSE value[i])]
Decode(value) ==
    FoldLeftDomain(LAMBDA acc, i : DecodeNext(value, acc, i), NotDecoded, value).text
-----------------------------------------------------------------------------
(* QueryString *)

Joined(texts, byte) ==
    FlattenSeq([i \in DOMAIN texts |-> IF i = 1 THEN texts[i] ELSE <<byte>> \o texts[i]])

CreateQuery(fields) ==
    Joined([i \in DOMAIN fields |-> fields[i][1] \o <<EQUALS>> \o Encode(fields[i][2])], AMP)

\* name: where the name starts; equals: where it ends, if it has.
IsEquals_Mut(text, scan, i) == text[i] = EQUALS
IsEquals(text, scan, i) == text[i] = EQUALS /\ scan.equals = 0

\* A pair is complete: left out if its name is empty.
PairsWith(text, scan, end) ==
    LET name == Slice(text, scan.name, IF scan.equals = 0 THEN end ELSE scan.equals)
        value == IF scan.equals = 0 THEN <<>> ELSE Slice(text, scan.equals + 1, end)
    IN  IF name = <<>> THEN scan.pairs ELSE Append(scan.pairs, <<name, Decode(value)>>)

NoPairs == [pairs |-> <<>>, name |-> 1, equals |-> 0]
ParseNext(text, scan, i) ==
    IF text[i] = AMP THEN [pairs |-> PairsWith(text, scan, i), name |-> i + 1, equals |-> 0]
    ELSE IF IsEquals(text, scan, i) THEN [scan EXCEPT !.equals = i]
    ELSE scan
ParseQuery(text) ==
    PairsWith(text, FoldLeftDomain(LAMBDA scan, i : ParseNext(text, scan, i), NoPairs, text),
              Len(text) + 1)
-----------------------------------------------------------------------------
(* HttpHeader *)

\* getline: what follows the last LF is a line unless it is empty.
NoLines == [lines |-> <<>>, line |-> <<>>]
GetLine(acc, byte) ==
    IF byte = LF THEN [lines |-> Append(acc.lines, acc.line), line |-> <<>>]
    ELSE [acc EXCEPT !.line = Append(@, byte)]
AllLines(last) == IF last.line = <<>> THEN last.lines ELSE Append(last.lines, last.line)
Lines(text) == AllLines(FoldLeft(GetLine, NoLines, text))

\* The last character, a blank or CR, is never skipped.
ValueStart(line, colon) ==
    Min({i \in colon + 1 .. Len(line) + 1 : i >= Len(line) \/ line[i] # SP})

WithoutCR_Mut(line, end) == end
WithoutCR(line, end) == IF end > 1 /\ line[end - 1] = CR THEN end - 1 ELSE end

\* The field of a line, none if nothing follows its colon.
Field(line) ==
    LET colon == Find(line, COLON, 1)
        start == ValueStart(line, colon)
        end == Len(line) + 1
    IN  IF start >= end THEN <<>>
        ELSE <<<<Slice(line, 1, colon), Slice(line, start, WithoutCR(line, end))>>>>

\* The fields end at the first line without a colon.
ParseFields(lines) ==
    LET none == SelectInSeq(lines, LAMBDA line : Find(line, COLON, 1) = 0)
        fields == IF none = 0 THEN lines ELSE Slice(lines, 1, none)
    IN  FlattenSeq([i \in DOMAIN fields |-> Field(fields[i])])

\* Set-Cookie and Content-Disposition: name, equals, value: the places where the
\* attribute, its '=' and its value start.
Between == [name |-> 0, equals |-> 0, value |-> 0]
EndsValue_Mut(byte) == byte = SEMICOLON
EndsValue(byte) == byte \in {QUOTE, SEMICOLON}

AttributeWith(text, scan, value) ==
    Append(scan.pairs, <<Slice(text, scan.at.name, scan.at.equals), Decode(value)>>)
FlagWith(text, scan, end) == Append(scan.pairs, <<Slice(text, scan.at.name, end), <<>>>>)

NoAttributes == [pairs |-> <<>>, at |-> Between]
AttributeNext(text, scan, i) ==
    CASE scan.at.name = 0 ->
            IF text[i] \in {SP, SEMICOLON} THEN scan ELSE [scan EXCEPT !.at.name = i]
      [] scan.at.name # 0 /\ scan.at.equals = 0 ->
            IF text[i] = SEMICOLON THEN [pairs |-> FlagWith(text, scan, i), at |-> Between]
            ELSE IF text[i] = EQUALS THEN [scan EXCEPT !.at.equals = i]
            ELSE scan
      [] scan.at.equals # 0 /\ scan.at.value = 0 ->
            [scan EXCEPT !.at.value =
                IF text[i] = QUOTE /\ i < Len(text) THEN i + 1 ELSE i]
      [] OTHER ->
            IF EndsValue(text[i])
            THEN [pairs |-> AttributeWith(text, scan, Slice(text, scan.at.value, i)), at |-> Between]
            ELSE scan

LastAttribute(text, last) ==
    CASE last.at.name = 0 -> last.pairs
      [] last.at.name # 0 /\ last.at.equals = 0 -> FlagWith(text, last, Len(text) + 1)
      [] last.at.equals # 0 /\ last.at.value = 0 -> last.pairs
      [] OTHER -> AttributeWith(text, last, From(text, last.at.value))

ParseAttributes(text) ==
    LastAttribute(text,
        FoldLeftDomain(LAMBDA scan, i : AttributeNext(text, scan, i), NoAttributes, text))
-----------------------------------------------------------------------------
(* RequestMessage and ResponseMessage *)

Failed == [ok |-> FALSE]

QueryStart_Mut(line, from, end) ==
    LET places == {i \in from .. end - 1 : line[i] = QUESTION}
    IN  IF places = {} THEN 0 ELSE Max(places)
QueryStart(line, from, end) ==
    LET place == Find(line, QUESTION, from)
    IN  IF place < end THEN place ELSE 0

\* The version is what follows the slash up to the last character of the line,
\* which is taken for CR.
ParseRequest(text) ==
    LET lines == Lines(text)
        line == lines[1]
        methodEnd == Find(line, SP, 1)
        targetEnd == Find(line, SP, methodEnd + 1)
        query == QueryStart(line, methodEnd + 1, targetEnd)
        slash == Find(line, SLASH, targetEnd + 1)
    IN  IF lines = <<>> \/ methodEnd = 0 \/ targetEnd = 0 \/ slash = 0
              \/ Slice(line, targetEnd + 1, slash) # HTTP
        THEN Failed
        ELSE [ok |-> TRUE,
              method |-> Slice(line, 1, methodEnd),
              path |-> Slice(line, methodEnd + 1, IF query = 0 THEN targetEnd ELSE query),
              query |-> IF query = 0 THEN <<>> ELSE Slice(line, query + 1, targetEnd),
              version |-> Slice(line, slash + 1, Len(line)),
              header |-> ParseFields(Tail(lines))]

\* The five characters before the version are not looked at.  When the first blank
\* is one of them, the length of the version wraps round: it is the rest of the line.
ParseResponse(text) ==
    LET lines == Lines(text)
        line == lines[1]
        versionEnd == Find(line, SP, 1)
    IN  IF lines = <<>> \/ versionEnd = 0 \/ Len(line) <= 5 \/ versionEnd = Len(line)
        THEN Failed
        ELSE [ok |-> TRUE,
              version |-> IF versionEnd < 6 THEN From(line, 6) ELSE Slice(line, 6, versionEnd),
              status |-> Slice(line, versionEnd + 1, WithoutCR(line, Len(line) + 1)),
              header |-> ParseFields(Tail(lines))]
-----------------------------------------------------------------------------
(* What the client and the server write *)

FieldLines(fields) ==
    FlattenSeq([i \in DOMAIN fields |-> fields[i][1] \o <<COLON, SP>> \o fields[i][2] \o CRLF])

Host == <<72, 111, 115, 116>>

CorrectedPath(path) == IF path = <<>> THEN <<SLASH>> ELSE path

\* create_request_header, without a proxy; request() ends it.
RequestHeader(method, path, host, fields) ==
    method \o <<SP>> \o CorrectedPath(path) \o <<SP>> \o HTTP \o <<SLASH>> \o V11 \o CRLF
        \o FieldLines(<<<<Host, host>>>> \o fields) \o CRLF

\* Response::write, with a status and fields.
ResponseHeader(status, fields) ==
    HTTP \o <<SLASH>> \o V11 \o <<SP>> \o status \o CRLF \o FieldLines(fields) \o CRLF

\* write_header: Content-Length is added unless a field tells how long the content is,
\* or the connection is closed after it.  A field's name is compared without case, and
\* so is its value.
Lower(value) == IF value = "Chunked" THEN "chunked" ELSE value

Delimits_Mut(field) == field.name \in {"content-length", "transfer-encoding"}
Delimits(field) ==
    \/ field.name = "content-length"
    \/ field.name = "transfer-encoding" /\ Lower(field.value) = "chunked"

WrittenFields(fields, closes) ==
    IF closes \/ \E i \in DOMAIN fields : Delimits(fields[i]) THEN fields
    ELSE Append(fields, [name |-> "content-length", value |-> "size"])

\* How the client then reads the content; a value is compared as it is.  Which of
\* several fields of a name find returns is left open: a value is sure if all have it.
Has(fields, name) == \E i \in DOMAIN fields : fields[i].name = name
HasValue(fields, name, value) ==
    /\ Has(fields, name)
    /\ \A i \in DOMAIN fields : fields[i].name = name => fields[i].value = value

ContentEnd(fields) ==
    CASE Has(fields, "content-length") -> "length"
      [] HasValue(fields, "transfer-encoding", "chunked") /\ ~Has(fields, "content-length") -> "chunked"
      [] OTHER -> IF HasValue(fields, "connection", "close") THEN "until_eof" ELSE "none"
-----------------------------------------------------------------------------
(* HeaderEndMatch *)

AfterLF(crlfcrlf) == IF crlfcrlf = 1 THEN 2 ELSE IF crlfcrlf = 2 THEN 0 ELSE crlfcrlf
AfterCR_Mut(crlfcrlf) == IF crlfcrlf = 0 THEN 1 ELSE 0
AfterCR(crlfcrlf) == IF crlfcrlf \in {0, 2} THEN crlfcrlf + 1 ELSE 0

\* operator(): one character more, which may be the last of the header.
Match(text, scan, i) ==
    CASE scan.end # 0 -> scan
      [] scan.end = 0 /\ text[i] = LF ->
            IF scan.crlfcrlf = 3 \/ scan.lflf = 1 THEN [scan EXCEPT !.end = i]
            ELSE [scan EXCEPT !.crlfcrlf = AfterLF(@), !.lflf = 1]
      [] scan.end = 0 /\ text[i] = CR ->
            [scan EXCEPT !.crlfcrlf = AfterCR(@), !.lflf = 0]
      [] OTHER -> [scan EXCEPT !.crlfcrlf = 0, !.lflf = 0]

\* Where the header ends, 0 if it does not.
NoMatch == [crlfcrlf |-> 0, lflf |-> 0, end |-> 0]
HeaderEnd(text) ==
    FoldLeftDomain(LAMBDA scan, i : Match(text, scan, i), NoMatch, text).end
-----------------------------------------------------------------------------
(* The texts that are checked: they grow one part at a time, of a kind's parts. *)

CONSTANTS
    Parts,          \* for each kind, what its texts are made of
    MaxParts        \* bound, for each kind: how many

\* A field is a name and a value, a byte is a byte.  A target has no blanks, and like a
\* status and a value no line ends.  An attribute has a name, and a value only if it is
\* not a flag: one that is not quoted is not empty, and neither has what would end it.
IsAttribute(a) ==
    /\ a \in [name : Seq(0 .. 255), form : {"flag", "plain", "quoted"}, value : Seq(0 .. 255)]
    /\ a.name # <<>> /\ a.name[1] # SP
    /\ \A i \in DOMAIN a.name : a.name[i] \notin {SEMICOLON, EQUALS}
    /\ a.form = "plain" => a.value # <<>>
    /\ \A i \in DOMAIN a.value : a.value[i] \notin {QUOTE, SEMICOLON}

ASSUME PartsAssumption ==
    /\ "fields" \in DOMAIN Parts => Parts["fields"] \subseteq [name : STRING, value : STRING]
    /\ \A k \in {"value", "query"} \cap DOMAIN Parts : Parts[k] \subseteq 0 .. 255
    /\ "attributes" \in DOMAIN Parts => \A a \in Parts["attributes"] : IsAttribute(a)
    /\ "target" \in DOMAIN Parts => Parts["target"] \subseteq 0 .. 255 \ {SP, CR, LF}
    /\ "status" \in DOMAIN Parts => Parts["status"] \subseteq 0 .. 255 \ {CR, LF}

VARIABLES kind, text

MessageInit == kind \in DOMAIN Parts /\ text = <<>>

Grow ==
    /\ Len(text) < MaxParts[kind]
    /\ \E part \in Parts[kind] : text' = Append(text, part)
    /\ UNCHANGED kind

MessageSpec == MessageInit /\ [][Grow]_<<kind, text>>

\* A query is its pieces between '&', each with its value after its first '='; those
\* without a name are left out.  Query strings are read back as they were created:
\* encoding loses nothing, and leaves nothing but letters, digits and codes.
PieceStart(bytes, end) == Max({0} \cup {i \in 1 .. end - 1 : bytes[i] = AMP}) + 1

NamedPair(piece) ==
    LET equals == Find(piece, EQUALS, 1)
        name == IF equals = 0 THEN piece ELSE Slice(piece, 1, equals)
        value == IF equals = 0 THEN <<>> ELSE Decode(From(piece, equals + 1))
    IN  IF name = <<>> THEN <<>> ELSE <<<<name, value>>>>

PairsEndingAt(bytes, end) ==
    IF end = Len(bytes) + 1 \/ bytes[end] = AMP
    THEN NamedPair(Slice(bytes, PieceStart(bytes, end), end)) ELSE <<>>

QueryIsItsPairs ==
    /\ kind = "query" =>
        ParseQuery(text) = FlattenSeq([end \in 1 .. Len(text) + 1 |-> PairsEndingAt(text, end)])
    /\ kind = "value" =>
        LET fields == <<<<<<97>>, text>>, <<<<98>>, Reverse(text)>>>>
        IN  /\ ParseQuery(CreateQuery(fields)) = fields
            /\ \A i \in DOMAIN Encode(text) : Encode(text)[i] \in Unreserved \cup {PERCENT}

\* Attributes are read as they were written.  (But an empty value that is not quoted
\* takes the next attribute with it, and a semicolon ends a quoted value, too.)
AttributeText(a) ==
    a.name \o CASE a.form = "flag" -> <<>>
                [] a.form = "plain" -> <<EQUALS>> \o a.value
                [] a.form = "quoted" -> <<EQUALS, QUOTE>> \o a.value \o <<QUOTE>>

AttributePair(a) == <<a.name, IF a.form = "flag" THEN <<>> ELSE Decode(a.value)>>

AttributesAreParsed ==
    kind = "attributes" =>
        LET pairs == [i \in DOMAIN text |-> AttributePair(text[i])]
            texts == [i \in DOMAIN text |-> AttributeText(text[i])]
        IN  /\ ParseAttributes(Joined(texts, SEMICOLON)) = pairs
            /\ ParseAttributes(<<SP>> \o Joined([i \in DOMAIN texts |-> <<SP>> \o texts[i]], SEMICOLON))
                 = pairs

\* What the client writes for a path without blanks and fields is what the server's
\* parser finds, its query after the first question mark; another protocol is refused.
Method == <<71>>
HostName == <<104, COLON, 49>>
FieldName == <<120>>
ServerReadsRequest ==
    kind = "target" =>
        LET target == IF text = <<>> THEN <<SLASH>> ELSE text
            question == Find(target, QUESTION, 1)
            fields == <<<<FieldName, <<121, COLON>>>>, <<FieldName, <<>>>>>>
            request == ParseRequest(RequestHeader(Method, text, HostName, fields))
        IN  /\ request.ok
            /\ request.method = Method /\ request.version = V11
            /\ IF question = 0 THEN request.path = target /\ request.query = <<>>
               ELSE /\ request.path = Slice(target, 1, question)
                    /\ request.query = From(target, question + 1)
            /\ request.header = <<<<Host, HostName>>>> \o fields
            /\ ~ParseRequest(Method \o <<SP>> \o target \o <<SP>> \o Tail(HTTP) \o <<SLASH>> \o V11).ok

\* What the server writes is what the client's parser finds, and it ends where the
\* client finds the end.
ClientReadsResponse ==
    kind = "status" =>
        LET header == ResponseHeader(<<50, SP>> \o text, <<<<FieldName, text>>>>)
            response == ParseResponse(header)
            first == Min({i \in 1 .. Len(text) + 1 : i > Len(text) \/ text[i] # SP})
        IN  /\ response.ok /\ response.version = V11
            /\ response.status = <<50, SP>> \o text
            /\ response.header = <<<<FieldName, From(text, first)>>>>
            /\ HeaderEnd(header \o text) = Len(header)

\* The client knows where the content of such a response ends.  (A second
\* Transfer-Encoding field, or "Chunked", would make it miss the chunks.)
ContentIsDelimited ==
    kind = "fields" =>
        LET encodings == {i \in DOMAIN text : text[i].name = "transfer-encoding"}
        IN  Cardinality(encodings) <= 1 /\ (\A i \in encodings : text[i].value # "Chunked") =>
                ContentEnd(WrittenFields(text, FALSE)) \in {"length", "chunked"}

\* The header ends with the first empty line, whether lines end in CR LF or LF - as
\* long as no two CR come together, which makes the match lose its place.
HeaderEndsAtEmptyLine ==
    kind = "end" /\ (\A i \in 1 .. Len(text) - 1 : text[i] # CR \/ text[i + 1] # CR) =>
        LET Ends(i, mark) == i >= Len(mark) /\ SubSeq(text, i - Len(mark) + 1, i) = mark
            ends == {i \in DOMAIN text : Ends(i, CRLF \o CRLF) \/ Ends(i, <<LF, LF>>)}
        IN  HeaderEnd(text) = IF ends = {} THEN 0 ELSE Min(ends)
=============================================================================
