-------------------------------- MODULE Http --------------------------------
(***************************************************************************)
(* HTTP messages (http.h, http.cpp), their text, and the parsers           *)
(* (http_parser.cpp) driven by the automata of the two .rl files.          *)
(*                                                                         *)
(* A program edits a message and writes it with toString; the receiver     *)
(* gives the text to a parser in one piece, as the tests do, and may       *)
(* forward what came out.  A response parser also reads chunk headers.     *)
(* The first line is one step of execute(), and so is each header line.    *)
(*                                                                         *)
(* A text is a record: the parts of its first line, its header lines in    *)
(* order, the size of its body, and the message it was made of.  Header    *)
(* values are not empty and have no blanks.                                *)
(***************************************************************************)
EXTENDS Integers, Sequences, FiniteSets, SequencesExt

CONSTANTS
    Names,       \* header names as they are spelled
    Lower,       \* the name that strcasecmp takes a name for
    Values,      \* values a program gives to headers
    Numeral,     \* Numeral[n] is the text of the number n
    Settable,    \* for each part of the first line, the values a program sets
    Bodies,      \* the sizes of the bodies a program sets
    Extensions,  \* names of the extensions in chunk headers
    NoText,      \* nothing written yet
    MaxSets,     \* bound on changes to a message
    MaxHops      \* bound on messages that are sent

ASSUME HttpAssumption ==
    /\ IsFiniteSet(Names)
    /\ {"connection", "content-length"} \subseteq Names
    /\ Extensions \subseteq Names
    /\ \A n \in Names : Lower[n] \in Names /\ Lower[Lower[n]] = Lower[n]
    /\ \A n \in {"connection", "content-length"} : Lower[n] = n
    /\ Len(Numeral) \in Nat
    /\ DOMAIN Numeral = 1..Len(Numeral)
    /\ \A i, j \in DOMAIN Numeral : Numeral[i] = Numeral[j] => i = j
    /\ Bodies \subseteq 0..Len(Numeral)
    /\ MaxSets \in Nat
    /\ MaxHops \in Nat

VARIABLES
    m_type, m_line, m_headers, m_body, m_close, m_websocket,  \* the program's message
    sets, hops,
    text,                      \* what toString made of it
    p_line, p_headers,         \* m_data of the receiver's parser
    m_error, cs,               \* m_error and m_parser.cs
    todo,                      \* the header lines that execute has not come to
    left                       \* the bytes of the body that it leaves in the buffer

msgVars    == <<m_type, m_line, m_headers, m_body, m_close, m_websocket>>
parserVars == <<p_line, p_headers, m_error, cs, todo, left>>
vars       == <<msgVars, sets, hops, text, parserVars>>
-----------------------------------------------------------------------------
(* Messages.                                                               *)

Types == {"HttpRequest", "HttpResponse"}

LineFields(type) ==
    IF type = "HttpRequest" THEN {"method", "path", "query", "fragment", "version"}
    ELSE {"status", "reason", "version"}

\* The constructors' values for the first line.
NewLine(type, version) ==
    [f \in LineFields(type) |->
        CASE f = "method"  -> "GET"
          [] f = "path"    -> "/"
          [] f = "status"  -> 200
          [] f = "version" -> version
          [] OTHER         -> ""]

HttpStatusToString(status) == IF status = 200 THEN "OK" ELSE "<unknown>"

\* Mutant: names are compared as they are spelled.
sameNameExactly(lhs, rhs) == lhs = rhs

\* Neither name is CaseInsensitiveLess than the other.
sameName(lhs, rhs) == Lower[lhs] = Lower[rhs]

find(headers, key) == {n \in DOMAIN headers : sameName(n, key)}

\* A key that is there keeps its spelling.
setHeader(headers, key, val) ==
    LET keys == IF find(headers, key) = {} THEN {key} ELSE find(headers, key)
    IN  [n \in DOMAIN headers \cup keys |-> IF n \in keys THEN val ELSE headers[n]]

delHeader(headers, key) == Restrict(headers, DOMAIN headers \ find(headers, key))

\* getAs<uint64_t> with default 0.
getHeaderAs(headers, key) ==
    LET hit == {headers[n] : n \in find(headers, key)}
        num == {n \in DOMAIN Numeral : Numeral[n] \in hit}
    IN  IF num = {} THEN 0 ELSE CHOOSE n \in num : TRUE

getContentLength == getHeaderAs(p_headers, "content-length")
-----------------------------------------------------------------------------
(* dump.                                                                   *)

ConnectionLine ==
    IF m_websocket THEN <<>>
    ELSE << <<"connection", IF m_close THEN "close" ELSE "keep-alive">> >>

\* Mutant: the program's own connection header is recognised only in lower case.
HeaderLinesExactly ==
    LET own   == IF m_websocket THEN {} ELSE {"connection"}
        order == SetToSeq(DOMAIN m_headers \ own)
    IN  [i \in DOMAIN order |-> <<order[i], m_headers[order[i]]>>]

\* No two of these lines have the same name, and their order does not matter.
HeaderLines ==
    LET own   == IF m_websocket THEN {} ELSE find(m_headers, "connection")
        order == SetToSeq(DOMAIN m_headers \ own)
    IN  [i \in DOMAIN order |-> <<order[i], m_headers[order[i]]>>]

LengthLine ==
    IF m_body = 0 THEN <<>> ELSE << <<"content-length", Numeral[m_body]>> >>

\* Mutant: the length goes before the program's headers.
FieldsLengthFirst == LengthLine \o ConnectionLine \o HeaderLines

Fields ==
    (IF m_type = "HttpRequest" THEN ConnectionLine \o HeaderLines
                               ELSE HeaderLines \o ConnectionLine) \o LengthLine

dump ==
    [type   |-> m_type,
     line   |-> IF m_type = "HttpResponse" /\ m_line["reason"] = ""
                THEN [m_line EXCEPT !["reason"] = HttpStatusToString(m_line["status"])]
                ELSE m_line,
     fields |-> Fields,
     body   |-> m_body,
     headers |-> m_headers, close |-> m_close, websocket |-> m_websocket]
-----------------------------------------------------------------------------
(* The parsers.  cs is "final" or "error" at the end of the text.          *)

\* HTTP/1.1 and HTTP/1.0.
KnownVersion(version) == version \in {17, 16}

\* HTTP_METHOD_MAP writes this method as "M - SEARCH": CharsToHttpMethod finds it, and
\* the automaton takes "-" for the path and stops at the next blank.
BrokenMethod == "MSEARCH"

\* The callbacks of the first line set these parts of it; no "?" or "#" in the text,
\* no callback, and the part is empty.
Reported(parts) ==
    [f \in LineFields(text.type) |-> IF f \in parts THEN text.line[f]
                                     ELSE NewLine(text.type, 17)[f]]

\* on_request_method, _path, _query, _fragment and _version; the automaton stops at a
\* version it does not know.
requestLine ==
    LET known == KnownVersion(text.line["version"])
    IN  /\ text.type = "HttpRequest"
        /\ m_error' = 0
        /\ left' = text.body
        /\ IF text.line["method"] = BrokenMethod
           THEN /\ p_line' = [Reported({"method"}) EXCEPT !["path"] = "-"]
                /\ cs' = "error" /\ todo' = <<>>
           ELSE /\ p_line' = Reported(LineFields("HttpRequest")
                                      \ (IF known THEN {} ELSE {"version"}))
                /\ cs' = IF known THEN "fields" ELSE "error"
                /\ todo' = IF known THEN text.fields ELSE <<>>

\* on_response_version, _status and _reason.  The automaton takes any digits for the
\* version, and on_response_version objects.  nread is one more than what was read,
\* so the buffer loses the byte that follows.
responseLine ==
    LET known == KnownVersion(text.line["version"])
    IN  /\ text.type = "HttpResponse"
        /\ m_error' = IF known THEN 0 ELSE 1001
        /\ left' = text.body - 1
        /\ p_line' = Reported(LineFields("HttpResponse")
                              \ (IF known THEN {} ELSE {"version"}))
        /\ cs' = "fields"
        /\ todo' = text.fields

hasError == m_error # 0 \/ cs = "error"
isFinished == cs = "final"

\* memmove with a length below zero.
Wild == left < 0
-----------------------------------------------------------------------------
Init ==
    /\ m_type \in Types
    /\ m_line = NewLine(m_type, 17)
    /\ m_headers = <<>>
    /\ m_body = 0
    /\ m_close = TRUE
    /\ m_websocket = FALSE
    /\ sets = 0
    /\ hops = 0
    /\ text = NoText
    /\ p_line = <<>>
    /\ p_headers = <<>>
    /\ m_error = 0
    /\ cs = "none"
    /\ todo = <<>>
    /\ left = 0

\* The program changes its message.
Edit ==
    /\ text = NoText
    /\ sets < MaxSets
    /\ sets' = sets + 1
    /\ UNCHANGED <<m_type, hops, text, parserVars>>

\* setMethod, setVersion, setPath, setQuery, setFragment, setStatus, setReason.
setField(field, v) ==
    /\ Edit
    /\ field \in LineFields(m_type)
    /\ m_line' = [m_line EXCEPT ![field] = v]
    /\ UNCHANGED <<m_headers, m_body, m_close, m_websocket>>

setBody(v) ==
    /\ Edit
    /\ m_body' = v
    /\ UNCHANGED <<m_line, m_headers, m_close, m_websocket>>

setClose(v) ==
    /\ Edit
    /\ m_close' = v
    /\ UNCHANGED <<m_line, m_headers, m_body, m_websocket>>

setWebsocket(v) ==
    /\ Edit
    /\ m_websocket' = v
    /\ UNCHANGED <<m_line, m_headers, m_body, m_close>>

SetHeader(key, val) ==
    /\ Edit
    /\ m_headers' = setHeader(m_headers, key, val)
    /\ UNCHANGED <<m_line, m_body, m_close, m_websocket>>

DelHeader(key) ==
    /\ Edit
    /\ m_headers' = delHeader(m_headers, key)
    /\ UNCHANGED <<m_line, m_body, m_close, m_websocket>>

toString ==
    /\ text = NoText
    /\ hops < MaxHops
    /\ text' = dump
    /\ hops' = hops + 1
    /\ UNCHANGED <<msgVars, sets, parserVars>>

\* A new parser gets the text.
execute ==
    /\ text # NoText
    /\ cs = "none"
    /\ requestLine \/ responseLine
    /\ UNCHANGED <<msgVars, sets, hops, text, p_headers>>

\* Mutant: the whole parser starts afresh.
executeChunkAfresh(ext, after) ==
    /\ cs = "final"
    /\ text.type = "HttpResponse"
    /\ ~Wild
    /\ p_line' = NewLine("HttpResponse", 17)
    /\ p_headers' = <<>>
    /\ m_error' = 0
    /\ cs' = "fields"
    /\ todo' = ext
    /\ left' = after - 1
    /\ UNCHANGED <<msgVars, sets, hops, text>>

\* HttpResponseParser::execute with chunck: only the automaton starts afresh.  An
\* extension is reported by http_field, as a header is.
executeChunk(ext, after) ==
    /\ cs = "final"
    /\ text.type = "HttpResponse"
    /\ ~Wild
    /\ cs' = "fields"
    /\ todo' = ext
    /\ left' = after - 1
    /\ UNCHANGED <<msgVars, sets, hops, text, p_line, p_headers, m_error>>

\* on_request_http_field, on_response_http_field.
http_field ==
    /\ cs = "fields"
    /\ todo # <<>>
    /\ p_headers' = setHeader(p_headers, Head(todo)[1], Head(todo)[2])
    /\ todo' = Tail(todo)
    /\ UNCHANGED <<msgVars, sets, hops, text, p_line, m_error, cs, left>>

\* The blank line behind the headers: execute returns.
header_done ==
    /\ cs = "fields"
    /\ todo = <<>>
    /\ cs' = "final"
    /\ UNCHANGED <<msgVars, sets, hops, text, p_line, p_headers, m_error, todo, left>>

\* The receiver goes on with the message it got and the bytes that follow.
getData ==
    /\ isFinished /\ ~hasError /\ ~Wild
    /\ m_type' = text.type
    /\ m_line' = p_line
    /\ m_headers' = p_headers
    /\ m_body' = left
    /\ m_close' = TRUE
    /\ m_websocket' = FALSE
    /\ text' = NoText
    /\ p_line' = <<>>
    /\ p_headers' = <<>>
    /\ m_error' = 0
    /\ cs' = "none"
    /\ todo' = <<>>
    /\ left' = 0
    /\ UNCHANGED <<sets, hops>>

createResponse ==
    /\ text = NoText
    /\ m_type = "HttpRequest"
    /\ m_type' = "HttpResponse"
    /\ m_line' = NewLine("HttpResponse", m_line["version"])
    /\ m_headers' = <<>>
    /\ m_body' = 0
    /\ m_websocket' = FALSE
    /\ UNCHANGED <<m_close, sets, hops, text, parserVars>>

Next ==
    \/ \E field \in DOMAIN Settable : \E v \in Settable[field] : setField(field, v)
    \/ \E v \in Bodies : setBody(v)
    \/ \E v \in BOOLEAN : setClose(v) \/ setWebsocket(v)
    \/ \E key \in Names : DelHeader(key) \/ \E val \in Values : SetHeader(key, val)
    \/ toString
    \/ execute
    \/ \E e \in Extensions, val \in Values, after \in 0..1 :
           executeChunk(<<>>, after) \/ executeChunk(<< <<e, val>> >>, after)
    \/ http_field
    \/ header_done
    \/ getData
    \/ createResponse

Spec == Init /\ [][Next]_vars
-----------------------------------------------------------------------------
(* Properties.                                                             *)

Accepted == isFinished /\ ~hasError

\* What the value of a header can be.
Texts == Values \cup {Numeral[i] : i \in DOMAIN Numeral} \cup {"close", "keep-alive"}

OneName(headers) ==
    /\ DOMAIN headers \subseteq Names
    /\ \A n \in DOMAIN headers : headers[n] \in Texts
    /\ \A n, o \in DOMAIN headers : Lower[n] = Lower[o] => n = o

\* Messages have their fields, and no two headers whose names differ in case only.
HttpTypeOK ==
    /\ m_type \in Types
    /\ DOMAIN m_line = LineFields(m_type)
    /\ OneName(m_headers)
    /\ m_body \in 0..Len(Numeral)
    /\ OneName(p_headers)
    /\ cs \in {"none", "fields", "final", "error"}
    /\ m_error \in {0, 1001}

\* A message arrives as it was sent, or the parser reports an error: methods that the
\* grammar does not take and versions it does not know included, and whatever chunk
\* headers follow.  Only connection and content-length are the writer's own, and
\* extensions of chunks come on top.
Own(type) ==
    {"connection", "content-length"} \cup
    (IF type = "HttpRequest" THEN {} ELSE {Lower[n] : n \in Extensions})

ArrivesIntact ==
    Accepted =>
        /\ \A field \in LineFields(text.type) : p_line[field] = text.line[field]
        /\ \A n \in Names : Lower[n] \notin Own(text.type) =>
              {text.headers[k] : k \in find(text.headers, n)}
              = {p_headers[k] : k \in find(p_headers, n)}

\* A body is delimited by its size even if the message carries a length of its own
\* that is stale, and in a request it is what remains of the text.
BodyDelimited ==
    Accepted /\ text.body # 0 /\ "content-length" \notin {Lower[n] : n \in Extensions} =>
        /\ getContentLength = text.body
        /\ text.type = "HttpRequest" => left = text.body

\* The text says once whether the connection is closed, and says what m_close says,
\* although a forwarded message still has the header it came with.
OneConnectionLine ==
    text # NoText /\ ~text.websocket =>
        {text.fields[i] : i \in {j \in DOMAIN text.fields :
                                    Lower[text.fields[j][1]] = "connection"}}
        = {<<"connection", IF text.close THEN "close" ELSE "keep-alive">>}
=============================================================================
