----------------------------- MODULE HttpProofs -----------------------------
(***************************************************************************)
(* Proofs about Http: what a text says of its message, and what the        *)
(* parser's headers and the header lines to come say of the text.          *)
(*                                                                         *)
(* The argument: toString writes every header once, in lines that differ   *)
(* from the writer's own, and the length last.  A parser keeps, line by    *)
(* line, that its headers and the lines to come together are those of the  *)
(* text, so nothing is missing when no line is left.                       *)
(***************************************************************************)
EXTENDS Http, SequenceTheorems, FiniteSetTheorems, TLAPS

\* The names of the lines that dump writes on its own.
Writers == {"connection", "content-length"}
Line    == Names \X Texts

\* What a text says: every header of the message but the writer's own has its line,
\* every line but the writer's own is a header, and the length comes last.
Written ==
    text # NoText =>
        /\ text.type \in Types
        /\ DOMAIN text.line = LineFields(text.type)
        /\ OneName(text.headers)
        /\ text.body \in 0..Len(Numeral)
        /\ text.fields \in Seq(Line)
        /\ \A i \in 1..Len(text.fields) :
              Lower[text.fields[i][1]] \notin Writers =>
                 /\ text.fields[i][1] \in DOMAIN text.headers
                 /\ text.fields[i][2] = text.headers[text.fields[i][1]]
        /\ \A n \in DOMAIN text.headers :
              Lower[n] \notin Writers => \E i \in 1..Len(text.fields) : text.fields[i][1] = n
        /\ text.body # 0 =>
              /\ Len(text.fields) # 0
              /\ text.fields[Len(text.fields)] = <<"content-length", Numeral[text.body]>>

\* What the lines read so far have made of the message, and the lines to come.
Lines ==
    /\ todo \in Seq(Line)
    /\ \A i \in 1..Len(todo) :
          Lower[todo[i][1]] \notin Own(text.type) =>
             /\ todo[i][1] \in DOMAIN text.headers
             /\ todo[i][2] = text.headers[todo[i][1]]
    /\ \A k \in DOMAIN p_headers :
          Lower[k] \notin Own(text.type) =>
             \E n \in DOMAIN text.headers : Lower[n] = Lower[k] /\ p_headers[k] = text.headers[n]
    /\ \A n \in DOMAIN text.headers :
          Lower[n] \notin Own(text.type) =>
             \/ \E k \in DOMAIN p_headers : Lower[k] = Lower[n]
             \/ \E i \in 1..Len(todo) : Lower[todo[i][1]] = Lower[n]

\* The length is still to come, as the last line, or it was the last one stored.
Length ==
    text.body # 0 /\ "content-length" \notin {Lower[n] : n \in Extensions} =>
        \/ /\ Len(todo) # 0
           /\ todo[Len(todo)] = <<"content-length", Numeral[text.body]>>
        \/ /\ \A i \in 1..Len(todo) : Lower[todo[i][1]] # "content-length"
           /\ \E k \in DOMAIN p_headers : /\ Lower[k] = "content-length"
                                          /\ p_headers[k] = Numeral[text.body]

Parsing ==
    cs \in {"fields", "final"} =>
        /\ text # NoText
        /\ DOMAIN p_line = LineFields(text.type)
        /\ m_error = 0 => \A f \in LineFields(text.type) : p_line[f] = text.line[f]
        /\ Lines
        /\ Length
        /\ text.type = "HttpRequest" => left = text.body
        /\ left \in -1..Len(Numeral)
        /\ cs = "final" => todo = <<>>

HttpInv ==
    /\ HttpTypeOK
    /\ Written
    /\ OneConnectionLine
    /\ Parsing
    /\ cs = "none" => p_headers = <<>>
    /\ text = NoText => cs = "none"
-----------------------------------------------------------------------------
(* Sets of headers.                                                        *)

\* SetToSeq lists the elements of a finite set.
LEMMA SetToSeqLists ==
    ASSUME NEW S, IsFiniteSet(S)
    PROVE  /\ SetToSeq(S) \in Seq(S)
           /\ DOMAIN SetToSeq(S) = 1..Len(SetToSeq(S))
           /\ \A x \in S : \E i \in 1..Len(SetToSeq(S)) : SetToSeq(S)[i] = x
<1> DEFINE n == Cardinality(S)
           s == SetToSeq(S)
<1>1. n \in Nat /\ ExistsBijection(1..n, S)
  BY FS_CardinalityType
<1>2. \E f \in [1..n -> S] : IsInjective(f)
  BY <1>1 DEF ExistsBijection, Bijection, Injection, IsInjective
<1>3. s \in [1..n -> S] /\ IsInjective(s)
  BY <1>2 DEF SetToSeq
<1> HIDE DEF s
<1>4. s \in Injection(1..n, S)
  BY <1>3 DEF Injection, IsInjective
<1>5. Cardinality(1..n) = n
  BY <1>1, FS_Interval
<1>6. s \in Surjection(1..n, S)
  BY <1>4, <1>5, FS_Injection
<1>7. s \in Seq(S) /\ Len(s) = n /\ DOMAIN s = 1..n
  BY <1>1, <1>3
<1>8. \A x \in S : \E i \in 1..n : s[i] = x
  BY <1>6 DEF Surjection
<1> QED
  BY <1>7, <1>8 DEF s

\* setHeader changes what is stored under the key, in whatever spelling, only.
LEMMA SetHeaderStores ==
    ASSUME NEW h, OneName(h), NEW key \in Names, NEW val \in Texts
    PROVE  /\ OneName(setHeader(h, key, val))
           /\ DOMAIN h \subseteq DOMAIN setHeader(h, key, val)
           /\ \E k \in DOMAIN setHeader(h, key, val) : Lower[k] = Lower[key]
           /\ \A k \in DOMAIN setHeader(h, key, val) :
                 /\ Lower[k] = Lower[key] => setHeader(h, key, val)[k] = val
                 /\ Lower[k] # Lower[key] => /\ k \in DOMAIN h
                                             /\ setHeader(h, key, val)[k] = h[k]
<1> DEFINE keys == IF find(h, key) = {} THEN {key} ELSE find(h, key)
           g    == setHeader(h, key, val)
<1>1. g = [n \in DOMAIN h \cup keys |-> IF n \in keys THEN val ELSE h[n]]
  BY DEF setHeader
<1>2. \A k \in keys : Lower[k] = Lower[key]
  BY DEF find, sameName
<1>3. keys \subseteq Names /\ keys # {}
  BY DEF find, OneName
<1>4. \A k \in DOMAIN h : Lower[k] = Lower[key] => k \in keys
  BY DEF find, sameName
<1>5. \A k, o \in keys : k = o
  BY DEF find, sameName, OneName
<1> HIDE DEF keys, g
<1>6. DOMAIN g = DOMAIN h \cup keys
  BY <1>1
<1>7. \A k \in DOMAIN g : g[k] = IF k \in keys THEN val ELSE h[k]
  BY <1>1, <1>6
<1>8. OneName(g)
  BY <1>2, <1>3, <1>4, <1>5, <1>6, <1>7 DEF OneName
<1> QED
  BY <1>2, <1>3, <1>4, <1>6, <1>7, <1>8 DEF g

\* delHeader leaves one header to a name.
LEMMA DelHeaderKeeps ==
    ASSUME NEW h, OneName(h), NEW key
    PROVE  OneName(delHeader(h, key))
<1>1. delHeader(h, key) = [n \in DOMAIN h \ find(h, key) |-> h[n]]
  BY DEF delHeader, Restrict
<1> QED
  BY <1>1 DEF OneName
-----------------------------------------------------------------------------
(* The text.                                                               *)

\* The elements of a sequence.
Elems(s) == {s[i] : i \in 1..Len(s)}

\* What is in a concatenation.
LEMMA ElemsConcat ==
    ASSUME NEW S, NEW s \in Seq(S), NEW t \in Seq(S)
    PROVE  s \o t \in Seq(S) /\ Elems(s \o t) = Elems(s) \cup Elems(t)
<1>1. /\ s \o t \in Seq(S)
      /\ Len(s \o t) = Len(s) + Len(t)
      /\ \A i \in 1..(Len(s) + Len(t)) :
            (s \o t)[i] = IF i <= Len(s) THEN s[i] ELSE t[i - Len(s)]
  BY ConcatProperties
<1>2. Len(s) \in Nat /\ Len(t) \in Nat
  BY LenProperties
<1>3. ASSUME NEW x \in Elems(s \o t) PROVE x \in Elems(s) \cup Elems(t)
  <2>1. PICK i \in 1..(Len(s) + Len(t)) : x = (s \o t)[i]
    BY <1>1 DEF Elems
  <2>2. i <= Len(s) => i \in 1..Len(s) /\ x = s[i]
    BY <2>1, <1>1, <1>2
  <2>3. ~(i <= Len(s)) => i - Len(s) \in 1..Len(t) /\ x = t[i - Len(s)]
    BY <2>1, <1>1, <1>2
  <2> QED
    BY <2>2, <2>3 DEF Elems
<1>4. ASSUME NEW x \in Elems(s) PROVE x \in Elems(s \o t)
  <2>1. PICK i \in 1..Len(s) : x = s[i]
    BY DEF Elems
  <2>2. i \in 1..(Len(s) + Len(t)) /\ i <= Len(s)
    BY <1>2
  <2> QED
    BY <2>1, <2>2, <1>1 DEF Elems
<1>5. ASSUME NEW x \in Elems(t) PROVE x \in Elems(s \o t)
  <2>1. PICK i \in 1..Len(t) : x = t[i]
    BY DEF Elems
  <2>2. i + Len(s) \in 1..(Len(s) + Len(t)) /\ ~(i + Len(s) <= Len(s)) /\ (i + Len(s)) - Len(s) = i
    BY <1>2
  <2>3. (s \o t)[i + Len(s)] = t[(i + Len(s)) - Len(s)]
    BY <2>2, <1>1
  <2>4. (s \o t)[i + Len(s)] = x
    BY <2>1, <2>2, <2>3
  <2> QED
    BY <2>2, <2>4, <1>1 DEF Elems
<1> QED
  BY <1>1, <1>3, <1>4, <1>5

\* The lines of the headers are the headers, without connection if dump writes it.
LEMMA HeaderLinesSay ==
    ASSUME OneName(m_headers)
    PROVE  LET own == IF m_websocket THEN {} ELSE find(m_headers, "connection")
           IN  /\ HeaderLines \in Seq(Line)
               /\ Elems(HeaderLines) = {<<n, m_headers[n]>> : n \in DOMAIN m_headers \ own}
<1> DEFINE own   == IF m_websocket THEN {} ELSE find(m_headers, "connection")
           S     == DOMAIN m_headers \ own
           order == SetToSeq(S)
<1>1. S \subseteq Names /\ IsFiniteSet(S)
  BY FS_Subset, HttpAssumption DEF OneName
<1> HIDE DEF own, S
<1>2. /\ order \in Seq(S)
      /\ DOMAIN order = 1..Len(order)
      /\ \A x \in S : \E i \in 1..Len(order) : order[i] = x
  BY <1>1, SetToSeqLists
<1>3. Len(order) \in Nat /\ \A i \in 1..Len(order) : order[i] \in S
  BY <1>2, LenProperties, ElementOfSeq
<1> HIDE DEF order
<1>4. HeaderLines = [i \in 1..Len(order) |-> <<order[i], m_headers[order[i]]>>]
  BY <1>2 DEF HeaderLines, order, S, own
<1>5. \A i \in 1..Len(order) : <<order[i], m_headers[order[i]]>> \in Line
  BY <1>1, <1>3 DEF S, OneName, Line
<1>6. HeaderLines \in [1..Len(order) -> Line]
  BY <1>4, <1>5
<1>7. HeaderLines \in Seq(Line) /\ Len(HeaderLines) = Len(order)
  BY <1>3, <1>6
<1>8. Elems(HeaderLines) = {<<order[i], m_headers[order[i]]>> : i \in 1..Len(order)}
  BY <1>4, <1>7 DEF Elems
<1>9. Elems(HeaderLines) = {<<n, m_headers[n]>> : n \in S}
  BY <1>2, <1>3, <1>8
<1> QED
  BY <1>7, <1>9 DEF S, own

\* The line of dump about the connection, none for a websocket.
LEMMA ConnectionLineSays ==
    /\ ConnectionLine \in Seq(Line)
    /\ Elems(ConnectionLine) =
          IF m_websocket THEN {}
          ELSE {<<"connection", IF m_close THEN "close" ELSE "keep-alive">>}
<1> DEFINE e == <<"connection", IF m_close THEN "close" ELSE "keep-alive">>
<1>1. e \in Line
  BY HttpAssumption DEF Line, Texts
<1> HIDE DEF e
<1>2. CASE m_websocket
  BY <1>2 DEF ConnectionLine, Elems
<1>3. CASE ~m_websocket
  <2>1. ConnectionLine = <<e>>
    BY <1>3 DEF ConnectionLine, e
  <2>2. <<e>> \in Seq(Line) /\ Len(<<e>>) = 1 /\ <<e>>[1] = e
    BY <1>1
  <2>3. Elems(<<e>>) = {e}
    BY <2>2 DEF Elems
  <2> QED
    BY <2>1, <2>2, <2>3, <1>3 DEF e
<1> QED
  BY <1>2, <1>3

\* The line of dump about the length, none for an empty body.
LEMMA LengthLineSays ==
    ASSUME m_body \in 0..Len(Numeral)
    PROVE  /\ LengthLine \in Seq(Line)
           /\ Elems(LengthLine) = IF m_body = 0 THEN {}
                                  ELSE {<<"content-length", Numeral[m_body]>>}
           /\ m_body # 0 => LengthLine = << <<"content-length", Numeral[m_body]>> >>
<1> DEFINE e == <<"content-length", Numeral[m_body]>>
<1>1. CASE m_body = 0
  BY <1>1 DEF LengthLine, Elems
<1>2. CASE m_body # 0
  <2>1. m_body \in DOMAIN Numeral
    BY <1>2, HttpAssumption
  <2>2. e \in Line
    BY <2>1, HttpAssumption DEF Line, Texts
  <2> HIDE DEF e
  <2>3. LengthLine = <<e>>
    BY <1>2 DEF LengthLine, e
  <2>4. <<e>> \in Seq(Line) /\ Len(<<e>>) = 1 /\ <<e>>[1] = e
    BY <2>2
  <2>5. Elems(<<e>>) = {e}
    BY <2>4 DEF Elems
  <2> QED
    BY <2>3, <2>4, <2>5, <1>2 DEF e
<1> QED
  BY <1>1, <1>2

\* All lines together.
LEMMA FieldsSay ==
    ASSUME OneName(m_headers), m_body \in 0..Len(Numeral)
    PROVE  LET own == IF m_websocket THEN {} ELSE find(m_headers, "connection")
           IN  /\ Fields \in Seq(Line)
               /\ Elems(Fields) =
                     {<<n, m_headers[n]>> : n \in DOMAIN m_headers \ own}
                     \cup (IF m_websocket THEN {}
                           ELSE {<<"connection", IF m_close THEN "close" ELSE "keep-alive">>})
                     \cup (IF m_body = 0 THEN {}
                           ELSE {<<"content-length", Numeral[m_body]>>})
               /\ m_body # 0 =>
                     /\ Len(Fields) # 0
                     /\ Fields[Len(Fields)] = <<"content-length", Numeral[m_body]>>
<1> DEFINE own == IF m_websocket THEN {} ELSE find(m_headers, "connection")
           H   == {<<n, m_headers[n]>> : n \in DOMAIN m_headers \ own}
           C   == IF m_websocket THEN {}
                  ELSE {<<"connection", IF m_close THEN "close" ELSE "keep-alive">>}
           e   == <<"content-length", Numeral[m_body]>>
           top == IF m_type = "HttpRequest" THEN ConnectionLine \o HeaderLines
                                            ELSE HeaderLines \o ConnectionLine
<1>1. HeaderLines \in Seq(Line) /\ Elems(HeaderLines) = H
  BY HeaderLinesSay
<1>2. ConnectionLine \in Seq(Line) /\ Elems(ConnectionLine) = C
  BY ConnectionLineSays
<1> HIDE DEF H, C
<1>3. /\ LengthLine \in Seq(Line)
      /\ Elems(LengthLine) = IF m_body = 0 THEN {} ELSE {e}
      /\ m_body # 0 => LengthLine = <<e>>
  BY LengthLineSays
<1>4. top \in Seq(Line) /\ Elems(top) = H \cup C
  BY <1>1, <1>2, ElemsConcat
<1>5. Fields = top \o LengthLine
  BY DEF Fields
<1> HIDE DEF top, e
<1>6. Fields \in Seq(Line) /\ Elems(Fields) = (H \cup C) \cup Elems(LengthLine)
  BY <1>3, <1>4, <1>5, ElemsConcat
<1>7. ASSUME m_body # 0 PROVE Len(Fields) # 0 /\ Fields[Len(Fields)] = e
  <2>1. LengthLine = <<e>> /\ Len(LengthLine) = 1 /\ LengthLine[1] = e
    BY <1>3, <1>7
  <2>2. Len(top) \in Nat
    BY <1>4, LenProperties
  <2>3. /\ Len(top \o LengthLine) = Len(top) + Len(LengthLine)
        /\ \A i \in 1..(Len(top) + Len(LengthLine)) :
              (top \o LengthLine)[i] = IF i <= Len(top) THEN top[i]
                                       ELSE LengthLine[i - Len(top)]
    BY <1>3, <1>4, ConcatProperties
  <2>4. Len(Fields) = Len(top) + 1
    BY <2>1, <2>2, <2>3, <1>5
  <2>5. Len(top) + 1 \in 1..(Len(top) + Len(LengthLine)) /\ ~(Len(top) + 1 <= Len(top))
        /\ (Len(top) + 1) - Len(top) = 1
    BY <2>1, <2>2
  <2>6. Fields[Len(top) + 1] = LengthLine[(Len(top) + 1) - Len(top)]
    BY <2>3, <2>5, <1>5
  <2> QED
    BY <2>1, <2>2, <2>4, <2>5, <2>6
<1> QED
  BY <1>3, <1>6, <1>7 DEF H, C, e, own

\* toString makes a text that says what the message is, and says once whether the
\* connection is closed.
LEMMA toStringWrites ==
    ASSUME HttpTypeOK, text' = dump
    PROVE  Written' /\ OneConnectionLine'
<1> DEFINE own == IF m_websocket THEN {} ELSE find(m_headers, "connection")
           H   == {<<n, m_headers[n]>> : n \in DOMAIN m_headers \ own}
           c   == <<"connection", IF m_close THEN "close" ELSE "keep-alive">>
           C   == IF m_websocket THEN {} ELSE {c}
           e   == <<"content-length", Numeral[m_body]>>
           L   == IF m_body = 0 THEN {} ELSE {e}
           F   == Fields
<1>1. /\ F \in Seq(Line)
      /\ Elems(F) = H \cup C \cup L
      /\ m_body # 0 => Len(F) # 0 /\ F[Len(F)] = e
  BY FieldsSay DEF HttpTypeOK
<1>2. /\ text'.type = m_type /\ text'.fields = F /\ text'.body = m_body
      /\ text'.headers = m_headers /\ text'.close = m_close /\ text'.websocket = m_websocket
      /\ DOMAIN text'.line = DOMAIN m_line
  BY DEF dump
<1> HIDE DEF F
<1>3. Lower["connection"] = "connection" /\ Lower["content-length"] = "content-length"
  BY HttpAssumption
<1>4. DOMAIN F = 1..Len(F) /\ \A i \in 1..Len(F) : F[i] \in Elems(F)
  BY <1>1 DEF Elems
<1>5. \A x \in H : x[1] \in DOMAIN m_headers \ own /\ x[2] = m_headers[x[1]]
  OBVIOUS
<1>6. \A n \in DOMAIN m_headers \ own : <<n, m_headers[n]>> \in H
  OBVIOUS
<1>7. c[1] = "connection" /\ e[1] = "content-length"
  OBVIOUS
<1>8. \A n \in own : Lower[n] = "connection"
  BY <1>3 DEF find, sameName
<1>9. ~m_websocket => \A n \in DOMAIN m_headers : Lower[n] = "connection" => n \in own
  BY <1>3 DEF find, sameName
<1> HIDE DEF own, H, e
<1>10. ASSUME NEW i \in 1..Len(F), Lower[F[i][1]] \notin Writers
       PROVE  F[i][1] \in DOMAIN m_headers /\ F[i][2] = m_headers[F[i][1]]
  <2>1. F[i] \in H \cup C \cup L
    BY <1>1, <1>4
  <2>2. F[i] \notin C /\ F[i] \notin L
    BY <1>3, <1>7, <1>10 DEF Writers
  <2> QED
    BY <2>1, <2>2, <1>5
<1>11. ASSUME NEW n \in DOMAIN m_headers, Lower[n] \notin Writers
       PROVE  \E i \in 1..Len(F) : F[i][1] = n
  <2>1. n \notin own
    BY <1>8, <1>11 DEF Writers
  <2>2. <<n, m_headers[n]>> \in Elems(F)
    BY <2>1, <1>1, <1>6
  <2>3. PICK i \in 1..Len(F) : F[i] = <<n, m_headers[n]>>
    BY <2>2 DEF Elems
  <2> QED
    BY <2>3
<1>12. Written'
  <2>1. OneName(m_headers)
    BY DEF HttpTypeOK
  <2>2. OneName(text.headers)'
    BY <2>1, <1>2 DEF OneName, Texts
  <2> QED
    BY <2>2, <1>1, <1>2, <1>10, <1>11 DEF Written, HttpTypeOK, e, LineFields, Types, Line, Texts, Writers
<1>13. ASSUME ~m_websocket
       PROVE  {F[i] : i \in {j \in DOMAIN F : Lower[F[j][1]] = "connection"}} = {c}
  <2>1. ASSUME NEW j \in DOMAIN F, Lower[F[j][1]] = "connection"
        PROVE  F[j] = c
    <3>1. F[j] \in H \cup C \cup L
      BY <1>1, <1>4
    <3>2. F[j] \notin L
      BY <1>3, <1>7, <2>1
    <3>3. F[j] \notin H
      BY <1>5, <1>9, <1>13, <2>1
    <3> QED
      BY <3>1, <3>2, <3>3
  <2>2. \E j \in DOMAIN F : F[j] = c /\ Lower[F[j][1]] = "connection"
    <3>1. c \in Elems(F)
      BY <1>1, <1>13
    <3>2. PICK j \in 1..Len(F) : F[j] = c
      BY <3>1 DEF Elems
    <3> QED
      BY <3>2, <1>3, <1>4, <1>7
  <2> HIDE DEF c
  <2> QED
    BY <2>1, <2>2
<1>14. OneConnectionLine'
  BY <1>2, <1>13 DEF OneConnectionLine
<1> QED
  BY <1>12, <1>14
-----------------------------------------------------------------------------
(* The invariant.                                                          *)

\* HttpInv holds of a new message.
LEMMA HttpInvInit ==
    Init => HttpInv
<1> SUFFICES ASSUME Init PROVE HttpInv
  OBVIOUS
<1>1. m_headers = <<>> /\ p_headers = <<>> /\ text = NoText /\ cs = "none"
  BY DEF Init
<1>2. DOMAIN m_line = LineFields(m_type)
  BY DEF Init, NewLine
<1>3. OneName(m_headers) /\ OneName(p_headers)
  BY <1>1 DEF OneName
<1>4. HttpTypeOK
  BY <1>2, <1>3, HttpAssumption DEF Init, HttpTypeOK
<1> QED
  BY <1>1, <1>4 DEF HttpInv, Written, OneConnectionLine, Parsing

\* What the conjuncts about the text and about the parser depend on.
LEMMA HttpFrame ==
    ASSUME HttpInv, UNCHANGED text
    PROVE  /\ Written' /\ OneConnectionLine'
           /\ UNCHANGED parserVars =>
                 /\ Parsing'
                 /\ (cs = "none" => p_headers = <<>>)'
                 /\ (text = NoText => cs = "none")'
                 /\ OneName(p_headers)' /\ cs' \in {"none", "fields", "final", "error"}
                 /\ m_error' \in {0, 1001}
<1>1. Written'
  BY DEF HttpInv, Written, OneName, Texts, Line, Writers, LineFields, Types
<1>2. OneConnectionLine'
  BY DEF HttpInv, OneConnectionLine
<1>3. ASSUME UNCHANGED parserVars PROVE Parsing'
  <2>1. UNCHANGED <<p_line, p_headers, m_error, cs, todo, left, text>>
    BY <1>3 DEF parserVars
  <2>2. Lines => Lines'
    BY <2>1 DEF Lines
  <2>3. Length => Length'
    BY <2>1 DEF Length
  <2> QED
    BY <2>1, <2>2, <2>3 DEF HttpInv, Parsing, LineFields
<1>4. ASSUME UNCHANGED parserVars PROVE OneName(p_headers)'
  BY <1>4 DEF HttpInv, HttpTypeOK, parserVars, OneName, Texts
<1> QED
  BY <1>1, <1>2, <1>3, <1>4 DEF HttpInv, HttpTypeOK, parserVars

\* The program changes its message.
LEMMA EditKeeps ==
    ASSUME HttpInv, Edit, DOMAIN m_line' = LineFields(m_type), OneName(m_headers)',
           m_body' \in 0..Len(Numeral)
    PROVE  HttpInv'
<1>1. UNCHANGED <<m_type, text, parserVars>>
  BY DEF Edit
<1>2. HttpTypeOK'
  BY <1>1, HttpFrame DEF HttpInv, HttpTypeOK, LineFields
<1> QED
  BY <1>1, <1>2, HttpFrame DEF HttpInv

\* The setters, SetHeader and DelHeader keep HttpInv.
LEMMA editsKeep ==
    ASSUME HttpInv,
           \/ \E field \in DOMAIN Settable : \E v \in Settable[field] : setField(field, v)
           \/ \E v \in Bodies : setBody(v)
           \/ \E v \in BOOLEAN : setClose(v) \/ setWebsocket(v)
           \/ \E key \in Names : DelHeader(key) \/ \E val \in Values : SetHeader(key, val)
    PROVE  HttpInv'
<1>1. /\ DOMAIN m_line = LineFields(m_type)
      /\ OneName(m_headers)
      /\ m_body \in 0..Len(Numeral)
  BY DEF HttpInv, HttpTypeOK
<1>2. UNCHANGED m_headers => OneName(m_headers)'
  BY <1>1 DEF OneName, Texts
<1>3. ASSUME NEW field, NEW v, setField(field, v) PROVE HttpInv'
  <2>1. Edit /\ UNCHANGED <<m_headers, m_body>> /\ m_line' = [m_line EXCEPT ![field] = v]
    BY <1>3 DEF setField
  <2>2. DOMAIN m_line' = LineFields(m_type)
    BY <2>1, <1>1
  <2> QED
    BY <2>1, <2>2, <1>1, <1>2, EditKeeps
<1>4. ASSUME NEW v \in Bodies, setBody(v) PROVE HttpInv'
  <2>1. Edit /\ UNCHANGED <<m_line, m_headers>> /\ m_body' \in 0..Len(Numeral)
    BY <1>4, HttpAssumption DEF setBody
  <2> QED
    BY <2>1, <1>1, <1>2, EditKeeps
<1>5. ASSUME NEW v, setClose(v) \/ setWebsocket(v) PROVE HttpInv'
  <2>1. Edit /\ UNCHANGED <<m_line, m_headers, m_body>>
    BY <1>5 DEF setClose, setWebsocket
  <2> QED
    BY <2>1, <1>1, <1>2, EditKeeps
<1>6. ASSUME NEW key, DelHeader(key) PROVE HttpInv'
  <2>1. Edit /\ UNCHANGED <<m_line, m_body>> /\ m_headers' = delHeader(m_headers, key)
    BY <1>6 DEF DelHeader
  <2>2. OneName(delHeader(m_headers, key))
    BY <1>1, DelHeaderKeeps
  <2>3. OneName(m_headers)'
    BY <2>1, <2>2 DEF OneName, Texts
  <2> QED
    BY <2>1, <2>3, <1>1, EditKeeps
<1>7. ASSUME NEW key \in Names, NEW val \in Values, SetHeader(key, val) PROVE HttpInv'
  <2>1. Edit /\ UNCHANGED <<m_line, m_body>> /\ m_headers' = setHeader(m_headers, key, val)
    BY <1>7 DEF SetHeader
  <2>2. OneName(setHeader(m_headers, key, val))
    <3>1. val \in Texts
      BY DEF Texts
    <3> QED
      BY <3>1, <1>1, SetHeaderStores
  <2>3. OneName(m_headers)'
    BY <2>1, <2>2 DEF OneName, Texts
  <2> QED
    BY <2>1, <2>3, <1>1, EditKeeps
<1> QED
  BY <1>3, <1>4, <1>5, <1>6, <1>7

\* toString keeps HttpInv.
LEMMA toStringKeeps ==
    ASSUME HttpInv, toString
    PROVE  HttpInv'
<1>1. UNCHANGED <<msgVars, parserVars>> /\ text' = dump /\ cs = "none"
  BY DEF toString, HttpInv
<1>2. HttpTypeOK'
  BY <1>1 DEF HttpInv, HttpTypeOK, msgVars, parserVars, OneName, Texts, LineFields, Types
<1>3. Written' /\ OneConnectionLine'
  BY <1>1, toStringWrites DEF HttpInv
<1> QED
  BY <1>1, <1>2, <1>3 DEF HttpInv, Parsing, parserVars

\* A parser that has read the first line has all the header lines to come.
LEMMA FieldsToCome ==
    ASSUME HttpInv, text # NoText, p_headers = <<>>, UNCHANGED <<text, p_headers>>,
           todo' = text.fields
    PROVE  Lines' /\ Length'
<1> DEFINE F == text.fields
           h == text.headers
<1>1. /\ F \in Seq(Line)
      /\ \A i \in 1..Len(F) : Lower[F[i][1]] \notin Writers =>
            F[i][1] \in DOMAIN h /\ F[i][2] = h[F[i][1]]
      /\ \A n \in DOMAIN h : Lower[n] \notin Writers =>
            \E i \in 1..Len(F) : F[i][1] = n
      /\ text.body # 0 => /\ Len(F) # 0
                          /\ F[Len(F)] = <<"content-length", Numeral[text.body]>>
  BY DEF HttpInv, Written
<1>2. \A x : x \notin Own(text.type) => x \notin Writers
  BY DEF Own, Writers
<1>3. DOMAIN p_headers = {}
  OBVIOUS
<1> HIDE DEF F, h
<1>4. \A i \in 1..Len(F) : Lower[F[i][1]] \notin Own(text.type) =>
         F[i][1] \in DOMAIN h /\ F[i][2] = h[F[i][1]]
  BY <1>1, <1>2
<1>5. \A n \in DOMAIN h : Lower[n] \notin Own(text.type) =>
         \E i \in 1..Len(F) : Lower[F[i][1]] = Lower[n]
  BY <1>1, <1>2
<1>6. text' = text /\ p_headers' = p_headers /\ todo' = F /\ h = text.headers
  BY DEF F, h
<1>7. Lines'
  BY <1>1, <1>3, <1>4, <1>5, <1>6 DEF Lines
<1>8. Length'
  BY <1>1, <1>6 DEF Length
<1> QED
  BY <1>7, <1>8

\* What the callbacks report of a first line is what the text says.
LEMMA ReportedSays ==
    ASSUME NEW parts
    PROVE  /\ DOMAIN Reported(parts) = LineFields(text.type)
           /\ \A f \in LineFields(text.type) : f \in parts => Reported(parts)[f] = text.line[f]
<1> DEFINE d == NewLine(text.type, 17)
<1>1. Reported(parts) = [f \in LineFields(text.type) |-> IF f \in parts THEN text.line[f]
                                                         ELSE d[f]]
  BY DEF Reported
<1> HIDE DEF d
<1> QED
  BY <1>1

\* The first line of a request or a response keeps HttpInv.
LEMMA executeKeeps ==
    ASSUME HttpInv, execute
    PROVE  HttpInv'
<1>1. /\ text # NoText /\ cs = "none" /\ p_headers = <<>>
      /\ UNCHANGED <<msgVars, text, p_headers>>
  BY DEF execute, HttpInv
<1>2. /\ text.body \in 0..Len(Numeral) /\ Len(Numeral) \in Nat
      /\ text.type \in Types
  BY <1>1, HttpAssumption DEF HttpInv, Written
<1>3. UNCHANGED <<m_type, m_line, m_headers, m_body>>
  BY <1>1 DEF msgVars
<1>4. OneName(m_headers)' /\ OneName(p_headers)'
  BY <1>1, <1>3 DEF HttpInv, HttpTypeOK, OneName, Texts
<1>5. ASSUME cs' \in {"fields", "error"}, m_error' \in {0, 1001}, Parsing' PROVE HttpInv'
  <2>1. HttpTypeOK'
    BY <1>3, <1>4, <1>5 DEF HttpInv, HttpTypeOK, LineFields, Types
  <2>2. Written' /\ OneConnectionLine'
    BY <1>1, HttpFrame
  <2> QED
    BY <2>1, <2>2, <1>1, <1>5 DEF HttpInv
<1>6. ASSUME todo' = text.fields PROVE Lines' /\ Length'
  BY <1>1, <1>6, FieldsToCome
<1>7. CASE requestLine
  <2> DEFINE known == KnownVersion(text.line["version"])
             parts == LineFields("HttpRequest") \ (IF known THEN {} ELSE {"version"})
  <2>1. text.type = "HttpRequest" /\ m_error' = 0 /\ left' = text.body
    BY <1>7 DEF requestLine
  <2>2. CASE cs' = "error"
    BY <2>1, <2>2, <1>5 DEF Parsing
  <2>3. CASE cs' # "error"
    <3>1. known /\ p_line' = Reported(parts) /\ cs' = "fields" /\ todo' = text.fields
      BY <1>7, <2>3 DEF requestLine
    <3>2. parts = LineFields(text.type)
      BY <3>1, <2>1
    <3> HIDE DEF parts, known
    <3>3. DOMAIN p_line' = LineFields(text.type)
      BY <3>1, ReportedSays
    <3>4. \A f \in LineFields(text.type) : p_line'[f] = text.line[f]
      BY <3>1, <3>2, ReportedSays
    <3>5. Parsing'
      BY <3>1, <3>3, <3>4, <2>1, <1>1, <1>2, <1>6 DEF Parsing
    <3> QED
      BY <3>1, <3>5, <2>1, <1>5
  <2> QED
    BY <2>2, <2>3
<1>8. CASE responseLine
  <2> DEFINE known == KnownVersion(text.line["version"])
             parts == LineFields("HttpResponse") \ (IF known THEN {} ELSE {"version"})
  <2>1. /\ text.type = "HttpResponse" /\ left' = text.body - 1
        /\ m_error' = (IF known THEN 0 ELSE 1001)
        /\ p_line' = Reported(parts) /\ cs' = "fields" /\ todo' = text.fields
    BY <1>8 DEF responseLine
  <2>2. known => parts = LineFields(text.type)
    BY <2>1
  <2> HIDE DEF parts, known
  <2>3. DOMAIN p_line' = LineFields(text.type)
    BY <2>1, ReportedSays
  <2>4. m_error' = 0 => \A f \in LineFields(text.type) : p_line'[f] = text.line[f]
    BY <2>1, <2>2, ReportedSays
  <2>5. left' \in -1..Len(Numeral)
    BY <2>1, <1>2
  <2>6. Parsing'
    BY <2>1, <2>3, <2>4, <2>5, <1>1, <1>6 DEF Parsing
  <2> QED
    BY <2>1, <2>6, <1>5
<1> QED
  BY <1>7, <1>8 DEF execute

\* A step of a parser that is past the first line.
LEMMA ParserKeeps ==
    ASSUME HttpInv, UNCHANGED <<msgVars, text, p_line, m_error>>,
           cs \in {"fields", "final"}, cs' \in {"fields", "final"},
           OneName(p_headers)', Lines', Length',
           left' = left \/ (text.type = "HttpResponse" /\ left' \in -1..Len(Numeral)),
           cs' = "final" => todo' = <<>>
    PROVE  HttpInv'
<1>1. UNCHANGED <<m_type, m_line, m_headers, m_body>>
  BY DEF msgVars
<1>2. OneName(m_headers)'
  BY <1>1 DEF HttpInv, HttpTypeOK, OneName, Texts
<1>3. HttpTypeOK'
  BY <1>1, <1>2 DEF HttpInv, HttpTypeOK, LineFields, Types
<1>4. Written' /\ OneConnectionLine'
  BY HttpFrame
<1>5. Parsing'
  BY DEF HttpInv, Parsing
<1> QED
  BY <1>3, <1>4, <1>5 DEF HttpInv, Parsing

\* A chunk header keeps HttpInv: its extensions are not the text's headers.
LEMMA executeChunkKeeps ==
    ASSUME HttpInv, NEW e \in Extensions, NEW val \in Values, NEW after \in 0..1,
           executeChunk(<<>>, after) \/ executeChunk(<< <<e, val>> >>, after)
    PROVE  HttpInv'
<1>1. /\ cs = "final" /\ text.type = "HttpResponse" /\ cs' = "fields"
      /\ todo' \in {<<>>, << <<e, val>> >>}
      /\ left' = after - 1
      /\ UNCHANGED <<msgVars, text, p_line, p_headers, m_error>>
  BY DEF executeChunk
<1>2. Lines /\ Length /\ todo = <<>>
  BY <1>1 DEF HttpInv, Parsing
<1>3. <<e, val>> \in Line
  BY HttpAssumption DEF Line, Texts
<1>4. todo' \in Seq(Line) /\ Len(todo) = 0
  <2> DEFINE x == <<e, val>>
  <2> HIDE DEF x
  <2>1. x \in Line
    BY <1>3 DEF x
  <2>2. todo' = <<>> \/ todo' = <<x>>
    BY <1>1 DEF x
  <2>3. Len(todo) = 0
    BY <1>2
  <2>4. <<>> \in Seq(Line) /\ <<x>> \in Seq(Line)
    BY <2>1
  <2> QED
    BY <2>2, <2>3, <2>4
<1>5. \A i \in 1..Len(todo') : todo'[i][1] = e
  BY <1>1
<1>6. Lower[e] \in Own(text.type)
  BY <1>1 DEF Own
<1>7. Lines'
  BY <1>1, <1>2, <1>4, <1>5, <1>6 DEF Lines
<1>8. Length'
  <2>1. SUFFICES ASSUME text.body # 0, "content-length" \notin {Lower[n] : n \in Extensions}
                 PROVE  /\ \A i \in 1..Len(todo') : Lower[todo'[i][1]] # "content-length"
                        /\ \E k \in DOMAIN p_headers : /\ Lower[k] = "content-length"
                                                       /\ p_headers[k] = Numeral[text.body]
    BY <1>1 DEF Length
  <2>2. Lower[e] # "content-length"
    BY <2>1
  <2>3. \E k \in DOMAIN p_headers : /\ Lower[k] = "content-length"
                                    /\ p_headers[k] = Numeral[text.body]
    BY <2>1, <1>2, <1>4 DEF Length
  <2> QED
    BY <2>2, <2>3, <1>5
<1>9. OneName(p_headers)'
  BY <1>1 DEF HttpInv, HttpTypeOK, OneName, Texts
<1>10. left' \in -1..Len(Numeral)
  BY <1>1, HttpAssumption
<1> QED
  BY <1>1, <1>7, <1>8, <1>9, <1>10, ParserKeeps

\* A header line goes from the lines to come to the headers.
LEMMA http_fieldKeeps ==
    ASSUME HttpInv, http_field
    PROVE  HttpInv'
<1> DEFINE key == Head(todo)[1]
           val == Head(todo)[2]
           h   == p_headers
           g   == setHeader(h, key, val)
           th  == text.headers
<1>1. /\ cs = "fields" /\ todo # <<>> /\ p_headers' = g /\ todo' = Tail(todo)
      /\ UNCHANGED <<msgVars, text, p_line, m_error, cs, left>>
  BY DEF http_field
<1>2. OneName(h) /\ Lines /\ Length
  BY <1>1 DEF HttpInv, HttpTypeOK, Parsing
<1>3. /\ todo \in Seq(Line)
      /\ \A i \in 1..Len(todo) : Lower[todo[i][1]] \notin Own(text.type) =>
            todo[i][1] \in DOMAIN th /\ todo[i][2] = th[todo[i][1]]
      /\ \A k \in DOMAIN h : Lower[k] \notin Own(text.type) =>
            \E n \in DOMAIN th : Lower[n] = Lower[k] /\ h[k] = th[n]
      /\ \A n \in DOMAIN th : Lower[n] \notin Own(text.type) =>
            \/ \E k \in DOMAIN h : Lower[k] = Lower[n]
            \/ \E i \in 1..Len(todo) : Lower[todo[i][1]] = Lower[n]
  BY <1>2 DEF Lines
<1>4. /\ Len(todo) \in Nat /\ Len(todo) # 0
      /\ Head(todo) = todo[1] /\ Head(todo) \in Line
      /\ Tail(todo) \in Seq(Line) /\ Len(Tail(todo)) = Len(todo) - 1
      /\ \A i \in 1..Len(Tail(todo)) : Tail(todo)[i] = todo[i + 1]
  BY <1>1, <1>3
<1>5. key \in Names /\ val \in Texts
  BY <1>4 DEF Line
<1> HIDE DEF h, th
<1>6. /\ OneName(g)
      /\ DOMAIN h \subseteq DOMAIN g
      /\ \E k \in DOMAIN g : Lower[k] = Lower[key]
      /\ \A k \in DOMAIN g : /\ Lower[k] = Lower[key] => g[k] = val
                             /\ Lower[k] # Lower[key] => k \in DOMAIN h /\ g[k] = h[k]
  BY <1>2, <1>5, SetHeaderStores
<1> HIDE DEF g
<1>7. \A i \in 1..Len(todo) : i # 1 => /\ i - 1 \in 1..Len(Tail(todo))
                                       /\ Tail(todo)[i - 1] = todo[i]
  <2> SUFFICES ASSUME NEW i \in 1..Len(todo), i # 1
               PROVE  i - 1 \in 1..Len(Tail(todo)) /\ Tail(todo)[i - 1] = todo[i]
    OBVIOUS
  <2>1. i - 1 \in 1..Len(Tail(todo)) /\ (i - 1) + 1 = i
    BY <1>4
  <2> QED
    BY <2>1, <1>4
<1>8. \A i \in 1..Len(Tail(todo)) : i + 1 \in 1..Len(todo) /\ Tail(todo)[i] = todo[i + 1]
  BY <1>4
<1>9. 1 \in 1..Len(todo) /\ todo[1][1] = key /\ todo[1][2] = val
  BY <1>4
<1> DEFINE t == Tail(todo)
<1> HIDE DEF key, val, t
<1>10. \A i \in 1..Len(t) : Lower[t[i][1]] \notin Own(text.type) =>
          t[i][1] \in DOMAIN th /\ t[i][2] = th[t[i][1]]
  BY <1>3, <1>8 DEF t
<1>11. \A k \in DOMAIN g : Lower[k] \notin Own(text.type) =>
          \E n \in DOMAIN th : Lower[n] = Lower[k] /\ g[k] = th[n]
  <2> SUFFICES ASSUME NEW k \in DOMAIN g, Lower[k] \notin Own(text.type)
               PROVE  \E n \in DOMAIN th : Lower[n] = Lower[k] /\ g[k] = th[n]
    OBVIOUS
  <2>1. CASE Lower[k] = Lower[key]
    BY <2>1, <1>3, <1>6, <1>9
  <2>2. CASE Lower[k] # Lower[key]
    BY <2>2, <1>3, <1>6
  <2> QED
    BY <2>1, <2>2
<1>12. \A n \in DOMAIN th : Lower[n] \notin Own(text.type) =>
          \/ \E k \in DOMAIN g : Lower[k] = Lower[n]
          \/ \E i \in 1..Len(t) : Lower[t[i][1]] = Lower[n]
  <2> SUFFICES ASSUME NEW n \in DOMAIN th, Lower[n] \notin Own(text.type)
               PROVE  \/ \E k \in DOMAIN g : Lower[k] = Lower[n]
                      \/ \E i \in 1..Len(t) : Lower[t[i][1]] = Lower[n]
    OBVIOUS
  <2>1. CASE \E k \in DOMAIN h : Lower[k] = Lower[n]
    BY <2>1, <1>6
  <2>2. CASE \E i \in 1..Len(todo) : Lower[todo[i][1]] = Lower[n]
    <3>1. PICK i \in 1..Len(todo) : Lower[todo[i][1]] = Lower[n]
      BY <2>2
    <3>2. CASE i = 1
      BY <3>1, <3>2, <1>6, <1>9
    <3>3. CASE i # 1
      BY <3>1, <3>3, <1>7 DEF t
    <3> QED
      BY <3>2, <3>3
  <2> QED
    BY <2>1, <2>2, <1>3
<1>13. /\ todo' = t /\ p_headers' = g /\ text' = text
       /\ t \in Seq(Line) /\ th = text.headers /\ h = p_headers
  BY <1>1, <1>4 DEF t, th, h
<1>14. Lines'
  BY <1>10, <1>11, <1>12, <1>13 DEF Lines
<1>15. Length'
  <2> DEFINE e == <<"content-length", Numeral[text.body]>>
  <2>1. SUFFICES ASSUME text.body # 0, "content-length" \notin {Lower[n] : n \in Extensions}
                 PROVE  \/ Len(t) # 0 /\ t[Len(t)] = e
                        \/ /\ \A i \in 1..Len(t) : Lower[t[i][1]] # "content-length"
                           /\ \E k \in DOMAIN g : /\ Lower[k] = "content-length"
                                                  /\ g[k] = Numeral[text.body]
    BY <1>1, <1>13 DEF Length
  <2>2. Lower["content-length"] = "content-length" /\ e[1] = "content-length"
        /\ e[2] = Numeral[text.body]
    BY HttpAssumption
  <2>3. CASE todo[Len(todo)] = e /\ Len(todo) = 1
    <3>1. key = "content-length" /\ val = Numeral[text.body]
      BY <2>2, <2>3, <1>9
    <3>2. Len(t) = 0
      BY <2>3, <1>4 DEF t
    <3> QED
      BY <3>1, <3>2, <2>2, <1>6
  <2>4. CASE todo[Len(todo)] = e /\ Len(todo) # 1
    <3>1. Len(todo) \in 1..Len(todo) /\ Len(t) = Len(todo) - 1 /\ Len(t) # 0
      BY <2>4, <1>4 DEF t
    <3>2. t[Len(todo) - 1] = todo[Len(todo)]
      BY <3>1, <2>4, <1>7 DEF t
    <3> QED
      BY <3>1, <3>2, <2>4
  <2>5. CASE /\ \A i \in 1..Len(todo) : Lower[todo[i][1]] # "content-length"
             /\ \E k \in DOMAIN h : Lower[k] = "content-length" /\ h[k] = Numeral[text.body]
    <3>1. \A i \in 1..Len(t) : Lower[t[i][1]] # "content-length"
      BY <2>5, <1>8 DEF t
    <3>2. Lower[key] # "content-length"
      BY <2>5, <1>9
    <3>3. PICK k \in DOMAIN h : Lower[k] = "content-length" /\ h[k] = Numeral[text.body]
      BY <2>5
    <3>4. k \in DOMAIN g /\ g[k] = h[k]
      BY <3>2, <3>3, <1>6
    <3> QED
      BY <3>1, <3>3, <3>4
  <2> HIDE DEF e
  <2>6. \/ Len(todo) # 0 /\ todo[Len(todo)] = e
        \/ /\ \A i \in 1..Len(todo) : Lower[todo[i][1]] # "content-length"
           /\ \E k \in DOMAIN h : Lower[k] = "content-length" /\ h[k] = Numeral[text.body]
    BY <2>1, <1>2, <1>13 DEF Length, e
  <2> QED
    BY <2>3, <2>4, <2>5, <2>6
<1>16. OneName(p_headers)'
  BY <1>1, <1>6 DEF OneName, Texts
<1> QED
  BY <1>1, <1>14, <1>15, <1>16, ParserKeeps

\* The blank line keeps HttpInv.
LEMMA header_doneKeeps ==
    ASSUME HttpInv, header_done
    PROVE  HttpInv'
<1>1. /\ cs = "fields" /\ todo = <<>> /\ cs' = "final"
      /\ UNCHANGED <<msgVars, text, p_line, p_headers, m_error, todo, left>>
  BY DEF header_done
<1>2. Lines /\ Length /\ OneName(p_headers)
  BY <1>1 DEF HttpInv, HttpTypeOK, Parsing
<1>3. Lines'
  BY <1>1, <1>2 DEF Lines
<1>4. Length'
  BY <1>1, <1>2 DEF Length
<1>5. OneName(p_headers)'
  BY <1>1, <1>2 DEF OneName, Texts
<1> QED
  BY <1>1, <1>3, <1>4, <1>5, ParserKeeps

\* Going on with a received message keeps HttpInv.
LEMMA getDataKeeps ==
    ASSUME HttpInv, getData
    PROVE  HttpInv'
<1>1. /\ cs = "final" /\ ~(left < 0)
      /\ m_type' = text.type /\ m_line' = p_line /\ m_headers' = p_headers /\ m_body' = left
      /\ text' = NoText /\ p_headers' = <<>> /\ m_error' = 0 /\ cs' = "none"
  BY DEF getData, isFinished, Wild
<1>2. /\ text # NoText /\ DOMAIN p_line = LineFields(text.type)
      /\ left \in -1..Len(Numeral) /\ OneName(p_headers)
  BY <1>1 DEF HttpInv, HttpTypeOK, Parsing
<1>3. text.type \in Types
  BY <1>2 DEF HttpInv, Written
<1>4. m_body' \in 0..Len(Numeral)
  BY <1>1, <1>2, HttpAssumption
<1>5. OneName(m_headers)'
  BY <1>1, <1>2 DEF OneName, Texts
<1>6. OneName(p_headers)'
  BY <1>1 DEF OneName
<1>7. HttpTypeOK'
  BY <1>1, <1>2, <1>3, <1>4, <1>5, <1>6 DEF HttpTypeOK, LineFields, Types
<1> QED
  BY <1>1, <1>7 DEF HttpInv, Written, OneConnectionLine, Parsing

\* createResponse keeps HttpInv.
LEMMA createResponseKeeps ==
    ASSUME HttpInv, createResponse
    PROVE  HttpInv'
<1> DEFINE v == m_line["version"]
<1>1. /\ text = NoText /\ m_type' = "HttpResponse" /\ m_line' = NewLine("HttpResponse", v)
      /\ m_headers' = <<>> /\ m_body' = 0 /\ UNCHANGED <<text, parserVars>>
  BY DEF createResponse
<1> HIDE DEF v
<1>2. DOMAIN m_line' = LineFields(m_type')
  <2>1. DOMAIN NewLine("HttpResponse", v) = LineFields("HttpResponse")
    BY DEF NewLine
  <2> QED
    BY <2>1, <1>1
<1>3. OneName(m_headers)'
  BY <1>1 DEF OneName
<1>4. m_body' \in 0..Len(Numeral)
  BY <1>1, HttpAssumption
<1>5. HttpTypeOK'
  BY <1>1, <1>2, <1>3, <1>4, HttpFrame DEF HttpTypeOK, Types, LineFields
<1> QED
  BY <1>1, <1>5, HttpFrame DEF HttpInv

\* Every step keeps HttpInv.
LEMMA HttpInvNext ==
    HttpInv /\ [Next]_vars => HttpInv'
<1> SUFFICES ASSUME HttpInv, [Next]_vars PROVE HttpInv'
  OBVIOUS
<1>1. ASSUME NEW e \in Extensions, NEW val \in Values, NEW after \in 0..1,
             executeChunk(<<>>, after) \/ executeChunk(<< <<e, val>> >>, after)
      PROVE  HttpInv'
  BY <1>1, executeChunkKeeps
<1>2. CASE UNCHANGED vars
  <2>1. UNCHANGED <<m_type, m_line, m_headers, m_body>> /\ UNCHANGED <<text, parserVars>>
    BY <1>2 DEF vars, msgVars
  <2>2. OneName(m_headers)'
    BY <2>1 DEF HttpInv, HttpTypeOK, OneName, Texts
  <2>3. HttpTypeOK'
    BY <2>1, <2>2, HttpFrame DEF HttpInv, HttpTypeOK, Types, LineFields
  <2> QED
    BY <2>1, <2>3, HttpFrame DEF HttpInv
<1> QED
  BY <1>1, <1>2, editsKeep, toStringKeeps, executeKeeps, http_fieldKeeps,
     header_doneKeeps, getDataKeeps, createResponseKeeps DEF Next

\* HttpInv, for every set of names, values and bodies: the lines of a text are the
\* headers of its message, and the parser's headers and the lines to come make them up.
THEOREM HttpInvariant ==
    Spec => []HttpInv
BY HttpInvInit, HttpInvNext, PTL DEF Spec
-----------------------------------------------------------------------------
(* The properties.                                                         *)

\* Whatever a program sets, reads back and forwards, no message has two headers whose
\* names strcasecmp takes for the same.
THEOREM HttpTypeCorrect ==
    Spec => []HttpTypeOK
BY HttpInvariant, PTL DEF HttpInv

\* The length a parser finds under content-length is the number written there.
LEMMA LengthRead ==
    ASSUME OneName(p_headers), NEW n \in DOMAIN Numeral,
           NEW k \in DOMAIN p_headers, Lower[k] = "content-length", p_headers[k] = Numeral[n]
    PROVE  getContentLength = n
<1> DEFINE hit == {p_headers[o] : o \in find(p_headers, "content-length")}
           num == {i \in DOMAIN Numeral : Numeral[i] \in hit}
<1>1. find(p_headers, "content-length") = {k}
  BY HttpAssumption DEF find, sameName, OneName
<1>2. hit = {Numeral[n]}
  BY <1>1
<1> HIDE DEF hit
<1>3. num = {n}
  BY <1>2, HttpAssumption
<1> HIDE DEF num
<1>4. getContentLength = IF num = {} THEN 0 ELSE CHOOSE i \in num : TRUE
  BY DEF getContentLength, getHeaderAs, num, hit
<1> QED
  BY <1>3, <1>4

\* A message that a parser accepts is the one that was sent.
THEOREM ArrivesCorrect ==
    Spec => []ArrivesIntact
<1>1. HttpInv => ArrivesIntact
  <2> SUFFICES ASSUME HttpInv, Accepted PROVE ArrivesIntact
    BY DEF ArrivesIntact
  <2>1. cs = "final" /\ m_error = 0
    BY DEF Accepted, isFinished, hasError
  <2>2. /\ text # NoText /\ Lines /\ todo = <<>> /\ OneName(p_headers)
        /\ \A f \in LineFields(text.type) : p_line[f] = text.line[f]
    BY <2>1 DEF HttpInv, HttpTypeOK, Parsing
  <2>3. OneName(text.headers)
    BY <2>2 DEF HttpInv, Written
  <2>4. ASSUME NEW n \in Names, Lower[n] \notin Own(text.type)
        PROVE  {text.headers[k] : k \in find(text.headers, n)}
               = {p_headers[k] : k \in find(p_headers, n)}
    <3> DEFINE th == text.headers
               h  == p_headers
    <3>1. /\ \A k \in DOMAIN h : Lower[k] \notin Own(text.type) =>
                \E o \in DOMAIN th : Lower[o] = Lower[k] /\ h[k] = th[o]
          /\ \A o \in DOMAIN th : Lower[o] \notin Own(text.type) =>
                \E k \in DOMAIN h : Lower[k] = Lower[o]
      BY <2>2 DEF Lines
    <3>2. /\ \A o, q \in DOMAIN th : Lower[o] = Lower[q] => o = q
          /\ \A o, q \in DOMAIN h : Lower[o] = Lower[q] => o = q
      BY <2>2, <2>3 DEF OneName
    <3>3. /\ find(th, n) = {o \in DOMAIN th : Lower[o] = Lower[n]}
          /\ find(h, n)  = {o \in DOMAIN h : Lower[o] = Lower[n]}
      BY DEF find, sameName
    <3> HIDE DEF th, h
    <3>4. ASSUME NEW k \in find(th, n) PROVE \E q \in find(h, n) : h[q] = th[k]
      BY <2>4, <3>1, <3>2, <3>3
    <3>5. ASSUME NEW k \in find(h, n) PROVE \E q \in find(th, n) : th[q] = h[k]
      BY <2>4, <3>1, <3>3
    <3>6. {th[k] : k \in find(th, n)} = {h[k] : k \in find(h, n)}
      BY <3>4, <3>5
    <3> QED
      BY <3>6 DEF th, h
  <2> QED
    BY <2>2, <2>4 DEF ArrivesIntact
<1> QED
  BY <1>1, HttpInvariant, PTL

\* The length that a parser reports is the size of the body, whatever length the
\* program's own headers say.
THEOREM BodyCorrect ==
    Spec => []BodyDelimited
<1>1. HttpInv => BodyDelimited
  <2> SUFFICES ASSUME HttpInv, Accepted, text.body # 0,
                      "content-length" \notin {Lower[n] : n \in Extensions}
               PROVE  /\ getContentLength = text.body
                      /\ text.type = "HttpRequest" => left = text.body
    BY DEF BodyDelimited
  <2>1. cs = "final"
    BY DEF Accepted, isFinished
  <2>2. /\ text # NoText /\ Length /\ todo = <<>> /\ OneName(p_headers)
        /\ text.type = "HttpRequest" => left = text.body
    BY <2>1 DEF HttpInv, HttpTypeOK, Parsing
  <2>3. text.body \in DOMAIN Numeral
    BY <2>2, HttpAssumption DEF HttpInv, Written
  <2>4. Len(todo) = 0
    BY <2>2
  <2>5. PICK k \in DOMAIN p_headers : /\ Lower[k] = "content-length"
                                      /\ p_headers[k] = Numeral[text.body]
    BY <2>2, <2>4 DEF Length
  <2>6. getContentLength = text.body
    BY <2>2, <2>3, <2>5, LengthRead
  <2> QED
    BY <2>2, <2>6
<1> QED
  BY <1>1, HttpInvariant, PTL

\* A text says once whether its connection is closed, as m_close says.
THEOREM ConnectionLineCorrect ==
    Spec => []OneConnectionLine
BY HttpInvariant, PTL DEF HttpInv
=============================================================================
