----------------------- MODULE HttpResponseParserProofs -----------------------
(***************************************************************************)
(* Proofs about HttpResponseParser, for messages of any number of headers, *)
(* bytes and chunks: the parser and the sender are at the same place of    *)
(* the message, or the parser missed the framing of its body and completes *)
(* it where the body begins, or a status line and an empty line are all    *)
(* that it has taken for the status.                                       *)
(***************************************************************************)
EXTENDS HttpResponseParser, SequenceTheorems, TLAPS

-----------------------------------------------------------------------------
(* The inductive invariant *)

\* The header lines a sender can mean: a name, and what its value has besides.
HeaderLines ==
  {h \in Seq({"length", "chunked", "header", "blank", "fold"}) :
     /\ h # <<>> /\ h[1] \in {"length", "chunked", "header"}
     /\ h[1] = "chunked" => h = <<"chunked">> \/ h = <<"chunked", "blank">>}

\* What the sender counts.
SenderInv ==
  /\ due \in Nat /\ sentHeaders \in Seq(HeaderLines)
  /\ phase \in {"status", "headers", "body", "size", "chunk", "trailers", "sent", "rest"}

\* The status line was a bare one: the first line after it went into the status, or will.
Bare == "bare" \in forms

\* Missed, by what the headers are.
Lost ==
  \/ Bare /\ sentHeaders # <<>> /\ Framing(Head(sentHeaders))
  \/ <<"chunked", "blank">> \in ToSet(sentHeaders)

\* Nothing has been parsed.
AtStart ==
  /\ state = "ResponseStatusStart" /\ contentSize = 0 /\ due = 0 /\ chunked = FALSE
  /\ sentHeaders = <<>> /\ headers = <<>> /\ content = <<>> /\ sentBody = <<>> /\ forms = {}

\* A bare status line, and no header after it.
AtStatusText ==
  /\ content = <<>>
  /\ \/ /\ phase = "headers" /\ state = "ResponseHttpVersion_statusText"
        /\ headers = <<>> /\ contentSize = 0 /\ due = 0 /\ chunked = FALSE /\ sentBody = <<>>
     \/ phase \in {"sent", "rest"} /\ state \in {"HeaderLineStart", "HeaderName"}

\* The parser is where the sender is.
InMessage ==
  /\ phase = "headers" =>
       /\ state = "HeaderLineStart" /\ content = <<>>
       /\ due > 0 => Framed
       /\ InChunks => due = 0
       /\ Lost => contentSize = 0 /\ ~chunked
       /\ ~Lost => contentSize = due /\ (chunked <=> InChunks)
  /\ phase = "body" => state = "Post" /\ contentSize = due /\ due > 0
  /\ phase = "size" => state = "ChunkSize"
  /\ phase = "chunk" =>
       \/ due > 0 /\ state = "ChunkData" /\ chunkSize = due
       \/ due = 0 /\ state = "ChunkDataNewLine_1"
  /\ phase = "trailers" => state = "ChunkSizeNewLine_2"
  /\ phase \notin {"sent", "rest"}

\* The headers that did not go into the status text.
Kept == IF Bare THEN Tail(sentHeaders) ELSE sentHeaders

\* As long as parse goes on.
InStep ==
  /\ phase = "status" => AtStart
  /\ phase # "status" /\ Bare /\ sentHeaders = <<>> => AtStatusText
  /\ phase # "status" /\ ~(Bare /\ sentHeaders = <<>>) =>
       headers = Kept /\ content = sentBody /\ InMessage

\* What parse has returned.
ReturnInv ==
  /\ result \in {"none", "ParsingCompleted", "ParsingError", "ParsingIncomplete"}
  /\ WholeIsCompleted
  /\ CompletedIsWholeOrEmpty

HInv == SenderInv /\ (result = "none" => InStep) /\ ReturnInv

-----------------------------------------------------------------------------
(* Header lines *)

\* A header line, as the sender gives it.
LEMMA ItemIsLine ==
  ASSUME NEW is \in {"length", "chunked", "header"}, NEW form
  PROVE  Item(is, form) \in HeaderLines /\ Item(is, form)[1] = is
BY DEF Item, HeaderLines

\* The lines of a header with one more of them.
LEMMA LineAdded ==
  ASSUME NEW s \in Seq(HeaderLines), NEW l \in HeaderLines
  PROVE  LET t == Append(s, l) IN
         /\ t \in Seq(HeaderLines) /\ t # <<>>
         /\ ToSet(t) = ToSet(s) \union {l}
         /\ Head(t) = IF s = <<>> THEN l ELSE Head(s)
         /\ Tail(t) = IF s = <<>> THEN <<>> ELSE Append(Tail(s), l)
<1> DEFINE t == Append(s, l)
<1>1. /\ t \in Seq(HeaderLines) /\ Len(t) = Len(s) + 1 /\ t[Len(s) + 1] = l
      /\ \A i \in 1 .. Len(s) : t[i] = s[i]
  BY AppendProperties
<1>2. Len(s) \in Nat /\ DOMAIN s = 1 .. Len(s) /\ DOMAIN t = 1 .. Len(t)
  BY <1>1, LenProperties
<1>3. t # <<>> /\ (s = <<>> <=> Len(s) = 0)
  BY <1>1, <1>2, EmptySeq
<1>4. Tail(t) = IF s = <<>> THEN <<>> ELSE Append(Tail(s), l)
  <2>1. CASE s = <<>>
    <3>1. Tail(t) \in Seq(HeaderLines) /\ Len(Tail(t)) = 0
      BY <1>1, <1>3, <2>1, HeadTailProperties
    <3>2. QED
      BY <2>1, <3>1, EmptySeq
  <2>2. CASE s # <<>>
    <3> DEFINE a == Tail(t)
               b == Append(Tail(s), l)
    <3>1. /\ a \in Seq(HeaderLines) /\ Len(a) = Len(s)
          /\ \A i \in 1 .. Len(a) : a[i] = t[i + 1]
      BY <1>1, <1>2, <1>3, HeadTailProperties
    <3>2. /\ Tail(s) \in Seq(HeaderLines) /\ Len(Tail(s)) = Len(s) - 1
          /\ \A i \in 1 .. Len(Tail(s)) : Tail(s)[i] = s[i + 1]
      BY <1>2, <2>2, HeadTailProperties
    <3>3. /\ b \in Seq(HeaderLines) /\ Len(b) = Len(s) /\ b[Len(s)] = l
          /\ \A i \in 1 .. Len(s) - 1 : b[i] = s[i + 1]
      BY <1>2, <3>2, AppendProperties
    <3>4. \A i \in 1 .. Len(s) : a[i] = b[i]
      <4>1. SUFFICES ASSUME NEW i \in 1 .. Len(s) PROVE a[i] = b[i]
        OBVIOUS
      <4>2. a[i] = t[i + 1]
        BY <3>1
      <4>3. CASE i = Len(s)
        BY <1>1, <3>3, <4>1, <4>2, <4>3
      <4>4. CASE i # Len(s)
        <5>1. i \in 1 .. Len(s) - 1 /\ i + 1 \in 1 .. Len(s)
          <6>1. Len(s) \in Nat /\ i \in 1 .. Len(s)
            BY <1>2, <4>1
          <6> HIDE DEF t
          <6>2. QED
            BY <4>4, <6>1
        <5>2. QED
          BY <1>1, <3>3, <4>2, <5>1
      <4>5. QED
        BY <4>3, <4>4
    <3> HIDE DEF a, b
    <3>5. a = b
      BY <3>1, <3>3, <3>4, SeqEqual
    <3>6. QED
      BY <2>2, <3>5 DEF a, b
  <2>3. QED
    BY <2>1, <2>2
<1>5. Head(t) = IF s = <<>> THEN l ELSE Head(s)
  <2>1. Head(t) = t[1] /\ (s # <<>> => Head(s) = s[1])
    BY <1>1, <1>3, HeadTailProperties
  <2>2. s # <<>> => 1 \in 1 .. Len(s)
    BY <1>2, <1>3
  <2>3. s = <<>> => t[1] = l
    BY <1>1, <1>3
  <2>4. QED
    BY <1>1, <2>1, <2>2, <2>3
<1> HIDE DEF t
<1>6. ToSet(t) = ToSet(s) \union {l}
  <2>1. ToSet(t) = {t[i] : i \in 1 .. Len(s) + 1} /\ ToSet(s) = {s[i] : i \in 1 .. Len(s)}
    BY <1>1, <1>2 DEF ToSet
  <2>2. 1 .. Len(s) + 1 = (1 .. Len(s)) \union {Len(s) + 1}
    BY <1>2
  <2>3. QED
    BY <1>1, <2>1, <2>2
<1>7. QED
  BY <1>1, <1>3, <1>4, <1>5, <1>6 DEF t

\* A folded line adds to the value of a header that frames nothing.
LEMMA LineFolded ==
  ASSUME NEW s \in Seq(HeaderLines), s # <<>>, Last(s)[1] = "header"
  PROVE  LET t == [s EXCEPT ![Len(s)] = Append(@, "fold")] IN
         /\ t \in Seq(HeaderLines) /\ t # <<>>
         /\ \A h : h[1] \in {"length", "chunked"} => (h \in ToSet(t) <=> h \in ToSet(s))
         /\ Head(t)[1] = Head(s)[1]
         /\ Tail(s) = <<>> => Tail(t) = <<>>
         /\ Tail(s) # <<>> => Tail(t) = [Tail(s) EXCEPT ![Len(Tail(s))] = Append(@, "fold")]
<1> DEFINE n == Len(s)
           l == Append(s[n], "fold")
           t == [s EXCEPT ![n] = l]
           r == Tail(s)
           q == Tail(t)
<1>1. n \in 1 .. Len(s) /\ Len(s) \in Nat /\ DOMAIN s = 1 .. Len(s) /\ s[n] \in HeaderLines
  <2>1. n \in Nat \ {0} /\ DOMAIN s = 1 .. Len(s)
    BY EmptySeq, LenProperties
  <2>2. n \in 1 .. Len(s)
    BY <2>1
  <2>3. QED
    BY <2>1, <2>2, ElementOfSeq
<1>2. s[n][1] = "header"
  BY DEF Last
<1>3. l \in HeaderLines /\ l[1] = "header"
  <2>1. s[n] \in Seq({"length", "chunked", "header", "blank", "fold"}) /\ s[n] # <<>>
    BY <1>1 DEF HeaderLines
  <2>2. Len(s[n]) \in Nat \ {0}
    BY <2>1, EmptySeq
  <2>3. 1 \in 1 .. Len(s[n])
    BY <2>2
  <2>4. l \in Seq({"length", "chunked", "header", "blank", "fold"}) /\ l # <<>> /\ l[1] = s[n][1]
    BY <2>1, <2>3, AppendProperties
  <2>5. QED
    BY <1>2, <2>4 DEF HeaderLines
<1>4. /\ r \in Seq(HeaderLines) /\ Len(r) = n - 1 /\ Head(s) = s[1]
      /\ \A j \in 1 .. Len(r) : r[j] = s[j + 1]
  BY HeadTailProperties
<1> HIDE DEF l, n, r
<1>5. t \in Seq(HeaderLines) /\ Len(t) = Len(s) /\ \A j \in 1 .. Len(s) : t[j] = IF j = n THEN l ELSE s[j]
  BY <1>1, <1>3, ExceptSeq
<1>6. DOMAIN t = 1 .. Len(s) /\ t # <<>>
  BY <1>1, <1>5, LenProperties, EmptySeq
<1> HIDE DEF t
<1>7. \A h : h[1] \in {"length", "chunked"} => (h \in ToSet(t) <=> h \in ToSet(s))
  BY <1>1, <1>2, <1>3, <1>5, <1>6 DEF ToSet
<1>8. /\ q \in Seq(HeaderLines) /\ Len(q) = n - 1 /\ Head(t) = t[1]
      /\ \A j \in 1 .. Len(q) : q[j] = t[j + 1]
  <2>1. n = Len(s)
    BY DEF n
  <2>2. QED
    <3>1. /\ Tail(t) \in Seq(HeaderLines) /\ Len(Tail(t)) = Len(t) - 1
          /\ \A j \in 1 .. Len(Tail(t)) : Tail(t)[j] = t[j + 1]
      BY <1>5, <1>6, HeadTailProperties
    <3>2. Head(t) = t[1]
      BY <1>5, <1>6
    <3>3. QED
      BY <1>5, <2>1, <3>1, <3>2
<1> HIDE DEF q
<1>9. Head(t)[1] = Head(s)[1]
  BY <1>1, <1>2, <1>3, <1>4, <1>5, <1>8
<1>10. r = <<>> => q = <<>>
  <2>1. Len(r) = Len(q)
    BY <1>4, <1>8
  <2>2. QED
    BY <1>4, <1>8, <2>1, EmptySeq
<1>11. r # <<>> => q = [r EXCEPT ![Len(r)] = Append(@, "fold")]
  <2> SUFFICES ASSUME r # <<>> PROVE q = [r EXCEPT ![Len(r)] = Append(r[Len(r)], "fold")]
    OBVIOUS
  <2>1. Len(r) \in Nat /\ Len(r) > 0 /\ n = Len(r) + 1 /\ n = Len(s)
    <3>1. Len(r) \in Nat /\ Len(r) # 0
      BY <1>4, EmptySeq, LenProperties
    <3>2. QED
      BY <1>1, <1>4, <3>1 DEF n
  <2>2. Len(r) \in 1 .. Len(r)
    BY <2>1
  <2>3. r[Len(r)] = s[n]
    BY <1>4, <2>1, <2>2
  <2> DEFINE u == [r EXCEPT ![Len(r)] = l]
  <2>4. u \in Seq(HeaderLines) /\ Len(u) = Len(r) /\ \A j \in 1 .. Len(r) : u[j] = IF j = Len(r) THEN l ELSE r[j]
    BY <1>3, <1>4, <2>2, ExceptSeq
  <2> HIDE DEF u
  <2>5. \A j \in 1 .. Len(r) : q[j] = u[j]
    <3>1. SUFFICES ASSUME NEW j \in 1 .. Len(r) PROVE q[j] = u[j]
      OBVIOUS
    <3>2. j + 1 \in 1 .. Len(s) /\ (j + 1 = n <=> j = Len(r)) /\ j \in 1 .. Len(q)
      BY <1>8, <2>1
    <3>3. QED
      BY <1>4, <1>5, <1>8, <2>4, <3>2
  <2>6. q = u
    BY <1>8, <2>1, <2>4, <2>5, SeqEqual
  <2>7. QED
    BY <2>3, <2>6 DEF u, l
<1>12. QED
  BY <1>5, <1>6, <1>7, <1>9, <1>10, <1>11 DEF t, l, n, r, q

\* Framing that is lost is framing that was sent.
LEMMA LostIsFramed ==
  ASSUME sentHeaders \in Seq(HeaderLines), Lost
  PROVE  Framed
<1>1. sentHeaders # <<>> => Head(sentHeaders) \in ToSet(sentHeaders)
  <2> SUFFICES ASSUME sentHeaders # <<>> PROVE Head(sentHeaders) \in ToSet(sentHeaders)
    OBVIOUS
  <2>1. Len(sentHeaders) \in Nat /\ Len(sentHeaders) # 0 /\ DOMAIN sentHeaders = 1 .. Len(sentHeaders)
    BY EmptySeq, LenProperties
  <2>2. 1 \in DOMAIN sentHeaders /\ Head(sentHeaders) = sentHeaders[1]
    BY <2>1, HeadTailProperties
  <2>3. QED
    BY <2>2 DEF ToSet
<1>2. Framing(<<"chunked", "blank">>)
  BY DEF Framing
<1>3. QED
  BY <1>1, <1>2 DEF Lost, Framed

-----------------------------------------------------------------------------
(* Each step preserves the invariant *)

\* What is left to show of a step of the sender, by what the parser returns.
LEMMA AfterStep ==
  ASSUME SenderInv', result = "none",
         \/ result' = "none" /\ InStep'
         \/ /\ result' = "ParsingCompleted" /\ headers' = Kept'
            /\ \/ phase' = "sent" /\ content' = sentBody'
               \/ Missed' /\ content' = <<>>
         \/ result' = "ParsingError" /\ ("odd" \in forms' \/ Bare')
  PROVE  HInv'
<1>1. WholeIsCompleted'
  BY DEF WholeIsCompleted, InStep, AtStart, AtStatusText, InMessage, Bare
<1>2. CompletedIsWholeOrEmpty'
  BY DEF CompletedIsWholeOrEmpty, Kept, Bare
<1>3. QED
  BY <1>1, <1>2 DEF HInv, ReturnInv

\* A step within a message adds no bare line, and leaves the headers as they are.
LEMMA Within ==
  ASSUME NEW form, form # "bare", forms' = forms \/ Add(form), sentHeaders' = sentHeaders
  PROVE  (Bare' <=> Bare) /\ Kept' = Kept /\ (Framed' <=> Framed)
         /\ (InChunks' <=> InChunks) /\ (Lost' <=> Lost)
<1>1. Bare' <=> Bare
  BY DEF Bare, Add
<1>2. QED
  BY <1>1 DEF Kept, Framed, InChunks, Lost

\* The status line.
LEMMA StatusStep ==
  ASSUME HInv, result = "none", SendStatus
  PROVE  HInv'
<1>1. PICK form \in {"plain", "bare", "odd"} : Add(form) /\ Consume(Token("status", 0, form))
  BY DEF SendStatus
<1> DEFINE t == Token("status", 0, form)
<1>2. phase = "status" /\ phase' = "headers" /\ UNCHANGED <<due, sentHeaders, sentBody>>
  BY DEF SendStatus
<1>3. AtStart /\ SenderInv
  BY <1>2 DEF HInv, InStep
<1>4. t.is = "status" /\ t.form = form
  BY DEF Token
<1>5. Consume(t)
  BY <1>1
<1> HIDE DEF t
<1>6. SenderInv'
  BY <1>2, <1>3 DEF SenderInv
<1>7. StatusLine(t) \/ (form = "odd" /\ ParsingError)
  BY <1>3, <1>4, <1>5 DEF AtStart, Consume, Refuses, Expected, Swallow, Header, Folded, BodyAsHeader,
     EndOfHeaders, Post, ChunkSize, ChunkData, ChunkEnd, Trailer, LastChunk
<1>8. forms' = {form}
  BY <1>1, <1>3 DEF AtStart, Add
<1>9. CASE StatusLine(t)
  <2>1. /\ state' = IF form = "bare" THEN "ResponseHttpVersion_statusText" ELSE "HeaderLineStart"
        /\ result' = "none" /\ contentSize' = 0 /\ due' = 0 /\ chunked' = FALSE
        /\ headers' = <<>> /\ content' = <<>> /\ sentHeaders' = <<>> /\ sentBody' = <<>>
    BY <1>2, <1>3, <1>4, <1>9 DEF AtStart, StatusLine, Goto
  <2>2. Bare' <=> form = "bare"
    BY <1>8 DEF Bare
  <2>3. CASE form = "bare"
    <3>1. AtStatusText'
      BY <1>2, <2>1, <2>3 DEF AtStatusText
    <3>2. QED
      BY <1>2, <1>6, <2>1, <2>2, <2>3, <3>1, AfterStep DEF InStep
  <2>4. CASE form # "bare"
    <3>1. ~InChunks' /\ ~Lost'
      BY <2>1, <2>2, <2>4 DEF InChunks, Lost, ToSet
    <3>2. InMessage'
      BY <1>2, <2>1, <2>4, <3>1 DEF InMessage
    <3>3. headers' = Kept'
      BY <2>1, <2>2, <2>4 DEF Kept
    <3>4. QED
      BY <1>2, <1>6, <2>1, <2>2, <2>4, <3>2, <3>3, AfterStep DEF InStep
  <2>5. QED
    BY <2>3, <2>4
<1>10. CASE form = "odd" /\ ParsingError
  BY <1>6, <1>8, <1>10, AfterStep DEF ParsingError
<1>11. QED
  BY <1>7, <1>9, <1>10

\* A header line of the sender's, as the parser takes it, swallows it or refuses it.
LEMMA HeaderStep ==
  ASSUME HInv, result = "none", SendHeader, MaxBody \in Nat
  PROVE  HInv'
<1>1. PICK is \in {"length", "chunked", "header"}, size \in 0 .. MaxBody,
           form \in {"plain", "padded", "foreign", "odd"} :
        /\ is \in {"length", "chunked"} => ~Framed /\ form # "foreign"
        /\ is # "length" => size = 0
        /\ due' = due + size
        /\ sentHeaders' = Append(sentHeaders, Item(is, form))
        /\ Add(form)
        /\ Consume(Token(is, size, form))
  BY DEF SendHeader
<1> DEFINE t == Token(is, size, form)
           l == Item(is, form)
<1>2. phase = "headers" /\ phase' = "headers" /\ sentBody' = sentBody
  BY DEF SendHeader
<1>3. InStep /\ SenderInv /\ due \in Nat /\ size \in Nat
  BY DEF HInv, SenderInv
<1>4. t.is = is /\ t.arg = size /\ t.form = form
  BY DEF Token
<1>5. Consume(t) /\ sentHeaders' = Append(sentHeaders, l)
  BY <1>1
<1>6. /\ l \in HeaderLines /\ l[1] = is
      /\ l = <<"chunked", "blank">> <=> is = "chunked" /\ form = "padded"
  BY ItemIsLine DEF Item
<1> HIDE DEF t, l
<1>7. /\ sentHeaders' \in Seq(HeaderLines) /\ sentHeaders' # <<>>
      /\ ToSet(sentHeaders') = ToSet(sentHeaders) \union {l}
      /\ Head(sentHeaders') = IF sentHeaders = <<>> THEN l ELSE Head(sentHeaders)
      /\ Tail(sentHeaders') = IF sentHeaders = <<>> THEN <<>> ELSE Append(Tail(sentHeaders), l)
  BY <1>3, <1>5, <1>6, LineAdded DEF SenderInv
<1>8. SenderInv'
  <2>1. due' \in Nat
    BY <1>1, <1>3
  <2>2. QED
    BY <1>2, <1>7, <2>1 DEF SenderInv
<1>9. Bare' <=> Bare
  BY <1>1 DEF Bare, Add
<1>10. /\ Framed' <=> Framed \/ is \in {"length", "chunked"}
       /\ InChunks' <=> InChunks \/ is = "chunked"
  BY <1>6, <1>7 DEF Framed, InChunks, Framing
<1>11. Lost' <=> \/ Lost
                 \/ is = "chunked" /\ form = "padded"
                 \/ Bare /\ sentHeaders = <<>> /\ is \in {"length", "chunked"}
  <2> DEFINE c == <<"chunked", "blank">>
  <2>1. l = c <=> is = "chunked" /\ form = "padded"
    BY <1>6
  <2>2. /\ Lost <=> (Bare /\ sentHeaders # <<>> /\ Framing(Head(sentHeaders))) \/ c \in ToSet(sentHeaders)
        /\ Lost' <=> (Bare' /\ sentHeaders' # <<>> /\ Framing(Head(sentHeaders'))) \/ c \in ToSet(sentHeaders')
    BY DEF Lost, Framing
  <2> HIDE DEF c
  <2>3. Framing(l) <=> is \in {"length", "chunked"}
    BY <1>6 DEF Framing
  <2>4. c \in ToSet(sentHeaders') <=> c \in ToSet(sentHeaders) \/ l = c
    BY <1>7
  <2>5. CASE sentHeaders = <<>>
    <3>1. Framing(Head(sentHeaders')) <=> is \in {"length", "chunked"}
      BY <1>7, <2>3, <2>5
    <3>2. QED
      BY <1>7, <1>9, <2>1, <2>2, <2>4, <2>5, <3>1, Zenon
  <2>6. CASE sentHeaders # <<>>
    <3>1. Framing(Head(sentHeaders')) <=> Framing(Head(sentHeaders))
      BY <1>7, <2>6
    <3>2. QED
      BY <1>7, <1>9, <2>1, <2>2, <2>4, <2>6, <3>1, Zenon
  <2>7. QED
    BY <2>5, <2>6
<1>12. CASE Bare /\ sentHeaders = <<>>
  <2>1. AtStatusText /\ state = "ResponseHttpVersion_statusText"
    BY <1>2, <1>3, <1>12 DEF InStep, AtStatusText
  <2>2. Swallow(t) \/ ParsingError
    BY <1>4, <1>5, <2>1 DEF Consume, Expected, StatusLine, Header, Folded, BodyAsHeader, EndOfHeaders, Post,
       ChunkSize, ChunkData, ChunkEnd, Trailer, LastChunk
  <2>3. CASE Swallow(t)
    <3>1. /\ state' = "HeaderLineStart" /\ result' = "none" /\ headers' = <<>> /\ content' = <<>>
          /\ contentSize' = 0 /\ chunked' = FALSE /\ sentBody' = <<>> /\ due = 0
      BY <1>2, <1>12, <2>1, <2>3 DEF AtStatusText, Swallow, Goto
    <3>2. headers' = Kept'
      BY <1>7, <1>9, <1>12, <3>1 DEF Kept
    <3>3. ~Framed /\ ~InChunks
      BY <1>12 DEF Framed, InChunks, ToSet
    <3>4. InMessage'
      <4>1. due' > 0 => Framed'
        BY <1>1, <1>3, <1>10, <3>1
      <4>2. InChunks' => due' = 0
        BY <1>1, <1>3, <1>10, <3>1, <3>3
      <4>3. ~Lost' => due' = 0 /\ ~InChunks'
        BY <1>1, <1>3, <1>10, <1>11, <1>12, <3>1, <3>3
      <4>4. QED
        BY <1>2, <3>1, <4>1, <4>2, <4>3 DEF InMessage
    <3>5. InStep'
      BY <1>2, <1>7, <3>1, <3>2, <3>4 DEF InStep
    <3>6. QED
      BY <1>8, <3>1, <3>5, AfterStep
  <2>4. CASE ParsingError
    BY <1>8, <1>9, <1>12, <2>4, AfterStep DEF ParsingError
  <2>5. QED
    BY <2>2, <2>3, <2>4
<1>13. CASE ~(Bare /\ sentHeaders = <<>>)
  <2>1. InMessage /\ headers = Kept /\ content = sentBody /\ state = "HeaderLineStart"
    BY <1>2, <1>3, <1>13 DEF InStep, InMessage
  <2>2. Header(t) \/ (form = "odd" /\ ParsingError)
    BY <1>4, <1>5, <2>1 DEF Consume, Refuses, Expected, StatusLine, Swallow, Folded, BodyAsHeader,
       EndOfHeaders, Post, ChunkSize, ChunkData, ChunkEnd, Trailer, LastChunk
  <2>3. CASE Header(t)
    <3>1. /\ headers' = Append(headers, l) /\ content' = content /\ state' = state /\ result' = "none"
          /\ contentSize' = IF is = "length" THEN size ELSE contentSize
          /\ chunked' <=> chunked \/ (is = "chunked" /\ form = "plain")
          /\ form # "odd"
      BY <1>4, <2>3 DEF Header, l
    <3>2. headers' = Kept'
      BY <1>5, <1>7, <1>9, <1>13, <2>1, <3>1 DEF Kept
    <3>3. InChunks => Framed
      BY DEF InChunks, Framed, Framing
    <3>4. Lost => Framed
      BY <1>3, LostIsFramed DEF SenderInv
    <3>5. /\ due > 0 => Framed
          /\ InChunks => due = 0
          /\ Lost => contentSize = 0 /\ ~chunked
          /\ ~Lost => contentSize = due /\ (chunked <=> InChunks)
      BY <1>2, <2>1 DEF InMessage
    <3>6. InMessage'
      <4>1. due' > 0 => Framed'
        BY <1>1, <1>3, <1>10, <3>5
      <4>2. InChunks' => due' = 0
        BY <1>1, <1>3, <1>10, <3>3, <3>5
      <4>3. Lost' => contentSize' = 0 /\ ~chunked'
        BY <1>1, <1>3, <1>11, <1>13, <3>1, <3>3, <3>4, <3>5
      <4>4. ~Lost' => contentSize' = due' /\ (chunked' <=> InChunks')
        <5>1. ~Lost' => contentSize' = due'
          <6>1. ~Lost' => contentSize = due
            BY <1>11, <3>5, Zenon
          <6>2. CASE is = "length"
            <7>1. due = 0
              BY <1>1, <1>3, <3>5, <6>2
            <7>2. QED
              BY <1>1, <1>3, <3>1, <6>2, <7>1
          <6>3. CASE is # "length"
            BY <1>1, <1>3, <3>1, <6>1, <6>3
          <6>4. QED
            BY <6>2, <6>3
        <5>2. ~Lost' => ~Lost /\ (is = "chunked" => form = "plain")
          BY <1>1, <1>11, <3>1
        <5>3. ~Lost' => (chunked' <=> InChunks')
          <6>1. ~Lost' => (is = "chunked" /\ form = "plain" <=> is = "chunked")
            BY <5>2, Zenon
          <6>2. ~Lost' => (chunked <=> InChunks)
            BY <3>5, <5>2, Zenon
          <6>3. QED
            BY <1>10, <3>1, <6>1, <6>2, Zenon
        <5>4. QED
          BY <5>1, <5>3
      <4>5. QED
        BY <1>2, <2>1, <3>1, <4>1, <4>2, <4>3, <4>4 DEF InMessage
    <3>7. InStep'
      BY <1>2, <1>7, <2>1, <3>1, <3>2, <3>6 DEF InStep
    <3>8. QED
      BY <1>8, <3>1, <3>7, AfterStep
  <2>4. CASE form = "odd" /\ ParsingError
    BY <1>1, <1>8, <2>4, AfterStep DEF ParsingError, Add
  <2>5. QED
    BY <2>2, <2>3, <2>4
<1>14. QED
  BY <1>12, <1>13

\* A folded line, of a header the parser has or of one that it swallowed.
LEMMA FoldedStep ==
  ASSUME HInv, result = "none", SendFolded
  PROVE  HInv'
<1> DEFINE t == Token("fold", 0, "plain")
           s == [sentHeaders EXCEPT ![Len(sentHeaders)] = Append(@, "fold")]
<1>1. /\ phase = "headers" /\ phase' = "headers" /\ Consume(t)
      /\ sentHeaders # <<>> /\ Last(sentHeaders)[1] = "header"
      /\ sentHeaders' = s
      /\ UNCHANGED <<due, sentBody, forms>>
  BY DEF SendFolded
<1>2. SenderInv /\ InMessage /\ headers = Kept /\ content = sentBody /\ state = "HeaderLineStart"
  BY <1>1 DEF HInv, InStep, InMessage
<1>3. t.is = "fold" /\ t.form = "plain"
  BY DEF Token
<1>4. /\ s \in Seq(HeaderLines) /\ s # <<>>
      /\ \A h : h[1] \in {"length", "chunked"} => (h \in ToSet(s) <=> h \in ToSet(sentHeaders))
      /\ Head(s)[1] = Head(sentHeaders)[1]
      /\ Tail(sentHeaders) = <<>> => Tail(s) = <<>>
      /\ Tail(sentHeaders) # <<>> =>
           Tail(s) = [Tail(sentHeaders) EXCEPT ![Len(Tail(sentHeaders))] = Append(@, "fold")]
  BY <1>1, <1>2, LineFolded DEF SenderInv
<1> HIDE DEF t, s
<1>5. SenderInv'
  BY <1>1, <1>2, <1>4 DEF SenderInv
<1>6. Bare' <=> Bare
  BY <1>1 DEF Bare
<1>7. (Framed' <=> Framed) /\ (InChunks' <=> InChunks)
  BY <1>1, <1>4 DEF Framed, InChunks, Framing
<1>8. Lost' <=> Lost
  <2>1. <<"chunked", "blank">> \in ToSet(s) <=> <<"chunked", "blank">> \in ToSet(sentHeaders)
    <3>1. <<"chunked", "blank">>[1] = "chunked"
      OBVIOUS
    <3>2. QED
      BY <1>4, <3>1
  <2>2. Framing(Head(s)) <=> Framing(Head(sentHeaders))
    BY <1>4 DEF Framing
  <2>3. QED
    BY <1>1, <1>4, <1>6, <2>1, <2>2 DEF Lost, Framing
<1>9. Folded(t) \/ (headers = <<>> /\ ParsingError)
  BY <1>1, <1>2, <1>3 DEF Consume, Refuses, Expected, StatusLine, Swallow, Header, BodyAsHeader,
     EndOfHeaders, Post, ChunkSize, ChunkData, ChunkEnd, Trailer, LastChunk
<1>10. CASE Folded(t)
  <2>1. /\ result' = "none" /\ headers # <<>> /\ UNCHANGED <<state, contentSize, chunked, content>>
        /\ headers' = [headers EXCEPT ![Len(headers)] = Append(@, "fold")]
    BY <1>10 DEF Folded
  <2>2. headers' = Kept'
    BY <1>1, <1>2, <1>4, <1>6, <2>1 DEF Kept, s
  <2>3. InMessage'
    BY <1>1, <1>2, <1>7, <1>8, <2>1 DEF InMessage
  <2>4. InStep'
    BY <1>1, <1>2, <1>4, <2>1, <2>2, <2>3 DEF InStep
  <2>5. QED
    BY <1>5, <2>1, <2>4, AfterStep
<1>11. CASE headers = <<>> /\ ParsingError
  <2>1. Bare
    BY <1>1, <1>2, <1>11 DEF Kept
  <2>2. QED
    BY <1>5, <1>6, <1>11, <2>1, AfterStep DEF ParsingError
<1>12. QED
  BY <1>9, <1>10, <1>11

\* The empty line after the headers, or after the trailers.
LEMMA BlankStep ==
  ASSUME HInv, result = "none", SendBlank
  PROVE  HInv'
<1> DEFINE t == Token("blank", 0, "plain")
<1>1. /\ \/ /\ phase = "headers"
            /\ phase' \in IF InChunks THEN {"size"}
                          ELSE IF due > 0 THEN {"body"}
                          ELSE IF Framed THEN {"sent"}
                          ELSE {"sent", "rest"}
         \/ phase = "trailers" /\ phase' = "sent"
      /\ Consume(t)
      /\ UNCHANGED <<due, sentHeaders, sentBody, forms>>
  BY DEF SendBlank
<1>2. InStep /\ SenderInv
  BY DEF HInv
<1>3. t.is = "blank" /\ t.form = "plain"
  BY DEF Token
<1> HIDE DEF t
<1>4. SenderInv'
  BY <1>1, <1>2 DEF SenderInv
<1>5. (Bare' <=> Bare) /\ Kept' = Kept
  BY <1>1, Within
<1>6. CASE phase = "headers" /\ Bare /\ sentHeaders = <<>>
  <2>1. AtStatusText /\ state = "ResponseHttpVersion_statusText" /\ due = 0
    BY <1>2, <1>6 DEF InStep, AtStatusText
  <2>2. Swallow(t)
    BY <1>1, <1>3, <2>1 DEF Consume, Refuses, Expected, StatusLine, Header, Folded, BodyAsHeader,
       EndOfHeaders, Post, ChunkSize, ChunkData, ChunkEnd, Trailer, LastChunk
  <2>3. ~InChunks
    BY <1>6 DEF InChunks, ToSet
  <2>4. phase' \in {"sent", "rest"}
    BY <1>1, <1>6, <2>1, <2>3
  <2>5. AtStatusText' /\ result' = "none"
    BY <2>1, <2>2, <2>4 DEF AtStatusText, Swallow, Goto
  <2>6. InStep'
    BY <1>1, <1>5, <1>6, <2>4, <2>5 DEF InStep
  <2>7. QED
    BY <1>4, <2>5, <2>6, AfterStep
<1>7. CASE phase = "headers" /\ ~(Bare /\ sentHeaders = <<>>)
  <2>1. InMessage /\ headers = Kept /\ content = sentBody /\ state = "HeaderLineStart" /\ content = <<>>
    BY <1>2, <1>7 DEF InStep, InMessage
  <2>2. EndOfHeaders(t)
    BY <1>1, <1>3, <2>1 DEF Consume, Refuses, Expected, StatusLine, Swallow, Header, Folded, BodyAsHeader,
       Post, ChunkSize, ChunkData, ChunkEnd, Trailer, LastChunk
  <2>3. UNCHANGED <<headers, content, contentSize>> /\ headers' = Kept'
    BY <1>5, <2>1, <2>2 DEF EndOfHeaders
  <2>4. CASE Lost
    <3>1. result' = "ParsingCompleted"
      BY <1>7, <2>1, <2>2, <2>4 DEF InMessage, EndOfHeaders, Complete
    <3>2. Missed'
      BY <1>1, <2>4 DEF Lost, Missed, Bare, Framing
    <3>3. QED
      BY <1>4, <2>1, <2>3, <3>1, <3>2, AfterStep
  <2>5. CASE ~Lost
    <3>1. /\ contentSize = due /\ (chunked <=> InChunks) /\ due \in Nat
          /\ due > 0 => Framed
      BY <1>2, <1>7, <2>1, <2>5 DEF InMessage, SenderInv
    <3>2. CASE InChunks
      <4>1. state' = "ChunkSize" /\ result' = "none" /\ phase' = "size"
        BY <1>1, <1>7, <2>2, <3>1, <3>2 DEF EndOfHeaders, Goto
      <4>2. InStep'
        BY <1>1, <1>5, <1>7, <2>1, <2>3, <4>1 DEF InStep, InMessage
      <4>3. QED
        BY <1>4, <4>1, <4>2, AfterStep
    <3>3. CASE ~InChunks /\ due > 0
      <4>1. state' = "Post" /\ result' = "none" /\ phase' = "body"
        BY <1>1, <1>7, <2>2, <3>1, <3>3 DEF EndOfHeaders, Goto
      <4>2. InStep'
        BY <1>1, <1>5, <1>7, <2>1, <2>3, <3>1, <3>3, <4>1 DEF InStep, InMessage
      <4>3. QED
        BY <1>4, <4>1, <4>2, AfterStep
    <3>4. CASE ~InChunks /\ due = 0
      <4>1. result' = "ParsingCompleted" /\ phase' \in {"sent", "rest"}
        BY <1>1, <1>7, <2>2, <3>1, <3>4 DEF EndOfHeaders, Complete
      <4>2. phase' = "rest" => Missed'
        BY DEF Missed
      <4>3. QED
        BY <1>1, <1>4, <2>1, <2>3, <4>1, <4>2, AfterStep
    <3>5. QED
      BY <3>1, <3>2, <3>3, <3>4
  <2>6. QED
    BY <2>4, <2>5
<1>8. CASE phase = "trailers" /\ phase' = "sent"
  <2>1. InMessage /\ headers = Kept /\ content = sentBody /\ state = "ChunkSizeNewLine_2"
    BY <1>2, <1>8 DEF InStep, InMessage, AtStatusText
  <2>2. LastChunk(t)
    BY <1>1, <1>3, <2>1 DEF Consume, Refuses, Expected, StatusLine, Swallow, Header, Folded, BodyAsHeader,
       EndOfHeaders, Post, ChunkSize, ChunkData, ChunkEnd, Trailer
  <2>3. QED
    BY <1>1, <1>4, <1>5, <1>8, <2>1, <2>2, AfterStep DEF LastChunk, Complete
<1>9. QED
  BY <1>1, <1>6, <1>7, <1>8

\* A byte of the body, or of a chunk, or of a body taken for a header.
LEMMA ByteStep ==
  ASSUME HInv, result = "none", SendByte
  PROVE  HInv'
<1>1. PICK b \in Bytes : sentBody' = Append(sentBody, b) /\ Consume(Token("byte", b, "plain"))
  BY DEF SendByte
<1> DEFINE t == Token("byte", b, "plain")
<1>2. /\ \/ phase \in {"body", "chunk"} /\ due > 0 /\ due' = due - 1
         \/ phase = "rest" /\ due' = due
      /\ phase' = IF phase = "body" /\ due = 1 THEN "sent" ELSE phase
      /\ UNCHANGED <<sentHeaders, forms>>
  BY DEF SendByte
<1>3. InStep /\ SenderInv /\ due \in Nat
  BY DEF HInv, SenderInv
<1>4. t.is = "byte" /\ t.form = "plain" /\ t.arg = b
  BY DEF Token
<1>5. Consume(t)
  BY <1>1
<1> HIDE DEF t
<1>6. SenderInv'
  BY <1>2, <1>3 DEF SenderInv
<1>7. (Bare' <=> Bare) /\ Kept' = Kept
  BY <1>2, Within
<1>8. CASE phase = "rest"
  <2>1. Bare /\ sentHeaders = <<>> /\ AtStatusText /\ state \in {"HeaderLineStart", "HeaderName"}
    BY <1>3, <1>8 DEF InStep, InMessage, AtStatusText
  <2>2. BodyAsHeader(t) \/ ParsingError
    BY <1>4, <1>5, <2>1 DEF Consume, Expected, StatusLine, Swallow, Header, Folded, EndOfHeaders, Post,
       ChunkSize, ChunkData, ChunkEnd, Trailer, LastChunk
  <2>3. CASE BodyAsHeader(t)
    <3>1. AtStatusText' /\ result' = "none"
      BY <1>2, <1>8, <2>1, <2>3 DEF AtStatusText, BodyAsHeader, Goto
    <3>2. InStep'
      BY <1>2, <1>7, <1>8, <2>1, <3>1 DEF InStep
    <3>3. QED
      BY <1>6, <3>1, <3>2, AfterStep
  <2>4. CASE ParsingError
    BY <1>6, <1>7, <2>1, <2>4, AfterStep DEF ParsingError
  <2>5. QED
    BY <2>2, <2>3, <2>4
<1>9. phase # "rest" => InMessage /\ headers = Kept /\ content = sentBody /\ ~(Bare /\ sentHeaders = <<>>)
  BY <1>2, <1>3 DEF InStep, AtStatusText
<1>10. CASE phase = "body"
  <2>1. state = "Post" /\ contentSize = due
    BY <1>9, <1>10 DEF InMessage
  <2>2. Post(t)
    BY <1>4, <1>5, <2>1 DEF Consume, Refuses, Expected, StatusLine, Swallow, Header, Folded, BodyAsHeader,
       EndOfHeaders, ChunkSize, ChunkData, ChunkEnd, Trailer, LastChunk
  <2>3. /\ content' = sentBody' /\ headers' = Kept' /\ contentSize' = due'
        /\ IF due = 1 THEN result' = "ParsingCompleted" ELSE state' = "Post" /\ result' = "none"
    BY <1>1, <1>2, <1>4, <1>7, <1>9, <1>10, <2>1, <2>2 DEF Post, Complete
  <2>4. due # 1 => InMessage'
    BY <1>2, <1>3, <1>10, <2>3 DEF InMessage
  <2>5. due # 1 => InStep'
    BY <1>2, <1>7, <1>9, <1>10, <2>3, <2>4 DEF InStep
  <2>6. QED
    BY <1>2, <1>6, <1>10, <2>3, <2>5, AfterStep
<1>11. CASE phase = "chunk"
  <2>1. due > 0 /\ state = "ChunkData" /\ chunkSize = due
    BY <1>2, <1>3, <1>9, <1>11 DEF InMessage
  <2>2. ChunkData(t)
    BY <1>4, <1>5, <2>1 DEF Consume, Refuses, Expected, StatusLine, Swallow, Header, Folded, BodyAsHeader,
       EndOfHeaders, Post, ChunkSize, ChunkEnd, Trailer, LastChunk
  <2>3. /\ content' = sentBody' /\ headers' = Kept' /\ chunkSize' = due' /\ result' = "none"
        /\ state' = IF due = 1 THEN "ChunkDataNewLine_1" ELSE "ChunkData"
    BY <1>1, <1>2, <1>4, <1>7, <1>9, <1>11, <2>1, <2>2 DEF ChunkData
  <2>4. InMessage'
    BY <1>2, <1>3, <1>11, <2>1, <2>3 DEF InMessage
  <2>5. InStep'
    BY <1>2, <1>7, <1>9, <1>11, <2>3, <2>4 DEF InStep
  <2>6. QED
    BY <1>6, <2>3, <2>5, AfterStep
<1>12. QED
  BY <1>2, <1>8, <1>10, <1>11

\* The size of a chunk, or of the last one.
LEMMA SizeStep ==
  ASSUME HInv, result = "none", SendSize
  PROVE  HInv'
<1>1. PICK size \in 0 .. MaxBody - Len(sentBody), form \in {"plain", "odd"} :
        /\ due' = size
        /\ phase' = IF size = 0 THEN "trailers" ELSE "chunk"
        /\ Add(form)
        /\ Consume(Token("size", size, form))
  BY DEF SendSize
<1> DEFINE t == Token("size", size, form)
<1>2. phase = "size" /\ UNCHANGED <<sentHeaders, sentBody>>
  BY DEF SendSize
<1>3. /\ SenderInv /\ InMessage /\ headers = Kept /\ content = sentBody /\ state = "ChunkSize"
      /\ ~(Bare /\ sentHeaders = <<>>)
  BY <1>2 DEF HInv, InStep, InMessage, AtStatusText
<1>4. t.is = "size" /\ t.arg = size /\ t.form = form
  BY DEF Token
<1>5. Consume(t)
  BY <1>1
<1> HIDE DEF t
<1>6. SenderInv'
  <2>1. due' \in Nat
    BY <1>1
  <2>2. QED
    BY <1>1, <1>2, <1>3, <2>1 DEF SenderInv
<1>7. (Bare' <=> Bare) /\ Kept' = Kept
  <2>1. form # "bare"
    OBVIOUS
  <2>2. QED
    BY <1>1, <1>2, <2>1, Within
<1>8. ChunkSize(t) \/ (form = "odd" /\ ParsingError)
  BY <1>3, <1>4, <1>5 DEF Consume, Refuses, Expected, StatusLine, Swallow, Header, Folded, BodyAsHeader,
     EndOfHeaders, Post, ChunkData, ChunkEnd, Trailer, LastChunk
<1>9. CASE ChunkSize(t)
  <2>1. /\ headers' = Kept' /\ content' = sentBody' /\ chunkSize' = size /\ result' = "none"
        /\ state' = IF size = 0 THEN "ChunkSizeNewLine_2" ELSE "ChunkData"
    BY <1>2, <1>3, <1>4, <1>7, <1>9 DEF ChunkSize, Goto
  <2>2. InStep'
    BY <1>1, <1>2, <1>3, <1>7, <2>1 DEF InStep, InMessage
  <2>3. QED
    BY <1>6, <2>1, <2>2, AfterStep
<1>10. CASE form = "odd" /\ ParsingError
  BY <1>1, <1>6, <1>10, AfterStep DEF ParsingError, Add
<1>11. QED
  BY <1>8, <1>9, <1>10

\* The newline after a chunk.
LEMMA NewlineStep ==
  ASSUME HInv, result = "none", SendNewline
  PROVE  HInv'
<1> DEFINE t == Token("newline", 0, "plain")
<1>1. /\ phase = "chunk" /\ due = 0 /\ phase' = "size" /\ Consume(t)
      /\ UNCHANGED <<due, sentHeaders, sentBody, forms>>
  BY DEF SendNewline
<1>2. /\ SenderInv /\ headers = Kept /\ content = sentBody /\ state = "ChunkDataNewLine_1"
      /\ ~(Bare /\ sentHeaders = <<>>)
  BY <1>1 DEF HInv, InStep, InMessage, AtStatusText
<1>3. t.is = "newline" /\ t.form = "plain"
  BY DEF Token
<1> HIDE DEF t
<1>4. SenderInv'
  BY <1>1, <1>2 DEF SenderInv
<1>5. (Bare' <=> Bare) /\ Kept' = Kept
  BY <1>1, Within
<1>6. ChunkEnd(t)
  BY <1>1, <1>2, <1>3 DEF Consume, Refuses, Expected, StatusLine, Swallow, Header, Folded, BodyAsHeader,
     EndOfHeaders, Post, ChunkSize, ChunkData, Trailer, LastChunk
<1>7. result' = "none" /\ InStep'
  BY <1>1, <1>2, <1>5, <1>6 DEF InStep, InMessage, ChunkEnd, Goto
<1>8. QED
  BY <1>4, <1>7, AfterStep

\* A trailer, that the parser takes or refuses.
LEMMA TrailerStep ==
  ASSUME HInv, result = "none", SendTrailer
  PROVE  HInv'
<1>1. PICK form \in {"plain", "odd"} : Add(form) /\ Consume(Token("trailer", 0, form))
  BY DEF SendTrailer
<1> DEFINE t == Token("trailer", 0, form)
<1>2. phase = "trailers" /\ UNCHANGED <<phase, due, sentHeaders, sentBody>>
  BY DEF SendTrailer
<1>3. /\ SenderInv /\ headers = Kept /\ content = sentBody /\ state = "ChunkSizeNewLine_2"
      /\ ~(Bare /\ sentHeaders = <<>>)
  BY <1>2 DEF HInv, InStep, InMessage, AtStatusText
<1>4. t.is = "trailer" /\ t.form = form
  BY DEF Token
<1>5. Consume(t)
  BY <1>1
<1> HIDE DEF t
<1>6. SenderInv'
  BY <1>2, <1>3 DEF SenderInv
<1>7. (Bare' <=> Bare) /\ Kept' = Kept
  <2>1. form # "bare"
    OBVIOUS
  <2>2. QED
    BY <1>1, <1>2, <2>1, Within
<1>8. Trailer(t) \/ (form = "odd" /\ ParsingError)
  BY <1>3, <1>4, <1>5 DEF Consume, Refuses, Expected, StatusLine, Swallow, Header, Folded, BodyAsHeader,
     EndOfHeaders, Post, ChunkSize, ChunkData, ChunkEnd, LastChunk
<1>9. CASE Trailer(t)
  <2>1. result' = "none" /\ InStep'
    BY <1>2, <1>3, <1>7, <1>9 DEF InStep, InMessage, Trailer
  <2>2. QED
    BY <1>6, <2>1, AfterStep
<1>10. CASE form = "odd" /\ ParsingError
  BY <1>1, <1>6, <1>10, AfterStep DEF ParsingError, Add
<1>11. QED
  BY <1>8, <1>9, <1>10

-----------------------------------------------------------------------------
(* The theorems *)

\* The invariant is inductive.
THEOREM Invariance == Spec => []HInv
<1>1. Init => HInv
  <2>1. <<>> \in Seq(HeaderLines)
    BY EmptySeq
  <2>2. Init => SenderInv
    BY <2>1 DEF Init, SenderInv
  <2>3. Init => InStep
    BY DEF Init, InStep, AtStart
  <2>4. Init => ReturnInv
    BY DEF Init, ReturnInv, CompletedIsWholeOrEmpty, WholeIsCompleted
  <2>5. QED
    BY <2>2, <2>3, <2>4 DEF HInv
<1>2. HInv /\ [Next]_vars => HInv'
  <2> SUFFICES ASSUME HInv, [Next]_vars PROVE HInv'
    OBVIOUS
  <2>1. CASE Send
    BY <2>1, ParserAssumption, StatusStep, HeaderStep, FoldedStep, BlankStep, ByteStep, SizeStep,
       NewlineStep, TrailerStep DEF Send
  <2>2. CASE EndOfInput
    <3>1. /\ result = "none" /\ result' = "ParsingIncomplete"
          /\ UNCHANGED <<due, sentHeaders, phase, forms>>
      BY <2>2 DEF EndOfInput, sender
    <3>2. phase = "sent" => Bare /\ sentHeaders = <<>>
      BY <3>1 DEF HInv, InStep, InMessage
    <3>3. SenderInv' /\ ReturnInv'
      BY <3>1, <3>2 DEF HInv, SenderInv, ReturnInv, WholeIsCompleted, CompletedIsWholeOrEmpty, Bare
    <3>4. QED
      BY <3>1, <3>3 DEF HInv
  <2>3. CASE UNCHANGED vars
    <3>1. UNCHANGED <<Bare, Kept, Framed, InChunks, Lost, Missed>>
      BY <2>3 DEF vars, sender, Bare, Kept, Framed, InChunks, Lost, Missed
    <3>2. SenderInv' /\ (InStep <=> InStep')
      BY <2>3, <3>1 DEF vars, parser, sender, HInv, SenderInv, InStep, AtStart, AtStatusText, InMessage
    <3>3. ReturnInv'
      BY <2>3, <3>1 DEF vars, parser, sender, HInv, ReturnInv, WholeIsCompleted, CompletedIsWholeOrEmpty
    <3>4. QED
      BY <2>3, <3>2, <3>3 DEF vars, parser, HInv
  <2>4. QED
    BY <2>1, <2>2, <2>3 DEF Next
<1>3. QED
  BY <1>1, <1>2, PTL DEF Spec

\* What HttpResponseParser::parse completes has all the body of the message or, where
\* it missed what frames the body, none of it, wherever the output of wget was cut
\* off; and all the headers that it did not take for the status.
THEOREM CompletedWholeOrEmpty == Spec => []CompletedIsWholeOrEmpty
<1>1. HInv => CompletedIsWholeOrEmpty
  BY DEF HInv, ReturnInv
<1>2. QED
  BY <1>1, Invariance, PTL

\* A message is completed at its last byte, and what parse refuses, or goes on waiting
\* after, has a line that it does not know.
THEOREM WholeAlwaysCompleted == Spec => []WholeIsCompleted
<1>1. HInv => WholeIsCompleted
  BY DEF HInv, ReturnInv
<1>2. QED
  BY <1>1, Invariance, PTL

==============================================================================
