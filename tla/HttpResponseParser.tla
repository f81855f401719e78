-------------------------- MODULE HttpResponseParser --------------------------
(***************************************************************************)
(* HttpResponseParser::consume (httpparser/httpresponseparser.h), which    *)
(* AgentWget::request gives the output of wget.  The parser goes over the  *)
(* bytes once; here a token is a run of bytes, and its form says what of   *)
(* its bytes the parser tells apart.                                       *)
(*                                                                         *)
(* The sender is external: it makes an HTTP message token by token, and    *)
(* may be cut off after any of them.  It is what the parser is checked     *)
(* against: what it sent, and whether it was done.                         *)
(***************************************************************************)
EXTENDS Integers, Sequences, SequencesExt

CONSTANTS
  MaxHeaders,    \* header lines, folded lines and trailers in a message
  MaxBody,       \* bytes in its body
  MaxChunks      \* chunks in a chunked body, the last one apart

ASSUME ParserAssumption == MaxHeaders \in Nat /\ MaxBody \in Nat /\ MaxChunks \in Nat

VARIABLES
  state,         \* of the parser
  contentSize, chunkSize, chunked,
  headers,       \* resp.headers
  content,       \* resp.content
  result,        \* what parse returns, none while it goes on
  phase,         \* where the sender is
  due,           \* bytes of the body, or of the chunk, it still has to send
  chunks,        \* chunks sent
  lines,         \* header lines and trailers sent
  sentHeaders,   \* history: the headers it meant
  sentBody,      \* history: the body it meant
  forms          \* history: the forms of what it sent

parser == <<state, contentSize, chunkSize, chunked, headers, content, result>>
sender == <<phase, due, chunks, lines, sentHeaders, sentBody, forms>>
vars == <<parser, sender>>

(* The forms of a token, all of them HTTP:
   plain     what the parser takes
   padded    a header's value with more before it than one blank, or after it; of
             Transfer-Encoding, also a value that is not chunked alone
   foreign   a header's value with a byte over 127
   odd       a header with no blank before its value, or with a tab; a chunk's
             extension, or a trailer, with more in its name and value than letters,
             digits and blanks;
             a status line that ends after the code, or a reason phrase with a
             byte over 127
   bare      a status line with a blank after the code, and no reason phrase *)
Forms == {"plain", "padded", "foreign", "odd", "bare"}
Token(is, arg, form) == [is |-> is, arg |-> arg, form |-> form]

\* Of a body: a letter, and one of the characters isSpecial lists.
Bytes == {"x", "{"}
isSpecial(b) == b = "{"

\* A header line as it is kept: its name, and what its value has besides.
Item(is, form) == IF form = "padded" THEN <<is, "blank">> ELSE <<is>>

-----------------------------------------------------------------------------
(* The parser *)

Goto(s) == state' = s /\ UNCHANGED result
Complete == result' = "ParsingCompleted" /\ UNCHANGED state
ParsingError == result' = "ParsingError" /\ UNCHANGED <<state, contentSize, chunkSize, chunked, headers, content>>

\* ResponseStatusStart to ResponseHttpVersion_newLine.  statusTextStart takes the
\* end of a bare line as the first character of the status.
StatusLine(t) ==
  /\ state = "ResponseStatusStart" /\ t.is = "status" /\ t.form # "odd"
  /\ Goto(IF t.form = "bare" THEN "ResponseHttpVersion_statusText" ELSE "HeaderLineStart")
  /\ UNCHANGED <<contentSize, chunkSize, chunked, headers, content>>

\* ResponseHttpVersion_statusText and _newLine, after a bare status line: the next
\* line, a header or the empty one, is the rest of the status.
Swallow(t) ==
  /\ state = "ResponseHttpVersion_statusText"
  /\ t.is \in {"length", "chunked", "header", "blank"} /\ t.form # "foreign"
  /\ Goto("HeaderLineStart")
  /\ UNCHANGED <<contentSize, chunkSize, chunked, headers, content>>

\* HeaderLineStart, HeaderName, SpaceBeforeHeaderValue, HeaderValue and
\* ExpectingNewline_2.  One blank is skipped, and any other is part of the value:
\* atoi reads over it, and strcasecmp with "chunked" does not.
Header(t) ==
  /\ state = "HeaderLineStart" /\ t.is \in {"length", "chunked", "header"} /\ t.form # "odd"
  /\ headers' = Append(headers, Item(t.is, t.form))
  /\ contentSize' = IF t.is = "length" THEN t.arg ELSE contentSize
  /\ chunked' = (chunked \/ (t.is = "chunked" /\ t.form = "plain"))
  /\ UNCHANGED <<state, chunkSize, content, result>>

\* HeaderLws: the line goes on with the value of the header before it.
Folded(t) ==
  /\ state = "HeaderLineStart" /\ t.is = "fold" /\ headers # <<>>
  /\ headers' = [headers EXCEPT ![Len(headers)] = Append(@, "fold")]
  /\ UNCHANGED <<state, contentSize, chunkSize, chunked, content, result>>

\* HeaderLineStart and HeaderName, with a letter of a body: the name of a header.
BodyAsHeader(t) ==
  /\ state \in {"HeaderLineStart", "HeaderName"} /\ t.is = "byte" /\ ~isSpecial(t.arg)
  /\ headers' = IF state = "HeaderLineStart" THEN Append(headers, <<"byte">>) ELSE headers
  /\ Goto("HeaderName")
  /\ UNCHANGED <<contentSize, chunkSize, chunked, content>>

\* MUTANT of EndOfHeaders: a content of size 0 is waited for.
EndOfHeadersNoEmpty(t) ==
  /\ state = "HeaderLineStart" /\ t.is = "blank"
  /\ Goto(IF chunked THEN "ChunkSize" ELSE "Post")
  /\ UNCHANGED <<contentSize, chunkSize, chunked, headers, content>>

\* ExpectingNewline_3.
EndOfHeaders(t) ==
  /\ state = "HeaderLineStart" /\ t.is = "blank"
  /\ \/ chunked /\ Goto("ChunkSize")
     \/ ~chunked /\ contentSize = 0 /\ Complete
     \/ ~chunked /\ contentSize > 0 /\ Goto("Post")
  /\ UNCHANGED <<contentSize, chunkSize, chunked, headers, content>>

Post(t) ==
  /\ state = "Post" /\ t.is = "byte"
  /\ content' = Append(content, t.arg)
  /\ contentSize' = contentSize - 1
  /\ IF contentSize = 1 THEN Complete ELSE UNCHANGED <<state, result>>
  /\ UNCHANGED <<chunkSize, chunked, headers>>

\* MUTANT of ChunkSize: a chunk of size 0 ends the message by itself.
ChunkSizeEnds(t) ==
  /\ state = "ChunkSize" /\ t.is = "size" /\ t.form # "odd"
  /\ chunkSize' = t.arg
  /\ IF t.arg = 0 THEN Complete ELSE Goto("ChunkData")
  /\ UNCHANGED <<contentSize, chunked, headers, content>>

\* ChunkSize, ChunkExtensionName, ChunkExtensionValue and ChunkSizeNewLine.
ChunkSize(t) ==
  /\ state = "ChunkSize" /\ t.is = "size" /\ t.form # "odd"
  /\ chunkSize' = t.arg
  /\ Goto(IF t.arg = 0 THEN "ChunkSizeNewLine_2" ELSE "ChunkData")
  /\ UNCHANGED <<contentSize, chunked, headers, content>>

ChunkData(t) ==
  /\ state = "ChunkData" /\ t.is = "byte"
  /\ content' = Append(content, t.arg)
  /\ chunkSize' = chunkSize - 1
  /\ state' = IF chunkSize = 1 THEN "ChunkDataNewLine_1" ELSE state
  /\ UNCHANGED <<contentSize, chunked, headers, result>>

\* ChunkDataNewLine_1 and ChunkDataNewLine_2.
ChunkEnd(t) ==
  /\ state = "ChunkDataNewLine_1" /\ t.is = "newline"
  /\ Goto("ChunkSize")
  /\ UNCHANGED <<contentSize, chunkSize, chunked, headers, content>>

\* ChunkSizeNewLine_2 with a letter, ChunkTrailerName and ChunkTrailerValue: back
\* to ChunkSizeNewLine, where the size of no digits is 0 again.
Trailer(t) ==
  /\ state = "ChunkSizeNewLine_2" /\ t.is = "trailer" /\ t.form # "odd"
  /\ UNCHANGED <<state, result, contentSize, chunkSize, chunked, headers, content>>

\* ChunkSizeNewLine_2 and ChunkSizeNewLine_3.
LastChunk(t) ==
  /\ state = "ChunkSizeNewLine_2" /\ t.is = "blank"
  /\ Complete
  /\ UNCHANGED <<contentSize, chunkSize, chunked, headers, content>>

\* What the parser takes in each state.
Expected ==
  [ResponseStatusStart |-> {"status"},
   ResponseHttpVersion_statusText |-> {"length", "chunked", "header", "blank"},
   HeaderLineStart |-> {"length", "chunked", "header", "fold", "blank", "byte"},
   HeaderName |-> {"byte"},
   Post |-> {"byte"},
   ChunkSize |-> {"size"},
   ChunkData |-> {"byte"},
   ChunkDataNewLine_1 |-> {"newline"},
   ChunkSizeNewLine_2 |-> {"trailer", "blank"}]

\* What it returns ParsingError for: the status text is any HTTP characters, a line
\* can only be folded into a header, and a name has no special characters.
Refuses(t) ==
  \/ t.is \notin Expected[state]
  \/ t.form = (IF state = "ResponseHttpVersion_statusText" THEN "foreign" ELSE "odd")
  \/ t.is = "fold" /\ headers = <<>>
  \/ t.is = "byte" /\ state \in {"HeaderLineStart", "HeaderName"} /\ isSpecial(t.arg)

Consume(t) ==
  \/ StatusLine(t) \/ Swallow(t) \/ Header(t) \/ Folded(t) \/ BodyAsHeader(t)
  \/ EndOfHeaders(t) \/ Post(t) \/ ChunkSize(t) \/ ChunkData(t) \/ ChunkEnd(t)
  \/ Trailer(t) \/ LastChunk(t)
  \/ Refuses(t) /\ ParsingError

\* The output ends before the parser has returned.
EndOfInput ==
  /\ result = "none"
  /\ result' = "ParsingIncomplete"
  /\ UNCHANGED <<state, contentSize, chunkSize, chunked, headers, content, sender>>

-----------------------------------------------------------------------------
(* External: the sender *)

Add(form) == forms' = forms \union {form}

SendStatus ==
  /\ phase = "status"
  /\ phase' = "headers"
  /\ \E form \in {"plain", "bare", "odd"} : Add(form) /\ Consume(Token("status", 0, form))
  /\ UNCHANGED <<due, chunks, lines, sentHeaders, sentBody>>

Framing(h) == h[1] \in {"length", "chunked"}

\* A message has one Content-Length or one Transfer-Encoding or none of them.
Framed == \E h \in ToSet(sentHeaders) : Framing(h)
InChunks == \E h \in ToSet(sentHeaders) : h[1] = "chunked"

SendHeader ==
  /\ phase = "headers" /\ lines < MaxHeaders
  /\ \E is \in {"length", "chunked", "header"}, size \in 0 .. MaxBody,
        form \in {"plain", "padded", "foreign", "odd"} :
       /\ is \in {"length", "chunked"} => ~Framed /\ form # "foreign"
       /\ is # "length" => size = 0
       /\ due' = due + size
       /\ sentHeaders' = Append(sentHeaders, Item(is, form))
       /\ Add(form)
       /\ Consume(Token(is, size, form))
  /\ lines' = lines + 1
  /\ UNCHANGED <<phase, chunks, sentBody>>

SendFolded ==
  /\ phase = "headers" /\ lines < MaxHeaders
  /\ sentHeaders # <<>> /\ Last(sentHeaders)[1] = "header"
  /\ sentHeaders' = [sentHeaders EXCEPT ![Len(sentHeaders)] = Append(@, "fold")]
  /\ lines' = lines + 1
  /\ Consume(Token("fold", 0, "plain"))
  /\ UNCHANGED <<phase, due, chunks, sentBody, forms>>

\* A message with neither of the two has no body, or all that comes before the end
\* of the connection.
SendBlank ==
  /\ \/ /\ phase = "headers"
        /\ phase' \in IF InChunks THEN {"size"}
                     ELSE IF due > 0 THEN {"body"}
                     ELSE IF Framed THEN {"sent"}
                     ELSE {"sent", "rest"}
     \/ phase = "trailers" /\ phase' = "sent"
  /\ Consume(Token("blank", 0, "plain"))
  /\ UNCHANGED <<due, chunks, lines, sentHeaders, sentBody, forms>>

SendByte ==
  /\ \/ phase \in {"body", "chunk"} /\ due > 0 /\ due' = due - 1
     \/ phase = "rest" /\ Len(sentBody) < MaxBody /\ due' = due
  /\ \E b \in Bytes : sentBody' = Append(sentBody, b) /\ Consume(Token("byte", b, "plain"))
  /\ phase' = IF phase = "body" /\ due = 1 THEN "sent" ELSE phase
  /\ UNCHANGED <<chunks, lines, sentHeaders, forms>>

SendSize ==
  /\ phase = "size"
  /\ \E size \in 0 .. MaxBody - Len(sentBody), form \in {"plain", "odd"} :
       /\ size > 0 => chunks < MaxChunks
       /\ due' = size
       /\ phase' = IF size = 0 THEN "trailers" ELSE "chunk"
       /\ Add(form)
       /\ Consume(Token("size", size, form))
  /\ chunks' = chunks + 1
  /\ UNCHANGED <<lines, sentHeaders, sentBody>>

SendNewline ==
  /\ phase = "chunk" /\ due = 0
  /\ phase' = "size"
  /\ Consume(Token("newline", 0, "plain"))
  /\ UNCHANGED <<due, chunks, lines, sentHeaders, sentBody, forms>>

SendTrailer ==
  /\ phase = "trailers" /\ lines < MaxHeaders
  /\ \E form \in {"plain", "odd"} : Add(form) /\ Consume(Token("trailer", 0, form))
  /\ lines' = lines + 1
  /\ UNCHANGED <<phase, due, chunks, sentHeaders, sentBody>>

Send ==
  /\ result = "none"
  /\ \/ SendStatus \/ SendHeader \/ SendFolded \/ SendBlank \/ SendByte
     \/ SendSize \/ SendNewline \/ SendTrailer

Init ==
  /\ state = "ResponseStatusStart" /\ contentSize = 0 /\ chunkSize = 0 /\ chunked = FALSE
  /\ headers = <<>> /\ content = <<>> /\ result = "none"
  /\ phase = "status" /\ due = 0 /\ chunks = 0 /\ lines = 0
  /\ sentHeaders = <<>> /\ sentBody = <<>> /\ forms = {}

Next == Send \/ EndOfInput

Spec == Init /\ [][Next]_vars

-----------------------------------------------------------------------------
(* Properties *)

\* What tells where the body ends did not reach the parser: it went into the status
\* text, or its value is not the one the parser knows, or it is the end of the
\* connection.
Missed ==
  \/ "bare" \in forms /\ sentHeaders # <<>> /\ Framing(Head(sentHeaders))
  \/ <<"chunked", "blank">> \in ToSet(sentHeaders)
  \/ phase = "rest"

\* A response that the parser completes has the headers that were sent, but for the
\* first one after a bare status line; and the whole of the body that was sent, but
\* where its framing was missed: then no byte of it.  It never has a part of a
\* body: an output cut off anywhere, in a trailer or between two chunks, is never
\* completed.
CompletedIsWholeOrEmpty ==
  result = "ParsingCompleted" =>
    /\ headers = IF "bare" \in forms THEN Tail(sentHeaders) ELSE sentHeaders
    /\ \/ phase = "sent" /\ content = sentBody
       \/ Missed /\ content = <<>>

\* A message is completed at its last byte, with none to spare, and one that is
\* refused has a line of an odd form or a bare status line; the one whole message
\* that the parser goes on waiting after has such a status line and no header.
WholeIsCompleted ==
  /\ result = "ParsingError" => forms \intersect {"odd", "bare"} # {}
  /\ phase = "sent" /\ result \in {"none", "ParsingIncomplete"} => "bare" \in forms /\ sentHeaders = <<>>
==============================================================================
