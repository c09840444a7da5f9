--------------------------- MODULE InboundMessage ---------------------------
(***************************************************************************)
(* The life of one request in a worker: parse_InboundMessage copies and    *)
(* splits it, a message processor decodes the url in place, as utils.h     *)
(* offers, and destroy_InboundHttpMessage frees it.  One action per loop   *)
(* iteration.  The process is killed where the code dereferences what a    *)
(* search that found nothing returned; it goes astray where it reads past  *)
(* the end of its copy, and nothing is said of what it does then.          *)
(***************************************************************************)
EXTENDS Text, MiniMap, SequencesExt

CONSTANT Requests   \* the requests clients send, as records; Message is what they put on the wire

VARIABLES pc, request,
          mem,      \* raw_message_a, allocated at address 0
          msg,      \* the other fields of InboundHttpMessage
          loop,     \* the locals of parse_options, and the chunks it has visited
          decode    \* the locals of url_decode

vars == <<pc, request, mem, msg, loop, decode>>

-----------------------------------------------------------------------------
\* The codes of methods and versions; 0 is HTTP_INVALID_METHOD and HTTP_VER_UNKN.
HTTP_Method == 0 .. 9

HTTP_Version == 0 .. 5

Words(strings) == [i \in DOMAIN strings |-> Codes(strings[i])]

\* The tables of constants.h.  Entry 0 of the first two is not looked at.
methods_str ==
  Words(<<"GET", "HEAD", "POST", "PUT", "DELETE", "OPTIONS", "CONNECT", "TRACE", "PATCH">>)

versions_str == Words(<<"HTTP/0.9", "HTTP/1.0", "HTTP/1.1", "HTTP/2", "HTTP/3">>)

header_request_options_str == Words(
  <<"A-IM", "Accept", "Accept-Charset", "Accept-Datetime", "Accept-Encoding",
    "Accept-Language", "Access-Control-Request-Method", "Access-Control-Request-Headers",
    "Authorization", "Cache-Control", "Connection", "Content-Encoding", "Content-Length",
    "Content-MD5", "Content-Type", "Cookie", "Date", "Expect", "Forwarded", "From", "Host",
    "HTTP2-Settings", "If-Match", "If-Modified-Since", "If-None-Match", "If-Range",
    "If-Unmodified-Since", "Max-Forwards", "Origin", "Pragma", "Prefer",
    "Proxy-Authorization", "Range", "Referer", "TE", "Trailer", "Transfer-Encoding",
    "User-Agent", "Upgrade", "Via", "Warning">>)

RQ_ENUM_LEN == Len(header_request_options_str)

HTTPHeaderRequestOption == 0 .. RQ_ENUM_LEN - 1

RQ_CONTENT_TYPE == 14

get_method_code(ref) ==
  FirstOf({i \in HTTP_Method \ {0} : EqualsWord(mem, ref, methods_str[i])}, 0)

get_version_code(ref) ==
  FirstOf({i \in HTTP_Version \ {0} : EqualsWord(mem, ref, versions_str[i])}, 0)

\* The first name that is not equal: the comparison is the wrong way round.
get_parameter_code(ref) ==
  FirstOf({i \in HTTPHeaderRequestOption :
             ~EqualsWord(mem, ref, header_request_options_str[i + 1])}, 255)

-----------------------------------------------------------------------------
\* What a client sends: up to three words, the second a path of pieces and perhaps a query,
\* then the options, each on a line, and the empty line with the body, unless it is missing.
PathText(r) == Concat([i \in DOMAIN r.path |-> r.path[i].text])

UrlText(r) ==
  PathText(r) \o IF r.query = <<>> THEN <<>> ELSE <<QuestionMark>> \o Join(r.query, <<Ampersand>>)

FirstLine(r) == r.method \o (IF r.words >= 2 THEN <<SP>> \o UrlText(r) ELSE <<>>)
                         \o (IF r.words = 3 THEN <<SP>> \o r.version ELSE <<>>)

Lines(r) == <<FirstLine(r)>> \o [i \in DOMAIN r.options |-> r.options[i].line]

HeaderText(r) == Join(Lines(r), CRLF)

Message(r) == HeaderText(r) \o IF r.complete THEN CRLF \o CRLF \o r.body ELSE <<>>

\* Where parse_InboundMessage ends the header: at the first empty line.
Separator(r) == FirstOccurrence(Memory(Message(r)), 0, CRLF \o CRLF, Len(Message(r)))

-----------------------------------------------------------------------------
\* A character inside a message, which its terminator is not.
Char == 1 .. 255

\* The pieces of a path and what each means: a character, a blank or an escape.
Piece == {[text |-> <<c>>, means |-> c] : c \in Char \ {SP, Plus, QuestionMark}}
           \cup {[text |-> <<Plus>>, means |-> SP]}
           \cup {[text |-> <<Percent, a, b>>, means |-> Unescaped(a, b)] : a, b \in HexDigits}

Option == [line : Seq(Char), name : Seq(Char), value : Seq(Char)]

Request == [words : 1 .. 3, method : Seq(Char \ {SP}), path : Seq(Piece),
            query : Seq(Seq(Char \ {SP, Ampersand})), version : Seq(Char),
            options : Seq(Option), complete : BOOLEAN, body : Seq(Char)]

\* The needle is nowhere in the text.
Free(text, needle) ==
  \A i \in 0 .. Len(text) - Len(needle) : \E j \in 1 .. Len(needle) : text[i + j] # needle[j]

\* The pieces are the ones the text has: a line ends where its separator is, the header at
\* the first empty line, and a percent sign in front of two digits is an escape.
IsSplit(r) ==
  /\ \A i \in DOMAIN Lines(r) : Free(Lines(r)[i], CRLF)
  /\ \A i \in DOMAIN r.options : r.options[i].line = <<>> => ~r.complete /\ i = Len(r.options)
  /\ \A i \in 1 .. Len(r.path) - 2 :
       r.path[i].text = <<Percent>> =>
         ~(r.path[i + 1].text[1] \in HexDigits /\ r.path[i + 2].text[1] \in HexDigits)

NoRequest == <<>>

ASSUME RequestsAssumption ==
  /\ NoRequest \notin Requests
  /\ \A r \in Requests : r \in Request /\ IsSplit(r)

NoLoop == [chunk |-> NULL, limit |-> NULL, limit_len |-> 0, visited |-> {}]
NoDecode == [write_index |-> 0, read_index |-> 0]

Empty == [method |-> 0, version |-> 0, url |-> NoRef, body |-> NoRef,
          header_options |-> [i \in HTTPHeaderRequestOption |-> NoRef],
          parameters |-> Map_destroyed]

Init == /\ pc = "idle" /\ request = NoRequest /\ mem = <<>> /\ msg = Empty
        /\ loop = NoLoop /\ decode = NoDecode

\* parse_InboundMessage up to decompose_header: the copy, the map, header and body.  The
\* body begins with the empty line.
parse_InboundMessage(r) ==
  LET msg_len   == Len(Message(r))
      separator == Separator(r)
      found     == separator \notin {NULL, 0}
  IN  /\ pc = "idle"
      /\ pc' = "header" /\ request' = r /\ mem' = Memory(Message(r))
      /\ msg' = [Empty EXCEPT
                   !.parameters = Map_make(10),
                   !.body = IF found THEN [str |-> separator, len |-> msg_len - separator] ELSE @]
      /\ UNCHANGED <<loop, decode>>

\* raw_header: what is before the body, or null.
Header == IF msg.body = NoRef THEN NoRef ELSE [str |-> 0, len |-> msg.body.str]

\* msg_len: the copy has one address more, for its terminator.
Size == Len(Message(request))

\* A search from an address on leaves the copy if it finds nothing there first.  A negative
\* length has wrapped in the code and is longer than the copy.
LeavesCopy(at, count) == count < 0 \/ at + count > Size + 1

\* The characters of the copy it goes through.
Reach(at, count) == IF LeavesCopy(at, count) THEN Size + 1 - at ELSE count

\* The two callers of parse_options, told apart by where the parser is.
ChunkSep(phase) == IF phase = "query" THEN <<Ampersand>> ELSE CRLF

ItemSep(phase) == IF phase = "query" THEN Equals ELSE Colon

\* The call of parse_options, up to its loop, which starts behind the first separator.
ParseOptions(segment, phase) ==
  \E separator \in {strnstr(mem, segment.str, ChunkSep(phase), Reach(segment.str, segment.len))} :
    LET start == separator + Len(ChunkSep(phase))
    IN  IF separator = NULL
        THEN /\ pc' = IF LeavesCopy(segment.str, segment.len) THEN "astray" ELSE "killed"
             /\ UNCHANGED loop
        ELSE /\ pc' = phase
             /\ loop' = [chunk     |-> start,
                         limit     |-> segment.str + segment.len,
                         limit_len |-> segment.len - (start - segment.str),
                         visited   |-> {}]

QmarkIndex(ref) == strnchr(mem, ref.str, QuestionMark, Reach(ref.str, ref.len)) - ref.str

HasQuery_AtStart(ref) == QmarkIndex(ref) >= 0

HasQuery(ref) == QmarkIndex(ref) > 0

\* The lengths decompose_header takes from the first line.  The search for the second space
\* is as long as the header but starts behind the first: it may end in the body, or behind
\* the copy; what it does not find makes a length that wraps.
first_space_len == strnstr(mem, 0, <<SP>>, Header.len)

second_space_len_SameSpace ==
  strnstr(mem, first_space_len, <<SP>>, Header.len) - (first_space_len + 1)

second_space ==
  strnstr(mem, first_space_len + 1, <<SP>>, Reach(first_space_len + 1, Header.len))

second_space_len == second_space - (first_space_len + 1)

\* Negative where it wraps in the code: no word of the table has that length.
endline_len ==
  strnstr(mem, 0, CRLF, Header.len) - (first_space_len + second_space_len + 2)

\* The three words of the first line.
LineRefs ==
  LET first  == first_space_len
      second == second_space_len
  IN  [method  |-> [str |-> 0, len |-> first],
       url     |-> [str |-> first + 1, len |-> second],
       version |-> [str |-> first + second + 2, len |-> endline_len]]

\* What is behind the space is read; of a null header, too.
HeaderIsUnreadable == first_space_len = NULL

\* No second space in the copy, nor where the search ends; or a length that has wrapped and
\* no question mark.
LineIsAstray ==
  \/ second_space = NULL /\ LeavesCopy(first_space_len + 1, Header.len)
  \/ LineRefs.url.len < 0 /\ QmarkIndex(LineRefs.url) < 0

\* The query, without its question mark.
QueryRef(ref) == [str |-> ref.str + QmarkIndex(ref) + 1, len |-> ref.len - QmarkIndex(ref) - 1]

decompose_header ==
  /\ pc = "header"
  /\ \/ HeaderIsUnreadable /\ pc' = "killed" /\ UNCHANGED <<msg, loop>>
     \/ ~HeaderIsUnreadable /\ LineIsAstray /\ pc' = "astray" /\ UNCHANGED <<msg, loop>>
     \/ /\ ~HeaderIsUnreadable /\ ~LineIsAstray
        /\ \E line \in {LineRefs} :
             /\ msg' = [msg EXCEPT !.method  = get_method_code(line.method),
                                   !.url     = line.url,
                                   !.version = get_version_code(line.version)]
             /\ IF HasQuery(line.url) THEN ParseOptions(QueryRef(line.url), "query")
                ELSE ParseOptions(Header, "options")
  /\ UNCHANGED <<request, mem, decode>>

-----------------------------------------------------------------------------
InLoop == pc \in {"query", "options"} /\ loop.chunk < loop.limit

LoopDone == loop.chunk >= loop.limit

\* add_to_params and add_to_options.  equal_StringRef compares texts: so do the keys here.
Add(phase, key, val) ==
  IF phase = "query"
  THEN [msg EXCEPT !.parameters = Map_set(@, TextOf(mem, key), val)]
  ELSE [msg EXCEPT !.header_options[get_parameter_code(key)] = val]

\* The chunk at the front of the rest, without its separator.
ChunkRef_LastLost ==
  LET separator == strnstr(mem, loop.chunk, ChunkSep(pc), loop.limit_len)
  IN  [str |-> loop.chunk, len |-> IF separator = NULL THEN 0 ELSE separator - loop.chunk]

ChunkRef ==
  LET separator == strnstr(mem, loop.chunk, ChunkSep(pc), loop.limit_len)
  IN  [str |-> loop.chunk,
       len |-> IF separator = NULL THEN loop.limit_len ELSE separator - loop.chunk]

ItemSepIn(chunk) == strnchr(mem, chunk.str, ItemSep(pc), chunk.len)

KeyOf(chunk, sep) == trim(mem, [str |-> chunk.str, len |-> sep - chunk.str])

ValueOf_OneLong(chunk, sep) ==
  trim(mem, [str |-> sep + 1, len |-> chunk.len - (sep - chunk.str)])

ValueOf(chunk, sep) ==
  trim(mem, [str |-> sep + 1, len |-> chunk.len - (sep - chunk.str) - 1])

\* Only an item whose key is blank is stored: this test, too, is the wrong way round.
IsStored(chunk, sep) == sep # NULL /\ strrefblnk(mem, KeyOf(chunk, sep))

\* What an iteration takes off the front, from the text and from its length.
Advance_ChunkOnly(chunk) == chunk.len

Advance(chunk) == chunk.len + Len(ChunkSep(pc))

LengthLeft_ChunkOnly(chunk) == loop.limit_len - chunk.len

LengthLeft(chunk) == loop.limit_len - Advance(chunk)

ParseChunk ==
  /\ InLoop
  /\ \E chunk \in {ChunkRef} : \E sep \in {ItemSepIn(chunk)} :
         /\ msg' = IF IsStored(chunk, sep)
                   THEN Add(pc, KeyOf(chunk, sep), ValueOf(chunk, sep)) ELSE msg
         /\ loop' = [loop EXCEPT !.chunk     = @ + Advance(chunk),
                                 !.limit_len = LengthLeft(chunk),
                                 !.visited   = @ \cup {chunk}]
  /\ UNCHANGED <<pc, request, mem, decode>>

\* The end of decompose_header after a query: the url is shortened by the position of the
\* question mark, and the options are parsed.
AfterQuery ==
  /\ pc = "query" /\ LoopDone
  /\ msg' = [msg EXCEPT !.url.len = @ - QmarkIndex(msg.url)]
  /\ ParseOptions(Header, "options")
  /\ UNCHANGED <<request, mem, decode>>

\* The content type is blank, whatever was sent: get_parameter_code gives no option its
\* code.  What decompose_message would do otherwise is not reached.
decompose_message ==
  /\ pc = "options" /\ LoopDone
  /\ strrefblnk(mem, msg.header_options[RQ_CONTENT_TYPE])
  /\ pc' = "parsed" /\ loop' = NoLoop
  /\ UNCHANGED <<request, mem, msg, decode>>

-----------------------------------------------------------------------------
\* A message processor calls url_decode with the url as source and destination.
DecodeUrl == /\ pc = "parsed" /\ pc' = "decoding"
             /\ UNCHANGED <<request, mem, msg, loop, decode>>

url == msg.url

Read(k) == mem[url.str + decode.read_index + k]

\* As unsigned numbers: no index reaches a length that has wrapped.
LessUnsigned(index, len) == len < 0 \/ index < len

InUrl_OneMore ==
  LessUnsigned(decode.read_index, url.len + 1) /\ LessUnsigned(decode.write_index, url.len + 1)

InUrl ==
  LessUnsigned(decode.read_index, url.len) /\ LessUnsigned(decode.write_index, url.len)

\* The next character to read is in the copy.
ReadsCopy == url.str + decode.read_index <= Size

DecodeLoop == pc = "decoding" /\ InUrl /\ ReadsCopy

\* One character is written and `taken' are read.
Put(c, taken) ==
  /\ mem' = [mem EXCEPT ![url.str + decode.write_index] = c]
  /\ decode' = [write_index |-> decode.write_index + 1,
                read_index  |-> decode.read_index + taken]
  /\ UNCHANGED <<pc, request, msg, loop>>

IsEscape_Decimal == Read(1) \in Digits /\ Read(2) \in Digits

\* read_index < len + 2 always holds: the digits may lie behind the url.
IsEscape == isxdigit(Read(1)) /\ isxdigit(Read(2))

DecodePercent_TakesTwo ==
  DecodeLoop /\ Read(0) = Percent /\ IsEscape /\ Put(Unescaped(Read(1), Read(2)), 2)

DecodePercent ==
  DecodeLoop /\ Read(0) = Percent /\ IsEscape /\ Put(Unescaped(Read(1), Read(2)), 3)

\* The iteration changes nothing: the loop does not end.
DecodeStuck == DecodeLoop /\ Read(0) = Percent /\ ~IsEscape /\ UNCHANGED vars

DecodePlus == DecodeLoop /\ Read(0) = Plus /\ Put(SP, 1)

DecodePlain == DecodeLoop /\ Read(0) \notin {Percent, Plus} /\ Put(Read(0), 1)

\* The url has no end in the copy.
DecodeAstray == /\ pc = "decoding" /\ InUrl /\ ~ReadsCopy /\ pc' = "astray"
                /\ UNCHANGED <<request, mem, msg, loop, decode>>

DecodeEnd ==
  /\ pc = "decoding" /\ ~InUrl
  /\ mem' = [mem EXCEPT ![url.str + decode.write_index] = NUL]
  /\ pc' = "decoded"
  /\ UNCHANGED <<request, msg, loop, decode>>

destroy_InboundHttpMessage ==
  /\ pc \in {"parsed", "decoded"}
  /\ pc' = "idle" /\ request' = NoRequest /\ mem' = <<>> /\ msg' = Empty
  /\ decode' = NoDecode /\ UNCHANGED loop

\* The process is gone, or what it does is undefined.
Gone == pc \in {"killed", "astray"} /\ UNCHANGED vars

url_decode == \/ DecodePercent \/ DecodeStuck \/ DecodePlus \/ DecodePlain \/ DecodeAstray
              \/ DecodeEnd

\* The steps of a worker inside a call.
Working == \/ decompose_header \/ ParseChunk \/ AfterQuery \/ decompose_message
           \/ url_decode

Next == \/ \E r \in Requests : parse_InboundMessage(r)
        \/ Working
        \/ DecodeUrl
        \/ destroy_InboundHttpMessage
        \/ Gone

Spec == Init /\ [][Next]_vars

\* The worker is scheduled.
FairSpec == Spec /\ WF_vars(Working)

-----------------------------------------------------------------------------
Sent == Memory(Message(request))

Ref == [str : Int, len : Int]

\* Type invariant.  An index never leaves the memory it is for.
TypeOK ==
  /\ pc \in {"idle", "header", "query", "options", "parsed", "decoding", "decoded", "killed",
             "astray"}
  /\ request = NoRequest <=> pc = "idle"
  /\ DOMAIN mem = IF pc = "idle" THEN {} ELSE DOMAIN Sent
  /\ \A a \in DOMAIN mem : mem[a] \in 0 .. 255
  /\ msg \in [method : HTTP_Method, version : HTTP_Version, url : Ref, body : Ref,
              header_options : [HTTPHeaderRequestOption -> Ref], parameters : {msg.parameters}]
  /\ pc # "idle" => MapShape(msg.parameters, Seq(0 .. 255), Ref)
  /\ loop \in [chunk : Int, limit : Int, limit_len : Int, visited : SUBSET Ref]
  /\ decode \in [write_index : Nat, read_index : Nat]

\* The loop of strnstr, which steps back after a partial match, finds the first
\* occurrence of each separator from every place of a message, at every length.
SearchFindsTheFirst ==
  pc = "header" =>
    \A needle \in {<<SP>>, CRLF}, a \in DOMAIN mem :
      \A count \in {0, 1, 2, 4, 5, Len(Message(request)) - a} :
        a + count <= Len(Message(request)) =>
          strnstr(mem, a, needle, count) = FirstOccurrence(mem, a, needle, count)

\* A complete request with three words and at least one option; a query behind a path has a
\* second parameter.
Readable(r) == /\ r.complete /\ r.options # <<>>
               /\ PathText(r) # <<>> => Len(r.query) # 1

\* None of these kills the process or makes it read behind its copy, whatever the words,
\* the query, the options and the body are made of.
ReadableRequestsAreSurvived ==
  pc \in {"killed", "astray"} /\ request.words = 3 => ~Readable(request)

\* "Query parameters parsing": a query of one parameter does not end the process either.
QueriesAreSurvived ==
  pc \in {"killed", "astray"} /\ request.words = 3 /\ request.options # <<>> /\ request.complete
    => request.query = <<>>

\* The code of a word of the table.
WordCode(word, table) == FirstOf({i \in DOMAIN table : table[i] = word}, 0)

\* The differences of pointers in decompose_header cut the first line where the client
\* put its spaces: method, version and url are what was sent; the version only when a line
\* follows, the url as long as no query follows the path, after which its length is a
\* different one.
FirstLineIsRead ==
  pc \in {"query", "options", "parsed"} /\ request.words = 3 =>
    /\ msg.method = WordCode(request.method, methods_str)
    /\ request.options # <<>> => msg.version = WordCode(request.version, versions_str)
    /\ request.query = <<>> \/ PathText(request) = <<>> =>
         TextOf(mem, msg.url) = UrlText(request)

\* The parts of the text parse_options goes through, where it starts, and their separator.
Parts == IF pc = "query" THEN request.query ELSE Lines(request)

PartsStart == IF pc = "query" THEN Len(request.method) + Len(PathText(request)) + 2 ELSE 0

\* The part behind the first k.
PartBehind(k) == [str |-> PartsStart + Len(Upto(Parts, ChunkSep(pc))[k]), len |-> Len(Parts[k + 1])]

\* Every part behind the first that is not empty is visited in full, however the others
\* look, and no chunk is made of two parts or of half a one: in the query, and in the header
\* behind its first line, which holds no option.
EveryPartIsVisited ==
  pc \in {"query", "options"} /\ LoopDone /\ (pc = "query" => request.words = 3) =>
    /\ \A k \in 1 .. Len(Parts) - 1 : Parts[k + 1] # <<>> => PartBehind(k) \in loop.visited
    /\ loop.visited \subseteq
         {PartBehind(k) : k \in (IF pc = "query" THEN 0 ELSE 1) .. Len(Parts) - 1}

\* "a map that contain the data sent in the forms and query parameters": the first
\* parameter of a query is visited as well.
FirstParameterIsVisited ==
  pc = "query" /\ LoopDone /\ request.words = 3 /\ request.query[1] # <<>> =>
    PartBehind(0) \in loop.visited

\* limit_len, kept up by subtraction, is the distance to the limit in each iteration: no
\* search of the loop leaves the segment, and it wraps only when the loop is over.
LimitIsKept == InLoop => loop.limit_len = loop.limit - loop.chunk

Within(ref, first, limit) == first <= ref.str /\ ref.str + ref.len <= limit

\* The first two spaces of the header that was sent, where it has them.
Spaces == LET text == HeaderText(request) IN {a \in 0 .. Len(text) - 1 : text[a + 1] = SP}

FirstSpace == FirstOf(Spaces, NULL)

SecondSpace == FirstOf(Spaces \ {FirstSpace}, NULL)

\* The second word: what is between them, or all that follows the only one.
WordStart == FirstSpace + 1

WordLimit == IF SecondSpace = NULL THEN Size ELSE SecondSpace

\* What is stored lies where it was sent: values of options in the header, the body at the
\* end, parameters and the url in the second word, whether the client put its spaces in the
\* first line or in an option.  The url of a header with a single space may have a length
\* that has wrapped.
RefsStayInTheirPart ==
  pc \in {"query", "options", "parsed"} =>
    /\ \A i \in DOMAIN msg.header_options :
         msg.header_options[i] # NoRef => Within(msg.header_options[i], 0, msg.body.str)
    /\ \A i \in 0 .. msg.parameters.values.count - 1 :
         Within(msg.parameters.values.data[i], WordStart, WordLimit)
    /\ msg.url.len >= 0 \/ SecondSpace # NULL =>
         0 <= msg.url.len /\ Within(msg.url, WordStart, WordLimit)
    /\ msg.body.str + msg.body.len = Len(Message(request))

\* "a map with key (option) -> value": each option with a name is found at its code.
OptionsAreStored ==
  pc = "parsed" =>
    \A i \in DOMAIN request.options :
      LET option == request.options[i]
          code   == WordCode(option.name, header_request_options_str) - 1
      IN  code >= 0 => TextOf(mem, msg.header_options[code]) = option.value

\* Decoding in place: what url_decode leaves up to its terminator is what the pieces of
\* the path mean.  (With a query the url has another length.)
UrlIsDecoded ==
  pc = "decoded" /\ request.query = <<>> /\ request.words = 3 =>
    /\ TextOf(mem, [str |-> url.str, len |-> decode.write_index])
         = [i \in DOMAIN request.path |-> request.path[i].means]
    /\ mem[url.str + decode.write_index] = NUL

\* In place, writing never overtakes reading: what is not read yet, the memory around
\* the url and, until the end, the byte behind it are as they were sent.
DecodeKeepsTheRest ==
  pc \in {"decoding", "decoded"} =>
    LET sent    == Sent
        written == url.str .. url.str + decode.write_index
                     - (IF pc = "decoded" THEN 0 ELSE 1)
    IN  /\ decode.write_index <= decode.read_index
        /\ 0 <= url.len => decode.write_index <= url.len
        /\ \A a \in DOMAIN mem \ written : mem[a] = sent[a]

\* parse_options comes to an end on every text: each request is parsed, or the process is
\* killed or goes astray.
ParsingEnds == pc = "header" ~> pc \in {"parsed", "killed", "astray"}

\* A url with an end, and two hexadecimal digits behind each percent sign, the last
\* included.
Decodable ==
  0 <= url.len /\ \A a \in url.str .. url.str + url.len - 1 :
    mem[a] = Percent => isxdigit(mem[a + 1]) /\ isxdigit(mem[a + 2])

\* url_decode returns on every url whose percent signs are all complete.
DecodingEnds == (pc = "decoding" /\ decode = NoDecode /\ Decodable) ~> pc = "decoded"
=============================================================================
