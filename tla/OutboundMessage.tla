-------------------------- MODULE OutboundMessage --------------------------
(***************************************************************************)
(* The response of HttpMessage.c, from its creation in resolve_request to  *)
(* the two frees at its end, with the heap blocks it owns.  Of a text only *)
(* its length and where it holds a zero byte matter here.                  *)
(***************************************************************************)
EXTENDS MiniMap

CONSTANTS Option,      \* HTTPHeaderResponseOption
          NameLen,     \* header_response_options_str[option].len
          PhraseLen,   \* lengths of the reason phrases, by status code
          StatusCodes, \* bound: the status codes of the responses
          MaxLen,      \* bound: length of a text
          Block,       \* bound: what malloc may return
          Null

ASSUME OutboundAssumption ==
  /\ NameLen \in [Option -> Nat] /\ PhraseLen \in [DOMAIN PhraseLen -> Nat]
  /\ StatusCodes \subseteq Nat /\ MaxLen \in Nat
  /\ Null \notin Block /\ Garbage \notin Option

VARIABLES msg,       \* OutboundHttpMessage
          res,       \* what compose_message returned; `end' is where the writer stopped
          live,      \* the message was made and not destroyed
          heap,      \* the allocated blocks
          dropped    \* blocks a second set_filename let go of

responseVars == <<msg, res, live, heap, dropped>>

NoString == [str |-> Null, len |-> 0]

NoResult == [str |-> Null, len |-> 0, end |-> 0]

NoResponse == [header_options |-> Map_destroyed, header_len |-> 0, body |-> NoString,
          resource_name |-> NoString]

ResponseInit == msg = NoResponse /\ res = NoResult /\ live = FALSE /\ heap = {} /\ dropped = {}

\* A StringRef: `nul' is the place of its first zero byte.
Text == [len : 0 .. MaxLen, nul : 0 .. MaxLen]

strnlen(text) == IF text.nul < text.len THEN text.nul ELSE text.len

malloc(block) == block \in Block \ heap

Building == live /\ res = NoResult

-----------------------------------------------------------------------------
MakeMessage ==
  /\ ~live /\ res = NoResult
  /\ msg' = [NoResponse EXCEPT !.header_options = Map_make(16)]
  /\ live' = TRUE
  /\ UNCHANGED <<res, heap, dropped>>

\* What an option takes in the header: name, ": ", value, "\r\n".
OptionLen(option, len) == NameLen[option] + 2 + len + 2

\* The value an option has before the call, NoString when it has none.
Old(option) == IF Present(msg.header_options, option)
               THEN Map_get(msg.header_options, option) ELSE NoString

\* What add_header_option takes from header_len when it stores cpy.
GivenBack_NewLength(option, cpy) ==
  IF Present(msg.header_options, option) THEN OptionLen(option, cpy.len) ELSE 0

GivenBack(option, cpy) ==
  IF Present(msg.header_options, option) THEN OptionLen(option, Old(option).len) ELSE 0

add_header_option(option, value, block) ==
  LET cpy == [str |-> block, len |-> strnlen(value)]
  IN  /\ Building /\ malloc(block)
      /\ msg' = [msg EXCEPT !.header_options = Map_set(@, option, cpy),
                            !.header_len = @ - GivenBack(option, cpy) + OptionLen(option, cpy.len)]
      /\ heap' = (heap \cup {block}) \ {Old(option).str}
      /\ UNCHANGED <<res, live, dropped>>

set_filename(val, block) ==
  /\ Building /\ malloc(block)
  /\ msg' = [msg EXCEPT !.resource_name = [str |-> block, len |-> val.len]]
  /\ heap' = heap \cup {block}
  /\ dropped' = dropped \cup ({msg.resource_name.str} \ {Null})
  /\ UNCHANGED <<res, live>>

\* A message processor sets the body, which no function of the repository does.
SetBody(len, block) ==
  /\ Building /\ malloc(block) /\ msg.body = NoString
  /\ msg' = [msg EXCEPT !.body = [str |-> block, len |-> len]]
  /\ heap' = heap \cup {block}
  /\ UNCHANGED <<res, live, dropped>>

STATUS_LINE_LEN == 13

\* The stored options, by position in the map.
Stored == 0 .. msg.header_options.values.count - 1

WrittenFor(options, i) == OptionLen(options.keys.data[i], options.values.data[i].len)

\* Where the loop over the options leaves its writer: how far behind the first of them.
Writer(options) ==
  LET after[n \in 0 .. options.values.count] ==
        IF n = 0 THEN 0 ELSE after[n - 1] + WrittenFor(options, n - 1)
  IN  after[options.values.count]

\* The length of the phrase; that of a code without one is "UNKN".
get_reason_phrase(status_code) ==
  IF status_code \in DOMAIN PhraseLen THEN PhraseLen[status_code] ELSE 4

\* compose_message: the allocated length, and where its writer stops.
compose_message(status_code, block) ==
  LET status_line == STATUS_LINE_LEN + get_reason_phrase(status_code) + 2
  IN  /\ Building /\ malloc(block)
      /\ res' = [str |-> block,
                 len |-> status_line + msg.header_len + 2 + msg.body.len,
                 end |-> status_line + Writer(msg.header_options) + 2 + msg.body.len]
      /\ heap' = heap \cup {block}
      /\ UNCHANGED <<msg, live, dropped>>

\* The blocks destroy_OutboundHttpMessage frees.
Freed_BodyForgotten == {msg.header_options.values.data[i].str : i \in Stored}
                         \cup {msg.resource_name.str}

Freed == {msg.header_options.values.data[i].str : i \in Stored}
           \cup {msg.body.str, msg.resource_name.str}

destroy_OutboundHttpMessage ==
  /\ live
  /\ heap' = heap \ Freed
  /\ msg' = NoResponse /\ live' = FALSE
  /\ UNCHANGED <<res, dropped>>

FreeResult ==
  /\ ~live /\ res # NoResult
  /\ heap' = heap \ {res.str} /\ res' = NoResult
  /\ UNCHANGED <<msg, live, dropped>>

ResponseNext ==
  \/ MakeMessage
  \/ \E block \in Block, text \in Text :
       set_filename(text, block) \/ \E o \in Option : add_header_option(o, text, block)
  \/ \E block \in Block, len \in 0 .. MaxLen : SetBody(len, block)
  \/ \E block \in Block, status_code \in StatusCodes : compose_message(status_code, block)
  \/ destroy_OutboundHttpMessage
  \/ FreeResult

ResponseSpec == ResponseInit /\ [][ResponseNext]_responseVars

-----------------------------------------------------------------------------
String == [str : Block, len : 0 .. MaxLen]

\* Type invariant: the options of a live message are a map from options to strings.
ResponseTypeOK ==
  /\ live \in BOOLEAN /\ heap \subseteq Block /\ dropped \subseteq Block
  /\ res \in {NoResult} \cup [str : Block, len : Nat, end : Nat]
  /\ msg \in [header_options : {msg.header_options}, header_len : Nat,
              body : String \cup {NoString}, resource_name : String \cup {NoString}]
  /\ IF live THEN MapShape(msg.header_options, Option, String) ELSE msg = NoResponse

\* compose_message fills the memory it allocates to the last byte and writes no further:
\* header_len is what the options take through all additions and replacements, with
\* values cut at a zero byte.
ComposeFits == res # NoResult => res.end = res.len

\* Who refers to a block: an option by its position, the body, the name, the result.
Owners == [i \in Stored |-> msg.header_options.values.data[i].str]

Fields == <<msg.body.str, msg.resource_name.str, res.str>>

\* No block is freed while something refers to it, and none has two owners: what
\* destroy_OutboundHttpMessage and resolve_request free is allocated and freed once.
OwnedOnce ==
  /\ \A i \in Stored : Owners[i] \in heap \ dropped
  /\ \A f \in 1 .. 3 : Fields[f] # Null => Fields[f] \in heap \ dropped
  /\ \A i, j \in Stored : Owners[i] = Owners[j] => i = j
  /\ \A i \in Stored, f \in 1 .. 3 : Owners[i] # Fields[f]
  /\ \A f, g \in 1 .. 3 : Fields[f] = Fields[g] /\ Fields[f] # Null => f = g

Owned == {Owners[i] : i \in Stored} \cup ({Fields[f] : f \in 1 .. 3} \ {Null})

\* Except for the names set_filename replaces without freeing them, every allocated block
\* is owned: nothing else is left when the message is destroyed and the result freed.
NothingElseIsLost == heap = Owned \cup dropped
=============================================================================
