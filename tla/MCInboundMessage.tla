-------------------------- MODULE MCInboundMessage --------------------------
(* Small instances of InboundMessage: requests that vary in one part.       *)
EXTENDS InboundMessage

SeqsUpTo(S, n) == UNION {[1 .. k -> S] : k \in 0 .. n}

\* A piece of a path: its text, and what it means to who sent it.
PieceOf(text, means) == [text |-> Codes(text), means |-> Codes(means)[1]]

Plain == <<PieceOf("/", "/"), PieceOf("b", "b")>>

EscapedA == <<PieceOf("%41", "A")>>

Broken == <<PieceOf("%", "%")>>

\* Paths are made of these.
Steps == {Plain, <<PieceOf("+", " ")>>, EscapedA, <<PieceOf("%2b", "+")>>, Broken,
          Broken \o <<PieceOf("4", "4")>>}

\* An option with a name that the table has, or not (name "").
OptionOf(line, name, value) ==
  [line |-> Codes(line), name |-> Codes(name), value |-> Codes(value)]

Host == OptionOf("Host: h", "Host", "h")

Options == {Host, OptionOf(" A-IM :a:b ", "A-IM", "a:b"), OptionOf("Accept:", "Accept", ""),
            OptionOf("\t: v", "", ""), OptionOf("a\rb", "", ""), OptionOf("x\r", "", "")}

Simple == [words |-> 3, method |-> Codes("GET"), path |-> Plain, query |-> <<>>,
           version |-> Codes("HTTP/1.0"), options |-> <<Host>>, complete |-> TRUE,
           body |-> <<>>]

FirstLines == {[Simple EXCEPT !.words = w, !.method = Codes(m), !.version = Codes(v)] :
                 w \in 2 .. 3, m \in {"GET", "PATCH", "GETS", ""},
                 v \in {"HTTP/1.0", "HTTP/3", "HTTP/", "HTTP/1.0 "}}

Paths == {[Simple EXCEPT !.path = FlattenSeq(p)] : p \in SeqsUpTo(Steps, 3)}

Queries == {[Simple EXCEPT !.path = p, !.query = Words(q)] :
              p \in {<<>>, Plain, Plain \o EscapedA},
              q \in SeqsUpTo({"", "a=1", "=1", "=2", "\t="}, 3)}

Headers == {[Simple EXCEPT !.options = o] : o \in SeqsUpTo(Options, 3)}

Incomplete == {[Simple EXCEPT !.words = w, !.options = o, !.complete = c, !.body = Codes(b),
                              !.method = Codes(m), !.query = Words(q)] :
                 w \in {1, 3}, o \in {<<>>, <<OptionOf("", "", "")>>}, c \in BOOLEAN,
                 b \in {"", "b\r\n\r\n"}, m \in {"GET", ""}, q \in {<<>>, <<"a=1", "=2">>}}

\* The url goes on into an option.
Shifted == {[Simple EXCEPT !.words = w, !.options = <<OptionOf(o, "", ""), Host>>] :
              w \in 1 .. 2, o \in {"a?b: c", "a?b&c=d: e", "a b"}}

\* A single space in the header, in the first line or in an option: the search for the second
\* goes on into the body, as far as the first is from the start, or behind the copy.
OneSpace == {[Simple EXCEPT !.words = l[1], !.options = <<OptionOf(l[2], "", "")>>, !.path = p,
                            !.method = Codes("PATCH"), !.query = Words(q), !.body = Codes(b)] :
               l \in {<<1, "a: b?&c">>, <<1, "a: ">>, <<2, "a:b">>, <<2, "a?b&c=d:e">>},
               p \in {Plain, Broken}, q \in {<<>>, <<"a=1">>, <<"a=1", "=2">>},
               b \in {"", "xy", " x", "a?b&=c d",
                      "body&with?no-space-that-is-longer-than-its-header"}}

MCRequests == {r \in FirstLines \cup Paths \cup Queries \cup Headers \cup Incomplete
                     \cup Shifted \cup OneSpace :
                 /\ Message(r) # <<>>
                 /\ r.complete => \A o \in DOMAIN r.options : r.options[o].line # <<>>}
=============================================================================
