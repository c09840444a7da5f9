# Verification of sns

sns is a small HTTPS server library in C: one thread accepts clients, a pool of
threads receives a request on each connection, sends a response and closes it.
This directory holds TLA+ models of its concurrent core, of the parser of
requests, and of the data structures and responses, the TLC configurations that
check them on small instances, and theorems that the TLA+ proof system checks for every value
of the constants.

## The system

| component | state | operations | how it meets the others |
|---|---|---|---|
| ring buffer (`RingBuffer_ResolverData.c`) | `data`, `index`, `stored`, `count` | `make`, `append` (grows by 2), `peek`, `retrieve`, `destroy` | owned by the thread pool, used under its mutex |
| thread pool (`threadpool.c`) | `ring_buffer`, `sempahore`, `mutex`, `threads`, `thread_count`, `stop` | `initialize_threadpool`, `enqueue_threadpool`, `dequeue_threadpool`, `destroy_threadpool` | the acceptor enqueues, the workers dequeue, the main thread creates and destroys |
| server (`server.c`) | `RuntimeInfo`: `server_socket`, `ssl_context`, `thread_pool`, `request_acceptor` | `setup`, `start`, `stop`, `restart`; thread bodies `proxy_acc_req` / `accept_requests`, `proxy_res_req`; `resolve_request` | shares `thread_pool.stop`, a plain `bool`, between three kinds of thread |
| inbound message (`HttpMessage.c`) | method, url, header options, parameters, all references into the request | `parse_InboundMessage`, `decompose_*`, `parse_options`, `destroy_InboundHttpMessage` | called by `resolve_request`; uses the maps and the string utilities |
| outbound message (`HttpMessage.c`) | status, header options on the heap, `header_len`, body | `add_header_option`, `set_*`, `compose_message`, `destroy_OutboundHttpMessage` | called by `resolve_request` |
| vector (`MiniVector_*.c`) | `data`, `count`, `capacity` | `make`, `grow`, `append`, `insert` (nothing calls it), `remove`, `get`, `set`, `destroy` | the storage of the maps |
| map (`MiniMap_*.c`) | `keys`, `values`, `eq_fun` | `make`, `set`, `replace`, `get`, `remove`, `destroy` | header options and parameters |
| string utilities (`utils.c`, `StringRef.c`) | `buffer` and `digits_str_buffer` of each thread | `url_decode`, trimming, searches, number formatting, `compress_gz` | used by the messages and offered to message processors |
| route registration (`sns.c`) | none | only declared | - |

What is hard in it:

* **interleavings**: waiting on the semaphore, taking the mutex and looking into
  the buffer are three steps of a worker; an enqueue is four of the acceptor;
  `stop` runs beside both;
* **stale reads**: `stop` is written and read without synchronisation;
* **ordering at shutdown**: `destroy_threadpool` posts once per thread and cannot
  say who takes a post; `stop` destroys the pool *before* it joins the acceptor;
* **partial failure**: `pthread_create`, `SSL_create_connection` and
  `SSL_accept_client` may fail, descriptors may run out;
* **text in memory**: the parser computes with the addresses its searches return,
  found or not; keeps lengths up by unsigned subtraction beside pointers;
  `url_decode` reads and writes the same text;
* **boundaries of data structures**: growing a buffer whose contents wrap round;
  a destroyed buffer has a count of zero, and `append` divides by it; vectors that fill;
* **long sequences of calls**: `header_len` is kept up by every addition and
  replacement of an option and trusted for the size of the composed message; the
  values of a message are heap blocks that each need one owner and one `free`.

What makes each part correct:

* ring buffer: first in, first out through any calls, at any capacity; no read of
  an uninitialized cell, no stale element in a dead one;
* pool: each job to exactly one worker, in order; a token for each job (no lost
  wakeup) and none too many (no worker woken for nothing before the shutdown);
  `destroy_threadpool` always returns;
* vector and map: a list and a dictionary through any calls, no read of a cell
  nobody wrote, the map's two vectors parallel;
* request: the searches find the first occurrence; the first line is cut at its
  spaces; every part of the query and the header is visited once; references stay
  in the part they come from; the loops end; a decoded url is what its escapes mean;
* utilities: a number is written exactly, in a buffer that holds it; compression
  writes only into its memory and returns the whole result;
* response: `compose_message` fills exactly what it allocates; every block is
  freed once;
* server: one holder of a connection at a time; a held connection is open, has a
  descriptor of its own and a live SSL object; every waiting client is settled;
  `stop` returns, and nothing runs after it.

`PROJECT.json` lists the hazards one by one at the line where each bites.

## The modules

| module | what it is |
|---|---|
| `Fifo` | abstract: a first-in first-out queue with make, put, get, peek, clear |
| `Cells` | `Garbage`, what an array's new cells hold |
| `RingBuffer` | the operations of `RingBuffer_ResolverData.c` as operators on a record with the fields of the struct, the array included: an element, `Zero` (cleared by `memset`) or `Garbage` (left by `malloc`/`realloc`) in each cell |
| `RingBufferMachine` | a client that calls them in any order; refines `Fifo` |
| `RingBufferLemmas` | what the operators of the ring buffer preserve |
| `WorkQueue` | abstract: submitted jobs are taken in order, each by one worker, and dropped only by discarding the queue |
| `ThreadPool` | `threadpool.c` and the loop of `proxy_res_req`; callers left open |
| `ThreadPoolMachine` | `ThreadPool` with callers that keep to the contract; refines `WorkQueue` |
| `ThreadPoolLemmas`, `ThreadPoolProofs` | every action preserves the pool's inductive invariant; the theorems of the machine |
| `Server` | `server.c`: the main thread, the acceptor and `resolve_request` around `ThreadPool` |
| `ServerProofs` | the theorems of `Server` |
| `List`, `Dictionary` | abstract: what a vector and a map promise |
| `MiniVector` | the operations of the vector's template as operators on a record with its cells |
| `MiniVectorMachine` | one vector and any calls; refines `List` |
| `MiniMap` | the operations of the map's template on two vectors |
| `MiniMapMachine` | one map and any calls; refines `Dictionary` |
| `OutboundMessage` | the response: its options in a `MiniMap`, `header_len`, body, name and heap blocks |
| `Text` | characters, memory, `StringRef`, and the functions that search and trim them, with a reference for the searches |
| `InboundMessage` | one request in a worker: `parse_InboundMessage`, `url_decode` of its url, destruction |
| `Utilities` | `num_to_string` and `compress_gz` |
| `MCLibrary` | the components that call no other, one of them in each behaviour |
| `DataLemmas` | what the proofs about data share: induction with a set in the place of the predicate, loops as functions of the number of passes, quotients, the shapes of vector and map |
| `LibraryProofs` | the theorems of ring buffer, vector, map, `num_to_string` and `compress_gz`, and of `MCLibrary` |
| `OutboundMessageProofs` | the theorems of the response |
| `InboundMessageProofs` | what `strnstr` returns, where the pieces of a message lie in its copy, and the theorems of the request |
| `MCServer`, `MCInboundMessage` | instances for TLC |

`RingBuffer` <- `ThreadPool` <- `Server` is the composition: each extends the one
before and adds variables and actions; `MiniVector` <- `MiniMap` <-
`OutboundMessage` is the second chain, `Text` and `MiniMap` <- `InboundMessage` the
third. They meet in `resolve_request`, whose request and response exist between the
receive and the end of the send of one worker: no other thread sees them, so the
chains are checked apart. The names of the C source are kept, its
spelling of `sempahore` too.

### From the code to the actions

*Ring buffer.* `RingBuffer_make(0)` allocates 10 cells, as the code does. `append`
is the whole function, with the growth it may start: `realloc` keeps the old
cells, the wrapped part moves to the old end and its cells are cleared.
`retrieve` clears the cell it reads. `Contents` is the mapping to the queue.

*Thread pool.* A worker is at one of the points of the loop: `check` (reading
`stop`), `wait` (`sem_wait`), `lock`, `critical` (mutex held), `unlock`, `resolve`,
`exited`. The enqueuing thread (`epc`) is at `lock`, `append`, `post` or `unlock`;
the owner (`opc`) is `running`, `posting`, `joining` or there is no pool. One
action per step between these points. `stop` is the value its writer wrote,
`stop_seen` the threads that have come to see it: a thread that has not may read
the old value, and synchronises with the writer when it takes a token after the
first post of `destroy_threadpool`: every later operation on the semaphore belongs
to the release sequence of that post, so a successful `sem_wait` synchronises with
it. `initialize_threadpool` is one action, because
the threads it starts can only read `stop` and wait until it returns; it starts
any subset of at least `MinThreads` of the workers.

*Server.* `mpc` is where the main thread is in `setup`, `start`, `stop` or
`restart`; `apc` where the acceptor is (`check`, `poll`, `accept`, `handshake`; in
`enqueue_threadpool` it is where `epc` says); `rpc` where a worker is in
`resolve_request` (`receive`, `send`, `close`, `free`). A connection is named by its
client. A client in `Silent` shakes hands and then neither sends nor closes: its
worker stays in `receive`. What a request says and what the
response holds is left out: it influences the control only where
`parse_InboundMessage` does not survive it, and the server's models assume requests
that are `Readable` in the sense of `InboundMessage`.

*Vector and map.* The capacity counts elements, where the code counts bytes, always
a multiple of the element's size. The maps the code makes use
`equal_StringRef` and `compare_u_char`, which are equality. `Places` is what the
loops look for, `First` where they stop. The abstract `List`, `Dictionary` and
`WorkQueue` keep what is stored and not which call was made: that a `set` or an `append`
stores its own argument is said by the operators, not by the refinement, and
`NoSuchPosition`, `Clear` and `Discard`, which change nothing or empty everything, have
no guard.

*Text.* A character is its code. `strnstr` is its loop as a recursive function of two
indices, `start` and `itr`: `itr` characters of the needle match the text from `start`
on, the code's `i` is `start + itr`, and the step back after a partial match is
`start + 1`. `FirstOccurrence` is the reference it is compared with. `Upto` and `Join`
put texts one behind the other with a separator, as a client does.

*What clients send.* `Message` is what is on the wire, joined from a record that keeps
the pieces apart: up to three words, the second a path of pieces and a query of
parameters; the options, a line each; the empty line and the body, unless they are
missing. A piece of a path is a plain character, a `+` or an escape, with what it means.
`IsSplit` says that the pieces are the ones the text has: no line contains the
separator of lines, an empty line ends the header, and a percent sign in front of two
digits is an escape. A message may still break off before the empty line, lack its
options, have fewer words, or a percent sign that is no escape; its spaces may be in its
first line, in an option or in the body.

*Request.* `mem` is the copy `raw_message_a`, from address 0 to its terminator, as
character codes; a `StringRef` is an address and a length, and `NULL` is -1, no
address. `parse_InboundMessage` up to the header is one action, `decompose_header`
up to the loop of `parse_options` another, and each iteration is one
(`ParseChunk`), for the query (`pc = "query"`) and then for the header
(`"options"`). The lengths of `decompose_header` are differences of addresses, found
or not, as in the code. A search that found nothing leads to an address at the
bottom of memory, and reading it kills the process (`pc = "killed"`):
`decompose_header` does so when there is no space, `parse_options` when there is no
separator. A search may also run past the end of its text: the one for the second space
is as long as the header but starts behind the first (`second_space`), so that behind the
only space of a header it goes on into the body, where a space counts, and past the copy
when the first word is long or the body short. `Reach` is what the search goes through
inside the copy. If it finds nothing there and its length leads out, what it reads is not
known: the process is `astray`, and the model says no more of it. So is `url_decode` of a
url without an end in the copy (`DecodeAstray`). If it finds nothing and stays inside,
the length of the url is negative where the code's wraps, and an index is below it as
unsigned numbers compare (`LessUnsigned`). The length a failed search gives the version is
negative, too; either equals the length of no version. `get_parameter_code` and `IsStored`
have the comparisons as they are written. No header option but the first two is
ever set, so that the content type `decompose_message` looks at is always blank and
its branches for forms are unreachable: the action has that as its guard, and TLC
would report a deadlock if a request got behind it. `Add` keys a
parameter by its text, where the code keeps a reference into the copy, which
`url_decode` may overwrite later: nothing looks a parameter up behind the decoding.
`loop.visited` is not in the code: it remembers the chunks the iterations saw.
`url_decode` has no caller in the repository; `utils.h` offers it for decoding in place,
so `DecodeUrl` calls it with the url as source and destination. Each branch of its loop
is an action; where a percent sign is not followed by two hexadecimal digits, an
iteration changes nothing (`DecodeStuck`).

*Utilities.* The thresholds of `get_num_digits` are `Power[16]` to `Power[1]` of the
base, constants in the code; 2 for `Base` reaches all of them with small numbers.
`Left(n)` is what the loop of `num_to_string` has left of `n` after each pass.
`digits_str_buffer` keeps what a shorter number leaves of a longer one. A pass of
`compress_gz` asks `realloc` for `Room` and gives `deflate` the increase; `deflate`
writes as much as fits.

*Response.* `get_reason_phrase` is the length of the phrase, or of "UNKN". A text is
its length and the place of its first zero byte, which is what `strnlen` reads.
`Writer` is the loop of `compose_message` over the options. `heap` is the set of
allocated blocks; `add_header_option` allocates the copy, frees the old value and sets
the entry in one action, as one thread runs it. `compose_message` returns the length it
allocated and where its writer stopped. `SetBody` stands for a message processor, of
which the repository has the type only.

*Not in the repository* and modelled from their use: the `TCP_*` and `SSL_*`
wrappers and the kernel. `accept` needs a waiting client and a free descriptor
and returns -1 otherwise; terminating the listening socket wakes `poll` and refuses
who waits (the backlog of 4 that `setup` asks for is never exceeded: no run has
more clients); `SSL_accept_client` and `SSL_receive_record` wait for the client. Locking
the destroyed mutex fails, the result is ignored, and `append` then computes a
remainder by zero, which kills the process (`EnqueueOnDestroyed`). An append that
runs while the owner frees the array is ordered before or after the free; the
outcomes in between are memory errors as well, and not distinguished.

## The runs

| run | bounds | what it shows |
|---|---|---|
| `pool` | 2 workers, 3 jobs, any number of workers failing to start | implements `WorkQueue`; mutual exclusion, the accounts of the semaphore, null data only at shutdown, enough posts at shutdown; each job leaves the buffer; `destroy_threadpool` returns |
| `server_lifecycle` | 3 clients, 2 descriptors, 2 workers, one stop or restart, failing setup, handshakes and `pthread_create` | the accounts of the semaphore with the server as caller; one holder per connection; held connections are open, on descriptors of their own; nothing runs after `stop`; connections are dropped only by a failed handshake or the destruction |
| `server_serves` | 3 clients of which one is silent, 2 descriptors, 2 workers | every other waiting client is settled when handshakes succeed and nobody calls `stop` |
| `server_stops` | 2 clients, 2 descriptors, 1 worker, failing handshakes, possibly no thread in the pool | `stop` returns and `restart` serves again, unless the process is killed |
| `library` | ring buffer: two elements, initial counts 0, 1, 3, at most `MaxCount` = 6 stored; vector: two items, the same counts, `MaxCapacity` = 6; map: three keys, two values, counts 0 and 1; `Base` 2 and 12 numbers round the thresholds; `Slack` 2, data up to 4, results up to 9; response: two options with names of different lengths, texts up to `MaxLen` = 1 with a zero byte or not, five blocks | every sequence of calls implements `Fifo`, `List` and `Dictionary`; cells that hold elements are exactly the live ones, every stored cell was written, the map's vectors stay parallel; `compose_message` ends where its memory does, one owner per block, nothing but replaced names is lost; numbers are written exactly whatever the buffer held; compression stays in its memory, returns all and ends |
| `request` | 1182 requests: first lines with 1 to 3 words, known, unknown and empty methods, known and unknown versions; paths of up to 3 steps, plain, escaped or broken; queries of up to 3 parameters at the start or in the middle; up to 3 options, with blanks, empty names and values, lone line ends; messages without the empty line, without options, or with an empty line end; first lines of one or two words whose url goes on into an option; headers with a single space, with bodies that do and do not hold the next | readable requests are survived; the first line is read; each part behind the first is visited in full and nothing else; references stay in their part; the loops end; decoding is right and stays in the url |
| `server_stop_crash`, `server_leftover`, `server_leaks_sockets` | the smallest that show it | the findings below |
| `request_options`, `request_queries`, `request_first` | the requests of `request` | the findings below |

Why the bounds suffice. The ring buffer's behaviour depends on where `index` is when it
fills: counts 1 and 3 fill, at every index, and grow once or twice below `MaxCount`;
elements are only copied, so that two tell them apart. In the pool two workers compete
for a token, one job more than the two cells the buffer starts with makes it grow in
use, and the theorems cover the safety properties for any number of workers and jobs.
In the server, more clients than descriptors make the acceptor fail and recover, and
descriptors are used again. `MaxStops` bounds the lives of the server, not its length:
clients come and go without bound on steps, each connecting once. A vector made with
one cell grows twice, and three keys let a removal hit the first, the middle and the
last entry of a map that has grown. Two options of the response cover an option that
stays while another is replaced; the lengths 0 and 1 make a replacement longer and
shorter; five blocks are enough for both options, body, name, and either the copy of a
value that is made before the old one is freed or the result, which ends the additions.

The parser treats each part of a message alone, so requests vary in one part at a time
and are plain in the others; three parts give a first, a middle and a last. The pieces
and options are one of each kind the code tells apart: an escape in upper and lower
case, one that means a character with a meaning of its own, one that is cut off after
one digit or none; a key that is a name, blank, or missing; a line end that is not one.
Three numbers of passes (one, several, an exact fit) occur in the results of
`compress_gz` up to 9, as an increase is 2 to 4. The proofs remove these bounds for the
properties they cover.

`CHECK_DEADLOCK` is on in every run. `Server` has a step `Idle` for the states in
which the code really waits: the process is gone, or the server waits for clients.

### Fairness

`PoolFairness` and `FairSpec` ask for weak fairness of each thread's own steps (the
scheduler runs a thread that can run), of `SeeStop` (a store reaches the other
threads), of `WorkerDone`, `Handshake` and `Receive` (a client that was accepted goes
on, or its connection ends), and of the rest of a restart once it is called. Weak
fairness suffices for the mutex and the semaphore in these bounds: the acceptor
cannot be kept out for ever because the jobs it did not enqueue run out. Nothing
obliges a client to connect, a caller to enqueue, or the application to call
`setup`, `start`, `stop` or `restart`. A client that never sends a byte holds its
worker for ever in the code: there is no timeout. Such clients are those in `Silent`;
`ClientsAreServed` asks for the others only, and only while there are more threads
than silent clients. `StopReturns` is checked without silent clients, since `stop`
does wait for them, and a client that never finishes its handshake is excluded by the
assumption on `Handshake`: it keeps the acceptor, and is listed as a hazard. Parsing,
decoding and compression are loops of one thread, which is scheduled.

## Findings

* `stop` destroys the pool (`server.c:194`) before it joins the acceptor
  (`server.c:198`): an acceptor that accepted a client just before can append to
  the destroyed buffer, whose count is 0, and the process dies of the division
  (`server_stop_crash`).
* "freeing the leftover data (if any)" (`threadpool.c:108`) frees the array only:
  the sockets and SSL objects of the queued connections are never released
  (`server_leftover`).
* A failed handshake leaves its socket open (`server.c:96` and `102`): when the
  descriptors are used up no client is ever served again (`server_leaks_sockets`).
* No option of a request is found at its code (`request_options`): `parse_options`
  stores an item only when its key is blank (`HttpMessage.c:312`, below the comment
  "check if we actually have a key"), and `get_parameter_code` returns the first name
  that differs (`HttpMessage.c:270`). Options with a blank name all land at code 0.
* A query of a single parameter kills the process (`request_queries`): `parse_options`
  adds the separator's length to a null pointer (`HttpMessage.c:282`), where `ReadMe.md:20`
  promises "Query parameters parsing".
* The first parameter of a query is never visited (`request_first`): the same line starts
  behind the first separator, where `HttpMessage.h:143` says that `parameters` "contain
  the data sent in the forms and query parameters".

What else the models show of the code, allowed by the properties and without a run:

* A request of three words without the empty line or without a header option ends the
  process with a read at the bottom of memory, and so does a header without a space.
  `ReadableRequestsAreSurvived` says that every other request is survived, but those with
  a query of one parameter; that a request is not survived is required by no property
  that passes.
* The url is shortened *by* the position of the question mark, not *to* it
  (`HttpMessage.c:118`): of `/b?a=1&b=2` the first eight characters are left, not the
  first two, which the comment above (`HttpMessage.c:117`, "limit thw url to before the
  '?'") means; it is never more than the word (`RefsStayInTheirPart`).
* `url_decode` does not return when two hexadecimal digits do not follow a percent sign
  (`DecodeStuck`; `DecodingEnds` asks for complete escapes), and an escape cut off by the
  end of the url is completed with the characters behind it.
* When the first line has two words, the second space is one of a later line, and the
  url goes on up to it (with one word, the method does): from `GET /a` and the option
  `b: c` the url is `/a`, the line end and `b:`. A question mark there begins a query.
  So `FirstLineIsRead`, and `EveryPartIsVisited` for the query, ask for three words;
  `RefsStayInTheirPart` takes the second word of the header, wherever its spaces are.
* A header with a single space, as `GET /?a=1&b=2` with the option `Host:h`, may give the
  url a length that has wrapped (`HttpMessage.c:94`): a reference that ends outside the
  copy, against `HttpMessage.h:133`. `RefsStayInTheirPart` names this one exception, and
  the theorem `RequestRefsAreInTheCopy` as well.
* The body begins with the empty line that separates it (`HttpMessage.c:45`).
* `num_to_string` returns a buffer of the thread, where `utils.h:141` says "a heap
  allocated string"; `trimwhitespace` copies a text onto itself in the wrong direction
  (`utils.c:147`); `equal_StringOwn` returns the difference (`StringRef.c:10`).
  Nothing calls the last two. `strnstr` looks at `count` characters, where `utils.h:56`
  says "at most count - 1 characters of haystack".

`set_filename` drops the name a message already has without freeing it
(`HttpMessage.c:409`). `NothingElseIsLost` allows exactly that; since nothing calls
`set_filename` twice, it is a hazard here and not a finding. `MiniVector_insert` is not
modelled, as nothing calls it; from reading alone, it gives `memmove` a number of
elements for a number of bytes and does not count the new one (`MiniVector.c:92`, against
`MiniVector.h:71`).

## The proofs

The only assumptions are the ones the modules name: `CellAssumption` (`Zero` and
`Garbage` are not elements), `BoundsAssumption` (the initial counts and `MaxCount`
are natural numbers), `WorkersAssumption` (finitely many workers; the producer and
the value of a free mutex are none of them), `ServerAssumption`,
`UtilitiesAssumption` (a natural `Base` above 1, numbers of at most 20 digits, as a
`size_t` has in base 10, a positive `Slack`, natural bounds), `RequestsAssumption` (a
message is joined from pieces without zero bytes inside, split as above),
`VectorBounds`, `MapAssumption` and `OutboundAssumption` (lengths,
counts and bounds are natural numbers; `Garbage` is no item, key or value). TLC
evaluates each of them in a run.

*Ring buffer.* `RingShape` (index below count, stored at most count) and
`LiveCellsHoldElements` (a cell holds an element exactly when it is one of the
`stored` cells from `index` round the end) are preserved by each call.
`IndexArithmetic` turns the remainder into a subtraction within two turns; `Behind`
then says which cells are live by comparison alone, and `GrowShape`, `WriteShape`
and `ReadShape` follow cell by cell. The same lemmas say what a call does to
`Contents`, which gives `RingBufferIsFifo`.

*Thread pool.* None of the properties is inductive. `PoolInv` adds

* `HolderInv`: who is in the critical section is the holder of the mutex;
* `DataInv`: when a worker or the caller has a job in hand;
* `OwnerInv`: what `stop` and `posts` are in each phase of the owner;
* `TokenInv`: the tokens are at least the stored jobs and exceed them by at most
  the posts of `destroy_threadpool`;
* `ShutdownInv`: the workers that may still wait are at most the tokens plus the
  posts still to come.

The last two carry the argument. A worker that finds the buffer empty spends a
token that belonged to no job; by `TokenInv` one exists only after a post of
`destroy_threadpool`, so `stop` is set. A worker that takes a token after the first
post has seen `stop` and never waits again, so the left side of `ShutdownInv` falls
with the right; when the posts are done, it says that the joined threads have
enough. `ThreadPoolLemmas` proves `PoolInv` preserved by each action separately, so
that both `ThreadPoolProofs` (with the contract: no enqueue in progress during a
destruction) and `ServerProofs` (where the acceptor breaks it) use the lemmas.
`PoolIsWorkQueue` maps `Contents(ring_buffer)` and `wdata` to the abstract queue and
hands.

*Server.* `ServerInv` adds where the main thread and the acceptor may be relative to
the pool. It yields the pool's properties inside the server, and that nothing is
left running when `stop` has returned.

For the connections `ConnectionInv` adds two parts. `CustodyInv` says where a
connection may be: the acceptor's hands (`aconn`, then `called`), the queue and the
workers exclude one another, the queue holds none twice and no two workers hold the
same. `SocketInv` ties that to the state of its client and to its resources: who was
never accepted is held nowhere and has no descriptor; no two connections share one;
behind the handshake there is an SSL object; and the descriptor is gone only where
the worker is between closing and freeing (`rpc = "free"`). `OneHolder` and
`HeldConnectionIsOpen` need both, since an accept may hand out a number that a worker
has just closed. `LetsGo` is the action part: a step that lets go of an open
connection is a failed handshake or the end of the destruction, which gives
`NoOtherConnectionIsDropped`.

*Vector and map.* `VectorShape` (cells as many as the capacity, each stored cell
written) and `MapShape` (two such vectors of the same length, no key twice) are
preserved by each operation (`DataLemmas`). `Items` maps a vector to the list and
`AsFunction` a map to the dictionary; a removal is where the proof has to follow the
shift of both vectors. `LibraryWellShaped` puts the type invariants together.

*num_to_string.* `Counting` is the invariant of the five steps of `get_num_digits`:
after the step at `p` places, `r - 1` digits have been divided away, fewer than
`Power[p]` are left, and what is left is not 0 unless the number is. It needs that
dividing twice is dividing by the product (`DivDiv`), which also makes `Left(n)[k]`
the quotient by `Power[k]`. The text then reads back as the number by Horner's rule,
digit by digit.

*compress_gz.* `ZipInv` adds to `OutputFits` and `OutputIsWhole` that the output is a
prefix of the result and the fields are numbers. A pass writes the smaller of the
increase and what is left; the increase is positive, so a pass that leaves room has
written all that was left.

*Response.* `IInv` adds two parts to the types. `LengthInv`: `header_len` is what the
loop of `compose_message` will write for the options, through additions and
replacements by longer and shorter values; `ComposeFits` alone is about one moment and
not inductive. `OwnerInv`: the blocks of options, body, name and result are distinct,
and with the names that `set_filename` dropped they are all of the heap. The three
properties of the run follow.

*strnstr.* For a needle that is not empty, the recursion of the loop has one solution.
The function `Found` (the start of the match if the rest of the needle matches here,
else the first occurrence behind it) solves it, because a mismatch anywhere in a partial
match excludes `start` and nothing else. At the first place `Found` is
`FirstOccurrence` (`StrnstrFindsTheFirst`); a mutation that steps too far has no such
argument, since it loses the occurrences that begin inside the partial match.

*Request.* `IInv` says for each point of the parser what is known of the addresses.
The copy is the message with its terminator until the decoding starts (`CopyInv`). The
body, if there is one, begins at the empty line and ends with the text (`BodyInv`). The
url lies in the copy unless its length has wrapped, which happens only behind the single
space of a header (`UrlInv`): with a second space in the header, or one in the body that
the search reaches, `strnstr` finds the first behind the method. The question mark by
which the query was found is still in the url when it is shortened (`QueryInv`), so that
this does not make its length wrap. `limit_len` is what is left of the segment
(`LoopInv`), so that both searches of an iteration stay inside, and what they and `trim`
cut out lies in the copy (`RefsAreInTheCopy`); a query of a url that has wrapped ends
before it begins, and no iteration looks at it. `url_decode` writes at most where it
reads, so that what it has not read is as it was sent (`DecodeKeepsTheRest`).
All this is about the copy, whatever was sent.

*What was sent.* `RInv` says what the parser makes of the pieces, and needs `IInv`.

* `LineInv`: behind the first line, method and version have the codes of the words, and
  the url begins behind the first space and is as long as the second word until a
  query shortens it.
* `ReadInv`: a process that is killed or astray had no readable request: the searches of
  `decompose_header` and the first one of `parse_options` found what they looked for.
* `VisitInv`: the loop of `parse_options` is behind the first `k` parts, and has visited
  exactly these without the very first (`AtPart`).
* `StayInv`: the segment of the loop lies in the second word (from `WordStart` to
  `WordLimit`), or in the header, and what was stored from it, too.
* `DecodeInv`: as many pieces are decoded as characters are written, and the place that
  is read next is where the next piece begins.

The argument is about places. `Start` is where a part begins in joined texts, and
`JoinHolds` says that each part and each separator lies there in the copy. `Layout` adds
that no separator begins inside a part; for parameters since they have no `&`, for lines
by `IsSplit`, where a line end across the border of a part and its separator is to be
excluded (`LinesLayout`, `QueryLayout`). With `StrnstrFindsTheFirst`, a search that
starts at a part then finds the separator behind it, or nothing at the last
(`PartIsFound`), which carries the loop from part to part (`LoopAdvances`); that it ends
behind the last says what it has visited (`LoopIsOver`). The spaces and the end of the
first line are found in the same way. For the decoding, what is not read yet is as it was sent
(`DecodeKeepsTheRest`), so the piece that is read next is still there in full
(`PieceIsRead`). A percent sign that is a piece of its own is not taken for an escape:
its neighbours in the path are not both digits, and behind the path there is a space.

### Model-checked only

* The liveness properties `JobsLeaveTheQueue`, `DestroyReturns`, `StopReturns`,
  `ClientsAreServed`, `ParsingEnds`, `DecodingEnds` and `CompressEnds`: they rest on
  fairness, which is out of the proof system's reach.

The findings are shown by TLC's counterexamples. Every other invariant and action
property of a run, and each refinement, is a theorem.

## Not modelled

* `MiniVector_insert`, and a direct call of `RingBuffer_ResolverData_grow` on a buffer
  that is not full: no code calls them. Growing is part of `append`.
* What a process does once it is `astray`: it reads behind its copy.
* The branches of `decompose_message` for forms, which no request reaches.
* `getUTC` (the clock; the length of 80 it returns is the case of a text with a zero
  byte in the response), `trimwhitespace`, `strrnchr` and `equal_StringOwn`, which
  nothing calls; more than 4 GiB of data in `compress_gz`, whose lengths zlib cuts.
* Failing `malloc`/`realloc`, `sem_init` and `pthread_mutex_init`: the code
  terminates or only logs.
* A failing `pthread_create` in `start`: `stop` would join an unset thread id, which
  has no defined outcome.
* The `NO_THREADING` build, which does not compile: it calls functions that exist
  nowhere.
* `SIGPIPE_handler`, which nothing installs, and route registration, which is only
  declared.

## Limits

The chains from the ring buffer to the server, from the vector to the response, and from
the text to the request, and the utilities are modelled, checked, and proved as far as
safety goes. What would go further: a composition of the server with the contents of
requests, where a request that is not `Readable` kills the process in the middle of
other connections; the real-time side of a handshake that never ends; and a proof of the
liveness properties, with a prover that has a rule for weak fairness.
