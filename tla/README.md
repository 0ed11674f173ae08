# A TLA+ verification of infinote

libinfinity (the library of the *infinote* project) lets several users edit
one text at the same time.  Every user's computer keeps a copy of the text
and applies its user's changes at once; the changes travel as *requests* and
are *transformed* against concurrent ones when they arrive, so that all copies
end up the same.  Undo works per user and concurrently, too.  The algorithm
(called *adOPTed* with the extensions of M. Ressel for undo) with the
operations on text is about twenty thousand lines of C.  Around it, a server
keeps a tree of documents and the sessions in which they are edited; clients
browse the tree, add, remove, open and save documents, and join their users to
the sessions; messages travel in groups over XMPP connections with TLS and
SASL.  GTK widgets and a daemon are built on top.

This directory holds models of these parts, from the memory of the request log to
the daemon's autosave; the model-checking runs for them; and machine-checked
proofs about the request log, the registry of messages, the TCP connection, the
event loops, discovery, and the recording of sessions.
Everything is translated from the C source; paths in this text are relative to the
repository (`src/`).

## 1. The system

### Components

The concurrency control, bottom to top (in `libinfinity/adopted` and `libinftext`):

| component | state | operations | correct when |
|---|---|---|---|
| **Request log** `inf-adopted-request-log.c` | one user's requests in order, an array with pointers `original`, `prev`, `next` between entries; `next_undo`, `next_redo` | `add_request`, `remove_requests`, `set_begin`, `prev_associated`, `original_request`, `upper_related` | do/undo/redo chains nest; both cached pointers are what a walk would find; pointers survive moves of the array; together: a linear undo history |
| **State vector** `inf-adopted-state-vector.c` | a sorted array of (user, count) | compare, `causally_before(_inc)`, `add`, `vdiff`, text formats plain and relative to another vector | it is the product order; formats are inverse to their parsers |
| **Operations** `inf-adopted-operation.c`, `-split-`, `-no-operation.c`, `inf-text-*-operation.c` | immutable values: insert, delete, remote delete (a length and what is known of the text), split, no-op | `transform` with a concurrency id, `apply`, `revert`, `make_reversible` | transformation gives the same text in both orders; reverting restores it; asserts hold |
| **Request** `inf-adopted-request.c` | (type, vector, user, operation) | `transform`, `mirror`, `fold` | the space of states is consistent whatever path is taken |
| **Algorithm** `inf-adopted-algorithm.c` | for each site: `current` vector, a log and a last known vector of each user, cache of translated requests, queue of early requests, undo limits, the buffer's modified flag | `generate_request/undo/redo`, `receive_request`, `translate_request`, `execute_request`, `cleanup`, `can_undo/redo` | convergence; undo takes back exactly one change; cache coherent; nothing is lost in the queue; cleanup removes nothing that is needed; assertions hold; the modified flag is right |
| **Adopted session** `inf-adopted-session.c` | per user: vectors of the last request sent and received, a no-op timer | broadcast, undo/redo of several steps, process a request from the network, answer with no-ops, synchronise | what is sent can be decoded where it arrives; undo steps expand alike everywhere; the others learn in time how far a host is |
| **Text session** `inf-text-session.c`, `inf-text-move-operation.c`, `inf-text-user.c` | a caret and a selection for each user, caret timers | callbacks of the buffer become requests; wire form of operations; carets move with the text | typing is broadcast once and not applied twice; carets and selections keep their characters |
| **Undo grouping** `inf-adopted-undo-grouping.c` | a ring buffer of pointers into a log | which requests are undone together | the buffer follows the log, cleanup included |
| **Text chunk/buffer** `inf-text-chunk.c`, `inf-text-default-buffer.c` | a sequence of segments (author, text, offset) | insert, erase, substring, compare | equals a sequence of (character, author); neighbours have different authors |
| **GTK buffer** `inf-text-gtk-buffer.c` | a `GtkTextBuffer` with tags for authors, a record of what is being done to it | handlers before and after GTK's, insertions and erasures by the session | the session is told what happens to the text; who wrote a character is known |
| **Recording** `inf-adopted-session-record.c`, `-replay.c` | the vectors recorded last, a file | start, record, stop; play, one step after another | a replay goes through the states of the session |

The services around the documents (in `libinfinity/server`, `client`, `common`, `communication`):

| component | state | operations | correct when |
|---|---|---|---|
| **Server directory** `infd-directory.c` | a tree of nodes, of which a part is explored; requests granted and waiting for an acknowledgement (*subreqs*), notes that clients are bringing along (*sync-ins*); sessions with save timeouts; a chat | explore, add, add with synchronisation, remove, subscribe, save; acknowledgements; connections that come and go | each request is answered once; a name or a session is never given twice; storage and tree agree; what is lost or declined is taken back |
| **Client browser** `infc-browser.c` | a partial copy of that tree, pending requests by number, its own subreqs and sync-ins | requests and their replies, messages about others' changes, welcome, loss of the connection | the copy is what the server has, as far as it was explored; requests end |
| **Server session proxy, session, user table** `infd-session-proxy.c`, `inf-session.c`, `inf-user-table.c` | users with status and connection, subscriptions, one synchronisation per new subscriber | subscribe, join and rejoin, status change, unsubscribe, close, loss of a connection | subscribers know the same users; a subscriber gets what follows its synchronisation, once |
| **Client session proxy, requests** `infc-session-proxy.c`, `infc-request-manager.c`, ... | the subscription, joins that wait for an answer | the same from the other end | answers end requests; errors end the session only |
| **Communication** `libinfinity/communication` | the registry keeps, per group and connection, a queue, the number of messages handed to the connection, and activation counts; the central method relays the members' messages | register, send, cancel, sent | every message is reported as enqueued and sent once; unregistering while messages are on their way, and registering again, keeps the counts right |
| **XMPP connection** `inf-xmpp-connection.c` (on `inf-tcp-connection.c`, `inf-sasl-context.c`) | the protocol's state, parser, TLS session, SASL session and its thread, messages waiting to be reported | open, negotiate, authenticate, reset and retry, send, close, at both ends | messages arrive and are reported in order, once; who is ready is secured as both ends demand; nobody waits for ever; asserts hold |
| **TCP connection** `inf-tcp-connection.c` | the socket, its watch, a queue of bytes in memory that is moved and grown | open, connected, send, readable, writable, close; signals to handlers that call back | bytes arrive and are reported in order, once; the socket is watched for what is waited for |
| **Event loop** `inf-standalone-io.c`, `inf-gtk-io.c` | what is polled for, timeouts, dispatches, a pipe to wake up the loop | add, update, remove, from callbacks and from other threads; iterate | one callback at a time, none after a removal; data is released once; no wakeup is lost |
| **Groups** `inf-communication-group.c`, `-hosted-`, `-joined-`, `-central-method.c` | members, publishers, a method for each network | add and remove a member, send, relay, open and close | who is a member hears everything, once and in order |
| **Servers** `infd-tcp-server.c`, `infd-xmpp-server.c`, `infd-server-pool.c`, publisher in `inf-discovery-avahi.c` | sockets, the pool's entries, what is published | bind, open, close, accept, fail; add a publisher | what is open is published, where and as what it is; status follows |
| **Discovery** `inf-discovery-avahi.c`, `inf-xmpp-manager.c` | services found, resolutions under way, connections by address | browse, resolve, fail, try again | each call is answered once; one connection for each address |
| **Storage**, **infinoted** `infd-filesystem-storage.c`, `infd-note-plugin-text.c`, `infinoted-autosave.c`, `infinoted-directory-sync.c` | files, sessions in memory, timers | read, write, remove; autosave, copy, reload, stop | what was typed is on disk in time and not overwritten by less; the copy follows |
| **Chat** `inf-chat-buffer.c`, `inf-chat-session.c` | a bounded ring of messages, a log file | say, synchronise, users come and go | everybody hears everything, in one order, as long as clocks agree |
| **GTK widgets**, **certificates** | user interface, wrappers of libraries | -- | -- |

### How they interact

Typing changes the *buffer*, whose signal makes the *text session* build an
operation; the *algorithm* turns it into a request (`generate_request_noexec`),
logs it, cleans up, and the *session* broadcasts it.  An undo goes the other
way: the algorithm generates an UNDO request, translates it to the current
state and applies the result to the buffer.  A message that arrives is parsed
by the session and given to `inf_adopted_algorithm_receive_request`, which
executes it, or queues it if it refers to requests that have not arrived.

A client learns of documents through its *browser*, which shares one group with
the *directory*.  Subscribing to one (or adding it) creates a *session proxy* at both
ends and a group for the session; what a new subscriber must know is sent as a
*synchronisation* through the group's queue in the *registry*, followed by
everything that happens meanwhile.  The registry hands bunches of
messages to the *connection* and waits for it to report them as sent.

Everything in one process runs in one thread, from the main loop, to the end
(but a step of SASL, which has a thread of its own, and hands over its result as a
*dispatch* of the loop).
Concurrency is between sites: each runs on while messages are under way.
Within a process the difficulty is callbacks: a `sent` handler sends, a certificate
callback closes, a status handler unregisters.

### What is hard about it

* Requests of different users arrive at different sites in different orders.
  The connection keeps each sender's order; nothing else is promised.
* A request is translated along *some* path through the space of states; the
  path depends on the order of arrival, on what the cache holds, and on the
  order in which the site enumerates its users.  All paths have to agree.
* Undo and redo are requests like all others, may concern a change that has
  been transformed against many others since, and are undone concurrently.
* A deletion by another user arrives as a position and a length.  The text,
  which its undo will need, is pieced together from concurrent deletions.
* Requests are forgotten when everybody is known to be far enough past them;
  the knowledge is old, and messages that refer to them may be under way.
* Cached values (`next_undo`, the request cache, `can_undo`, the vectors of
  the others, the modified flag) outlive the states they were computed in.
* A request of a client is granted in a state of the tree that has changed
  when the acknowledgement arrives: the node is gone, its directory is, another
  client has the same session.  In between a name or a number is only reserved.
* A connection is lost between any two messages, and each end notices it at
  another time; everything that knows of it must forget it.
* Both ends of a connection change its state at the same time: one closes while
  the other sends, one resets the authentication while the other answers.

`PROJECT.json` lists these hazards at their lines, with the properties that
watch them.

## 2. The modules

```
 UndoHistory <----------- RequestLog <-------- RequestLogArray
 (a linear history)       (numbers)            (array and pointers)
                              |  \
                   RequestLogOps  RequestLogProofs <-- RequestLogArrayProofs
                       |      \
                       |       UndoGrouping        which changes are undone together
     StateVector   TextOperation
        |   \          |      /
        |    AdoptedAlgorithm          one site: a function of its state
        |            |
        |    AdoptedReplicas           several sites and their messages
 SortedVector                          vectors as arrays and as text

     AdoptedSession                    what two hosts tell each other, and when
     TextChunk   TextCarets            the text's segments; carets and selections
                     |
                GtkTextBuffer          a GtkTextBuffer as the text
     SessionRecord   ChatRoom          recording and replay; the chat

             DirectoryTree
             /           \
     InfdDirectory     InfcBrowser     the server, one client
             \           /
           DirectoryService            the server and its clients

   InfdSessionProxy   InfcSessionProxy
             \           /
            SessionService             a session and its clients

     CommunicationGroups               groups, their members and methods
     CommunicationRegistry             one connection, the groups that use it
             |
     CommunicationRegistryProofs

     XmppConnection                    one end; both, and what is between them
     TcpConnection                     the bytes of one end
             |
     DaemonProofs ---- DocumentStorage, Servers (below)

     InfIo <----- StandaloneIo, GtkIo  event loops
                        |         |
      StandaloneIoProofs   GtkIoProofs

     Servers   Discovery               how servers are reached and found
                  |
     DiscoveryAndRecordProofs ---- SessionRecord (above)

     DocumentStorage                   what is on disk, autosave and copies
```
Arrows read "is implemented by"; lines "is used by".

### The concurrency control

**RequestLogOps** -- `inf-adopted-request-log.c` as operators on a log value: a
record with functions from request numbers to the entry's request and its
three pointers, which are request numbers here (`None` is `NULL`).
`FindAssociated`, the loop that both update functions run after each operation,
is the greatest entry the loop stops at, among those the loop visits: the
numbers outside all chains of the kind that it leaps over.  This form has no recursion,
so that theorems can be proved about it.

**RequestLog** -- the log as a state machine: `AddDoRequest`, `AddUndoRequest`,
`AddRedoRequest`, `Remove`, `Restart`, one for each operation that changes it,
under the guards of the C code (its `g_return_if_fail`s and asserts).

**UndoHistory** -- what a user expects of undo, with no requests at all: the
changes in effect and the changes that can be redone.  `RequestLog`
implements it.

**RequestLogArray** -- the memory layout: cells in an array at some address, an
offset that grows when requests are removed, compaction (`Compact`: `g_memmove`
and relocation of each pointer) and reallocation (`Enlarge`: at the same or a
new address).  It implements `RequestLog` under the mapping of a pointer to
`begin + (index - offset)`, which TLC checks and `RequestLogArrayProofs` proves.

**UndoGrouping** -- the ring buffer of `inf-adopted-undo-grouping.c` next to a user's
log, with other users' requests between, explicit groups, undo and redo of several steps, and a log that forgets.  The
log moves by the operators of `RequestLogOps`; how old a request is follows from how many of the others' requests it has seen.  `ideal` is what
`UndoHistory` would have.

**StateVector** -- vectors as functions, their order and arithmetic.

**SortedVector** -- the same as the C code has it: a sorted array with a binary search,
comparisons that merge two arrays, and both text forms with their parsers.  Its actions build arrays in all
ways there are; the walks are compared with `StateVector`.

**TextOperation** -- operations as records and `Transform`, `Apply`, `Revert`,
`MakeReversible` on them.  A text is a sequence of characters (the segments
and authors of `InfTextChunk` are left out).  A failing assertion gives the
value `Abort`, which the algorithm turns into a failed site.

**AdoptedAlgorithm** -- one site as a record (the fields of
`InfAdoptedAlgorithmPrivate`, its users' logs and vectors, the buffer), and
each call as an operator from the site before to the site after: `Translate`
with its cache, `ExecuteRequest`, `Cleanup`, `CanUndo`, `CanRedo`, `Generate`,
`Receive`.  The functions call each other as in the C code and in the same order,
because the order decides what the cache holds.  `failed` says that an assertion has
failed, or a `g_return_val_if_fail` returned `NULL` to a caller who uses it:
the program is gone, the site takes no more steps.

**AdoptedReplicas** -- the sites, `sent[u]` (what user `u` has broadcast, in
order), `got[s][u]` (how much of it has reached site `s`), and `disk[s]` (what
the site's text was when it was last saved).  The actions: `InsertText`, `EraseText`
(the text session's callbacks: the buffer changes first), `Undo`, `Redo`,
`SendNoop`, `ReceiveFrom` (the whole of `process_xml_run` and
`receive_request`, queue and cleanup included), and `Save` (autosave writes
the text and clears the modified flag).  A site is a user's, who is local to it,
or an *observer's*: a server, which only receives.  An erasure is sent as
a position and a length (`OnTheWire`), as the session does.

### The services

All of these are written alike: one side is a record, each handler an operator
from the record before to the record after, `out` collects what it sends, and `failure` names the
assertion or null pointer that stops the program.  The service module gives each
handler an action, and adds what is between the sides.

**DirectoryTree** -- nodes as a function from ids to parent and name; paths, subtrees.

**InfdDirectory** -- `infd-directory.c`: a handler for each message
(`ExploreNode`, `AddNode`, ..., the acknowledgements), what happens when a connection comes or is
lost, the save timeout and the chat.  The storage is a set of paths; it may fail.
`subreqs` are the requests granted and not acknowledged, `proxies` the sessions
in memory, those included that only a subreq refers to.

**InfcBrowser** -- `infc-browser.c` with the request manager: the program's calls, the server's messages
and the reports of the connection.

**DirectoryService** -- the two ends with a stream in each direction.  Connections are
lost with what is under way; each end notices on its own (`ServerNotices`,
`BrowserNotices`), a client may connect again.  An acknowledgement
is in `c2s` before the browser learns that it was sent (`AckSent`), which decides what it
does when the connection breaks.  `Plans` says what the programs of a behavior do.

**InfdSessionProxy**, **InfcSessionProxy**, **SessionService** -- a running session:
`InfdSessionProxy` has users, subscriptions and synchronisations, and for each client
the queue of the registry with what can be cancelled in it.

**CommunicationRegistry** -- `inf-communication-registry.c` for one connection.
`entry[g]` has the fields of `InfCommunicationRegistryEntry` that count: the
queue, `inner_count`, `registered`, `activation_count`; `NoEntry` stands for none.
`wire` is what `inf_xml_connection_send` was told to send and has not sent yet,
a `<group>` element with its messages (a *bunch*) each.  Calls (`Send`,
`CancelMessages`, `Register`, `Unregister`) are one action each.  `sent_cb` is
not: it calls the group's method in the middle of its loop, and the method may
call the registry for this group or another one.  So `ConnectionSent` begins
the loop; `SkipMessage` and `CallSent` are its two branches; between `CallSent` and
`SentReturns` the calls are enabled; `AllReported` is what follows the loop.
`Close` is the whole round of `notify::status` handlers, in the order in which
they were connected; `GroupUnrefed` the weak reference to a group that is gone.
A message carries its number and the registration during which it was sent, as
the properties speak of both.  `forgotten[g]` remembers that messages of an earlier
registration were cancelled, see below.

**XmppConnection** -- one end: the state machine of `inf-xmpp-connection.c` with its
parser, which calls back in the middle of what it was given, so that a chunk is
parsed unit by unit and each unit sees the state its predecessor left; the part of
`inf-tcp-connection.c` that queues; and, as external definitions, what
GnuTLS, GSASL and libxml2 are used for.

The second part of the module has both ends, the kernel's buffers between them, and the two
programs.  What was sent arrives in pieces of any length (`Receive`), is taken by the socket
at once or later (`Transmit`), or is lost (`Break`).  The step of a SASL session is an
action of its own (`Step`), as its thread is, and so is the user's decision
about a certificate (`Decide`).

**CommunicationGroups** -- the groups of the directory and of a session, hosted by the server and joined by
clients on different networks.  The group, its method for a network and the members' registration are one record
each; status changes reach their handlers in the order in which these were connected.  The queue of a connection is the registry's.

**TcpConnection** -- `inf-tcp-connection.c` down to `send` and `recv`: what the kernel does not take
is kept in memory that is moved, then enlarged (`SendBytes`, `IoOutgoing`, `IoIncoming`, `IoConnect`, ...).  Handlers of its signals may
send or close.  The kernel takes what it likes, and the other end reads, ends or resets.

### Around a document

**AdoptedSession** -- what two hosts, with three users between them, send: requests with vectors as differences to the last one sent, undo of several steps
in one message, no-ops by one timer for all local users of a host, carets at most once per interval; users who leave
and return.  The concurrency control is abstracted to vectors here.

**TextCarets** -- `inf-text-user.c`, `inf-text-move-operation.c` and the caret handlers of the text session:
a writer and a reader whose caret moves and changes of text cross.  Positions are unsigned and lengths signed, of `Word` bits' range.

**TextChunk** -- segments of one author each, whose text is bytes, of which a character may take
several; insertion, erasure, substrings, merging, iteration, sending in pieces.

**GtkTextBuffer** -- `inf-text-gtk-buffer.c`.  GTK's text with tags, marks and its order of handlers is external; `BeforeInsert`, `AfterInsert`, ... are
InfTextGtkBuffer's, and between any two of them somebody else's handler may change the text, so that a stack of
records of what is being done is needed.

**SessionRecord**, **ChatRoom** -- recording (until it is stopped or the program crashes) and its replay; the chat's ring buffer at the server and a client with its
synchronisation and its log file.

### Around the server

**InfIo** promises that callbacks run one at a time, none after it was removed, and that what was passed is released
once.  **StandaloneIo** implements it around `poll`: its mutex is released while it polls and calls back, when other
threads may come; they wake it up through a pipe.  **GtkIo** implements it on GLib's main loop, where a source that is
being removed may already have been chosen.

**Servers** -- TCP servers, XMPP servers on top, their pool and the publisher's side of `inf-discovery-avahi.c`;
**Discovery** -- its browsing and resolving side, and `inf-xmpp-manager.c`.  The Avahi daemon comes and goes.

**DocumentStorage** -- files of a folder and its notes (absent, readable, broken), sessions that are edited and undone back to what was saved, autosave, copies; operations on files fail, the
daemon stops, crashes and is started again.

### Instances

Modules whose names begin with MC are instances for the model checker.  They put
parts side by side that do not depend on each other: in a behavior one of them moves and
the others stay in their initial state, so that one run checks them all.  Their properties are conjunctions of properties of the
parts, stated and commented where the part is.  **MCEditing** also serves the runs of `AdoptedReplicas` alone
(`GivenSpec`, where every user sends its own number of requests, and `TypingSpec`), and **MCServices** that of the directory alone (`DirectorySpec`).
**MCComponents** instantiates the modules with the proofs about the array and the two loops, so that their theorems carry over to what
the run checks (section 5).  **MCServers** extends `TcpConnection`, `Discovery`, `DocumentStorage` and `Servers`, and **MCDocuments** extends `SessionRecord`, so that `TcpExact`,
`DiscoveryExact`, `StorageExact`, `ServersExact` and `ReplayFollowsRecord` are in the runs the very formulas of the theorems; the other parts are instances.

Definitions called `..._Something` next to a definition, under a comment
"Mutant", are plausible mistakes in it.  They are not part of the model: each
property is known to be violated when one of them takes its place, which shows
that the property depends on the code it is about.

`PROJECT.json` maps each definition to the lines it stands for.  A helper that is a part of what a
function does is mapped with the definition that stands for the whole function.

## 3. The runs

`tlc -config X.cfg M` in this directory; each takes less than five minutes on two workers.
`CHECK_DEADLOCK` is off in all of them, since users may stop typing, programs may end and connections
may be idle: quiet is no error.  What must not come to rest is stated as a property
(`NoStandstill`, `NobodyWaits`, the liveness properties).

| run | parts | states |
|---|---|---|
| `MCComponents` | request log, its array, grouping, connection, two event loops | 163 979 |
| `MCEditing` | two users, long logs or short ones | 314 036 |
| `MCThreeUsers` | three users | 127 561 |
| `MCMessages` | registry; delivery to sites | 148 993 |
| `MCServices` | directory; session | 247 006 |
| `MCDocuments` | vectors, chunk, session of two hosts, chat, recording, carets, GTK buffer | 282 432 |
| `MCServers` | groups, TCP, servers, discovery, storage | 354 633 |
| `MCSplitInsert`, `MCUndoOrder`, `MCDirectoryRemoval`, `MCUndoneLongAgo`, `MCDaemonStop` | see section 4 | (violated) |

### `MCComponents`: log, array, grouping, connection, event loops

*The log* (`MaxEnd` 9): `TypeOK`, `ChainsNest`, `LogExact`, `ImplementsUndoHistory`.
The run takes every log of up to nine requests in which any part may be
forgotten on the way.  Nine is enough for three chains nested in each other,
for links that leap over two chains, and for an undo and a redo of each after
the older ones were removed.  `LogExact` compares `next_undo` and `next_redo`, which
`add_request` and `remove_requests` maintain, with the C loop run from scratch
(the comment in `remove_requests`, `inf-adopted-request-log.c:864`, claims just this for removals), and
`upper_related`, from which cleanup steps on, with the next place where no chain is cut.
`ImplementsUndoHistory` says that all these links and leaps are, seen from
outside, a list with a cursor.

*The array* (`ArrayEnd` 7), in `Implement`.  It is enlarged by two cells
at a time (128 in the C code) at
either of two addresses, so that compaction, enlarging in place and enlarging
elsewhere all happen several times within seven requests, with pointers in all
three fields.

*The grouping* (`MaxOwn` 5 own requests, one of others, one explicit group, a log of 4, a ring that starts with 1 cell):
`GroupingExact` says that the ring has exactly what the log lets a user undo and redo, in order, and no more when it was attached late;
and that an explicit group is undone as one.  The ring grows twice and wraps round, and the log forgets what the ring still counts.

*The connection*: `ConnectionExact`, under five groups of scenarios: `Agreeing` (all sixteen
pairs of security policies), `Sending` (two messages and one, sent from
`sent` handlers as well, with sockets that take nothing, one unit, or all),
`Closing` (each end may close, and the connection break down, at any moment
while messages are sent), `Handshaking` (the certificate accepted or refused, at once or later, by a
client that may be closed meanwhile), `Authenticating` (a failure, a retry, a reset, a
mechanism that is not there, a close).

* `MessagesExact` -- what the other end has received is a prefix of what was sent, and
  of the messages submitted each is either reported as sent, once, or still to be.
* `ReadyIsSecured` -- who is ready has TLS, or not, as both policies permit; TLS means
  that the client's program has accepted the certificate.
* `NoStandstill` -- when nothing is under way, both ends are ready or both closed.
  Excepted, by name, are: an end that is closed before the other end knows of a stream
  (`terminate` then sends nothing and leaves TCP open, the `TODO` at `inf-xmpp-connection.c:3700`);
  both ended while authenticating; a reset by the server while its own step is under way, after
  which each waits for the other.

`OnlyKnownFailures` -- no assertion fails but those listed there, each a
line of the code.  For the connection: an element or message while the stream is being closed; `close` called from within the certificate callback
(as `inf-gtk-certificate-manager.c:436` does); `close` between the request for TLS and the
handshake; what a server sends along with the end of the handshake; an abort that crosses the answer.  And of a connection that
is closed nothing remains that would disturb its next opening.  For the grouping: see `MCUndoneLongAgo`, and attaching late (section 4).

*The event loops*: six programs for the standalone one and three for GLib's, of up to three watches of two sockets, two timeouts and two dispatches,
with threads that add, remove, dispatch or quit at any moment.

* `Implement` -- each loop implements `InfIo`.
* `LoopsExact` -- the standalone loop never sleeps in `poll` when it has something to do, and polls for what it should;
  GLib's sources are those of what is registered.
* `DispatchesRun` (liveness) -- what was dispatched is run or taken back, or the loop is quit.  Assumed is
  weak fairness of the loop's own thread (`Iterates`), that is, that callbacks return; and nothing of other threads.

### The sites: `MCEditing`, `MCThreeUsers`, and one half of `MCMessages`

Every user sends a given number of requests, of which a part may be inserts.  The bounds are small
because every property speaks of *all* orders of arrival.  A
`MaxTotalLogSize` of 100 stands for a log that is never cleaned within the run,
3 for one that is.  The sites enumerate their users (a
hash table in `InfUserTable`) in opposite orders.

| part | sites, requests of each | properties |
|---|---|---|
| `MCEditing`, long | 2; 2, 2 or 3, 1; text of two; insert, erase up to two characters, undo, redo | `UndoLeavesNoTrace`, `LogsExact` |
| `MCEditing`, short | 2; 3, 2 or 4, 1; empty text; insert, undo, redo, no-op, save; log of three | `CleanupKeepsNeeded`, `FlagTellsUnsaved` |
| `MCThreeUsers` | 3; 1, 1, 1; text of two; insert, erase up to two characters | `Convergence`, `NoAssertionFails` |
| `MCMessages`, delivery | 2 users and an observer; 2, 1; insert, erase, undo | `ReceptionExact`, `QueuesEmpty` |

* `Convergence` -- sites that executed the same requests show the same text.
  Three users with one request each are the least number for the situation which concurrency ids are for: two
  inserts that only a third user's deletion makes neighbours; a deletion of two
  characters is the least length that an insert can split.  Undo is added in `MCEditing`, in which:
* `UndoLeavesNoTrace` -- if what one site executed beyond another one
  amounts, chain by chain, to nothing, their texts are equal.  This includes convergence of two sites.  The algorithm
  assumes it whenever it folds, and the modified flag depends on it.
* `LogsExact` -- the logged requests agree in content, including the
  deleted text that a receiver reconstructs from overlapping deletions; and each entry of the request cache is what a translation
  with an empty cache would give now, although the log has changed since.
* `ReceptionExact` -- what a site assumes another user to have seen, that user
  has seen, which cleanup relies on; no request in the queue could be
  executed; all that arrived is executed or queued, once.
* `QueuesEmpty` -- in the end all is executed everywhere.
* `CleanupKeepsNeeded` -- a request under way, or an undo that its user may still
  issue, finds the log entries it names.  With `max-total-log-size` 3 instead of 2048,
  five requests reach the limit from both sides.
* `FlagTellsUnsaved` -- when the flag is clear the text is what was last
  saved: undoing back past a save does not count as unmodified, undoing back
  to the save does.

In `MCEditing` a site may fail (see `MCSplitInsert` below, and the
hazard at `inf-adopted-algorithm.c:405`: cleanup forgets a do/undo pair by the
age of its *oldest* request, but an undo by another user may have to be
translated through the pair and then finds no path); it takes no more steps, and the properties speak of the
sites that go on, or of what was there before.  Another known failure is left out by the
kinds of requests: a no-op and the next request of the same user have the same vector, and
from the queue, which is searched from its newest element, they are executed in the
wrong order (`inf-adopted-algorithm.c:2375`).

### The registry: the other half of `MCMessages`

Two groups, one of which stays registered; bunches of up to 2; 4 messages and 3 registrations of each.
`NoAssertionFails`, `InnerCountExact`, `ReportsMatchRegistration`, `SentInOrder`,
`NothingLost`, `QueuesEmpty`.

Four messages fill the bunch on its way and leave a full one in the queue; three
registrations let a group leave and come back twice while messages of its first
time are still on their way.  With 5 in place of 2
(`INF_COMMUNICATION_REGISTRY_INNER_QUEUE_LIMIT`) nothing is added but longer queues; the
proofs below are for any limit.

* `InnerCountExact` -- at most one bunch of a group is on its way, `inner_count` is
  what is left of it, and there is no queue without one.  Only the report of the
  last message sends the next bunch, so a count too high stops the group for good.
* `ReportsMatchRegistration` -- going by the counters, `sent` is going to be reported for exactly the
  messages of the present registration.
* `SentInOrder`, `NothingLost` -- each group's messages leave in order, once, also
  across registrations and the end of the group; they leave the queue for
  the connection, unless they are cancelled or the connection is closed.
* `QueuesEmpty` (`EverythingLeaves`) -- no message waits for ever, and an entry without a
  registration goes in the end, unless the group comes back or the connection closes.

**Fairness.** `MessagesSpec` asks
that a connection with undelivered messages delivers some (`WF_got` of
`Delivers`), that it sends what it was told to send
(`WF` of `ConnectionSent`), and that the loop of `sent_cb` with the
methods that it calls runs to its end (`WF` of `Report`).  This is what XMPP over TCP gives as long as the connection lives, and what
callbacks do; nothing of users, groups or of their calls is assumed.

Assumed in the model, each listed as a hazard: one group stays registered while the
connection is open, as the directory's does (otherwise the `sent` handler
is disconnected along with the last registration, whatever is pending); a group does not come
back under the name of one that has died while the connection still has messages of
that one (`Settled`); a connection is not closed, and a group does not die, inside a report about
its own messages (`Close`, `GroupUnrefed`).  `ReportsMatchRegistration` exempts
a registration in which messages of an earlier one were cancelled: the counter is
then too high, as a `TODO` in `cancel_messages` admits.

Another known failure is left out with it: when a connection closes, the registry
frees the entries of groups that were unregistered with messages pending.  But
the group that registered first connected its own handler before the
registry did; if only this group is still registered, its handler removes
the last registration, which disconnects the registry's handler before its
turn.  The entry stays, with its reference on the connection
(`inf-communication-registry.c:620`).

### `MCServices`: directory and session

*The directory*, a server and two clients, `alice` and `bob`, with one of fifteen plans: documents
that are opened, saved, left and removed; additions of one name by both; notes brought
along by one or both; a directory that is removed while something is added to it,
brought to it or used; lost connections; the chat switched on and off; storage that
fails, in general or in saving; a client without the plugin; the server's own program that opens and closes sessions; a welcome that comes too late.  A program starts one to three requests
on its own, and explores what it sees.  One or two names suffice for two nodes to conflict, and
for a note in a directory.

*The session*, its server and two clients, in six scenarios: both join, under one name or two;
a user goes and comes back under a name another one wants; a client leaves and subscribes again while
the other one keeps the queue full; a connection is lost; the session is closed late, or at any time.
`InnerQueueLimit` 2 stands for 5, so that messages do wait, and are cancelled, in the queue.

* `TreesHold` -- when everything has arrived, a directory that a client has explored
  holds for it what it holds for the server; and every node of the tree is on disk, as what it is.
* `ClientsAgree` -- then the subscriptions agree, too, and in a session
  a subscriber knows the users the server knows, with
  their status, and which of them are its own.
* `NobodyWaits` -- then no request is open at either end, no reservation is left, no
  join and no synchronisation.
* `NothingTwiceNorDangling` -- at no time do two nodes, or a node and what is granted or being brought along, have one
  name in one place, and never has a node two sessions; an idle session's save timeout runs only while it is idle; who
  has explored a directory has explored the one it is in; a user is available exactly as long as the connection is subscribed from
  which it joined.
* `RequestsAnswered` (liveness) -- every request is answered while the connection lasts.
* `OnlyKnownErrors` -- of assertions, null pointers and unexpected messages only the listed ones
  occur.  For the directory: exploring or saving a node that another client has just removed (see `MCDirectoryRemoval`;
  `save` has the same gap), an acknowledgement whose parent directory is gone (its
  reservation has no parent, its path cannot be built), a chat request that is still
  waiting when a node is freed, a sync-in freed twice when its directory is removed, and
  a welcome timeout that survives its connection.  For the session: cancelling for
  who is no member (section 4), and a client that
  left with messages waiting for it and subscribes again (it gets the rest of them before its
  synchronisation begins, which then fails).

**Fairness.** `RequestsAnswered` assumes (`ServicesSpec`) that the system does not stop while something can be delivered.
Every behavior has finitely many steps of programs, so deliveries go on until nothing is left:
what TCP and the main loop give.

### `MCDocuments`: what a document is made of

Seven parts: *vectors* of three users with counts up to 2; *chunks* of up to five characters of one or two bytes by two authors;
a *session* of two hosts and three users in four habits (edit and move, rest, leave and return, close) with timers of 2 and 1 ticks within 4 ticks;
the *chat* with a buffer of 3 (256 in the code) in three courses; the *recording* of three requests and one change of status; *carets* in three stories, and
the *GTK buffer* in six plots with up to three changes nested in each other.

* `DataExact` -- walks over sorted arrays give what `StateVector` says, texts are read as what was written, and `compare` is a total order, on which
  the search of requests relies; the segments of a chunk are the runs of its text, also of every part of it and of what is sent in pieces; the session has the text of the
  `GtkTextBuffer`, character by character with its author, whatever handlers change within each other's changes.
* `SessionsTell` -- read one after the other, the differences that are under way lead from the vector that the receiver has to that from which the sender
  takes the next one; the no-op timer runs for who has waited longest; the last caret is sent; when nothing is under way both hosts have the same
  document, users and carets and know that the other has; who rests rests.
* `ChatTold` -- everybody has heard everything since the backlog, in one order as long as clocks agree; the log tells who is there.
* `ReplayFollowsRecord` -- a replay goes through the states of the session, and fails only where a crash has cut off the record.
* `CaretsAgree`, `RegionsFollow` -- however moves and changes cross, both hosts end with the same carets and selections; a change leaves each other caret between
  the same characters and each selection on the same ones; in GTK the caret is the cursor.  Excepted are named cases, see section 4.

A ring of 3 that starts with 2 cells is enlarged once and then wraps round.  A `MaxTime` of 4 lets each timer run out and be started again.

### `MCServers`: what is around the directory

Five parts: *groups* with three clients, one of them on another network, in four outings (members go and come back, connections are lost, groups are closed and opened again);
*TCP* (memory in steps of 2, a kernel that holds 2, six bytes, two openings); two *servers* at two ports with two publishers; *discovery* of two services
at two addresses with two connections and up to three calls, which may come from within an answer; *storage* of one note with two edits and one fault.

* `GroupsExact` -- who is and stays a member hears all messages of the others once and in order; members are registered exactly while their connection is open.
* `TcpExact` -- what the other end reads is what was given to `send`, in order; what is reported as sent is what the kernel took, each byte once; the socket is
  watched for being writable exactly while something waits.
* `ServersExact` -- published is what can be reached, at its port, once with each publisher; the daemon has what it should; an XMPP server is open when its TCP server is.
* `DiscoveryExact` -- the manager finds each connection at the address it has now, one for each; who resolves is answered, once; what was resolved exists.
* `StorageExact` -- what users typed is on disk when the session is dropped, unless a crash, a failed write at the end, or an uncompleted removal took it;
  modified sessions are going to be saved, also after a failure; the copy is what the session holds or is going to be.

## 4. Where code and documentation disagree

Five runs are expected to find a violation; `findings` in `PROJECT.json` quotes
the lines.

* `MCSplitInsert` (`NoAssertionFails`): a deletion that was split around another
  user's insert is reverted into two inserts.  When the insert between
  them is deleted, they are at one position, which
  `inf-text-insert-operation.c:240` calls illegal, and the transformation
  aborts.
* `MCUndoOrder` (`Convergence`): with an undone request among concurrent ones
  of three users, two orders of arrival that the session test would try
  (any order that keeps each user's own) give different texts.  The translation follows a path on
  which a request is transformed against an erase but not against its undo, whereas
  another site folds the pair.
* `MCDirectoryRemoval` (`NoSuchNodeReported`): a client explores a directory that another
  client has removed meanwhile.  `infd_directory_get_node_from_xml` reports the error, but
  `infd_directory_handle_explore_node` uses the node without looking.
* `MCUndoneLongAgo` (`RequestsValid`): a user's only change has been undone and is just too old to be redone.
  The log forgets it, but the grouping's reckoning (`inf-adopted-undo-grouping.c:263`) is off by one, and
  it looks at the request afterwards, contrary to the comment at line 322.
* `MCDaemonStop` (`NeverAborts`): a note is removed, or the daemon stopped, before the last change was
  copied.  `infinoted_directory_sync_remove_session` saves the copy, which stops the timeout, and then stops it again, which is asserted not to happen.

The bounds of the passing runs leave these situations out where they would hide the
property (the first needs two requests of each user, which `MCThreeUsers` does not
have), or the properties name them; the runs above include them on purpose.

More disagreements and failures met on the way, without a run of their own.  Those with a name in parentheses are excepted by that name in a property above.

*Concurrency control and documents*

* `can_redo` refuses what the grouping offers when a request is exactly `max-total-log-size` old and nothing is undone.
* Setting the grouping's algorithm when there is a log already judges old requests by the present vector: it can fail `g_assert(item_pos > 0)` or miss
  what can be undone, contrary to `inf-adopted-undo-grouping.c:683`.
* In an explicit group, a request that follows the undo of the group's first one is grouped with what was before the group.
* `inf_text_undo_grouping` ignores the result of `translate_request` for its positions.
* When its right end is erased, a selection's length gets the wrong sign (`inf-text-move-operation.c:545` and 578, contrary to the comments at 420 and 496; `CutsEnd`).
* `validate_user_props` does not check that the caret lies in the text; the caret of a user who rejoins is not transformed; `insert-caret` does not
  put the caret behind concurrent inserts (`TODO`).
* `inf_text_chunk_equal` does not compare authors (comment at `inf-text-chunk.c:1088`).
* `inf_adopted_session_close` frees the local users and leaves the no-op timer.
* The replay's error "Unexpected node" prints a number that was not set, as a string.
* In the chat, messages are inserted by time; with clocks that differ a full ring drops another message than the oldest, and sites disagree (`AlwaysInOrder`, `inf-chat-buffer.c:76`).
* In the GTK buffer: `record_signal` passes `rec->next`, not `rec`, to `record_transform` (line 708, contrary to the comment at 519; `NestedExact`), which would not end; text with both tags of its author, which exists after
  `set_show_user_colors`, makes text before it seem to have no author (`misread`); text that is erased right after its insertion has no tag yet; an inactive user who moves the cursor and types becomes active without telling its caret, and a remote change then
  moves the cursor back (`drifted`); what is inserted at the end of a selection belongs to it for GTK and not for the session (`Disagree`); `iter_get_length` returns begin - end.
* The user table emits a status change again when a handler of `add-local-user` changes it, and `foreach_local_user` reads a list item that was freed.

*Directory, sessions, storage*

* After a successful save the server sends `session-saved` (`infd-directory.c:2965`), the client handles
  `saved-session` (`infc-browser.c:3151`): the client's request fails although the document is saved.
* `infd_directory_add_note` does not look whether the name is free; `infd_directory_iter_save_session` does not look whether there is a session.
* A session is closed while a client is being synchronised.  The proxy takes the client out of the group first; the session's handler, which
  the comment says will cancel the synchronisation, then cancels messages for
  who is no member, which is asserted not to happen (`infd-session-proxy.c:666`, `inf-session.c:1680`).
* `get_synchronization_status` has no case for `PRESYNC` (`inf-session.c:2662`).
* A client's request numbers restart with each subscription but the sequence id stays
  (`infc-session-proxy.c:1156`), so a late answer may end another request.
* Writing a document truncates its file first, so that a failure or crash leaves neither the old nor the new one; a directory that was removed in part keeps nodes in the tree that
  cannot be removed any more; a copy whose directory cannot be made is not tried again.
* `infinoted_config_reload` does not store new DH parameters; `infinoted_autosave_save_immediately` is never called.
* `verify_path` compares a pointer, not a character, with zero.

*Groups, connections, discovery*

* A message arrives at an end that waits for the end of the
  stream.  The comment at `inf-xmpp-connection.c:2571` says that it is discarded; `process_end_element` reaches `g_assert_not_reached`.
* The header of the second stream (after TLS or SASL) that arrives in two pieces on a plain connection
  ends it (`TODO`, `inf-xmpp-connection.c:3066`).
* `sasl_suggest_mechanism` uses `suggestion` uninitialised (`inf-xmpp-connection.c:2004`).
* When `gnutls_record_send` closes the TCP connection from below, `send_chars` goes on with a session that is gone (line 562 and after).
* A message that is sent from a `sent` handler may be reported before older ones (once, and after it was taken).
* The central method relays along the live list of connections; a send that closes one ends the loop early (`inf-communication-central-method.c:343`, contrary to the comment at 222; `cut`).
* `joined_group_remove_member` leaves `publisher_conn` set; `get_factory_for_network` compares only what is before "::".
* `inf_tcp_connection_close` does not close the socket; any error of `accept` closes the server; the pool never unreferences removed servers; the manager's `contains_connection` looks at the address only.
* Discovery asserts that the client is running when resolving (`inf-discovery-avahi.c:1334`); a call to resolve from an error handler is not answered (comment at 318; `retries`);
  a resolver that cannot be created leads to a null pointer (`no resolver`); the Avahi callback may run before the new client is stored; after a disconnection no new client is made; servers of one pool have one name, and collisions are ignored (`TODO`).
* The simulated connection: closing it in a `sent` or `received` handler during a flush uses the freed queue; a nested flush delivers the first message twice.

*Event loops*

* With two timeouts the standalone loop polls until the later one (`inf-standalone-io.c:200`).
* Dispatches run newest first; a socket that is always ready starves timeouts and dispatches.
* A watch that another thread changes while the loop polls may get another socket's events, or `poll` writes to an array that was freed (`TODO` at 857, contrary to `inf-io.c:38`, which promises thread safety).
* `loop_quit`'s second call leaves the mutex locked; `remove_watch` calls `notify` with the mutex locked; `timeval_diff` asserts that the clock is not set back.
* The GTK loop's `remove_watch` reads `watch->id` after freeing it; removals by other threads can fail the source function's assertion.

## 5. The proofs

`tlapm M.tla` checks them.  None rests on anything but the assumption on constants that is named.

### The request log: `RequestLogProofs`

For every bound `MaxEnd` on the request
numbers, so for logs of any length (the only assumption is `MaxEnd \in Nat`):

* `TypeCorrect` -- `Spec => []TypeOK`: no pointer ever names a removed entry;
* `ChainsNestAlways` -- `Spec => []ChainsNest`: chains alternate, are linked
  in both directions, agree on their first request, and links of one kind never cross;
* `LogExactAlways` -- `Spec => []LogExact`: the cached pointers are what a walk finds, and a step of
  cleanup ends at the next place between chains;
* `ImplementsHistory` -- `Spec => ImplementsUndoHistory`: the log is a linear undo history.

The first two are not inductive.  `AddUndoRequest` links the new entry to `next_undo`; that
this crosses no earlier link depends on which entry the cached pointer names,
and that is decided by the loop in `find_associated`.  The inductive invariant
`IInv` (`Invariance`) therefore adds `CachesOK`: `next_undo` is a DO or REDO
that no UNDO link leaps over, `next_redo` an UNDO that no REDO link leaps over
(`Uncovered`).  With it, a new link starts outside all others of its kind and encloses
the ones in between.  That the loop finds such an entry again is shown from its
definition as "the greatest entry among those visited": every skipped number
lies under a link, and what a link of the new log covers is what the loop leaps over.  For
`Remove`, `CanRemove` (no link crosses the cut) leaves every remaining
pointer inside the remaining log, except the cached ones, which `Kept` clears.

That a cached pointer names *some* uncovered entry does not yet make it the one a walk finds.  `PointersExact` says that it does:
it is proved against the C loop as a recursive function, whose value at each entry is shown to exist and to be
unique by giving it explicitly (the library's induction principles cannot be used with operators, see below).
A removal then must not change what a walk finds among the entries that stay.

For the history the invariant is `LinearLog` (`HistoryInvariance`).  It speaks of *chain ends*, the entries that no
later one refers to, of which each chain has one (`OneEnd`).  `EndsInOrder`: ends in effect come in the order of their original changes, undone ends that can be redone
in the opposite one, and what is undone is newer than what is in effect.  `EndsUncovered`: nothing in effect lies under an undo, nothing that can be redone under a redo,
and no redo reaches back over a change.
So `next_undo` is the newest change in effect and `next_redo` the oldest undone one (`NextUndoIsEnd` and its like), and each action maps to `Do`, `Undo`,
`Redo` or `Forget`, or to a stutter.

The lemmas go by operation (`EmptyGood`, `LinkedFields`, `LinkedType`, ..., `AddDoGood`,
`AddUndoGood`, `AddRedoGood`, `RemoveGood`, `SetBeginGood`), and
`Invariance` has one step for each action.

### The log in memory: `RequestLogArrayProofs`

`ArrayImplementsLog` (`Spec => ImplementsRequestLog` of `RequestLogArray`): whatever the increment by which the array grows and
wherever the allocator puts it, each operation on cells and pointers does to the log what `RequestLog` says, and nothing happens to the
log when room is made.  The assumptions are `ArrayAssumption` (the increment is positive, there is a place for the array) and that the bound on
numbers is a number.  It is the first conjunct of `Implement`, which TLC checks for an increment of 2 and two addresses; the
other two are the event loops' (below), and `ImplementAlways` puts them together.

The refinement mapping reads what a pointer stands for: `begin + (index - offset)` if it leads to where the array is *now*.  That every
pointer does is the invariant (`ArraySound`): the cells in use lie within the array (`Sound`), each pointer in them and both of the
log object's are NULL or lead to a cell in use at the present address (`Targets`), and the log they stand for is well formed.  `Moved` says what
`Compact` and `Enlarge` have in common -- every cell and every pointer shifted by the same distance -- and `MovedSame` that the log is
the same then.  Appending an entry is `Linked` (`AppendedIsLinked`); the loop of `find_associated`, which goes by pointers, finds what the log's finds, because it agrees
with it at every cell (`LoopStep`) and what it finds there is unique (`LoopFinds`).  That `RemoveRequests` leaves no pointer to a removed
cell needs the log's invariant: what stays is linked only to what stays (`RemoveGood`).

### The registry: `CommunicationRegistryProofs`

`TypeCorrect`, `AssertionsHold`,
`InnerCountAlways`, `ReportsAlways`, `OrderAlways` and `NothingIsLost` (`Spec => []` of `TypeOK`, `NoAssertionFails`,
`InnerCountExact`, `ReportsMatchRegistration`, `SentInOrder`, and `Spec => NothingLost`) for any finite set of groups, any
limit of a bunch, and any number of messages and registrations.  The only assumption is
`RegistryAssumption`: these are numbers, and at least one group stays registered.

The first four are proved together (`Invariance`), because each one is needed for the others: the
assertions of `sent_cb` hold because the counts are exact, and the counts are exact
because a bunch is sent only when none is on its way.  `IInv` adds what they leave
open.  `Balanced`: the `activation_count` of an unregistered group covers all that it left
behind, and that of a registered one never exceeds it (so that the next message to
be sent is beyond it).  `Alone`: while a bunch is being reported, it is the only one of its
group and `inner_count` is its rest -- even when the entry is about to be removed,
which `InnerCountExact` says nothing about.  `Past`: no message is of a registration still to
come.  `ConnectionInv`: `registrations` counts the registered groups, so that the
handlers are connected as long as the connection is open.

There is one lemma for each action (`SendStep`, `CancelStep`, ..., `GroupUnrefedStep`).  `Frame` says
that a step of one group leaves the invariant of the others alone; `BunchGoes` what it means for
the counters that a bunch is handed over, for the two places where this happens;
`NextMessageStep` that the messages that remain and both counters move up together.

`OrderAlways` needs to know where a message can be: in the bunch that is being reported, in bunches on the wire, in the
queue.  `Ordered` says that each of these parts is increasing and wholly before the next one, and that no number exceeds the number of messages sent.  `SentInOrder` speaks of
all parts strung together by a recursive function; that it is increasing follows from a least counterexample.  `NothingIsLost` is an action property and follows
from `Balanced`: an entry is dropped only when `activation_count` has come to zero, and then its queue is empty.

### The TCP connection: `DaemonProofs`, first part

`TcpExactAlways` (`TcpSpec => []TcpExact`) for any step `Quantum` in which memory is enlarged, any room in the
kernel and any number of bytes (`TcpAssumption`: positive numbers).

`TcpExact` speaks of bytes in four places: read by the other end, in the kernel's buffers, in the queue's
memory, and reported to the program.  `IInv` (`Invariance`) says that they *count on from each other* (`Counts`, `Follows`): the other end has the
first `n`, the kernel's buffers go on from there, and the queue from there to what was submitted; that the queue's positions lie in its memory, which is a
multiple of `Quantum` (`Buffer`); and that the socket is watched for what is waited for (`Watches`).

This is not so in the middle of a handler, from where the program may call `send` or `close` again: `send` reports what the
kernel took before it queues the rest, and the watch is updated after the report.  `Lagging(tcp, socket, remote, lag)` is the invariant with a number of bytes that have
left and were not reported yet; `Partly` is what holds inside of `send`.  The lemmas go along the functions of the C file (what `send` does to the
kernel, `ReportSent` with its nested call, moving and enlarging the memory), one for each action; `StreamHolds` and `WatchHolds` derive `TcpExact`.

### Documents on disk: `DaemonProofs`, second part

The three parts have no variable in common and share the module only.

`StorageExactAlways` (`StorageSpec => []StorageExact`), for any notes in the folder or beside it, any users who type, any numbers of
edits and faults and any autosave intervals (`StorageAssumption`: notes are positive numbers, as 0 stands for the folder, and the bounds are numbers).

That a note reads as it was when it was dropped rests on this: what `infd_note_plugin_text_session_write` makes of a text, segments of one author
each, `infd_note_plugin_text_read_buffer` reads as the same text, and every author is among the users that are written with it.  `ReadAsWritten`
says so of all texts.  Writing and reading are recursive functions over the characters and over the segments.  `GrowingExists` shows that there is
for each text a function of the segments up to each character, together with what these segments spell (`Spelled`), and that adding a character to the last segment
or beginning a new one adds this character to what is spelled (`ExtendedSpells`).  `SegmentsIs` and `BufferIs` show that such functions agree with the
recursive ones: if not, they would differ at a least place (`LeastNumber`), and do not, as they agree before it.

`StorageInv` adds to `StorageExact` that each file of a note is absent, cut, or what was written of some text by some users (`NoteFiles`), never anything else;
and that what a session holds, now and when it was last saved, is by its own users (`Signed`), so that it can be written and read again.  That files are never anything else is why
`Start` finds in the directory only what it can read or what is known to be damaged.

Where a session leaves memory the lemmas ask for what keeps its note safe (`Safe`): `DropSafe`, that it is on disk or not needed any more, also when the
assertion on the copy ends the daemon in the middle; `EndedSafe`, that what is neither is counted among the damaged.  `NoteStep` is for all steps
of a note whose session is in memory afterwards, `AfterDrop` for those after which it is not.  Then there is one lemma for each action or group of actions.

### Servers and what they publish: `DaemonProofs`, third part

`ServersExactAlways` (`ServersSpec => []ServersExact`), for any servers, any ports and any number of publishers (`ServersAssumption`: ports are positive, as
the code takes 0 for none chosen yet).  An open server of the pool is published once with each publisher, at the port it listens at, and nothing else is published.

A call at one server goes through all layers before it returns, so the servers, the pool and the catalog of services are looked at as one value, a *world*, as for discovery.
The invariant `InOrder` says of it that no two servers have a service in common and that there is none without a server (`Apart`), that services are announced as far as Avahi is there (`Announced`), that an
XMPP server follows its TCP server (`Matching`), and of each server what `ServersExact` says of it (`Kept`) with what that rests on: an entry in the pool holds its server,
a server that is held has not been disposed of, and one that is bound has a port.  Without the first two, disposing of a server could leave its services behind.

Two things hold only in the middle.  When the status of a listener has changed and nobody was told, `Matching` fails for this one server (`AlmostInOrder`); `NotifiedIsInOrder` shows that
the notifications make it right again, whichever way it changed.  While the pool goes through the publishers of an entry, some have a service and some do not (`Filling`): `PublishWithFills` is one
round of this loop, and `PublishInOrder` the whole, by counting up the rounds (`UpTo`), as `Publish` is a recursive function.  `WithdrawnIsInOrder` is for all that takes services back: a server that closes, and entries
that are freed, one or all at once.  A new service gets a number that no other has (`NextItemIsNew`), the least that is free among one more than there are services.

Then the steps are: the listener's (`ListenerSteps`), with notifications that close the server again in their middle; the pool's (`PoolSteps`, `AddLocalPublisherStep`); and those of the Avahi daemon
(`PublisherSteps`), which change no port.

### The event loops: `StandaloneIoProofs`, `GtkIoProofs`

For any watches, timeouts and dispatches, any sockets and programs, and any interleaving of the threads that add, remove,
dispatch or quit:

* `Implements`, in both modules (`Spec => ImplementsInfIo`): each loop implements `InfIo`.  Callbacks run one at a
  time, none after its removal, and what was passed with a handle is released once.
* `NoLostWakeupAlways` (`Spec => []NoLostWakeup`): when the standalone loop sleeps in `poll()`, with nothing in the pipe, it polls for exactly
  the present watches and flags, waits no longer than for the present timeouts, and there are no dispatches.
* `SourcesMatchAlways` (`Spec => []SourcesMatch`): GLib has a source for each handle that is there, and none that is another's or was replaced; and
  what misleads the main thread is a watch that was removed after its source was chosen, or a handle that another thread is just removing.

The assumptions are `StandaloneAssumption` and `GtkAssumption`: kinds of handles are disjoint (the standalone loop's), the program uses
handles that exist, and the model's value for "no handle" is none.

For the standalone loop the invariant `Inv` says that nothing is listed twice (`ListedOnce`); that what is listed or called is
there and not released, and a watch whose removal waits for its callback to return is the one that is called and is in no list
(`InOnePlace`); and that the loop says that it polls exactly while it does, and a thread that saw it polling has written to the pipe (`LoopExact`),
which is what `NoLostWakeup` needs of the threads.  The positions in the array of watches are shown to stay right when the last
one takes the place of one that is removed (`ArrayWithout`).  For GLib's loop, a handle has one number that no other has (`IdsDiffer`), and until it is released it is in one place: listed, being
removed by another thread, or called (`InOnePlace`, `MainExact`); what is released has no source any more, unless it is a watch (`ReleasedWithoutSource`).

The refinement mapping `HandleState` looks a handle up in the lists.  `Looks` says in terms of the lists alone when a handle is in which state;
with it each action maps to `Add`, `Call`, `Remove`, `Return` or `Finalize` of `InfIo`, or to a stutter (one lemma each, `..._Refines`).
The definition names a state `"lost"` for what is in no list and not released; that no handle ever is in it is part of what is proved.

`MCComponents` carries these theorems over to the specification that TLC checks there, in which the parts stand side by
side: `LoopsExactAlways` and `ImplementAlways` (`ComponentsSpec => []LoopsExact`, `ComponentsSpec => Implement`), by showing that each step of
`ComponentsNext` is a step of each part's own specification, or leaves its variables alone.

### Discovery and recording: `DiscoveryAndRecordProofs`

The two have no variable in common and share a module only.

`DiscoveryExactAlways` (`DiscoverySpec => []DiscoveryExact`), for any services, addresses and connections and any number of calls
(`DiscoveryAssumption`: 0, which stands for no connection, is none).  The invariant `Sound` looks at the services, the connections and the manager's tree as one value, a *world*.
`Mapped`: tree and addresses agree, and what is listed exists and has an address.  `Remembered`: what was resolved exists and has no
resolver at work any more.  `Numbered`: each call waits for at most one service, is not answered while it waits, and was answered once otherwise.
`Worked`: somebody is at work for who waits.  The last two are given up, as the property itself does, for programs that resolve again from within an error (`retries`).

None of these holds in the middle of a callback.  When the resolver has answered and nobody was told yet, `Worked` fails for this one service
(`Almost`), and when a connection gets another address, it is in the tree twice or not at all until `KeyChanged` is done.  The lemmas
therefore go along the C functions, from world to world: `AddedSound`, `RemovedSound`, `KeyChangedSound` for the manager (with the case that a connection
moves to where there is one, which is then removed and put back), `DestroyedSound` for a connection that goes, `AnsweredSound` and `ResolvErrorSound` for what callers are
told, `FoundSound` for a resolver's answer; then one for each action.

`ReplayFollowsRecordAlways` (`RecordSpec => []ReplayFollowsRecord`), for any users, requests and changes of status
(`RecordAssumption`: there is a user, the bounds are numbers).  What is written of a request is the difference of its vector to the
one recorded last for its user, so the replay is right only if it has, at each element, the vectors that the recorder had.  But these are nowhere kept: the recorder knows
the last ones, and the session goes on.  `RecordInv` says that there is a *chain* of them, one for each element (`Recorded`): each element leads from the session before it and the
vectors before it to those after it (`Extends`, `Chained`), the recorder holds the last ones (`Goes`), and the replay those at its position (`Plays`).  Writing an element
extends the chain (`ElementWritten`); playing one goes one link further (`PlayNextStep`).  That users leave and come back changes the session's vectors but not the chain's,
and this is why the recorder must keep its own (`ChangeStatusStep`).  That a difference is undone by adding it is `DiffUndone`.

### What proving showed

Both loops' `HandleState`, as first written, could not be shown to be well-defined, since its cases overlapped (a handle may be called and disposed of at
once): the order in which they are looked at is part of the mapping.  `SourcesMatch` was too weak to be kept by a removal, and now also says that a source's handle was added.
That discovery forgets everything at once (`UndiscoverAll`) had been a fold over the services, which nothing can be proved about, and is now written as the state it leads to.
For the same reason the segments of a document (`Segments`), its text (`BufferOf`) and the pool's loop over publishers (`Publish`) are recursive functions now; they were folds.

### What is not proved

Only model-checked, at the bounds above: everything in `AdoptedReplicas`,
`UndoGrouping`, the directory, the session, the XMPP connection, of `MCDocuments` all but the recording, and of
`MCServers` the groups.

Out of the prover's reach are

* `EverythingExecuted`, `EverythingLeaves`, `RequestsAnswered` and `DispatchesRun`: liveness under fairness;
* what `Translate` and `Transform` compute, and with it `Convergence`, `UndoLeavesNoTrace` and `LogsExact`: they are recursive operators,
  which the prover's SMT translation does not accept, and the argument is an induction over data, which needs library
  theorems with operators as parameters;
* what folds over sequences return, for the same lack of theorems, on which `TextChunk`, `SortedVector`, the directory, the session, the chat and the transformation of
  carets (`CaretsAgree`) rely, and what is selected from a sequence: `GroupsExact` says who hears which part of what was said.

A recursive function over numbers is within reach, by a least counterexample, as for `SentInOrder`, `ReadAsWritten` and `Publish`.  It takes a proof for each function, though,
and `Translate` is no such function: it calls itself by way of other operators, with a request and a cache that change on the way.

## 6. What is abstracted, what is left out

*Concurrency control*

* A text is a sequence of characters; those that a user types are different
  from all others in the session, so that texts show which inserts they are made of
  and in which order.
* Vectors are functions; their arrays and text forms are `SortedVector`'s.
* The cache and the undo limits are stored values in the C code.  The cache is
  modelled; the limits (`can_undo`, `can_redo`) are computed when asked, because
  `update_undo_redo` recomputes them after each call that could change them.
* Users are there from the beginning and stay; in `AdoptedSession` they come and go.
* Messages carry vectors as they are, undo is one step, and a no-op is
  possible at any time, as timing is `AdoptedSession`'s.
* `Save` always succeeds; autosave's timer and its retry are in `DocumentStorage`.
* What a text handler decides about grouping two requests is a choice in `UndoGrouping`.

*Services*

* A connection is one stream in each direction: that messages of different groups wait in different queues
  is part of the registry's module and of the session's, not of the directory's.
* A synchronisation in the directory is one message; its parts, failures and cancellation are modelled in the session.
* A successful sync-in that is declined or lost leaves its file in the storage, as in the code.
* One user of the chat per plan; changing the storage at run time and the plugin table are left out.
* Users that join at the server itself, the content of the buffer, and synchronisation towards the server
  (`PRESYNC`) are left out of the session; so is its `activation_count`, which the registry's module has.
* A session is closed only while no client's acknowledgement is outstanding, as the directory sees to it.

*Registry and connection*

* The registry is modelled for one connection, as connections share nothing but a hash
  table.  What it does with received messages, connections that are opened
  again, and the `enqueued` callback (with the list that keeps the order if it calls
  `send` recursively) are left out.
* The handshake is that of TLS 1.2, four messages.  The choice of a mechanism is left out: the two ends have one in common.
  Opening a closed XMPP connection again is not modelled, only that nothing is left over.
* Resolving a host name, and IPv6 after IPv4, are left out of the TCP connection.

*Around them*

* The main loops of other threads, loops within loops, errors of the wakeup pipe, and the code for Windows are left out of the event loops.
* In the GTK buffer hues, saturation and how tags paint are left out.
* In the storage a file is absent, whole, or cut; the checking of names is left out.

*Everywhere*: reference counts, signals that only observers of the user interface see,
and the profiling code have no counterpart.

*Not modelled*: GTK widgets (views, tree stores, dialogs), certificates, credentials and PAM,
the daemon's options; they show the library's state or wrap other libraries.  `PROJECT.json` says of each component that is modelled in
part what is missing.

One hazard has no property: `activation_count` being too high after messages of an entry that was registered again were cancelled
(`inf-communication-registry.c:1106`), since `ReportsMatchRegistration` has to except it.

## 7. What could follow

* Proofs of the invariants of `UndoGrouping` (whose ring buffer is within reach: it has neither folds nor recursive operators),
  `XmppConnection` and `CommunicationGroups`; of the order laws of `StateVector`.
* The user table (`inf-user-table.c`) and the simulated connection as modules of their own.
* Users who come and go in `AdoptedReplicas`.
