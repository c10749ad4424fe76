# A TLA+ development of gridas

gridas is a store-and-forward relay for HTTP requests. A client posts a request
with the header `X-Relayer-Host`; gridas stores it as a *petition* in MongoDB,
answers at once with the petition's id, sends the request to the target host
later, with retries, and keeps the *reply*, which the client can ask for under
`/responses/<id>`. The repository carries the MongoDB driver (mgo) and the YAML
library it is built with, which are most of its code. This directory models the
three of them, checks the models with TLC and proves the main invariants with
TLAPS.

## The system

| component | source | state | operations |
|---|---|---|---|
| main | `gridas/gridas.go` | `reqChan` (buffered, `cfg.QueueSize`), the mgo session, the signal channel | start the consumer, run the recoverer, start the HTTP server, wait for the end; `onEnd` |
| Listener | `listener.go` | `stopping` (atomic) | `ServeHTTP`, `Stop`, `Stopped` |
| Consumer | `consumer.go` | `endChan`, `wg`, n goroutines | `Start`, `relay`, `process`, `doRequest`, `Stop` |
| Recoverer | `recoverer.go` | a cursor | `Recover` |
| Petition | `petition.go`, `constants.go` | the stored request | `newPetition`, `Request` |
| Reply | `reply.go` | the stored reply | `newReply` |
| Replyer | `replyer.go` | a session of its own | `ServeHTTP` |
| configuration, log | `config/`, `mylog/` | none | `ReadConfig`; log functions |
| mgo session | `mgo/session.go` | reserved sockets, mode, credentials | `Dial`, `Copy`, `Clone`, `Close`, `Refresh`, `SetMode`, `Login`, queries and writes |
| mgo iterator | `mgo/session.go`, `mgo/queue.go` | the documents at hand, those owed, the cursor | `Find().Iter()`, `Tail`, `Next`, `Close`, `getMore` |
| mgo cluster | `mgo/cluster.go` | servers, masters, references | the synchronising loop, `AcquireSocket`, `Release` |
| mgo server | `mgo/server.go` | live and unused sockets, pings; the sorted list of servers | `AcquireSocket`, `RecycleSocket`, `AbendSocket`, `Close`, the pinger; `BestFit` |
| mgo socket | `mgo/socket.go` | request ids, waiting functions, the deadline, references | `Query`, the read loop, `kill`, `Acquire`, `Release` |
| mgo authentication | `mgo/auth.go` | the nonce, credentials, flagged logouts | `Login`, `Logout` |
| mgo GridFS | `mgo/gridfs.go` | buffers, goroutines at work on chunks | `Create`, `Write`, `Close`, `Open`, `Read`, `Seek`, `Remove` |
| mgo transactions | `mgo/txn` | queues of tokens in the documents, the stash | `Run`, `Resume`, the flusher, Tarjan's algorithm |
| yaml scanner, parser | `yaml.v1/scannerc.go`, `parserc.go`, `decode.go` | simple keys, indentations, the stack of states | `scan`, `parse`, the tree of nodes |
| yaml emitter | `yaml.v1/emitterc.go`, `encode.go` | events ahead, indentations, the text | `emit`, the encoder's calls |
| bson, uuid, sasl, yaml readers and writers | `mgo/bson`, `go-uuid`, `sasl`, `yaml.v1` | none kept between calls | encoding |

(`mgo` stands for `Godeps/_workspace/src/labix.org/v2/mgo`, `yaml.v1` for
`Godeps/_workspace/src/gopkg.in/yaml.v1`.)

How they interact. A `ServeHTTP` goroutine of the listener inserts the petition
in the *petitions* collection, then tries to send it on `reqChan` without
blocking. If there is room the client gets the id. If not it gets "Server is
busy" and the petition is removed again. The goroutines of the consumer receive
petitions from `reqChan`, make the request (again after a transport error or a
503), insert the reply in the *errors* collection if it is erroneous, insert it
in the *responses* collection, and remove the petition. When the process starts,
the recoverer sends everything that is left in the petitions collection to
`reqChan`, blocking; the consumer already runs, the listener does not yet. On
SIGINT or SIGTERM the listener's flag is set, `endChan` is closed and main
returns once the goroutines have left their loops. All of them share one mgo
session, except the Replyer, which opens one for every request.

Inside mgo, a call of a session asks for a socket: one the session has reserved,
or one that the cluster chooses a server for and the server's pool hands out or
dials, and that gets the session's logins. Any number of goroutines write
operations on a socket; its read loop gives every reply to the function that
waits for it. A socket that fails is killed, which tells all that wait, and is
abended at its server, which starts a synchronisation of the cluster. Iterators,
GridFS and transactions are made of such calls. yaml serves the configuration:
the scanner makes tokens of a text, the parser events of tokens, and the decoder
a tree of events; the encoder and the emitter go the other way.

What is hard in it. Nothing ties the database writes together, so every pair of
them can be separated by a crash, an error or a stop; the same petition is
handed over by two different senders (listener and recoverer), and its removal
is what keeps it from being handed over again; the listener stores before it
knows whether there is room; the stop is seen by each goroutine at a different
place; an error reported by a write says nothing about its effect; and a panic
in one goroutine ends them all. In mgo every operation lets go of a mutex and
takes another between reading a state and acting on it; functions are handed
from goroutine to goroutine, and each has to be called once; connections die
between any two steps; transactions survive runners that die, and runners race
over them. In yaml a token is decided long after it was read, and the emitter
has to predict what its own scanner will make of the text. `PROJECT.json` lists
these hazards by line.

What makes each component correct:

* Listener: an accepted petition is stored; a refused one leaves nothing behind;
  no petition reaches a goroutine before it is stored.
* Consumer: a petition is removed only after its reply was saved; each petition is
  relayed by one goroutine; the number of requests is bounded by the retries; an
  erroneous reply is in both collections; the stop finishes what was begun and
  begins (almost) nothing.
* Recoverer: everything stored is handed over, once, and the sends end.
* main: the order consumer, recoverer, listener; the end waits for the consumer.
* session: its reserved sockets are counted, its mode and its logins hold on
  whichever socket a call gets.
* cluster: it knows the servers that are there and no others, and those who wait
  for a server get one or an error.
* server: a socket is lent to one goroutine, cached or dead, never two of them;
  nothing is left when it is closed.
* socket: every reply reaches the goroutine that asked, and everyone who waits is
  told once.
* authentication: logins that share a socket use each nonce once.
* iterator: every document once, in order, up to the limit, and then the end.
* GridFS: a file that can be found is whole.
* transactions: applied as a whole or not at all, as if one after the other.
* yaml: the parser takes the sentences of its grammar and no others; what the
  emitter writes is read as it was meant.

## The modules

| module | models | extends or instantiates |
|---|---|---|
| `GridasState` | constants, variables, database outcomes, channel, end of the process | |
| `Listener` | `listener.go`, whether `newPetition` fails | `GridasState` |
| `Consumer` | `consumer.go`, the ways through `newReply` | `GridasState` |
| `Recoverer` | `recoverer.go` | `GridasState` |
| `Gridas` | main, signals, crashes and restarts; the composition and its properties | the three above |
| `StoreAndForward` | the abstract specification: what a client is promised | |
| `DoRequest` | one call of `doRequest` in detail, with the reader that `Petition.Request` makes | `Consumer` |
| `MgoPool` | `server.go` and the references of `socket.go`, with the counters of `stats.go` | |
| `MgoServers` | the sorted slice of servers, `BestFit`, the window of pings (`server.go`) | |
| `MgoSocket` | `socket.go`: ids, waiting functions, deadline, read loop, `kill` | |
| `MgoLogin` | `auth.go`: nonces, logins and flagged logouts on one socket | |
| `MgoCluster` | `cluster.go`: the synchronising loop, its goroutines, clients that wait | |
| `MgoSession` | `session.go`: reserved sockets, modes, credentials, shared sessions | |
| `MgoQueue`, `Fifo` | `queue.go`, and the queue it has to be | |
| `MgoIter` | `session.go`: queries, `Iter`, `Next`, `getMore`, replies | |
| `MgoGridFS` | `gridfs.go` | |
| `MgoTxn`, `MgoTarjan` | `txn/txn.go`, `txn/flusher.go`, `txn/tarjan.go` | |
| `YamlScanner` | `scannerc.go`: simple keys, indentations, the queue of tokens | |
| `YamlParser` | `parserc.go`, and how `decode.go` builds nodes | |
| `YamlGrammar` | the grammar in the comment of `parserc.go` as a set of sentences | `YamlParser` |
| `YamlEmitter` | `emitterc.go` and the calls of `encode.go` | |
| `YamlRoundTrip` | emitter, scanner and parser composed | the three |
| `YamlScalars` | scalars byte by byte, written and read | |
| `MCGridas`, `MCCore`, `MCRestarts` | instances of `Gridas` for TLC | `Gridas` |
| `MCConnections` | `MgoPool`, `MgoQueue`, `MgoSocket`, `MgoLogin`, `MgoServers`, `MgoCluster`, `MgoSession` for TLC | all of these |
| `MCOperations`, `MCTxnCases`, `MCTxnCycle` | `MgoIter`, `MgoGridFS`, `MgoTxn`, `MgoTarjan` for TLC | all of these |
| `MCFormats` | the yaml modules for TLC | `YamlScanner`, `YamlRoundTrip`, `YamlGrammar`, `YamlScalars` |
| `GridasProofs` | the inductive invariants of `Gridas`, what follows from them, and that it implements `StoreAndForward` | `Gridas` |
| `DataInduction` | lemmas for inductions and recursions over data | |
| `DoRequestProofs` | proofs about a call of `doRequest` | `DoRequest` |
| `MgoClusterProofs` | proofs about the cluster and the servers it knows | `MgoCluster`, `MgoServers` |
| `MgoSessionProofs` | proofs about sessions and the iterators of their queries | `MgoSession`, `MgoIter` |
| `MgoConnectionProofs` | proofs about the socket, its logins, the pool and the queue | `MgoSocket`, `MgoLogin`, `MgoPool`, `MgoQueue` |
| `MgoOperationProofs` | proofs about files and transactions | `MgoGridFS`, `MgoTxn` |
| `YamlProofs` | proofs about the scanner and the parser | `YamlScanner`, `YamlParser` |

### gridas

A *request* and its petition are one element of `Pet`: a client that tries again
sends another request, which gets another uuid. `serve[p]` is the program counter
of the `ServeHTTP` goroutine of `p`, `relay[c]`, `job[c]`, `retry[c]` and
`result[c]` the state of a goroutine of the consumer, and `main` is "down",
"recovering" (the consumer runs, `Recover` has not returned) or "serving".
`petColl`, `replyColl` and `errColl` survive the process, everything else ends
with it (`Halt`). One action is what a goroutine does between two points where
others can see or disturb it: a database call, a channel operation, a call of
`Client.Do`, a test of a shared flag.

`answer`, `attempts`, `unsaved`, `late`, `runs`, `crashes` and `faults` are history:
they record what clients and hosts have seen and how often the environment has
misbehaved, so that properties can be stated exactly. `answer[p]` is the status
that the handler has written; the client receives it when the handler returns.

**Database operations** (`Outcomes`) succeed, fail without effect, or take effect
although the driver reports an error: the connection may die between the write
and the answer to `getLastError` (`writeQuery` in mgo's `session.go`). After an
error the code calls `Refresh` on the shared session; since later operations may
fail or not in the model whatever the session does, the session has no state
here (it has in `MgoSession`). `faults` counts the errors.

**The channel** is a sequence of at most `QueueSize` petitions. With `QueueSize = 0`
a send needs a goroutine in the inner select of `relay()` ("wait"). A goroutine
in "wait" may not have blocked yet, so the default branch of the listener's select
is possible even then.

**Crashes.** `Crash` is a kill from outside, and also the failure of
`ListenAndServe`, on which main calls `os.Exit(-1)`. `RecoverFails` is the other
`os.Exit(-1)`. `ReplyPanics` is the panic of `newReply` on a response that breaks
off (`CutShort`).

**Unsendable** petitions pass `newPetition`, whose only tests are that the header
`X-Relayer-Host` is there, that the protocol is known and that the body can be
read, but are refused by `http.NewRequest` in `Petition.Request`, as a host with a
percent sign is. `process()` logs that and returns.

**doRequest.** In `Consumer` an attempt is one step. `DoRequest` opens it up: `pc`,
`tries`, `retryTime` and the open response bodies are the variables of `doRequest`
and of the deferred function of `process`; `writer[n]`, `part[n]` and `got[n]` are
the goroutine of net/http that writes the request of attempt `n`. That code is not
in the repository and is modelled from how it is used: the connection has a
goroutine that copies the body with `Read`; the response may come while it runs;
its `Read` is the one of `bytes.Reader`, which takes no lock, so its two halves are
two steps (`ReadPart`, `Advance`), and the second may use a position that another
writer has moved meanwhile or not. Redirections, which `http.Client` follows by
itself, are left out. `newReply` is `Consumer`'s; here the call goes from `reply` to
`end`.

### mgo

In all of these one action is one critical section of the mutex that guards the
state, because between two of them any other goroutine may run. `MCConnections`
extends its seven modules, so that what its run checks are the definitions the proofs
are about; where two modules have a name for the same thing, it says which it is
(`SocketInit`, `LoginInit`, `ClusterInit`; `AcquireCluster`, `AcquireReserved`).

**MgoPool.** `status[s]` and `references[s]` belong to a socket, `live`, `unused`,
`closed` and `abended` to the server, `pc[c]` and `sock[c]` to a goroutine that
acquires, holds, shares and releases a socket. `abending` and `doomed` are the
sockets whose `AbendSocket` or `Close` has been decided and not yet run. The pinger
is one of the goroutines, without a limit.

**MgoSocket.** `replyFuncs` maps ids to the goroutines that wait; `requests` and
`replies` are the messages under way; `reader` is the read loop, `notifying` the
functions that `kill` has taken out and still has to call. The server answers
requests in any order, with any number of documents, and may stop answering.

**MgoLogin.** A login asks for a nonce, waits for one on the condition, or takes the
one at hand; a logout is flagged and goes out with the next operation. `issued` and
`auth` are the server's side. A SASL conversation may be given up by the client at any
answer, after the one with which the server accepted it too: `Step` fails, or goes on
with a message that the server refuses (auth.go:263-266); `abandoned` are the databases whose
login the server then keeps while `creds` has nothing of it. A SASL login on a socket that was
killed meanwhile panics over the missing server (auth.go:231, `LoginWithoutServer`).

**MgoCluster.** An address may get a new server object after its old one was
closed. `loop` is the synchronising goroutine, `talk` the goroutines of one
iteration with what they have been told, `client` those who call `AcquireSocket`.
`role` is what the members really are; it changes, and the loop finds out.
`Objects` bounds the server objects: one that is closed and that nobody looks at any
more is used again. `reached` and `unresolved` are history: who answered in this
iteration, and whose address did not resolve when a master named it.

**MgoSession.** `session[s]` has the fields of the session, `caller[c]` the method
in progress. `acquireSocket` looks under the read lock, and again under the lock,
which it keeps while the cluster finds a socket.

**MgoIter.** `iter` has the fields of the `Iter`, `user` is where its user is in
`Next`, `net` the replies under way, `cursor` the server's. Limits, batches and
prefetches are set by the same operators as `Query`'s methods compute them.
`Fits` are the queries that keep to their own limit; `WithinLimit`, `Complete` and the
liveness of `Next` are stated of these (see `NoDataRemains` below).

**MgoGridFS.** `file` has the fields of the `GridFile`; `inserts` and `fetch` are its
goroutines. A byte is its position in the file, so a byte in the wrong place shows.
`idOk` says whether BSON can hold the file's Id: if not, `insertChunk` counts a chunk and
returns with an error instead of inserting it. `Seek` may be called in any mode, as in the code:
while the file is written it moves the number of the next chunk (`strayed` remembers it),
and it panics where its buffer is shorter than it takes (`panicked`; `failed` remembers
that a fetch failed before). Left out: negative offsets, and several goroutines that use one
`GridFile` at once.

**MgoTxn.** A step is one request to the database and the computation up to the
next. `doc`, `stash` and `txn` are the collections; `flusher[r]` is the runner's
stack of transactions with what it has read of them. A runner that is killed
leaves the collections as they are, and another resumes. `Components` is the function
that sorts a graph of transactions: `tarjanSort` in the runs, any in the proofs.

**MgoServers, MgoQueue, MgoTarjan** are the algorithms, step by step where they keep
state and as operators where they do not.

### yaml

**YamlScanner** takes lexemes with their columns; it keeps `simple_keys`, the stack
of indentations and the queue of tokens, and inserts KEY and BLOCK-MAPPING-START
before a key when its ':' comes. **YamlParser** takes one token a step; a state is
the parser's, or a place in one of its functions after it has taken a token.
**YamlEmitter** is given events and writes lexemes, with the events it looks ahead
at. **YamlRoundTrip** gives the lexemes of the emitter to the scanner, its tokens
to the parser, and compares the parser's events with the encoder's.
**YamlScalars** writes a string in the style the emitter settles on, at one of
several places, and reads it as the scanner does.

## Properties

**Gridas.** Invariants: `InFlightStored` (stored before it is handed over, removed
after); `NoDoubleDispatch` (never twice in the pipeline, which the comment of
`Recover` warns of); `AcceptedNotLost`; `DuplicateBound` and `AttemptBound` (how
often a petition can be answered and sent); `ErrorsRecorded`; `CleanStop` (a
graceful stop neither loses nor repeats); `RefusedForgotten`; `LateBound`. `IInv` is
the inductive invariant of the proofs, which contains `TypeOK`.

`Implements` says that Gridas implements `StoreAndForward`. The refinement mapping
takes a petition to be "held" when it is in the collection, "fresh" while its
request has not reached the collection, and "dropped" afterwards. The abstract
specification lets a petition go only after a reply was saved, or when it is
*excused* (its client was answered 500, or the insert of its reply failed), and
never takes it back. Crashes, restarts, retries and the channel are stutters of it.

Liveness: `EventuallyReplied`, `StopEnds`, `RecoverEnds`.

**DoRequest.** `Backoff` (what config.go says of the waiting times);
`OnlyRetriedStayOpen` (which response bodies nobody closes: one connection for each
503 that is tried again, and no more); `ImplementsAttempt` (the call is made of `Attempt`
steps of `Consumer`, with which the two levels fit together); `RequestEnds`.

**mgo.** Each module has one invariant, the conjunction of named parts:

| invariant | parts |
|---|---|
| `PoolInv` | `ReferencesExact`, `NoPanic`, `NoDoubleRecycle`, `NothingLost`, `StatsExact`, and `InHand`, on which the others rest |
| `SocketInv` | `RepliesMatch`, also after the ids have gone round; `OneEnding` and `WaiterKnown`, which together say that who waits is told, once; `DeadlineArmed`; `ZeroReserved` |
| `LoginInv` | `NoNoncePanic`, `NonceInTurn`, `NonceComing`, `NoStrayLogin` (but for logins that were `abandoned`) |
| `ServersInv` | `SearchFinds`, `BestFitFits`, `PingIsRecent` |
| `ClusterInv` | `NoClusterPanic`, `MastersKnown`, `NoServerForgotten`, `SyncFindsAll` |
| `SessionInv` | `SharesCounted`, `SlotsFree` |
| `SessionPromises` | `ReadYourWrites`, `WritersOnMaster`, `CredsApplied` |
| `IterInv` | `InOrder`, `OwesExact`, `WithinLimit`, `Complete`, `CursorFreed` |
| `GridInv` | `DocMeansWhole` and `BufferAligned` (both unless `strayed`, but for the sum of the file), `WrittenInOrder`, `PendingExact` (what is counted and never inserted, too) |
| `TxnInv` | `NoTxnPanic`, `Serializable`, `ResultsTrue`, `NoTraces` (only what is being or was applied has left anything in a document) |

`QueueIsFifo` says that the ring implements `Fifo` through every wrap and growth.
`TarjanCorrect` gives the components of a graph in an order in which each follows
what it depends on. `Decides` is an action property: a transaction never changes
its mind. Liveness: `CallsReturn` (whoever waits for a reply or for a server goes
on), `GoroutinesEnd` (after a close no pinger, connection or synchronisation goes
on), `OperationsEnd` (a Next, a Read, Write or Close and a transaction end). It leaves
out two kinds of calls that may never return: a Next whose connection dies inside `getMore`
(`late`, see `NextAlwaysReturns` below), and those on a file whose Id cannot be marshalled
(not `idOk`), whose Close waits for chunks that nobody inserts.

**yaml.** `ReadAsWritten` (`ReadsSent`: the parser's events are the encoder's;
`LexemesApart`: the scanner can tell each lexeme from the one before); `ScannerInv`
(`KeysInQueue`, `BlocksNest`, `EndIsEnd`); `ParserInv` (`OnlyGrammar` and
`AcceptsGrammar`, which compare it with the grammar of its own comment;
`StacksBalanced`; `NodesWellFormed`); `ReadsBack` (each string, wherever it stands).

## Runs

| run | instance | question |
|---|---|---|
| `core` | 2 requests, 2 goroutines, 1 retry, 2 runs, 1 crash; a channel of 1 with 1 database error and `p1` that may break off, or an unbuffered one without these | do the invariants hold, is `IInv` an invariant, is the promise kept |
| `restarts` | 1 request, all four outcomes, 1 retry, 4 runs, 2 crashes, 1 error; or 3 requests, no retry, 2 runs, no failures; 2 goroutines, a channel of 2 | how often is a petition relayed and sent; do both collections agree; what do a stop and a refusal leave |
| `live` | 2 requests, 1 goroutine, channel of 1, 2 runs, 1 crash, 1 error, fair | does everything that should happen happen |
| `request` | 2 retries, a body of two parts | what one call of `doRequest` sends, waits and leaves open |
| `connections` | pool: 2 clients and the pinger, 2 sockets, limit 1; socket: 2 goroutines, 10 ids, 2 messages, replies of up to 2 documents; login: 2 goroutines, a user of each mechanism, 2 messages of a SASL conversation, 1 logout; servers: 3 addresses, a window of 3, 4 pings; queue: a ring that starts at 2, slows at 4 and holds 6; cluster: 2 members of which one is the seed, 4 server objects, 1 client, 1 change; session: 2 goroutines, 2 sessions, 2 sockets, 2 changes | do sockets, replies, logins, servers and sessions stay in step whatever dies, closes or steps down |
| `operations` | iterator: 5 documents in batches of up to 3, 41 queries; GridFS: up to 5 bytes in chunks of 2, 2 pending, 2 seeks in any mode, 1 fault, an Id that can be marshalled or not; transactions: 2 on 2 documents in six ways, one runner killed up to twice or (in two of the ways) two runners; every graph of 3 | are documents, chunks and transactions whole and in order, and do operations end |
| `formats` | round trip: up to 4 nodes, depth 3, lines of 5; scanner: up to 4 lexemes; parser: any 4 tokens, and all sentences of up to 4 terminals; scalars: up to 4 characters of 9, in 8 places, lines of 3 | is yaml read as it was written and as its grammar says |
| `reply_lost`, `reply_cut`, `unsendable` | 1 or 2 requests, 1 goroutine | three places where a comment and the code disagree |
| `retry_body` | 1 retry, a body of one part | is the request retried the same request |
| `txn_cycle` | 2 runners, 2 transactions that each start with the other's last document | do two runners leave each other's tokens alone |

`core`, `restarts`, `connections`, `operations` and `formats` hold several systems
in one run. A variable chosen initially (`unbuffered`, `undisturbed`, `part`) says
which one moves; the others stay in their initial state. So the runs together have
the states of each system, not their product, and a property of one module is
checked on all its states. In `formats` the scanner by itself and the one that reads the
emitter's text are the same variables with other limits, and `ScannerInv` is checked of both.

Why the bounds are enough. Two requests and a channel of one place are the least
for a full channel, for a petition waiting behind another, and for a recoverer
that has more than the channel holds; three requests and two places let a
goroutine find a petition twice after the stop. Two goroutines are the least for a
petition to be relayed twice at once. Two runs of the process are the least for
the recoverer to find anything, and `restarts` reaches the bound of
`DuplicateBound`: two crashes and an error give four replies. One retry is the
least that tells the first attempt from the others; `request` has two, the least
for the time to be doubled and for a third writer, and two parts, the least for
a body to be split. A pool limit of one with two sockets lets two callers pass the
test of the limit together; ten ids go round while requests are under way; a
window of three pings is overwritten by the fourth; a ring of 2, 4 and 5 places
doubles, then grows by a quarter, from every position of `popi`; five documents
in batches of three end a batch in the middle and at the end of a limit; three
chunks of which two may be pending make a writer wait; two transactions on two
documents have every order of queues, the cycle included; three nodes are the
least for a component that another one depends on; four nodes are a mapping with
a collection as key or value, and the emitter looks at most that far ahead; four
characters hold a space or a break between two others and next to an end. The
proofs remove the bounds for the invariants they cover.

Every bound (`MaxRuns`, `MaxCrashes`, `MaxFaults`, `MaxChanges`, `MaxRoleChanges`, `MaxPings`,
`MaxElems`, `MaxLogout`, `MaxWire`, `MaxSessions`, `MaxSeeks`, `MaxLength`, `MaxNodes`,
`MaxLexemes`, `MaxTokens`, ...) is a guard of the environment's or the caller's own
actions, and none restricts what the code does. In `MgoPool` and `MgoSession` the
sockets bound the connections dialled at once.

The goroutines of the consumer are interchangeable, so the runs of safety
properties of `Gridas` use symmetry over them; `live` does not. Deadlock is checked
in the runs of `Gridas` and `DoRequest`: the one place where that system may stop, a
process that nobody starts again, is the explicit action `Retired`. It is not
checked in `connections`, `operations`, `formats` and `txn_cycle`, whose parts may be
finished: a socket that is dead, a document that is read to its end. That nobody
waits there for ever is what `CallsReturn` and `OperationsEnd` say.

Fairness. In `Gridas`: weak fairness of each goroutine (`ServeHTTP` of each request,
`relay` of each consumer goroutine, `Recover`, the handler of the signal once it
runs, and main's return), because Go's scheduler runs every goroutine that can run.
Clients, signals, crashes, panics, database errors and restarts are not fair.
Fairness of `Attempt` says that a host answers or fails in the end; the code does not
enforce this (its `http.Client` has no timeout), and without it a stop may wait for a
host for ever. `RequestEnds` supposes the same of `Client.Do`, and nothing of the
goroutines that write. In mgo: weak fairness of the loops and goroutines of the
package (`ReadLoop`, `Notify`, the loops of `AcquireSocket`, the pinger, `SyncStep`).
The server may stop answering: a read ends all the same, since the connection
has a deadline while anybody waits (`DeadlineArmed`), and `TimePasses` in the cluster
is the clock of the sync timeout. `MgoIter` and `MgoGridFS` take over that a query
ends, with documents or an error; the timeout of `Tail` needs strong fairness,
since a document that comes disables it. In `MgoTxn` a runner gets on, and a
transaction that was left is resumed by somebody: `txn.Runner` promises no more.
Nobody who calls these packages is fair: a caller may never release, close or ask
again.

## What disagrees with the comments

Five runs find a behaviour of the code that one of its comments rules out:

* `reply_lost`: after a failed insert of the reply the petition is removed all the
  same, so an accepted petition can end with neither (consumer.go:119-126).
* `reply_cut`: `newReply` calls `e.Error()` where `e` is nil (reply.go:48). The
  process dies and meets the same response after each restart.
* `retry_body`: all the attempts send the same `http.Request`, whose reader the first
  has read to its end, so a POST that was written whole and then answered 503 is retried
  with an empty body (consumer.go:154, petition.go:117). `sent` are the attempts whose body
  had gone out when `Client.Do` returned; the property is about a retry after such attempts
  only, which is also why nothing else can be at the reader then.
* `unsendable`: a petition that `http.NewRequest` refuses is neither answered nor
  deleted (consumer.go:92-96), and each restart takes it up again.
* `txn_cycle`: of two runners one pulls, with a transaction that the other has marked
  as applying, everything before it out of a document's queue, the token of the
  other transaction of the cycle included (txn/flusher.go:921); its rescan then
  panics (txn/flusher.go:472).

The properties of the passing runs are stated around these: `AcceptedNotLost` and
`EventuallyReplied` except lost inserts, `EventuallyReplied` except unsendable
petitions, `DuplicateBound` counts panics as crashes, and `TxnInv` is checked for
two runners only where their transactions share one document.

Other statements of the sources do not hold of the models either. They are
defined beside the properties, or a property excepts them, and no run has them:

| definition | statement | what happens |
|---|---|---|
| `MgoPool.LimitKept` | server.go:97-98, sockets in use stay under the limit | two callers pass the test before either has dialled |
| `MgoPool.AbendedNotCached`, `AbendedNotCounted` | server.go:197-198, an abended socket is discarded | a release after `AbendSocket` caches it, or it stays in `liveSockets` |
| `MgoLogin.AuthStateReflected` | auth.go:238-241, the login state reflects the operations | a logout that one goroutine has taken is sent after the login of another: the socket keeps a credential the server has dropped |
| `MgoLogin.LoginGoesOn` | auth.go:199-200, waiting logins get the next nonce | `kill` does not signal the condition they wait on |
| not `abandoned`, in `MgoLogin.NoStrayLogin` | auth.go:238-241 as well | a SASL login that the client gives up after the server has accepted it stays there, and no logout follows |
| not `idOk`, in `MgoGridFS.CallsEnd` | gridfs.go:483-484, `Close` "waits for any background operations to finish, and closes the file" | after `bson.Marshal` has failed in `insertChunk` a chunk is counted that no goroutine inserts, and `Close` waits for ever (gridfs.go:579-589, 605-608) |
| not `strayed`, in `MgoGridFS.DocMeansWhole` | gridfs.go:617, `Seek` "sets the offset for the next Read or Write" | while a file is written it sets the number of the next chunk and not where its bytes go: chunks are repeated or skipped, and `Close` reports no error |
| `MgoIter.NextAlwaysReturns` | doc of `Next` | if the connection dies between `acquireSocket` and `Query` of `getMore`, `Query` calls the iterator's function while its lock is held |
| `MgoIter.NoDataRemains` | session.go:2606, "data remains after limit exhausted" | a batch larger than the limit; or a session without a reserved socket (Eventual), limit 4, batch 2, prefetch 2 to 4 quarters: the second batch comes before the first is read, `docsToProcess` leaves out what is still to come, and the prefetch asks with nothing left, which the server takes for its default batch (it takes 7 documents; the run has 5) |
| `YamlScanner.SimpleKeyAllowed` | scannerc.go:877, always allowed | a quoted scalar with a line break inside, then '[' |
| `YamlGrammar.AcceptsAll` | the comment of parserc.go, the grammar it implements | a value of a block mapping without a key is refused; an empty key before a flow entry loses a token |

Besides, the loop of `AcquireSocket` for tags that no server has never looks at the
timeout (cluster.go:547-551), which the doc of `SetSyncTimeout` promises
(session.go:1230-1233); and `rescan` counts the revisions of documents it skipped
(txn/flusher.go:484-488), so that `Serializable` is not stated of crossing runners.

## Proofs

`GridasProofs` proves, for any set of requests and goroutines, any capacity, any
number of retries and any bounds, that `IInv` is an invariant (`Invariance`), and
from it `TypeCorrect`, `Stored`, `SingleDispatch`, `NotLost`, `FewDuplicates` and
`FewLate`. The only assumption is `ConstantsAssumption`, which TLC evaluates in
each run.

None of these invariants is inductive alone, because each relies on the others:

* that a petition in the pipeline is stored (`InFlightStored`) survives a removal
  only because no other goroutine has the same petition (`NoDoubleDispatch`) and no
  `ServeHTTP` is about to enqueue it (`HandOverInv`);
* that it is not there twice survives a send only because whoever still has to
  hand it over is the only one (`HandOverInv`), which in turn needs that the
  listener does not serve while the recoverer runs and that the channel is empty
  when the process is down (`PhaseInv`), and that a request that has not been stored
  has left no trace (`FreshInv`);
* that an accepted petition is not lost survives `RemovePetition` because its reply
  was inserted or lost before (`RemoveInv`);
* `DuplicateBound` needs to know where its slack goes: a petition that is still
  stored and that no goroutine is about to remove has at most `crashes + faults`
  replies (`ReplyInv`);
* `LateBound` needs that a goroutine that took a petition after the stop does not
  reach the inner select again (`LateInv`).

The proof has one lemma per action that changes what `IInv` speaks about, and
three for what actions have in common: `InvHalt` (all ends of the process),
`InvMove` (a goroutine goes from line to line), `Sent` with `Received` (a petition
enters the pipeline). The bounds of `DuplicateBound` go through `NoReplyStep` and
`OneFault`: a step without a reply cannot break them, and a step with a mishap has
room for one reply more.

`GridasProofs` also proves `FewAttempts`, `EveryErrorRecorded`, `StopsClean` and
`RefusedLeaveNothing` from the same assumption. `PromisesInv` is inductive on top of
`IInv`: the requests of a petition are counted by what it is doing (`AttemptInv`),
an erroneous reply about to be inserted has been recorded (`ErrorsInv`), and in the
first run of the process a refused request is nowhere (`RefusedInv`). `CleanStop`
follows from these and `IInv` without an induction of its own.

Last, it proves `Refinement`, that `Gridas` implements `StoreAndForward`, for
the same constants. Its steps follow the actions: an end of the process is a
`Refuse` of the requests that had not reached the collection (`HaltRefines`), a
removal is a `Drop` because of `RemoveInv` and `InFlightStored`, and every step
that leaves collections and answers alone is a stutter (`Stutters`).

`DoRequestProofs` proves `RequestInvariance`, from it `OnlyRetriedOpen`,
and `AttemptRefinement`, that a call is made of `Attempt` steps of `Consumer`, for any
number of retries and any body (`DoRequestAssumption`). `RequestInv` has to know that all
the attempts but the last were to be repeated (`CallInv`), and where each writer is
(`WireInv`).

It also proves `BackoffDoubles`: the waiting times double, for any number of retries
and any first one. `Backoff` counts with `Power`, a recursive function; that there is
such a function (`Powers`) is a lemma of `DataInduction`. `BackoffInv` adds what the
call is about to wait, or has waited, at each line.

`DataInduction` holds what such proofs need. The library's induction theorems take a
predicate as a parameter, which the provers cannot instantiate, but that `<` is well
founded on `Nat` is a fact about a set. From it, a set of numbers that has 0 and with
each number the next has all (`Induction`), a recursion over the naturals defines one
function (`Recursion`), and a fold over `1..n` passes through values that can be
spoken of one by one (`FoldExists`).

`MgoConnectionProofs` proves `PoolCorrect`, that `PoolInv` is an invariant for any finite sets
of sockets and clients and any limit (`PoolAssumption`). It is inductive as it
stands, thanks to `InHand`: the counts are cardinalities of sets of goroutines, each
step adds or takes one of them, and `InHand` says that it was not there before.

It also proves `RingImplementsFifo` and `RingCorrect`, for any capacities of the queue
(`QueueAssumption`). `Holds` says where the elements are in the ring. The code's
remainders are replaced by `Wrap`, one subtraction (lemma `Remainder`), and a growth
keeps the content because what stands before `popi` stays and the rest moves to
the end (`Expands`).

It also proves `SocketCorrect`, that `SocketInv` is an invariant for any
number of goroutines, messages and documents, and any four ids or more
(`SocketAssumption`). `SocketIInv` adds where things
are: a message under way answers somebody who is registered under its id, or
nobody under id 0 (`WireInv`), the read loop's function is its message's
(`ReaderInv`), and a function that has not been told its end is registered, in the
read loop's hands or in `kill`'s, in one place only (`CallerInv`). TLC has checked
`SocketIInv` on the instance of `connections`.

Last, it proves `LoginCorrect`, that `LoginInv` is an invariant for any goroutines
and credentials and any number of SASL steps (`LoginAssumption`). `LoginIInv` adds what
the parts lean on: the next nonce is in one place, asked for, cached or in the hands of
one login (`OneNonce`, `NonceSomewhere`), which is why the cache is empty when an answer
comes; the server waits for the nonce it issued last exactly while it is unused
(`IssuedUnused`); each login asked about waits for its one answer (`AnswersOk`); nobody
sleeps over a cached nonce unless another login is up to take it (`NobodySleepsOver`);
and a login of the server is in `creds`, or its logout is flagged, in the hands of the
goroutine that flushes it, or sent, or was abandoned by its client (`LoginsKnown`).
TLC has checked `LoginIInv` with three goroutines.

`MgoSessionProofs` proves `SessionCorrect` and `SessionKeepsPromises`, that `SessionInv`
and `SessionPromises` are invariants for any finite sets of sessions and goroutines, and
any sockets and credentials (`SessionAssumption`).
`SessionIInv` adds what goroutines that share a session may rely on: who asks the
cluster has the lock and found nothing reserved, so that a slot is taken only when a
server stepped down (`Sound`); a session that is being dialled reserves nothing and is
nobody else's but an earlier read's or write's (`Apart`); and only reads and writes
outlive their session (`InUse`). A step changes one session and one call, so the
references follow from what those two held before and after (`SharesMoved`). `CredsIInv`
is for a goroutine alone: no two sessions reserve one socket, and a `Login` that notes
its credential is on the socket the next call will find (`LoginOk`).

It also proves `IterCorrect`, that `IterInv` is an invariant for any number of
documents, size of batches, and limits, batches and prefetches of a query
(`IterAssumption`). The parts of `IterInd`:

* `Owing` is what `OwesExact` says by a fold, as a sum whose terms can be added, changed
  and removed one at a time (`DueAdded`, `DueChanged`, `DueRemoved`; `FoldOwes` says it is
  the fold). After an error it is kept while replies are under way; a lost
  connection takes one off for each of them, whatever they still owed.
* `OneFresh`: at most one of the replies, and of the questions, is still whole. `AskOk`
  is why: another batch is asked for only when every reply has begun to come.
* `OrderOk`: with one socket only the last of at most two replies is whole, and what
  was given, is cached and comes are the numbers from 1 up to what the cursor has sent.
* `LimitOk`: a size that is asked for, with what is cached and comes, fits in what is left
  of the limit. `HardOk`: after a size that the server takes for the limit of the query
  (negative, or 1) no cursor stays open to ask again.
* `CursorOk` and `EndOk`: an open cursor is known to the iterator or will be with the reply
  that comes; one that the server closed by itself has sent all.

TLC has checked `IterInd` on the queries of `operations`, and on small values that it is
kept by one step from any state that satisfies it. The proof found that `Fits` had let in
two kinds of queries that can exceed their limit: those without a socket of their own
(`NoDataRemains` above), and a negative batch that is not the limit, `Limit(5).Batch(-2)`.

`MgoClusterProofs` proves `ClusterCorrect`, that `ClusterInv` is an invariant for any
members, seeds, objects and clients, any number of sessions and of changes of role
(`ClusterAssumption`). In `ClusterIInv`, at any time one goroutine of the iteration
deals with an address: it talks to the server, or has left it pending, or a master's
word has claimed that (`OneTalk`, `OneClaim`); and the object it deals with is the one
in the list, or there is none (`Free`). That is why `addServer` never finds another
object at an address, whatever clients remove meanwhile. An open object is in the list
or with one of these goroutines (`OpenKept`), so none is left when they are done
(`Rests`), and the last reference closes all, since the loop holds one of its own
while it synchronises (`RefsOk`). Once a master was heard of, every address it named is
asked for, remembered, dealt with, or did not resolve (`WordOut`), and so who is still
pending at the end is one the master's word did not reach (`ReachedKept`).
TLC has checked `ClusterIInv` with two seeds and two changes, and with three members.

The proof found a hole in an earlier statement of `SyncFindsAll`, which the bounds
of the run do not reach. With two seeds, let one be down when the master names it:
`resolveAddr` fails, and that goroutine of `spawnSync` ends (cluster.go:419-423). If
the member comes up and answers the goroutine that was spawned for it as a seed,
it is left pending, since no master claims it again, and is removed although it was
reached and nothing has happened to it since (cluster.go:475-479). `unresolved` are
these members; `SyncFindsAll` excepts them.

`MgoClusterProofs` proves `ServersCorrect` as well, that `ServersInv` is an invariant
for any addresses, window and delays (`ServersAssumption`), and any descriptions of
servers and tags asked for (`InfosAssumption`). `ServersIInv` says that the slice is
increasing and where each of the last delays stands in the window. The rest are facts
about operators, for lists of any length: the search by halves ends behind the last
lesser address (`SearchLeast`, an induction over what is left to search), so it
finds what is there (`FoundIs`); an append that is sorted, and a removal, keep the
order (`Sorts`, `Removes`); and `BestFit` has, after each server it has looked at, one
that fits those it has seen (`FoldFits`, an induction over these).

`MgoOperationProofs` proves `GridCorrect`, that `GridInv` is an invariant for any sizes of
chunks and files, any number of pending insertions, of seeks and of faults
(`GridAssumption`). `GridInd` adds where the bytes are. What has been summed, what is
buffered and what is still to be written follow each other whatever Seek does (`WriterOk`),
and the number of a chunk has nothing to do with it. The other parts hold while no Seek has
moved that number. The sum ends where a chunk does until `Close` has flushed the last one, and
nothing of a reader is in use (`PlacesOk`). Every chunk that is
stored, on its way or fetched is its part of the file and numbered once, and
none is missing unless an insertion failed (`ChunksOk`, `FetchOk`); so when the count of
pending insertions is 0 and there is no error, all are in (lemma `AllIn`), which is
what `insertFile` relies on. A reader is never behind its chunk nor beyond the end, even
after a fetch has failed, and before that its buffer ends where its chunk does
(`ReaderOk`), so no Seek cuts more off it than it has. A file whose Id cannot
be marshalled has counted chunks and none under way (`SizesOk`).
TLC has checked `GridInd` on the instance of `operations`.

The proof needs the arms of `NextChunk`, what `Write` flushes first and in its loop
(gridfs.go:537-557), to exclude each other, which `Fills` makes them do.

It also proves `TxnCorrect`: `ResultsTrue`, `NoTraces` and `Decides` hold for any
transactions and documents, any number of runners that flush, are killed and resume in any
interleaving, and whatever order `Components` gives them (`TxnAssumption`: the
operations are sequences of the four kinds, the runners are `Runners`, and `None` is no
transaction). That covers the crossing runners of `txn_cycle`: rescans may panic
there, but no decision is taken back. A runner acts on copies of transactions that others
have changed meanwhile, and that is what the proof is about:

* `Known`: what a copy says of a decision holds. A copy may be behind, "preparing" or
  "prepared" while the transaction has been decided; one that says "applying" or "aborting"
  is of a transaction that was not decided otherwise (`Onward`). The calls of `advance`, as
  deep as they are, and what a flusher has seen all keep this (`FlusherOk`), because an
  update that decides asks for the state it changes, and who misses reloads
  (`StartsToAbort`, `StartsToApply`).
* A call that is at a request of `apply` has a copy that says "applying", one that takes
  its tokens away to abort has one that says "aborting" (`CallOk`). So who
  sets "aborted" without asking for the state (flusher.go:647) sets what had been decided.
* `TraceInd` has `NoTraces`, and what documents are made of. A step leaves at most one
  transaction's trace (`Leaves`), and whoever leaves one is in `apply` (`MayEdit`).

`YamlProofs` proves `ScannerCorrect`, that `ScannerInv` is an invariant, for any text and
whatever the bounds of its environment; nothing is assumed of the constants. KEY and
BLOCK-MAPPING-START are put into the middle of the queue, before a token that was
fetched long ago, so what the parser will have open at the end of the queue is not
known from what it has open now. `Sound` says it by two counts, the block and the flow
collections that are open before each token of the queue (`Counts`):

* They begin with what the parser has open, block collections first and flow collections
  in them (`Agree`), and end with the depths of `indents` and of `simple_keys`. A token at
  the end adds a value to them, one that is taken removes the first
  (`TokenTaken`), one in the middle changes those behind it.
* `Rooted`: behind a simple key outside flow collections that may still get its ':'
  nothing opens or closes a block collection, its column is not left of the indentation,
  and no flow collection was open before it. So a mapping that begins there begins
  where the parser can have one, and is the innermost.
* `Placed` is what `KeysInQueue` says, for any place of a key; an insertion before the
  innermost key leaves the others where they are.
* After STREAM-END no key can get its ':' any more (`Dead`), and until then the stale ones are taken
  away before anything is fetched (`Current`), so the keys that stay are on the line.

The fold of `BlocksNest` is reached at the end only: the stacks it goes through agree with
the counts, one by one (`RunAgrees`), or the parser has refused.

It proves `ParserBalanced` too, that `NodesWellFormed` and `StacksBalanced` are invariants
of the parser for any tokens, of any alphabet and in any number (the run has four between
the ends of the stream). Three stacks must agree: `parser.states`, `parser.marks` and the
calls of decode.go, which sees events only. `Layered` cuts them into layers, one
for each collection the parser is in. A layer is a place of the parser: the one to return
to, or, of the innermost one while its node is parsed, the one that called for
it (`Awaits`). The place says what decode.go is in there, a sequence, a key or a value
(`Loop`), whether it is a pair of a flow sequence, which is two of its calls (`Loopings`), and
whether the collection's mark has been pushed (`Markings`). `Layers` ties the stacks
together by two counts, the calls and the marks below each layer. A step opens a layer,
closes the last (`PileGrow`, `PileCut`) or replaces it by another (`PileSwap`):

* Within a collection the parser moves between places of the same loop, or counts one
  child more, which takes a key to its value and back (`Moves`, `Skips`).
* A node may be called for only where `Awaits` says, so that the return finds its collection
  with the child counted (`Calls`, `NodeReturns`, `PlaceKinds`).
* A document's end is the only place within a document that has no states to return to
  (`Framed`): nothing is under construction there but the document, and that is
  full (`DocumentEnded`).
* Where an item is refused the mark of the collection is popped: it has been pushed (`Peeled`).

Only model-checked: the liveness properties (temporal reasoning under fairness is
beyond the prover); `TarjanCorrect`, whose module has recursive operators, which the
prover cannot take; `NoTxnPanic` and `Serializable`, of `TxnInv`, which do not hold of
every instance: two runners that cross break the first, and may break the second; and,
of yaml, `ReadAsWritten`, `ReadsBack` and the rest of `ParserInv` (`OnlyGrammar` and
`AcceptsGrammar`), which compare two algorithms over all inputs of a size.

## Not modelled

* The bytes of requests and replies, the headers that `newPetition` and `Request`
  copy, JSON, BSON, uuids, the log and the reading of the configuration: sequential
  code that no other component waits for. `cfg.Timeout` is read by nobody.
* The Replyer: one read, which changes nothing. Which member answers it is in
  `MgoSession`; how far a secondary lags is MongoDB's.
* Other instances of gridas on the same database: each has petitions of its own
  (`cfg.Instance` is part of the collection's name), and replies only meet there.
* A write that is still under way in MongoDB when the process that asked for it
  dies, and is applied after the next process has read the collection.
* The Update that marks a transaction as applied is ignored when it fails
  (txn/flusher.go:905-911), and the runner goes on; in `MgoTxn` it arrives, or the runner is
  killed before it. Any other error of the database ends a runner, as a kill does.
* In mgo: indexes, map-reduce, bulk decoding and commands that only format a
  document; the SASL library in C and the hashes; the change log and `PurgeMissing`
  of the transactions; the layout of messages.
* In yaml: readers, writers and encodings; the scanning of directives, tags and
  anchors, and what the encoder never emits (comments, anchors, folded scalars); the
  setting of Go values by reflection. The models begin with a text that is at hand.

## What is left

1. `PetitionHeaders`: `newPetition` and `Request` as operators over header sets,
   checked against a reference definition.
2. The composition of `MgoSocket`, `MgoPool` and `MgoSession` on small instances: now
   each takes the others to behave as they may.
