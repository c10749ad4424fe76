------------------------------ MODULE MgoGridFS ------------------------------
(* A file of GridFS (gridfs.go): its user writes it in pieces, closes it,     *)
(* opens it again and reads it with Seek and Read, while goroutines of the    *)
(* package insert its chunks and fetch the next one ahead, and another client *)
(* may remove the file.  A byte is its position in the file, so that a byte   *)
(* in the wrong place shows.  The Id that SetId gave the file may be a value  *)
(* that BSON cannot hold, and Seek may be called in any mode of the file.     *)
EXTENDS Integers, Sequences, FiniteSets

CONSTANTS ChunkSize,  \* bytes of a chunk
          MaxPending, \* chunks that make up the megabyte that may be pending
          MaxLength,  \* bound: length of the file
          MaxPiece,   \* bound: bytes of one Write or Read
          MaxSeeks,   \* bound: calls of Seek
          MaxFaults   \* bound: operations of the database that fail

ASSUME GridAssumption ==
    /\ {ChunkSize, MaxPending} \subseteq Nat \ {0}
    /\ {MaxLength, MaxPiece, MaxSeeks, MaxFaults} \subseteq Nat

VARIABLES file,     \* fields of the GridFile
          doing,    \* the call of the user in progress
          inserts,  \* chunks on their way to the database
          fetch,    \* rcache and its goroutine
          chunks,   \* external: collection fs.chunks, a set of [n, data]
          fileDoc,  \* external: the document in fs.files: NoDoc or [length, sum]
          removal,  \* external: the other client, "no", "half", "done"
          seeks, faults,
          failed,   \* history: a fetch of the file that is open has failed
          panicked, \* history: a Seek on the file that is open has panicked
          strayed   \* history: a Seek has moved the chunk of a file being written

gridVars == <<file, doing, inserts, fetch, chunks, fileDoc, removal, seeks, faults,
              failed, panicked, strayed>>

NoDoc == [length |-> -1, sum |-> <<>>]
NoFetch == [n |-> -1, done |-> FALSE, data |-> <<>>, ok |-> FALSE]
Free == [call |-> "none", todo |-> <<>>, left |-> 0, blocked |-> FALSE]

Least(a, b) == IF a < b THEN a ELSE b
Greatest(a, b) == IF a > b THEN a ELSE b
Bytes(from, to) == [i \in 1..(to - from) |-> from + i]

\* Create and SetId; idOk: BSON can hold the Id.
GridInit == /\ \E idOk \in BOOLEAN :
                  file = [mode |-> "writing", idOk |-> idOk, err |-> FALSE, chunk |-> 0,
                          offset |-> 0, wpending |-> 0, wbuf |-> <<>>, wsum |-> <<>>,
                          rbuf |-> <<>>, length |-> 0]
            /\ doing = Free
            /\ inserts = {}
            /\ fetch = NoFetch
            /\ chunks = {}
            /\ fileDoc = NoDoc
            /\ removal = "no"
            /\ seeks = 0 /\ faults = 0
            /\ failed = FALSE /\ panicked = FALSE /\ strayed = FALSE

history == <<failed, panicked, strayed>>
external == <<chunks, fileDoc, removal, seeks, faults, history>>

\* An operation of the database succeeds, or fails while faults are left.
Outcome(ok) == /\ ok \/ faults < MaxFaults
               /\ faults' = IF ok THEN faults ELSE faults + 1

--------------------------------------------------------------------------------
(* Writing.                                                                   *)

Write(k) ==
    /\ file.mode = "writing" /\ doing = Free /\ ~file.err
    /\ file.length + k <= MaxLength
    /\ doing' = [Free EXCEPT !.call = "write",
                             !.todo = Bytes(file.length, file.length + k)]
    /\ file' = [file EXCEPT !.length = @ + k]
    /\ UNCHANGED <<inserts, fetch, external>>

\* insertChunk: numbers the chunk and sums it, waits while a megabyte is
\* pending, and leaves the insertion to a goroutine, or fails at once if the
\* document of the chunk cannot be marshalled; it is counted in either case.
insertChunk(f, data) == [f EXCEPT !.chunk = @ + 1, !.wsum = @ \o data]
Underway(f) == [f EXCEPT !.wpending = @ + 1, !.err = @ \/ ~f.idOk]
Spawned(data) == IF file.idOk THEN {[n |-> file.chunk, data |-> data]} ELSE {}
Full == file.wpending >= MaxPending

\* The chunk that Write or Close has to insert next, <<>> if none, and what it
\* leaves: first the buffer filled up, then whole chunks of the data.
Missing == Least(ChunkSize - Len(file.wbuf), Len(doing.todo))
Fills == doing.call = "write" /\ Len(file.wbuf) + Len(doing.todo) >= ChunkSize
NextChunk ==
    CASE doing.call = "close" -> file.wbuf
      [] Fills /\ file.wbuf # <<>> -> file.wbuf \o SubSeq(doing.todo, 1, Missing)
      [] Fills /\ file.wbuf = <<>> /\ Len(doing.todo) > ChunkSize ->
            SubSeq(doing.todo, 1, ChunkSize)
      [] OTHER -> <<>>
Rest == IF doing.call = "close" THEN <<>>
        ELSE SubSeq(doing.todo, Len(NextChunk) - Len(file.wbuf) + 1, Len(doing.todo))

Flush ==
    /\ doing.call \in {"write", "close"} /\ ~doing.blocked
    /\ NextChunk # <<>>
    /\ IF Full
       THEN /\ doing' = [doing EXCEPT !.blocked = TRUE]
            /\ UNCHANGED <<file, inserts>>
       ELSE /\ file' = [Underway(insertChunk(file, NextChunk)) EXCEPT !.wbuf = <<>>]
            /\ inserts' = inserts \cup Spawned(NextChunk)
            /\ doing' = [doing EXCEPT !.todo = Rest]
    /\ UNCHANGED <<fetch, external>>

\* After the Wait the chunk is given up if another one has failed.
FlushWoken ==
    /\ doing.blocked /\ ~Full
    /\ IF file.err
       THEN /\ file' = [insertChunk(file, NextChunk) EXCEPT !.wbuf = <<>>]
            /\ UNCHANGED inserts
       ELSE /\ file' = [Underway(insertChunk(file, NextChunk)) EXCEPT !.wbuf = <<>>]
            /\ inserts' = inserts \cup Spawned(NextChunk)
    /\ doing' = [doing EXCEPT !.todo = Rest, !.blocked = FALSE]
    /\ UNCHANGED <<fetch, external>>

WriteReturns ==
    /\ doing.call = "write" /\ NextChunk = <<>>
    /\ file' = [file EXCEPT !.wbuf = @ \o doing.todo]
    /\ doing' = Free
    /\ UNCHANGED <<inserts, fetch, external>>

\* Mutant: an insertion that failed is not taken off wpending.
InsertEndsSilently(c, ok) ==
    /\ c \in inserts
    /\ Outcome(ok)
    /\ inserts' = inserts \ {c}
    /\ chunks' = IF ok THEN chunks \cup {c} ELSE chunks
    /\ file' = [file EXCEPT !.wpending = IF ok THEN @ - 1 ELSE @, !.err = @ \/ ~ok]
    /\ UNCHANGED <<doing, fetch, fileDoc, removal, seeks, history>>

\* The goroutine of one chunk.
InsertEnds(c, ok) ==
    /\ c \in inserts
    /\ Outcome(ok)
    /\ inserts' = inserts \ {c}
    /\ chunks' = IF ok THEN chunks \cup {c} ELSE chunks
    /\ file' = [file EXCEPT !.wpending = @ - 1, !.err = @ \/ ~ok]
    /\ UNCHANGED <<doing, fetch, fileDoc, removal, seeks, history>>

Close ==
    /\ file.mode # "closed" /\ doing = Free
    /\ doing' = [Free EXCEPT !.call = "close"]
    /\ UNCHANGED <<file, inserts, fetch, external>>

\* Mutant: the document goes in while chunks are on their way.
InsertFileEarly(ok) ==
    /\ doing.call = "close" /\ file.mode = "writing" /\ NextChunk = <<>>
    /\ IF file.err THEN ok /\ UNCHANGED <<fileDoc, faults>>
       ELSE /\ (ok => file.idOk) /\ Outcome(ok \/ ~file.idOk)
            /\ fileDoc' = IF ok THEN [length |-> file.length, sum |-> file.wsum] ELSE fileDoc
    /\ file' = [file EXCEPT !.mode = "closed", !.err = @ \/ ~ok]
    /\ doing' = Free
    /\ UNCHANGED <<inserts, fetch, chunks, removal, seeks, history>>

\* insertFile: after the last chunk is in, the document that makes the file.
InsertFile(ok) ==
    /\ doing.call = "close" /\ file.mode = "writing" /\ NextChunk = <<>>
    /\ file.wpending = 0
    /\ IF file.err THEN ok /\ UNCHANGED <<fileDoc, faults>>
       ELSE /\ (ok => file.idOk) /\ Outcome(ok \/ ~file.idOk)
            /\ fileDoc' = IF ok THEN [length |-> file.length, sum |-> file.wsum] ELSE fileDoc
    /\ file' = [file EXCEPT !.mode = "closed", !.err = @ \/ ~ok]
    /\ doing' = Free
    /\ UNCHANGED <<inserts, fetch, chunks, removal, seeks, history>>

\* A reader waits for the chunk that is being fetched, and closes.
CloseReader ==
    /\ doing.call = "close" /\ file.mode = "reading"
    /\ fetch = NoFetch \/ fetch.done
    /\ file' = [file EXCEPT !.mode = "closed"]
    /\ fetch' = NoFetch
    /\ doing' = Free
    /\ UNCHANGED <<inserts, external>>

--------------------------------------------------------------------------------
(* Reading.                                                                   *)

\* OpenId, Open or OpenNext of the finished file: a GridFile of its own.
Open ==
    /\ file.mode = "closed" /\ doing = Free
    /\ fileDoc # NoDoc
    /\ file' = [file EXCEPT !.mode = "reading", !.err = FALSE, !.chunk = 0, !.offset = 0,
                            !.rbuf = <<>>, !.wbuf = <<>>, !.wsum = <<>>,
                            !.length = fileDoc.length]
    /\ fetch' = NoFetch
    /\ failed' = FALSE /\ panicked' = FALSE
    /\ UNCHANGED <<doing, inserts, chunks, fileDoc, removal, seeks, faults, strayed>>

\* What a query for chunk n answers: a document of this number, should several
\* have it, or an error.
Stored(n) == {c.data : c \in {d \in chunks : d.n = n}}
Answers(n, ok, data) == /\ IF ok THEN data \in Stored(n) ELSE data = <<>>
                        /\ Outcome(ok \/ Stored(n) = {})

\* getChunk: the chunk fetched ahead, or a query now.  The next one is fetched
\* in the background if there is one.  file.chunk moves on even after an error.
Ahead(f) == IF (f.chunk + 1) * ChunkSize < f.length
            THEN [NoFetch EXCEPT !.n = f.chunk + 1] ELSE NoFetch
Gotten(f, data) == [f EXCEPT !.chunk = @ + 1, !.rbuf = data]
Cached(f) == fetch.n = f.chunk

\* ok and data are what getChunk(f) returns.
getChunk(f, ok, data) ==
    /\ \/ /\ Cached(f) /\ fetch.done
          /\ ok = fetch.ok /\ data = fetch.data
          /\ UNCHANGED faults
       \/ /\ ~Cached(f)
          /\ Answers(f.chunk, ok, data)
    /\ fetch' = Ahead(f)
    /\ failed' = (failed \/ (~ok /\ f.offset < f.length))

\* The goroutine that fetches ahead.
Fetched(ok) ==
    /\ fetch # NoFetch /\ ~fetch.done
    /\ \E data \in Stored(fetch.n) \cup {<<>>} :
          /\ Answers(fetch.n, ok, data)
          /\ fetch' = [fetch EXCEPT !.done = TRUE, !.ok = ok, !.data = data]
    /\ UNCHANGED <<file, doing, inserts, chunks, fileDoc, removal, seeks, history>>

Read(k) ==
    /\ file.mode = "reading" /\ doing = Free
    /\ file.offset # file.length     \* else EOF
    /\ file.chunk * ChunkSize <= MaxLength  \* bound: each Read that fails adds one
    /\ doing' = [Free EXCEPT !.call = "read", !.left = k]
    /\ UNCHANGED <<file, inserts, fetch, external>>

\* copy(b, file.rbuf).
Copied == Least(doing.left, Len(file.rbuf))
Copy == [file EXCEPT !.offset = @ + Copied, !.rbuf = SubSeq(@, Copied + 1, Len(@))]
ReadEnough == Copied = doing.left \/ file.offset + Copied = file.length

ReadReturns ==
    /\ doing.call = "read" /\ ReadEnough
    /\ file' = Copy
    /\ doing' = Free
    /\ UNCHANGED <<inserts, fetch, external>>

ReadGoesOn(ok) ==
    /\ doing.call = "read" /\ ~ReadEnough
    /\ \E data \in Stored(file.chunk) \cup {fetch.data, <<>>} :
          /\ getChunk(Copy, ok, data)
          /\ file' = Gotten(Copy, data)
    /\ doing' = IF ok THEN [doing EXCEPT !.left = @ - Copied] ELSE Free
    /\ UNCHANGED <<inserts, chunks, fileDoc, removal, seeks, panicked, strayed>>

\* Seek to a place of the file, in whatever mode it is: inside the chunk at
\* hand, or in another one.  Both cut the bytes before the place off the buffer
\* and panic if it is shorter.  At the end of a file of whole chunks Seek asks
\* for a chunk that does not exist and returns that error.
SeekChunk(offset) == offset \div ChunkSize
Near(offset) == SeekChunk(offset) + 1 = file.chunk /\ offset >= file.offset
Cut(data, k) == SubSeq(data, k + 1, Len(data))

SeekNear(offset) ==
    LET skipped == offset - file.offset
        short == skipped > Len(file.rbuf)
    IN /\ doing = Free
       /\ seeks < MaxSeeks /\ seeks' = seeks + 1
       /\ offset <= file.length
       /\ Near(offset)
       /\ file' = IF short THEN file
                  ELSE [file EXCEPT !.rbuf = Cut(@, skipped), !.offset = offset]
       /\ panicked' = (panicked \/ short)
       /\ UNCHANGED <<doing, inserts, fetch, chunks, fileDoc, removal, faults, failed,
                      strayed>>

SeekFar(offset, ok) ==
    LET sought == [file EXCEPT !.offset = offset, !.chunk = SeekChunk(offset), !.rbuf = <<>>]
        skipped == offset % ChunkSize
    IN /\ doing = Free
       /\ seeks < MaxSeeks /\ seeks' = seeks + 1
       /\ offset <= file.length
       /\ ~Near(offset)
       /\ \E data \in Stored(SeekChunk(offset)) \cup {fetch.data, <<>>} :
             LET short == ok /\ skipped > Len(data)
             IN /\ getChunk(sought, ok, data)
                /\ file' = Gotten(sought, IF ok /\ ~short THEN Cut(data, skipped) ELSE data)
                /\ panicked' = (panicked \/ short)
       /\ strayed' = (strayed \/ file.mode = "writing")
       /\ UNCHANGED <<doing, inserts, chunks, fileDoc, removal>>

--------------------------------------------------------------------------------
(* Another client removes the file: RemoveId takes the document first, then   *)
(* the chunks, and leaves them if the second step fails.                      *)

RemoveDoc == /\ fileDoc # NoDoc /\ removal = "no"
             /\ fileDoc' = NoDoc
             /\ removal' = "half"
             /\ UNCHANGED <<file, doing, inserts, fetch, chunks, seeks, faults, history>>

RemoveChunks(ok) ==
    /\ removal = "half"
    /\ Outcome(ok)
    /\ chunks' = IF ok THEN {} ELSE chunks
    /\ removal' = "done"
    /\ UNCHANGED <<file, doing, inserts, fetch, fileDoc, seeks, history>>

GridNext ==
    \/ Flush \/ FlushWoken \/ WriteReturns \/ Close \/ CloseReader \/ Open \/ ReadReturns
    \/ RemoveDoc
    \/ \E k \in 1..MaxPiece : Write(k) \/ Read(k)
    \/ \E offset \in 0..MaxLength : SeekNear(offset)
    \/ \E ok \in BOOLEAN :
          \/ InsertFile(ok) \/ Fetched(ok) \/ ReadGoesOn(ok) \/ RemoveChunks(ok)
          \/ \E c \in inserts : InsertEnds(c, ok)
          \/ \E offset \in 0..MaxLength : SeekFar(offset, ok)

Working == \/ Flush \/ FlushWoken \/ WriteReturns \/ CloseReader \/ ReadReturns
           \/ \E ok \in BOOLEAN :
                 \/ InsertFile(ok) \/ Fetched(ok) \/ ReadGoesOn(ok)
                 \/ \E c \in inserts : InsertEnds(c, ok)

\* Every query and insertion ends, the socket's deadline sees to it.
GridSpec == GridInit /\ [][GridNext]_gridVars /\ WF_gridVars(Working)

--------------------------------------------------------------------------------

TypeOK ==
    /\ file.mode \in {"writing", "reading", "closed"} /\ file.err \in BOOLEAN
    /\ file.chunk \in Nat /\ file.offset \in Nat /\ file.wpending \in 0..MaxPending
    /\ file.length \in 0..MaxLength
    /\ Len(file.wbuf) <= ChunkSize
    /\ doing.call \in {"none", "write", "close", "read"}

\* A file that can be found has the checksum of all its bytes and, unless a
\* Seek came between its writes, is whole: its chunks are all stored, in order,
\* none twice, none larger than the chunk size; however the insertions of the
\* chunks end, in whatever order.
Piece(n, length) == Bytes(n * ChunkSize, Least((n + 1) * ChunkSize, length))
DocMeansWhole ==
    fileDoc # NoDoc =>
        /\ fileDoc.sum = Bytes(0, fileDoc.length)
        /\ ~strayed =>
             chunks = {[n |-> i, data |-> Piece(i, fileDoc.length)] :
                         i \in 0..((fileDoc.length + ChunkSize - 1) \div ChunkSize - 1)}

\* Nothing written is lost on the way: chunks summed, buffered and still to
\* write are the bytes of the file so far.
WrittenInOrder ==
    file.mode = "writing" => file.wsum \o file.wbuf \o doing.todo = Bytes(0, file.length)

\* The goroutines that insert are counted exactly, but for a file whose Id
\* cannot be marshalled: it counts chunks that none inserts, and never closes.
\* A file that did close leaves none behind.
PendingExact == /\ IF file.idOk THEN file.wpending = Cardinality(inserts) ELSE inserts = {}
                /\ file.mode # "writing" => file.wpending = 0 /\ inserts = {}

\* In a file that no Seek spoilt while it was written, a reader's buffer holds
\* the bytes from its offset to the end of its chunk, however Read and Seek are
\* mixed, unless a fetch has failed; no Seek panics before that.
BufferAligned ==
    ~strayed =>
        /\ file.offset + Len(file.rbuf) <= file.length
        /\ file.mode = "reading" /\ ~failed =>
             /\ file.rbuf = Bytes(file.offset,
                                  Least(Greatest(file.chunk * ChunkSize, file.offset),
                                        file.length))
             /\ ~panicked

GridInv == TypeOK /\ DocMeansWhole /\ WrittenInOrder /\ PendingExact /\ BufferAligned

\* Every call of Write, Read and Close returns, on a file whose Id can be
\* marshalled (Close waits for ever for chunks that were only counted).
CallsEnd == (doing # Free /\ file.idOk) ~> (doing = Free)
================================================================================
