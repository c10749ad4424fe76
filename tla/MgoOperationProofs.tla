------------------------- MODULE MgoOperationProofs -------------------------
(***************************************************************************)
(* Proofs about what mgo does with its connections: a file of GridFS, for  *)
(* any size of its chunks, number of chunks that may be pending, length,   *)
(* calls and faults of the database; and transactions, for any number of   *)
(* them, of documents and of runners, whatever the transactions do,        *)
(* whatever order they are sorted in and however often runners are killed. *)
(***************************************************************************)
EXTENDS MgoGridFS, MgoTxn, DataInduction, SequenceTheorems, FiniteSetTheorems, TLAPS

----------------------------------------------------------------------------
(* The inductive invariant                                                 *)

GridFile == [mode : {"writing", "reading", "closed"}, idOk : BOOLEAN, err : BOOLEAN,
             chunk : Nat, offset : Nat, wpending : Nat, wbuf : Seq(Nat), wsum : Seq(Nat),
             rbuf : Seq(Nat), length : 0..MaxLength]
UserCall == [call : {"none", "write", "close", "read"}, todo : Seq(Nat), left : Nat,
             blocked : BOOLEAN]
Chunk == [n : Nat, data : Seq(Nat)]
Fetching == [n : Int, done : BOOLEAN, data : Seq(Nat), ok : BOOLEAN]
GridTypes ==
  /\ file \in GridFile /\ doing \in UserCall
  /\ inserts \subseteq Chunk /\ IsFiniteSet(inserts) /\ chunks \subseteq Chunk
  /\ fetch \in Fetching
  /\ fileDoc \in [length : Int, sum : Seq(Nat)]
  /\ failed \in BOOLEAN /\ panicked \in BOOLEAN /\ strayed \in BOOLEAN

\* A call and a chunk on its way fit the mode of the file.
ModesOk ==
  /\ doing.call = "write" => file.mode = "writing"
  /\ doing.call = "read" => file.mode = "reading"
  /\ file.mode = "closed" => doing = Free
  /\ doing.call # "write" => doing.todo = <<>>
  /\ doing.blocked => /\ file.mode = "writing" /\ doing.call \in {"write", "close"}
                      /\ NextChunk # <<>>
  /\ file.mode # "writing" => file.wbuf = <<>>
  /\ file.mode = "writing" => fileDoc = NoDoc /\ removal = "no"

\* The bytes written so far are summed, buffered or still to write, in this
\* order; the chunks on their way are of bytes that are summed.
Follow(sum, buf, todo, length) ==
  /\ sum = Bytes(0, Len(sum))
  /\ buf = Bytes(Len(sum), Len(sum) + Len(buf))
  /\ todo = Bytes(Len(sum) + Len(buf), length)
  /\ Len(sum) + Len(buf) + Len(todo) = length
Summed == Len(file.wsum)
Earlier(data, upto) == \E a, b \in Nat : a < b /\ b <= upto /\ data = Bytes(a, b)
WriterOk ==
  file.mode = "writing" =>
    /\ Follow(file.wsum, file.wbuf, doing.todo, file.length)
    /\ \A c \in inserts : Earlier(c.data, Summed)

SizesOk == /\ Len(file.wbuf) <= ChunkSize /\ file.wpending <= MaxPending
           /\ PendingExact

(* What follows holds while no Seek has moved the chunk of the file written.  *)

\* The sum is of whole chunks until Close has flushed the last one, and the
\* fields of a reader are not used yet.
PlacesOk ==
  strayed = FALSE /\ file.mode = "writing" =>
    /\ Summed <= file.chunk * ChunkSize
    /\ Summed # file.chunk * ChunkSize => doing.call = "close" /\ file.wbuf = <<>>
    /\ file.rbuf = <<>> /\ file.offset = 0 /\ fetch = NoFetch

\* A chunk that is stored, on its way or fetched holds its part of the file.
ChunkOk(n, data) == n \in Nat /\ n * ChunkSize < file.length /\ data = Piece(n, file.length)

\* None is numbered twice, none is missing unless an insertion has failed.
Present(n) == \E c \in chunks : c.n = n
OnItsWay(n) == \E c \in inserts : c.n = n
ChunksOk ==
  strayed = FALSE =>
    /\ \A c \in chunks : ChunkOk(c.n, c.data)
    /\ \A c \in inserts : ChunkOk(c.n, c.data)
    /\ file.mode = "writing" =>
         /\ \A c \in chunks : c.n < file.chunk
         /\ \A c \in inserts : c.n < file.chunk
         /\ ~file.err => \A n \in 0..(file.chunk - 1) : Present(n) \/ OnItsWay(n)
DocOk ==
  fileDoc # NoDoc =>
    /\ fileDoc = [length |-> file.length, sum |-> Bytes(0, file.length)]
    /\ removal = "no"
    /\ strayed = FALSE => \A n \in Nat : n * ChunkSize < file.length => Present(n)

FetchOk ==
  strayed = FALSE /\ fetch # NoFetch =>
    /\ fetch.n \in Nat /\ fetch.n * ChunkSize < file.length
    /\ IF fetch.done /\ fetch.ok THEN fetch.data = Piece(fetch.n, file.length)
                                 ELSE fetch.data = <<>>

\* A reader is never behind its chunk, nor beyond the end of the file, even
\* after a fetch has failed; before that its buffer ends where its chunk does.
ReaderAt(f, bad, panic) ==
  /\ f.offset + Len(f.rbuf) <= f.chunk * ChunkSize
  /\ f.offset + Len(f.rbuf) <= f.length
  /\ f.mode = "reading" /\ ~bad =>
       f.rbuf = Bytes(f.offset, Least(f.chunk * ChunkSize, f.length)) /\ ~panic
ReaderOk == strayed = FALSE => ReaderAt(file, failed, panicked)

GridInd == /\ GridTypes /\ ModesOk /\ WriterOk /\ SizesOk /\ DocOk
           /\ PlacesOk /\ ChunksOk /\ FetchOk /\ ReaderOk

----------------------------------------------------------------------------
(* Bytes of a file, and the places of its chunks                           *)

LEMMA BytesIs ==
  ASSUME NEW from \in Nat, NEW to \in Nat, from <= to
  PROVE  /\ Bytes(from, to) \in Seq(Nat)
         /\ Len(Bytes(from, to)) = to - from
         /\ \A i \in 1..(to - from) : Bytes(from, to)[i] = from + i
<1>1. to - from \in Nat /\ \A i \in 1..(to - from) : from + i \in Nat
  OBVIOUS
<1>2. [i \in 1..(to - from) |-> from + i] \in [1..(to - from) -> Nat]
  BY <1>1
<1>3. [i \in 1..(to - from) |-> from + i] \in Seq(Nat)
  BY <1>1, <1>2, SeqDef
<1>4. Len([i \in 1..(to - from) |-> from + i]) = to - from
  BY <1>1, <1>3, LenProperties
<1>. QED
  BY <1>2, <1>3, <1>4 DEF Bytes

LEMMA BytesEmpty ==
  ASSUME NEW from \in Nat
  PROVE  Bytes(from, from) = <<>>
<1>1. Bytes(from, from) \in Seq(Nat) /\ Len(Bytes(from, from)) = 0
  BY BytesIs
<1>. QED
  BY <1>1, EmptySeq

LEMMA BytesOfLength ==
  ASSUME NEW from \in Nat, NEW to \in Nat, from <= to
  PROVE  Bytes(from, to) = <<>> <=> from = to
<1>1. Bytes(from, to) \in Seq(Nat) /\ Len(Bytes(from, to)) = to - from
  BY BytesIs
<1>2. Len(<<>>) = 0
  BY EmptySeq
<1>. QED
  BY <1>1, <1>2, BytesEmpty

LEMMA BytesConcat ==
  ASSUME NEW a \in Nat, NEW b \in Nat, NEW c \in Nat, a <= b, b <= c
  PROVE  Bytes(a, b) \o Bytes(b, c) = Bytes(a, c)
<1>. a <= c
  OBVIOUS
<1>1. /\ Bytes(a, b) \in Seq(Nat) /\ Len(Bytes(a, b)) = b - a
      /\ Bytes(b, c) \in Seq(Nat) /\ Len(Bytes(b, c)) = c - b
      /\ Bytes(a, c) \in Seq(Nat) /\ Len(Bytes(a, c)) = c - a
  BY BytesIs
<1>2. /\ \A i \in 1..(b - a) : Bytes(a, b)[i] = a + i
      /\ \A i \in 1..(c - b) : Bytes(b, c)[i] = b + i
      /\ \A i \in 1..(c - a) : Bytes(a, c)[i] = a + i
  BY BytesIs
<1>. DEFINE s == Bytes(a, b) t == Bytes(b, c) u == Bytes(a, c)
<1>3. /\ s \o t \in Seq(Nat) /\ Len(s \o t) = Len(s) + Len(t)
      /\ \A i \in 1..(Len(s) + Len(t)) : (s \o t)[i] = IF i <= Len(s) THEN s[i] ELSE t[i - Len(s)]
  BY <1>1, ConcatProperties
<1>. HIDE DEF s, t, u
<1>4. /\ s \in Seq(Nat) /\ t \in Seq(Nat) /\ u \in Seq(Nat)
      /\ Len(s) = b - a /\ Len(t) = c - b /\ Len(u) = c - a
      /\ \A i \in 1..(b - a) : s[i] = a + i
      /\ \A i \in 1..(c - b) : t[i] = b + i
      /\ \A i \in 1..(c - a) : u[i] = a + i
  BY <1>1, <1>2 DEF s, t, u
<1>5. \A i \in 1..(c - a) : (s \o t)[i] = a + i
  <2>. SUFFICES ASSUME NEW i \in 1..(c - a)
                PROVE  (s \o t)[i] = a + i
    OBVIOUS
  <2>1. Len(s) + Len(t) = c - a
    BY <1>4
  <2>2. (s \o t)[i] = IF i <= b - a THEN s[i] ELSE t[i - (b - a)]
    BY <1>3, <1>4, <2>1
  <2>. QED
    BY <2>2, <1>4
<1>6. s \o t = u
  <2>. DEFINE v == s \o t
  <2>1. v \in Seq(Nat) /\ Len(v) = c - a /\ \A i \in 1..(c - a) : v[i] = a + i
    BY <1>3, <1>4, <1>5
  <2>. HIDE DEF v
  <2>2. v = u
    BY <2>1, <1>4, SeqEqual
  <2>. QED
    BY <2>2 DEF v
<1>. QED
  BY <1>6 DEF s, t, u

LEMMA BytesSubSeq ==
  ASSUME NEW from \in Nat, NEW to \in Nat, from <= to,
         NEW i \in Nat \ {0}, NEW j \in 0..(to - from), i <= j + 1
  PROVE  SubSeq(Bytes(from, to), i, j) = Bytes(from + i - 1, from + j)
<1>. DEFINE s == Bytes(from, to) u == Bytes(from + i - 1, from + j)
<1>1. \A k \in 1..(to - from) : s[k] = from + k
  BY BytesIs
<1>2. /\ u \in Seq(Nat) /\ Len(u) = j - i + 1
      /\ \A k \in 1..(j - i + 1) : u[k] = from + i - 1 + k
  <2>1. from + i - 1 \in Nat /\ from + j \in Nat /\ from + i - 1 <= from + j
        /\ (from + j) - (from + i - 1) = j - i + 1
    OBVIOUS
  <2>. QED
    BY <2>1, BytesIs
<1>. HIDE DEF s, u
<1>3. \A k \in i..j : s[k] \in Nat
  BY <1>1
<1>4. /\ SubSeq(s, i, j) \in Seq(Nat)
      /\ Len(SubSeq(s, i, j)) = j - i + 1
      /\ \A k \in 1..(j - i + 1) : SubSeq(s, i, j)[k] = s[i + k - 1]
  BY <1>3, SubSeqProperties
<1>5. \A k \in 1..(j - i + 1) : SubSeq(s, i, j)[k] = u[k]
  BY <1>1, <1>2, <1>4
<1>6. SubSeq(s, i, j) = u
  BY <1>2, <1>4, <1>5, SeqEqual
<1>. QED
  BY <1>6 DEF s, u

\* Where chunks begin.
LEMMA ChunkPlaces ==
  ASSUME GridAssumption, NEW n \in Nat
  PROVE  /\ n * ChunkSize \in Nat
         /\ (n + 1) * ChunkSize = n * ChunkSize + ChunkSize
         /\ \A m \in Nat : m < n => (m + 1) * ChunkSize <= n * ChunkSize
<1>1. ChunkSize \in Nat \ {0}
  BY DEF GridAssumption
<1>2. \A m \in Nat : m < n => (m + 1) * ChunkSize <= n * ChunkSize
  BY <1>1
<1>. QED
  BY <1>1, <1>2

LEMMA ChunksOfLength ==
  ASSUME GridAssumption, NEW length \in Nat, NEW n \in Nat
  PROVE  n * ChunkSize < length <=> n <= (length + ChunkSize - 1) \div ChunkSize - 1
<1>1. ChunkSize \in Nat \ {0}
  BY DEF GridAssumption
<1>. DEFINE q == (length + ChunkSize - 1) \div ChunkSize
<1>2. /\ q \in Nat
      /\ ChunkSize * q <= length + ChunkSize - 1
      /\ length + ChunkSize - 1 < ChunkSize * q + ChunkSize
  BY <1>1
<1>. HIDE DEF q
<1>3. n <= q - 1 => n * ChunkSize < length
  BY <1>1, <1>2, ChunkPlaces
<1>4. n >= q => n * ChunkSize >= length
  BY <1>1, <1>2
<1>5. n <= q - 1 \/ n >= q
  BY <1>2
<1>. QED
  BY <1>1, <1>2, <1>3, <1>4, <1>5 DEF q

LEMMA Sizes ==
  ASSUME GridAssumption
  PROVE  ChunkSize \in Nat \ {0} /\ MaxPending \in Nat \ {0} /\ MaxLength \in Nat
BY DEF GridAssumption

----------------------------------------------------------------------------
(* The chunk that Write or Close inserts next                              *)

LEMMA BytesSplit ==
  ASSUME NEW from \in Nat, NEW to \in Nat, from <= to, NEW k \in 0..(to - from)
  PROVE  /\ SubSeq(Bytes(from, to), 1, k) = Bytes(from, from + k)
         /\ SubSeq(Bytes(from, to), k + 1, to - from) = Bytes(from + k, to)
<1>1. SubSeq(Bytes(from, to), 1, k) = Bytes(from + 1 - 1, from + k)
  <2>1. 1 \in Nat \ {0} /\ 1 <= k + 1
    OBVIOUS
  <2>. QED
    BY <2>1, BytesSubSeq
<1>2. SubSeq(Bytes(from, to), k + 1, to - from) = Bytes(from + (k + 1) - 1, from + (to - from))
  <2>1. k + 1 \in Nat \ {0} /\ to - from \in 0..(to - from) /\ k + 1 <= (to - from) + 1
    OBVIOUS
  <2>. QED
    BY <2>1, BytesSubSeq
<1>3. from + 1 - 1 = from /\ from + (k + 1) - 1 = from + k /\ from + (to - from) = to
  OBVIOUS
<1>. QED
  BY <1>1, <1>2, <1>3

LEMMA LeastIs ==
  ASSUME NEW a \in Int, NEW b \in Int
  PROVE  /\ Least(a, b) \in {a, b} /\ Least(a, b) <= a /\ Least(a, b) <= b
         /\ Greatest(a, b) \in {a, b} /\ Greatest(a, b) >= a /\ Greatest(a, b) >= b
BY DEF Least, Greatest

\* The cases of NextChunk.
LEMMA NextChunkCases ==
  ASSUME NEW buf, NEW todo, buf = file.wbuf, todo = doing.todo
  PROVE  /\ doing.call = "close" => NextChunk = buf
         /\ doing.call = "write" =>
              /\ Len(buf) + Len(todo) >= ChunkSize /\ buf # <<>>
                   => NextChunk = buf \o SubSeq(todo, 1, Missing)
              /\ Len(buf) + Len(todo) >= ChunkSize /\ buf = <<>> /\ Len(todo) > ChunkSize
                   => NextChunk = SubSeq(todo, 1, ChunkSize)
              /\ ~(Len(buf) + Len(todo) >= ChunkSize) => NextChunk = <<>>
              /\ buf = <<>> /\ ~(Len(todo) > ChunkSize) => NextChunk = <<>>
         /\ Missing = Least(ChunkSize - Len(buf), Len(todo))
<1>1. Fills <=> doing.call = "write" /\ Len(buf) + Len(todo) >= ChunkSize
  BY Zenon DEF Fills
<1>2. doing.call = "close" => NextChunk = buf
  BY <1>1 DEF NextChunk
<1>3. Fills /\ buf # <<>> => NextChunk = buf \o SubSeq(todo, 1, Missing)
  BY <1>1, Zenon DEF NextChunk
<1>4. Fills /\ buf = <<>> /\ Len(todo) > ChunkSize => NextChunk = SubSeq(todo, 1, ChunkSize)
  BY <1>1, Zenon DEF NextChunk
<1>5. doing.call = "write" /\ (~Fills \/ (buf = <<>> /\ ~(Len(todo) > ChunkSize)))
        => NextChunk = <<>>
  BY <1>1, Zenon DEF NextChunk
<1>6. Missing = Least(ChunkSize - Len(buf), Len(todo))
  BY Zenon DEF Missing
<1>7. ASSUME doing.call = "write"
      PROVE  /\ Len(buf) + Len(todo) >= ChunkSize /\ buf # <<>>
                  => NextChunk = buf \o SubSeq(todo, 1, Missing)
             /\ Len(buf) + Len(todo) >= ChunkSize /\ buf = <<>> /\ Len(todo) > ChunkSize
                  => NextChunk = SubSeq(todo, 1, ChunkSize)
             /\ ~(Len(buf) + Len(todo) >= ChunkSize) => NextChunk = <<>>
             /\ buf = <<>> /\ ~(Len(todo) > ChunkSize) => NextChunk = <<>>
  <2>1. Fills <=> Len(buf) + Len(todo) >= ChunkSize
    BY ONLY <1>1, <1>7, Zenon
  <2>2. ~Fills \/ (buf = <<>> /\ ~(Len(todo) > ChunkSize)) => NextChunk = <<>>
    BY ONLY <1>5, <1>7, Zenon
  <2>3. ASSUME ~(Len(buf) + Len(todo) >= ChunkSize)
        PROVE  NextChunk = <<>>
    <3>1. ~Fills
      BY ONLY <2>1, <2>3
    <3>. QED
      BY ONLY <2>2, <3>1, Zenon
  <2>4. buf = <<>> /\ ~(Len(todo) > ChunkSize) => NextChunk = <<>>
    BY ONLY <2>2, Zenon
  <2>. QED
    BY ONLY <1>3, <1>4, <2>1, <2>3, <2>4, Zenon
<1>. QED
  BY ONLY <1>2, <1>6, <1>7, Zenon

\* It is the next part of the file, and full unless Close flushes the last one.
LEMMA NextChunkIs ==
  ASSUME GridAssumption, GridTypes, ModesOk, WriterOk, SizesOk, PlacesOk,
         file.mode = "writing", doing.call \in {"write", "close"}, NextChunk # <<>>
  PROVE  \E k \in 1..ChunkSize :
           /\ NextChunk = Bytes(Summed, Summed + k)
           /\ Rest = Bytes(Summed + k, file.length)
           /\ strayed = FALSE => Summed = file.chunk * ChunkSize
           /\ Summed + k <= file.length
           /\ k # ChunkSize => doing.call = "close" /\ Summed + k = file.length
           /\ doing.call # "write" => Rest = <<>>
<1>1. PICK sum \in Seq(Nat), buf \in Seq(Nat), todo \in Seq(Nat), C \in Nat \ {0}, L \in Nat :
        /\ sum = file.wsum /\ buf = file.wbuf /\ todo = doing.todo
        /\ C = ChunkSize /\ L = file.length
  <2>1. file.wsum \in Seq(Nat) /\ file.wbuf \in Seq(Nat) /\ doing.todo \in Seq(Nat)
    BY DEF GridTypes, GridFile, UserCall
  <2>2. file.length \in Nat /\ ChunkSize \in Nat \ {0}
    BY Sizes DEF GridTypes, GridFile
  <2>. QED
    BY <2>1, <2>2
<1>2. PICK s \in Nat, b \in Nat, t \in Nat : s = Len(sum) /\ b = Len(buf) /\ t = Len(todo)
  OBVIOUS
<1>12. s = Summed
  BY <1>1, <1>2 DEF Summed
<1>3. b <= C
  BY <1>1, <1>2 DEF SizesOk
<1>4. Follow(sum, buf, todo, L)
  BY ONLY <1>1, WriterOk, file.mode = "writing" DEF WriterOk
<1>13. ASSUME strayed = FALSE, doing.call = "write" \/ buf # <<>>
       PROVE  s = file.chunk * ChunkSize
  BY ONLY <1>1, <1>12, <1>13, PlacesOk, file.mode = "writing" DEF PlacesOk
<1>5. /\ s + b + t = L
      /\ buf = Bytes(s, s + b) /\ todo = Bytes(s + b, L)
  BY ONLY <1>2, <1>4 DEF Follow
<1>6. (b = 0 <=> buf = <<>>) /\ (t = 0 <=> todo = <<>>)
  BY <1>2, EmptySeq
<1>7. PICK next, rest : next = NextChunk /\ rest = Rest
  OBVIOUS
<1>8. /\ doing.call = "close" => rest = <<>> /\ todo = <<>>
      /\ doing.call = "write" => rest = SubSeq(todo, Len(next) - b + 1, t)
      /\ next # <<>>
  <2>1. doing.call = "close" => rest = <<>> /\ todo = <<>>
    BY <1>1, <1>7 DEF Rest, ModesOk
  <2>2. doing.call = "write" => rest = SubSeq(todo, Len(next) - Len(buf) + 1, Len(todo))
    BY <1>1, <1>7, Zenon DEF Rest
  <2>. QED
    BY <1>2, <1>7, <2>1, <2>2
<1>9. /\ doing.call = "close" => next = buf
      /\ doing.call = "write" => b + t >= C
      /\ doing.call = "write" /\ buf # <<>> => next = buf \o SubSeq(todo, 1, Missing)
      /\ doing.call = "write" /\ buf = <<>> => t > C /\ next = SubSeq(todo, 1, C)
      /\ Missing = Least(C - b, t)
  <2>1. /\ doing.call = "close" => NextChunk = buf
        /\ doing.call = "write" =>
             /\ Len(buf) + Len(todo) >= ChunkSize /\ buf # <<>>
                  => NextChunk = buf \o SubSeq(todo, 1, Missing)
             /\ Len(buf) + Len(todo) >= ChunkSize /\ buf = <<>> /\ Len(todo) > ChunkSize
                  => NextChunk = SubSeq(todo, 1, ChunkSize)
             /\ ~(Len(buf) + Len(todo) >= ChunkSize) => NextChunk = <<>>
             /\ buf = <<>> /\ ~(Len(todo) > ChunkSize) => NextChunk = <<>>
        /\ Missing = Least(ChunkSize - Len(buf), Len(todo))
    BY ONLY <1>1, NextChunkCases
  <2>2. /\ doing.call = "close" => next = buf
        /\ doing.call = "write" =>
             /\ b + t >= C /\ buf # <<>> => next = buf \o SubSeq(todo, 1, Missing)
             /\ b + t >= C /\ buf = <<>> /\ t > C => next = SubSeq(todo, 1, C)
             /\ ~(b + t >= C) => next = <<>>
             /\ buf = <<>> /\ ~(t > C) => next = <<>>
        /\ Missing = Least(C - b, t)
    BY ONLY <1>1, <1>2, <1>7, <2>1
  <2>. QED
    BY ONLY <1>8, <2>2, Zenon
<1>10. CASE doing.call = "close"
  <2>1. b # 0 /\ t = 0 /\ s + b = L
    BY ONLY <1>5, <1>6, <1>8, <1>9, <1>10, s \in Nat, b \in Nat, t \in Nat
  <2>2. rest = Bytes(s + b, L)
    BY ONLY <1>5, <1>8, <1>10
  <2>3. b \in 1..C /\ (strayed = FALSE => s = file.chunk * ChunkSize)
    <3>1. b \in 1..C
      BY ONLY <1>3, <2>1, b \in Nat
    <3>2. buf # <<>>
      BY ONLY <1>6, <2>1
    <3>. QED
      BY ONLY <1>13, <3>1, <3>2, Zenon
  <2>4. next = Bytes(s, s + b) /\ rest = <<>>
    BY ONLY <1>5, <1>8, <1>9, <1>10
  <2>5. /\ b \in 1..ChunkSize /\ NextChunk = Bytes(Summed, Summed + b)
        /\ Rest = Bytes(Summed + b, file.length)
        /\ strayed = FALSE => Summed = file.chunk * ChunkSize
    BY ONLY <1>1, <1>7, <1>12, <2>2, <2>3, <2>4
  <2>6. Summed + b = file.length /\ Summed + b <= file.length
    BY ONLY <1>1, <1>12, <2>1, L \in Nat
  <2>7. Rest = <<>>
    BY ONLY <1>7, <2>4
  <2>. QED
    BY ONLY <1>10, <2>5, <2>6, <2>7
<1>11. CASE doing.call = "write"
  <2>1. PICK k \in Nat, from \in Nat : k = C - b /\ from = s + b
    BY ONLY <1>3, C \in Nat, s \in Nat, b \in Nat
  <2>2. /\ from <= L /\ k \in 0..(L - from) /\ from + k = s + C
        /\ s <= from /\ from <= s + C /\ s + C \in Nat /\ s + C <= L /\ t = L - from
    <3>1. b + t >= C
      BY ONLY <1>9, <1>11
    <3>. QED
      BY ONLY <1>3, <1>5, <2>1, <3>1, s \in Nat, b \in Nat, t \in Nat, C \in Nat, L \in Nat
  <2>3. buf = Bytes(s, from) /\ todo = Bytes(from, L)
    BY ONLY <1>5, <2>1
  <2>4. /\ SubSeq(Bytes(from, L), 1, k) = Bytes(from, from + k)
        /\ SubSeq(Bytes(from, L), k + 1, L - from) = Bytes(from + k, L)
    <3>1. from <= L /\ k \in 0..(L - from)
      BY ONLY <2>2
    <3>. QED
      BY ONLY <3>1, L \in Nat, from \in Nat, BytesSplit, Zenon
  <2>5. Bytes(s, from) \o Bytes(from, s + C) = Bytes(s, s + C)
    BY ONLY <2>1, <2>2, s \in Nat, BytesConcat
  <2>6. next = Bytes(s, s + C)
    <3>1. CASE buf # <<>>
      <4>1. Least(C - b, t) = k
        <5>1. k <= t
          BY ONLY <2>2, t \in Nat, L \in Nat, from \in Nat
        <5>2. Least(k, t) = k
          BY ONLY <5>1, LeastIs, k \in Nat, t \in Nat
        <5>. QED
          BY ONLY <2>1, <5>2
      <4>2. next = buf \o SubSeq(todo, 1, k)
        BY ONLY <1>9, <1>11, <3>1, <4>1
      <4>. QED
        BY ONLY <2>2, <2>3, <2>4, <2>5, <4>2
    <3>2. CASE buf = <<>>
      <4>1. k = C /\ from = s /\ next = SubSeq(todo, 1, C)
        BY ONLY <1>6, <1>9, <1>11, <2>1, <3>2, s \in Nat, C \in Nat
      <4>. QED
        BY ONLY <2>3, <2>4, <4>1
    <3>. QED
      BY ONLY <3>1, <3>2
  <2>7. Len(next) = C
    <3>1. Len(Bytes(s, s + C)) = (s + C) - s
      <4>1. s \in Nat /\ s + C \in Nat /\ s <= s + C
        BY ONLY <2>2, s \in Nat, C \in Nat
      <4>. QED
        BY ONLY <4>1, BytesIs
    <3>. QED
      BY ONLY <2>6, <3>1, s \in Nat, C \in Nat
  <2>8. rest = Bytes(s + C, L)
    <3>1. rest = SubSeq(todo, k + 1, t)
      <4>1. rest = SubSeq(todo, C - b + 1, t)
        BY ONLY <1>8, <1>11, <2>7
      <4>. QED
        BY ONLY <2>1, <4>1
    <3>. QED
      BY ONLY <2>2, <2>3, <2>4, <3>1
  <2>9. (strayed = FALSE => s = file.chunk * ChunkSize) /\ C \in 1..C
    <3>1. C \in 1..C
      BY ONLY C \in Nat \ {0}
    <3>. QED
      BY ONLY <1>11, <1>13, <3>1, Zenon
  <2>. QED
    BY ONLY <1>1, <1>7, <1>11, <1>12, <2>2, <2>6, <2>8, <2>9
<1>. QED
  BY <1>10, <1>11

\* When there is none, what Write leaves fits in the buffer.
LEMMA NoNextChunk ==
  ASSUME GridAssumption, GridTypes, SizesOk, doing.call = "write", NextChunk = <<>>
  PROVE  Len(file.wbuf) + Len(doing.todo) <= ChunkSize
<1>1. PICK buf \in Seq(Nat), todo \in Seq(Nat), C \in Nat \ {0} :
        buf = file.wbuf /\ todo = doing.todo /\ C = ChunkSize
  BY Sizes DEF GridTypes, GridFile, UserCall
<1>2. PICK b \in Nat, t \in Nat : b = Len(buf) /\ t = Len(todo)
  OBVIOUS
<1>3. b <= C /\ (b = 0 <=> buf = <<>>)
  BY <1>1, <1>2, EmptySeq DEF SizesOk
<1>4. /\ b + t >= C /\ buf # <<>> => NextChunk = buf \o SubSeq(todo, 1, Missing)
      /\ b + t >= C /\ buf = <<>> /\ t > C => NextChunk = SubSeq(todo, 1, C)
      /\ Missing = Least(C - b, t)
  BY ONLY <1>1, <1>2, NextChunkCases, doing.call = "write"
<1>5. ASSUME b + t >= C, buf # <<>> PROVE FALSE
  <2>1. Missing \in Int /\ Missing <= t
    BY ONLY <1>2, <1>4, LeastIs, C \in Nat
  <2>2. \A i \in 1..Missing : todo[i] \in Nat
    BY ONLY <1>2, <2>1, ElementOfSeq, todo \in Seq(Nat)
  <2>3. SubSeq(todo, 1, Missing) \in Seq(Nat)
    BY ONLY <2>1, <2>2, SubSeqProperties
  <2>4. buf \o SubSeq(todo, 1, Missing) = <<>>
    BY <1>4, <1>5
  <2>. QED
    BY ONLY <1>5, <2>3, <2>4, ConcatEqualIffEmpty, buf \in Seq(Nat)
<1>6. ASSUME b + t >= C, buf = <<>>, t > C PROVE FALSE
  <2>1. \A i \in 1..C : todo[i] \in Nat
    BY ONLY <1>2, <1>6, ElementOfSeq, todo \in Seq(Nat), C \in Nat
  <2>2. Len(SubSeq(todo, 1, C)) = C
    BY ONLY <2>1, SubSeqProperties, C \in Nat \ {0}
  <2>3. SubSeq(todo, 1, C) = <<>>
    BY <1>4, <1>6
  <2>. QED
    BY ONLY <2>2, <2>3, EmptySeq, C \in Nat \ {0}
<1>7. b + t <= C
  BY ONLY <1>2, <1>3, <1>4, <1>5, <1>6, C \in Nat
<1>. QED
  BY <1>1, <1>2, <1>7

----------------------------------------------------------------------------
(* What a step leaves alone                                                *)

LEMMA ChunksSame ==
  ASSUME ChunksOk, UNCHANGED <<chunks, inserts>>, strayed' = FALSE => strayed = FALSE,
         file'.length = file.length,
         \/ file'.mode # "writing"
         \/ file'.mode = file.mode /\ file'.err = file.err /\ file'.chunk = file.chunk
  PROVE  ChunksOk'
<1>. SUFFICES ASSUME strayed' = FALSE PROVE ChunksOk'
  BY DEF ChunksOk
<1>1. ASSUME NEW n, NEW data PROVE ChunkOk(n, data)' <=> ChunkOk(n, data)
  BY DEF ChunkOk
<1>2. ASSUME NEW n PROVE (Present(n)' <=> Present(n)) /\ (OnItsWay(n)' <=> OnItsWay(n))
  BY DEF Present, OnItsWay
<1>3. CASE file'.mode # "writing"
  BY <1>1, <1>3 DEF ChunksOk
<1>4. CASE file'.mode = file.mode /\ file'.err = file.err /\ file'.chunk = file.chunk
  BY <1>1, <1>2, <1>4 DEF ChunksOk
<1>. QED
  BY <1>3, <1>4

LEMMA DocSame ==
  ASSUME DocOk, UNCHANGED <<chunks, fileDoc, removal>>, strayed' = FALSE => strayed = FALSE,
         file'.length = file.length
  PROVE  DocOk'
BY DEF DocOk, Present

LEMMA FetchSame ==
  ASSUME FetchOk, UNCHANGED fetch, strayed' = FALSE => strayed = FALSE, file'.length = file.length
  PROVE  FetchOk'
BY DEF FetchOk

LEMMA ReaderSame ==
  ASSUME ReaderOk, UNCHANGED <<failed, panicked>>, strayed' = FALSE => strayed = FALSE,
         file'.length = file.length, file'.offset = file.offset,
         file'.rbuf = file.rbuf, file'.chunk = file.chunk,
         file'.mode = "reading" => file.mode = "reading"
  PROVE  ReaderOk'
BY DEF ReaderOk, ReaderAt

\* The fields of a reader are not used while the file is written.
LEMMA NoReader ==
  ASSUME GridAssumption, NEW f, f.chunk \in Nat, f.length \in Nat, NEW bad, NEW panic,
         f.rbuf = <<>>, f.offset = 0, f.mode = "writing"
  PROVE  ReaderAt(f, bad, panic)
<1>1. f.chunk \in Nat /\ f.length \in Nat /\ ChunkSize \in Nat
  BY Sizes
<1>2. 0 <= f.chunk * ChunkSize /\ 0 <= f.length /\ 0 <= ChunkSize
  BY ONLY <1>1
<1>. QED
  BY ONLY <1>2, EmptySeq, f.rbuf = <<>>, f.offset = 0, f.mode = "writing" DEF ReaderAt

LEMMA SizesSame ==
  ASSUME SizesOk, UNCHANGED inserts, file'.wbuf = file.wbuf, file'.wpending = file.wpending,
         file'.idOk = file.idOk,
         file'.mode = "writing" \/ file.mode # "writing"
  PROVE  SizesOk'
BY DEF SizesOk, PendingExact

\* The calls of the user.
LEMMA FreeIs ==
  Free \in UserCall /\ Free.call = "none" /\ Free.todo = <<>> /\ Free.blocked = FALSE
<1>1. <<>> \in Seq(Nat)
  BY EmptySeq
<1>. QED
  BY <1>1 DEF Free, UserCall

LEMMA CloseCall ==
  ASSUME NEW v, v = [Free EXCEPT !.call = "close"]
  PROVE  v \in UserCall /\ v.call = "close" /\ v.todo = <<>> /\ v.blocked = FALSE
<1>1. PICK u \in UserCall : u = Free /\ u.todo = <<>> /\ u.blocked = FALSE
  BY FreeIs
<1>2. v = [u EXCEPT !.call = "close"]
  BY <1>1
<1>. QED
  BY <1>1, <1>2 DEF UserCall

LEMMA WriteCall ==
  ASSUME NEW todo \in Seq(Nat), NEW v, v = [Free EXCEPT !.call = "write", !.todo = todo]
  PROVE  v \in UserCall /\ v.call = "write" /\ v.todo = todo /\ v.blocked = FALSE
<1>1. PICK u \in UserCall : u = Free /\ u.blocked = FALSE
  BY FreeIs
<1>2. v = [u EXCEPT !.call = "write", !.todo = todo]
  BY <1>1
<1>. QED
  BY <1>1, <1>2 DEF UserCall

LEMMA ReadCall ==
  ASSUME NEW k \in Nat, NEW v, v = [Free EXCEPT !.call = "read", !.left = k]
  PROVE  /\ v \in UserCall /\ v.call = "read" /\ v.todo = <<>> /\ v.blocked = FALSE
         /\ v.left = k
<1>1. PICK u \in UserCall : u = Free /\ u.todo = <<>> /\ u.blocked = FALSE
  BY FreeIs
<1>2. v = [u EXCEPT !.call = "read", !.left = k]
  BY <1>1
<1>. QED
  BY <1>1, <1>2 DEF UserCall

----------------------------------------------------------------------------
(* Writing                                                                 *)

LEMMA InitInd ==
  ASSUME GridAssumption, GridInit
  PROVE  GridInd
<1>1. /\ file \in GridFile /\ file.mode = "writing" /\ file.err = FALSE /\ file.chunk = 0
      /\ file.offset = 0 /\ file.wpending = 0 /\ file.wbuf = <<>> /\ file.wsum = <<>>
      /\ file.rbuf = <<>> /\ file.length = 0
  BY EmptySeq, Sizes DEF GridInit, GridFile
<1>2. /\ doing = Free /\ inserts = {} /\ fetch = NoFetch /\ fileDoc = NoDoc /\ removal = "no"
      /\ failed = FALSE /\ panicked = FALSE /\ strayed = FALSE /\ chunks = {}
  BY DEF GridInit
<1>3. <<>> = Bytes(0, 0) /\ Len(<<>>) = 0 /\ <<>> \in Seq(Nat)
  BY BytesEmpty, EmptySeq
<1>4. NoFetch \in Fetching /\ NoDoc \in [length : Int, sum : Seq(Nat)]
  BY <1>3 DEF NoFetch, NoDoc, Fetching
<1>5. GridTypes
  BY <1>1, <1>2, <1>4, FreeIs, FS_EmptySet DEF GridTypes
<1>6. ModesOk
  BY <1>1, <1>2, FreeIs DEF ModesOk
<1>7. WriterOk /\ PlacesOk
  <2>1. Follow(<<>>, <<>>, <<>>, 0)
    BY <1>3 DEF Follow
  <2>2. Summed = 0 /\ file.chunk * ChunkSize = 0
    BY <1>1, <1>3, Sizes DEF Summed
  <2>. QED
    BY <1>1, <1>2, <2>1, <2>2, FreeIs DEF WriterOk, PlacesOk
<1>8. ChunksOk /\ DocOk
  BY <1>1, <1>2 DEF ChunksOk, DocOk
<1>9. FetchOk
  BY <1>2 DEF FetchOk
<1>10. ReaderOk
  BY <1>1, <1>3, Sizes DEF ReaderOk, ReaderAt
<1>11. SizesOk
  BY <1>1, <1>2, <1>3, Sizes, FS_EmptySet DEF SizesOk, PendingExact
<1>. QED
  BY <1>5, <1>6, <1>7, <1>8, <1>9, <1>10, <1>11 DEF GridInd

LEMMA CloseInd ==
  ASSUME GridAssumption, GridInd, Close
  PROVE  GridInd'
<1>1. /\ file.mode # "closed" /\ doing = Free
      /\ UNCHANGED <<file, inserts, fetch, chunks, fileDoc, removal, failed, panicked, strayed>>
  BY DEF Close, external, history
<1>2. /\ doing' \in UserCall /\ doing'.call = "close" /\ doing'.todo = <<>>
      /\ doing'.blocked = FALSE /\ doing.todo = <<>> /\ doing.call = "none"
  <2>1. doing' = [Free EXCEPT !.call = "close"]
    BY DEF Close
  <2>. QED
    BY <1>1, <2>1, CloseCall, FreeIs
<1>3. GridTypes'
  BY <1>1, <1>2 DEF GridInd, GridTypes
<1>4. ModesOk'
  BY <1>1, <1>2 DEF GridInd, ModesOk
<1>5. WriterOk' /\ PlacesOk'
  BY <1>1, <1>2 DEF GridInd, WriterOk, PlacesOk, Summed
<1>6. ChunksOk' /\ DocOk' /\ FetchOk' /\ ReaderOk' /\ SizesOk'
  BY <1>1, ChunksSame, DocSame, FetchSame, ReaderSame, SizesSame DEF GridInd
<1>. QED
  BY <1>3, <1>4, <1>5, <1>6 DEF GridInd

\* Following bytes.
LEMMA FollowLonger ==
  ASSUME NEW sum \in Seq(Nat), NEW buf \in Seq(Nat), NEW length \in Nat, NEW k \in Nat,
         Follow(sum, buf, <<>>, length)
  PROVE  /\ Bytes(length, length + k) \in Seq(Nat)
         /\ Follow(sum, buf, Bytes(length, length + k), length + k)
<1>1. Len(sum) + Len(buf) = length
  BY EmptySeq DEF Follow
<1>2. /\ Bytes(length, length + k) \in Seq(Nat) /\ Len(Bytes(length, length + k)) = k
  <2>1. PICK to \in Nat : to = length + k /\ length <= to /\ to - length = k
    OBVIOUS
  <2>2. Bytes(length, to) \in Seq(Nat) /\ Len(Bytes(length, to)) = k
    BY <2>1, BytesIs
  <2>. QED
    BY ONLY <2>1, <2>2
<1>. QED
  BY <1>1, <1>2 DEF Follow

LEMMA FollowBuffered ==
  ASSUME NEW sum \in Seq(Nat), NEW buf \in Seq(Nat), NEW todo \in Seq(Nat), NEW length \in Nat,
         Follow(sum, buf, todo, length)
  PROVE  /\ buf \o todo \in Seq(Nat) /\ Len(buf \o todo) = Len(buf) + Len(todo)
         /\ Follow(sum, buf \o todo, <<>>, length)
<1>1. buf \o todo \in Seq(Nat) /\ Len(buf \o todo) = Len(buf) + Len(todo)
  BY ConcatProperties
<1>2. PICK s \in Nat, b \in Nat, t \in Nat : s = Len(sum) /\ b = Len(buf) /\ t = Len(todo)
  OBVIOUS
<1>3. /\ sum = Bytes(0, s) /\ buf = Bytes(s, s + b) /\ todo = Bytes(s + b, length)
      /\ s + b + t = length
  BY ONLY <1>2, Follow(sum, buf, todo, length) DEF Follow
<1>4. PICK m \in Nat : m = s + b
  BY ONLY s \in Nat, b \in Nat
<1>5. Bytes(s, m) \o Bytes(m, length) = Bytes(s, length)
  <2>1. s <= m /\ m <= length
    BY ONLY <1>3, <1>4, s \in Nat, b \in Nat, t \in Nat, length \in Nat
  <2>. QED
    BY ONLY <2>1, s \in Nat, m \in Nat, length \in Nat, BytesConcat
<1>6. buf \o todo = Bytes(s, length)
  BY ONLY <1>3, <1>4, <1>5
<1>7. Bytes(length, length) = <<>> /\ Len(<<>>) = 0
  BY BytesEmpty, EmptySeq
<1>8. s + (b + t) = length
  BY ONLY <1>3, s \in Nat, b \in Nat, t \in Nat
<1>9. PICK joined : joined = buf \o todo
  OBVIOUS
<1>10. Len(joined) = b + t /\ joined = Bytes(s, length)
  BY ONLY <1>1, <1>2, <1>6, <1>9
<1>11. s + Len(joined) = length /\ s + Len(joined) + Len(<<>>) = length
  BY ONLY <1>7, <1>8, <1>10, length \in Nat
<1>12. Follow(sum, joined, <<>>, length)
  BY ONLY <1>2, <1>3, <1>7, <1>10, <1>11 DEF Follow
<1>. QED
  BY ONLY <1>1, <1>9, <1>12

LEMMA WriteInd ==
  ASSUME GridAssumption, GridInd, NEW k \in 1..MaxPiece, Write(k)
  PROVE  GridInd'
<1>1. /\ file.mode = "writing" /\ doing = Free /\ file.length + k <= MaxLength
      /\ file' = [file EXCEPT !.length = @ + k]
      /\ UNCHANGED <<inserts, fetch, chunks, fileDoc, removal, failed, panicked, strayed>>
  BY DEF Write, external, history
<1>2. file \in GridFile /\ file.length \in Nat /\ k \in Nat \ {0} /\ file.chunk \in Nat
  BY DEF GridInd, GridTypes, GridFile
<1>3. /\ file' \in GridFile /\ file'.length = file.length + k
      /\ file'.mode = file.mode /\ file'.idOk = file.idOk /\ file'.err = file.err
      /\ file'.chunk = file.chunk
      /\ file'.offset = file.offset /\ file'.wpending = file.wpending
      /\ file'.wbuf = file.wbuf /\ file'.wsum = file.wsum /\ file'.rbuf = file.rbuf
  <2>1. PICK f \in GridFile, l \in 0..MaxLength : f = file /\ l = file.length + k
    BY <1>1, <1>2, Sizes
  <2>2. file' = [f EXCEPT !.length = l]
    BY <1>1, <2>1
  <2>. QED
    BY <2>1, <2>2 DEF GridFile
<1>. DEFINE more == Bytes(file.length, file.length + k)
<1>4. doing.todo = <<>> /\ doing.call = "none"
  BY <1>1, FreeIs
<1>5. more \in Seq(Nat) /\ Follow(file.wsum, file.wbuf, more, file.length + k)
  BY <1>1, <1>2, <1>4, FollowLonger DEF GridInd, WriterOk, GridFile
<1>6. /\ doing' \in UserCall /\ doing'.call = "write" /\ doing'.todo = more
      /\ doing'.blocked = FALSE
  <2>1. doing' = [Free EXCEPT !.call = "write", !.todo = more]
    BY DEF Write
  <2>. HIDE DEF more
  <2>2. more \in Seq(Nat)
    BY <1>5
  <2>. QED
    BY ONLY <2>1, <2>2, WriteCall, Zenon
<1>. HIDE DEF more
<1>7. GridTypes'
  BY <1>1, <1>3, <1>6 DEF GridInd, GridTypes
<1>8. ModesOk'
  BY <1>1, <1>3, <1>6 DEF GridInd, ModesOk
<1>15. Summed' = Summed
  BY <1>3 DEF Summed
<1>9. WriterOk'
  BY <1>1, <1>3, <1>5, <1>6, <1>15 DEF GridInd, WriterOk
<1>16. PlacesOk'
  BY <1>1, <1>3, <1>4, <1>15 DEF GridInd, PlacesOk
<1>10. \* The chunks so far are full: they stay what they are.
       ASSUME strayed = FALSE, NEW n, NEW data, ChunkOk(n, data), n < file.chunk
       PROVE  ChunkOk(n, data)'
  <2>1. n \in Nat /\ n * ChunkSize < file.length
        /\ data = Bytes(n * ChunkSize, Least((n + 1) * ChunkSize, file.length))
    BY <1>10 DEF ChunkOk, Piece
  <2>2. file.chunk * ChunkSize <= file.length
    <3>1. Summed = file.chunk * ChunkSize /\ Follow(file.wsum, file.wbuf, <<>>, file.length)
      BY <1>1, <1>4, <1>10 DEF GridInd, WriterOk, PlacesOk
    <3>2. PICK sum \in Seq(Nat), buf \in Seq(Nat) : sum = file.wsum /\ buf = file.wbuf
      BY <1>2 DEF GridFile
    <3>3. Len(sum) + Len(buf) = file.length
      <4>1. Len(sum) + Len(buf) + Len(<<>>) = file.length
        BY ONLY <3>1, <3>2 DEF Follow
      <4>. QED
        BY ONLY <4>1, EmptySeq, sum \in Seq(Nat), buf \in Seq(Nat)
    <3>4. Len(sum) <= file.length
      BY ONLY <1>2, <3>3, sum \in Seq(Nat), buf \in Seq(Nat)
    <3>. QED
      BY <3>1, <3>2, <3>4 DEF Summed
  <2>3. PICK L \in Nat, K \in Nat : L = file.length /\ K = file.length + k /\ L <= K
    BY <1>2
  <2>4. (n + 1) * ChunkSize <= L /\ (n + 1) * ChunkSize \in Nat /\ n * ChunkSize \in Nat
    <3>1. PICK m \in Nat : m = file.chunk
      BY <1>2
    <3>2. /\ (n + 1) * ChunkSize <= m * ChunkSize /\ n * ChunkSize \in Nat
          /\ m * ChunkSize <= L
      BY <1>10, <2>1, <2>2, <2>3, <3>1, ChunkPlaces
    <3>3. (n + 1) * ChunkSize \in Nat /\ m * ChunkSize \in Nat
      BY <2>1, <3>1, Sizes
    <3>. QED
      BY ONLY <3>2, <3>3, L \in Nat
  <2>5. PICK e \in Nat : e = (n + 1) * ChunkSize
    BY <2>4
  <2>6. Least(e, L) = e /\ Least(e, K) = e
    BY ONLY <2>3, <2>4, <2>5, LeastIs, e \in Nat, L \in Nat, K \in Nat
  <2>7. n * ChunkSize < K
    BY ONLY <2>1, <2>3, <2>4, L \in Nat, K \in Nat
  <2>. QED
    BY <1>3, <2>1, <2>3, <2>5, <2>6, <2>7 DEF ChunkOk, Piece
<1>11. ChunksOk'
  <2>. SUFFICES ASSUME strayed = FALSE PROVE ChunksOk'
    BY <1>1 DEF ChunksOk
  <2>1. /\ \A c \in chunks : ChunkOk(c.n, c.data) /\ c.n < file.chunk
        /\ \A c \in inserts : ChunkOk(c.n, c.data) /\ c.n < file.chunk
    BY <1>1 DEF GridInd, ChunksOk
  <2>2. /\ \A c \in chunks : ChunkOk(c.n, c.data)'
        /\ \A c \in inserts : ChunkOk(c.n, c.data)'
    BY <1>1, <1>10, <2>1
  <2>3. \A n : (Present(n)' <=> Present(n)) /\ (OnItsWay(n)' <=> OnItsWay(n))
    BY <1>1 DEF Present, OnItsWay
  <2>. QED
    BY <1>1, <1>3, <2>1, <2>2, <2>3 DEF GridInd, ChunksOk
<1>12. FetchOk' /\ DocOk'
  BY <1>1 DEF GridInd, FetchOk, DocOk, PlacesOk, ModesOk
<1>13. ReaderOk'
  <2>. SUFFICES ASSUME strayed = FALSE PROVE ReaderAt(file', failed', panicked')
    BY <1>1 DEF ReaderOk
  <2>1. file.rbuf = <<>> /\ file.offset = 0
    BY <1>1 DEF GridInd, PlacesOk
  <2>2. file'.chunk \in Nat /\ file'.length \in 0..MaxLength
    BY ONLY <1>3 DEF GridFile
  <2>3. file'.length \in Nat
    BY ONLY <2>2, Sizes, GridAssumption
  <2>4. file'.rbuf = <<>> /\ file'.offset = 0 /\ file'.mode = "writing"
    BY <1>1, <1>3, <2>1
  <2>. QED
    BY ONLY <2>2, <2>3, <2>4, NoReader, GridAssumption
<1>14. SizesOk'
  BY <1>1, <1>3, SizesSame DEF GridInd
<1>. QED
  BY <1>7, <1>8, <1>9, <1>11, <1>12, <1>13, <1>14, <1>16 DEF GridInd

LEMMA WriteReturnsInd ==
  ASSUME GridAssumption, GridInd, WriteReturns
  PROVE  GridInd'
<1>1. /\ doing.call = "write" /\ NextChunk = <<>> /\ doing' = Free /\ file.mode = "writing"
      /\ file' = [file EXCEPT !.wbuf = @ \o doing.todo]
      /\ UNCHANGED <<inserts, fetch, chunks, fileDoc, removal, failed, panicked, strayed>>
  BY DEF WriteReturns, external, history, GridInd, ModesOk
<1>2. PICK sum \in Seq(Nat), buf \in Seq(Nat), todo \in Seq(Nat), L \in Nat :
        sum = file.wsum /\ buf = file.wbuf /\ todo = doing.todo /\ L = file.length
  <2>1. file.wsum \in Seq(Nat) /\ file.wbuf \in Seq(Nat) /\ doing.todo \in Seq(Nat)
        /\ file.length \in Nat
    BY Sizes DEF GridInd, GridTypes, GridFile, UserCall
  <2>. QED
    BY <2>1
<1>3. PICK all : all = buf \o todo
  OBVIOUS
<1>4. Follow(sum, buf, todo, L)
  BY <1>1, <1>2 DEF GridInd, WriterOk
<1>5. all \in Seq(Nat) /\ Len(all) = Len(buf) + Len(todo) /\ Follow(sum, all, <<>>, L)
  BY ONLY <1>3, <1>4, FollowBuffered, sum \in Seq(Nat), buf \in Seq(Nat), todo \in Seq(Nat),
     L \in Nat
<1>6. Len(all) <= ChunkSize
  <2>1. Len(file.wbuf) + Len(doing.todo) <= ChunkSize
    BY <1>1, NoNextChunk DEF GridInd
  <2>. QED
    BY ONLY <1>2, <1>5, <2>1
<1>7. /\ file' \in GridFile /\ file'.wbuf = all /\ file'.length = file.length
      /\ file'.mode = file.mode /\ file'.idOk = file.idOk /\ file'.err = file.err
      /\ file'.chunk = file.chunk
      /\ file'.offset = file.offset /\ file'.wpending = file.wpending
      /\ file'.wsum = file.wsum /\ file'.rbuf = file.rbuf
  <2>1. PICK f \in GridFile : f = file
    BY DEF GridInd, GridTypes
  <2>2. file' = [f EXCEPT !.wbuf = all]
    BY <1>1, <1>2, <1>3, <2>1
  <2>. QED
    BY <1>5, <2>1, <2>2 DEF GridFile
<1>8. GridTypes'
  BY <1>1, <1>7, FreeIs DEF GridInd, GridTypes
<1>9. ModesOk'
  BY <1>1, <1>7, FreeIs DEF GridInd, ModesOk
<1>10. WriterOk' /\ PlacesOk'
  <2>1. Summed' = Summed
    BY <1>7 DEF Summed
  <2>2. Follow(file'.wsum, file'.wbuf, doing'.todo, file'.length)
    BY <1>1, <1>2, <1>5, <1>7, FreeIs
  <2>. QED
    BY <1>1, <1>7, <2>1, <2>2 DEF GridInd, WriterOk, PlacesOk
<1>11. ChunksOk' /\ DocOk' /\ FetchOk' /\ ReaderOk'
  BY <1>1, <1>7, ChunksSame, DocSame, FetchSame, ReaderSame DEF GridInd
<1>12. SizesOk'
  BY <1>1, <1>6, <1>7 DEF GridInd, SizesOk, PendingExact
<1>. QED
  BY <1>8, <1>9, <1>10, <1>11, <1>12 DEF GridInd

LEMMA FollowFlushed ==
  ASSUME NEW sum \in Seq(Nat), NEW length \in Nat, NEW k \in Nat, sum = Bytes(0, Len(sum)),
         Len(sum) + k <= length
  PROVE  LET to == Len(sum) + k
             new == sum \o Bytes(Len(sum), to)
         IN  /\ Bytes(Len(sum), to) \in Seq(Nat) /\ new \in Seq(Nat) /\ Len(new) = to
             /\ Bytes(to, length) \in Seq(Nat)
             /\ Follow(new, <<>>, Bytes(to, length), length)
<1>1. PICK s \in Nat, to \in Nat : s = Len(sum) /\ to = s + k
  OBVIOUS
<1>2. s <= to /\ to <= length /\ 0 <= s
  BY <1>1
<1>3. /\ Bytes(s, to) \in Seq(Nat) /\ Bytes(to, length) \in Seq(Nat)
      /\ Len(Bytes(to, length)) = length - to
      /\ Bytes(0, to) \in Seq(Nat) /\ Len(Bytes(0, to)) = to - 0
  <2>1. /\ Bytes(s, to) \in Seq(Nat) /\ Bytes(0, to) \in Seq(Nat) /\ Len(Bytes(0, to)) = to - 0
    <3>1. 0 <= to /\ 0 \in Nat
      BY ONLY to \in Nat
    <3>2. Bytes(0, to) \in Seq(Nat) /\ Len(Bytes(0, to)) = to - 0
      BY ONLY <3>1, BytesIs, to \in Nat
    <3>3. Bytes(s, to) \in Seq(Nat)
      BY ONLY <1>2, BytesIs, s \in Nat, to \in Nat
    <3>. QED
      BY ONLY <3>2, <3>3
  <2>2. Bytes(to, length) \in Seq(Nat) /\ Len(Bytes(to, length)) = length - to
    BY ONLY <1>2, BytesIs, length \in Nat, to \in Nat
  <2>. QED
    BY ONLY <2>1, <2>2
<1>4. Bytes(0, s) \o Bytes(s, to) = Bytes(0, to)
  BY ONLY <1>2, BytesConcat, s \in Nat, to \in Nat
<1>5. PICK new : new = sum \o Bytes(s, to)
  OBVIOUS
<1>6. new = Bytes(0, to) /\ new \in Seq(Nat) /\ Len(new) = to
  <2>1. to - 0 = to
    OBVIOUS
  <2>. QED
    BY ONLY <1>1, <1>3, <1>4, <1>5, <2>1, sum = Bytes(0, Len(sum))
<1>7. PICK rest : rest = Bytes(to, length)
  OBVIOUS
<1>8. Bytes(to, to) = <<>> /\ Len(<<>>) = 0
  BY ONLY BytesEmpty, EmptySeq, to \in Nat
<1>9. to + 0 = to /\ to + Len(rest) = length
  BY ONLY <1>2, <1>3, <1>7, to \in Nat, length \in Nat
<1>10. Follow(new, <<>>, rest, length)
  BY ONLY <1>6, <1>7, <1>8, <1>9 DEF Follow
<1>. QED
  BY ONLY <1>1, <1>3, <1>5, <1>6, <1>7, <1>10

LEMMA FirstByte ==
  ASSUME NEW from \in Nat, NEW to \in Nat, from < to
  PROVE  Bytes(from, to)[1] = from + 1
<1>1. from <= to /\ 1 \in 1..(to - from)
  OBVIOUS
<1>2. \A k \in 1..(to - from) : Bytes(from, to)[k] = from + k
  BY ONLY <1>1, BytesIs, from \in Nat, to \in Nat
<1>. QED
  BY ONLY <1>1, <1>2

\* The chunk handed over is of bytes that were not summed before.
LEMMA NewBytes ==
  ASSUME NEW s \in Nat, NEW to \in Nat, s < to, NEW data, data = Bytes(s, to)
  PROVE  /\ Earlier(data, to) /\ ~Earlier(data, s)
         /\ \A d : Earlier(d, s) => Earlier(d, to)
<1>1. Earlier(data, to)
  BY DEF Earlier
<1>2. ASSUME NEW a \in Nat, NEW b \in Nat, a < b, b <= s, data = Bytes(a, b)
      PROVE  FALSE
  <2>1. data[1] = a + 1 /\ data[1] = s + 1
    <3>1. Bytes(a, b)[1] = a + 1
      BY ONLY <1>2, FirstByte
    <3>2. Bytes(s, to)[1] = s + 1
      BY ONLY FirstByte, s \in Nat, to \in Nat, s < to
    <3>. QED
      BY ONLY <1>2, <3>1, <3>2, data = Bytes(s, to)
  <2>. QED
    BY ONLY <1>2, <2>1, s \in Nat
<1>3. ASSUME NEW d, NEW a \in Nat, NEW b \in Nat, a < b, b <= s, d = Bytes(a, b)
      PROVE  Earlier(d, to)
  <2>1. b <= to
    BY ONLY <1>3, s \in Nat, to \in Nat, s < to
  <2>. QED
    BY ONLY <1>3, <2>1, a \in Nat, b \in Nat DEF Earlier
<1>. QED
  BY ONLY <1>1, <1>2, <1>3 DEF Earlier

\* What becomes of the file when Write or Close hands a chunk over.
LEMMA FlushedParts ==
  ASSUME GridAssumption, GridInd, file.mode = "writing", doing.call \in {"write", "close"},
         NextChunk # <<>>, doing' = [doing EXCEPT !.todo = Rest, !.blocked = FALSE],
         file'.wbuf = <<>>, file'.wsum = file.wsum \o NextChunk, file'.chunk = file.chunk + 1,
         file'.length = file.length, file'.mode = file.mode, file'.offset = file.offset,
         file'.rbuf = file.rbuf,
         UNCHANGED <<fetch, chunks, fileDoc, removal, failed, panicked, strayed>>
  PROVE  /\ doing' \in UserCall /\ file'.wsum \in Seq(Nat) /\ NextChunk \in Seq(Nat)
         /\ Follow(file'.wsum, file'.wbuf, doing'.todo, file'.length)
         /\ Earlier(NextChunk, Summed') /\ ~Earlier(NextChunk, Summed)
         /\ \A data : Earlier(data, Summed) => Earlier(data, Summed')
         /\ ModesOk' /\ DocOk' /\ PlacesOk' /\ FetchOk' /\ ReaderOk'
         /\ strayed = FALSE =>
              \E m, next : m = file.chunk /\ next = NextChunk /\ ChunkOk(m, next)'
         /\ \A n, data : ChunkOk(n, data) => ChunkOk(n, data)'
<1>1. PICK sum \in Seq(Nat), C \in Nat \ {0}, L \in Nat, n \in Nat :
        sum = file.wsum /\ C = ChunkSize /\ L = file.length /\ n = file.chunk
  <2>1. file.wsum \in Seq(Nat) /\ file.length \in Nat /\ file.chunk \in Nat
    BY Sizes DEF GridInd, GridTypes, GridFile
  <2>. QED
    BY <2>1, Sizes
<1>2. PICK k \in 1..C :
        /\ NextChunk = Bytes(Summed, Summed + k) /\ Rest = Bytes(Summed + k, file.length)
        /\ strayed = FALSE => Summed = file.chunk * ChunkSize
        /\ Summed + k <= file.length
        /\ k # ChunkSize => doing.call = "close" /\ Summed + k = file.length
        /\ doing.call # "write" => Rest = <<>>
  BY <1>1, NextChunkIs DEF GridInd
<1>3. PICK s \in Nat, to \in Nat : s = Summed /\ s = Len(sum) /\ to = s + k
  <2>1. Summed = Len(sum)
    BY <1>1 DEF Summed
  <2>2. Len(sum) \in Nat /\ k \in Nat /\ Len(sum) + k \in Nat
    BY ONLY sum \in Seq(Nat), C \in Nat \ {0}, k \in 1..C
  <2>. QED
    BY ONLY <2>1, <2>2
<1>4. sum = Bytes(0, s) /\ (strayed = FALSE => s = n * C) /\ to <= L
  <2>1. Follow(file.wsum, file.wbuf, doing.todo, file.length)
    BY DEF GridInd, WriterOk
  <2>2. file.wsum = Bytes(0, Len(file.wsum))
    BY ONLY <2>1 DEF Follow
  <2>. QED
    BY <1>1, <1>2, <1>3, <2>2
<1>5. PICK next, rest, new : next = NextChunk /\ rest = Rest /\ new = sum \o next
  OBVIOUS
<1>6. /\ next \in Seq(Nat) /\ new \in Seq(Nat) /\ Len(new) = to /\ rest \in Seq(Nat)
      /\ Follow(new, <<>>, rest, L)
  <2>1. k \in Nat /\ sum = Bytes(0, Len(sum)) /\ Len(sum) + k <= L
    BY ONLY <1>3, <1>4, k \in 1..C, C \in Nat
  <2>2. /\ Bytes(Len(sum), Len(sum) + k) \in Seq(Nat)
        /\ sum \o Bytes(Len(sum), Len(sum) + k) \in Seq(Nat)
        /\ Len(sum \o Bytes(Len(sum), Len(sum) + k)) = Len(sum) + k
        /\ Bytes(Len(sum) + k, L) \in Seq(Nat)
        /\ Follow(sum \o Bytes(Len(sum), Len(sum) + k), <<>>, Bytes(Len(sum) + k, L), L)
    BY ONLY <2>1, FollowFlushed, sum \in Seq(Nat), L \in Nat
  <2>3. /\ next = Bytes(Len(sum), Len(sum) + k) /\ rest = Bytes(Len(sum) + k, L)
        /\ to = Len(sum) + k
    BY ONLY <1>1, <1>2, <1>3, <1>5
  <2>. QED
    BY ONLY <1>5, <2>2, <2>3
<1>7. /\ doing' \in UserCall /\ doing'.call = doing.call /\ doing'.todo = rest
      /\ doing'.blocked = FALSE
  <2>1. PICK u \in UserCall : u = doing
    BY DEF GridInd, GridTypes
  <2>2. doing' = [u EXCEPT !.todo = rest, !.blocked = FALSE]
    BY <1>5, <2>1
  <2>. QED
    BY <1>6, <2>1, <2>2 DEF UserCall
<1>8. ModesOk'
  BY <1>2, <1>5, <1>7 DEF GridInd, ModesOk
<1>9. (n + 1) * C = n * C + C /\ (n + 1) * C \in Nat
  <2>1. (n + 1) * ChunkSize = n * ChunkSize + ChunkSize /\ n * ChunkSize \in Nat
    BY ChunkPlaces
  <2>2. ChunkSize = C
    BY <1>1
  <2>. QED
    BY ONLY <2>1, <2>2, C \in Nat
<1>16. Summed' = to /\ file'.wsum = new /\ file'.mode = "writing"
  BY <1>1, <1>5, <1>6 DEF Summed
<1>10. /\ Follow(file'.wsum, file'.wbuf, doing'.todo, file'.length)
       /\ Earlier(NextChunk, Summed') /\ ~Earlier(NextChunk, Summed)
       /\ \A data : Earlier(data, Summed) => Earlier(data, Summed')
  <2>1. Follow(new, <<>>, doing'.todo, file'.length)
    BY <1>1, <1>6, <1>7
  <2>2. s < to
    BY ONLY <1>3, k \in 1..C, C \in Nat, s \in Nat
  <2>3. next = Bytes(s, to)
    BY ONLY <1>2, <1>3, <1>5
  <2>4. /\ Earlier(next, to) /\ ~Earlier(next, s)
        /\ \A d : Earlier(d, s) => Earlier(d, to)
    BY ONLY <2>2, <2>3, NewBytes, s \in Nat, to \in Nat
  <2>. QED
    BY ONLY <1>3, <1>5, <1>16, <2>1, <2>4, file'.wbuf = <<>>
<1>17. PlacesOk'
  <2>. SUFFICES ASSUME strayed = FALSE PROVE PlacesOk'
    BY DEF PlacesOk
  <2>1. to <= (n + 1) * C /\ (to # (n + 1) * C => k # C)
    BY ONLY <1>3, <1>4, <1>9, strayed = FALSE, k \in 1..C, C \in Nat, s \in Nat
  <2>2. to # (n + 1) * C => doing.call = "close"
    BY ONLY <1>1, <1>2, <2>1
  <2>3. file'.chunk * ChunkSize = (n + 1) * C
    BY <1>1
  <2>4. file.rbuf = <<>> /\ file.offset = 0 /\ fetch = NoFetch
    BY DEF GridInd, PlacesOk
  <2>. QED
    BY <1>7, <1>16, <2>1, <2>2, <2>3, <2>4 DEF PlacesOk
<1>11. ReaderOk'
  <2>. SUFFICES ASSUME strayed = FALSE PROVE ReaderAt(file', failed', panicked')
    BY DEF ReaderOk
  <2>1. file.rbuf = <<>> /\ file.offset = 0
    BY DEF GridInd, PlacesOk
  <2>2. file'.chunk = n + 1 /\ file'.length = L
    BY <1>1
  <2>3. file'.chunk \in Nat /\ file'.length \in Nat
    BY ONLY <2>2, n \in Nat, L \in Nat
  <2>4. file'.rbuf = <<>> /\ file'.offset = 0 /\ file'.mode = "writing"
    BY <2>1
  <2>. QED
    BY ONLY <2>3, <2>4, NoReader, GridAssumption
<1>12. ASSUME strayed = FALSE
       PROVE  \E m, d : m = file.chunk /\ d = NextChunk /\ ChunkOk(m, d)'
  <2>1. n * C < L
    BY ONLY <1>3, <1>4, <1>12, k \in 1..C, C \in Nat, L \in Nat, s \in Nat
  <2>2. Least((n + 1) * C, L) = to
    <3>1. PICK e \in Nat : e = (n + 1) * C /\ e = s + C
      BY ONLY <1>4, <1>9, <1>12
    <3>2. k # C => to = L
      BY ONLY <1>1, <1>2, <1>3
    <3>3. (k = C /\ e = to) \/ (to = L /\ to <= e)
      BY ONLY <1>3, <3>1, <3>2, k \in 1..C, C \in Nat, s \in Nat
    <3>4. Least(e, L) = to
      BY ONLY <1>4, <3>3, LeastIs, e \in Nat, L \in Nat, to \in Nat
    <3>. QED
      BY ONLY <3>1, <3>4
  <2>3. next = Bytes(n * C, to)
    BY ONLY <1>2, <1>3, <1>4, <1>5, <1>12
  <2>4. n \in Nat /\ n * C < L /\ next = Bytes(n * C, Least((n + 1) * C, L))
    BY ONLY <2>1, <2>2, <2>3, n \in Nat
  <2>5. ChunkOk(n, next)'
    BY <1>1, <2>4 DEF ChunkOk, Piece
  <2>. QED
    BY <1>1, <1>5, <2>5
<1>13. \A m, data : ChunkOk(m, data) => ChunkOk(m, data)'
  BY DEF ChunkOk, Piece
<1>14. FetchOk' /\ DocOk'
  BY FetchSame, DocSame DEF GridInd
<1>15. file'.wsum \in Seq(Nat) /\ NextChunk \in Seq(Nat)
  BY <1>1, <1>5, <1>6
<1>. QED
  BY <1>7, <1>8, <1>10, <1>11, <1>12, <1>13, <1>14, <1>15, <1>17

LEMMA NextChunkSeq ==
  ASSUME GridAssumption, GridInd, file.mode = "writing", doing.call \in {"write", "close"},
         NextChunk # <<>>
  PROVE  file.wsum \o NextChunk \in Seq(Nat)
<1>1. PICK k \in 1..ChunkSize : NextChunk = Bytes(Summed, Summed + k)
  BY NextChunkIs DEF GridInd
<1>2. file.wsum \in Seq(Nat) /\ ChunkSize \in Nat
  BY Sizes DEF GridInd, GridTypes, GridFile
<1>3. PICK s \in Nat, to \in Nat : s = Summed /\ to = Summed + k /\ s <= to
  <2>1. Summed \in Nat
    BY <1>2 DEF Summed
  <2>2. k \in Nat
    BY <1>2
  <2>. QED
    BY ONLY <2>1, <2>2
<1>4. Bytes(s, to) \in Seq(Nat)
  BY <1>3, BytesIs
<1>. QED
  BY <1>1, <1>2, <1>3, <1>4

\* The file after a chunk was numbered and summed, and after it was handed over.
ChunkCounted(f, next, i) ==
  /\ i \in GridFile /\ i.mode = f.mode /\ i.idOk = f.idOk /\ i.err = f.err
  /\ i.chunk = f.chunk + 1 /\ i.offset = f.offset /\ i.wpending = f.wpending
  /\ i.wsum = f.wsum \o next /\ i.rbuf = f.rbuf /\ i.length = f.length

LEMMA Numbered ==
  ASSUME NEW f \in GridFile, NEW next, f.wsum \o next \in Seq(Nat), NEW i,
         i = insertChunk(f, next)
  PROVE  ChunkCounted(f, next, i)
<1>1. PICK w \in Seq(Nat), n \in Nat : w = f.wsum \o next /\ n = f.chunk + 1
  <2>1. f.chunk + 1 \in Nat
    BY DEF GridFile
  <2>. QED
    BY ONLY <2>1, f.wsum \o next \in Seq(Nat)
<1>2. i = [f EXCEPT !.chunk = n, !.wsum = w]
  BY <1>1 DEF insertChunk
<1>3. /\ i \in GridFile /\ i.mode = f.mode /\ i.idOk = f.idOk /\ i.err = f.err /\ i.chunk = n
      /\ i.offset = f.offset /\ i.wpending = f.wpending /\ i.wsum = w /\ i.rbuf = f.rbuf
      /\ i.length = f.length
  BY ONLY <1>2, f \in GridFile, w \in Seq(Nat), n \in Nat DEF GridFile
<1>. QED
  <2>1. f.chunk + 1 = n /\ f.wsum \o next = w
    BY ONLY <1>1
  <2>. QED
    BY ONLY <1>3, <2>1, Zenon DEF ChunkCounted

Flushed(f) == [f EXCEPT !.wbuf = <<>>]

\* g is f after chunk next, with so many chunks pending, failed or not.
Numbering(f, next, g, pending, err) ==
  /\ g \in GridFile /\ g.mode = f.mode /\ g.idOk = f.idOk /\ g.err = err
  /\ g.chunk = f.chunk + 1 /\ g.offset = f.offset /\ g.wpending = pending /\ g.wbuf = <<>>
  /\ g.wsum = f.wsum \o next /\ g.rbuf = f.rbuf /\ g.length = f.length

LEMMA GivenUp ==
  ASSUME NEW f \in GridFile, NEW next, f.wsum \o next \in Seq(Nat), NEW g,
         g = Flushed(insertChunk(f, next))
  PROVE  Numbering(f, next, g, f.wpending, f.err)
<1>1. PICK i : i = insertChunk(f, next)
  OBVIOUS
<1>2. ChunkCounted(f, next, i)
  BY ONLY <1>1, Numbered, f \in GridFile, f.wsum \o next \in Seq(Nat), Zenon
<1>3. g = [i EXCEPT !.wbuf = <<>>] /\ <<>> \in Seq(Nat)
  BY <1>1, EmptySeq DEF Flushed
<1>. QED
  BY ONLY <1>2, <1>3 DEF GridFile, ChunkCounted, Numbering

LEMMA HandedOver ==
  ASSUME NEW f \in GridFile, NEW next, f.wsum \o next \in Seq(Nat), NEW h,
         h = Flushed(Underway(insertChunk(f, next)))
  PROVE  Numbering(f, next, h, f.wpending + 1, IF f.idOk THEN f.err ELSE TRUE)
<1>1. PICK i : i = insertChunk(f, next)
  OBVIOUS
<1>2. ChunkCounted(f, next, i)
  BY ONLY <1>1, Numbered, f \in GridFile, f.wsum \o next \in Seq(Nat), Zenon
<1>3. PICK pending \in Nat, err \in BOOLEAN :
        pending = f.wpending + 1 /\ err = IF f.idOk THEN f.err ELSE TRUE
  <2>1. f.wpending + 1 \in Nat
    BY DEF GridFile
  <2>2. (IF f.idOk THEN f.err ELSE TRUE) \in BOOLEAN
    BY DEF GridFile
  <2>. QED
    BY ONLY <2>1, <2>2
<1>4. PICK j : j = [i EXCEPT !.wpending = pending, !.err = err]
  OBVIOUS
<1>5. /\ j \in GridFile /\ j.mode = f.mode /\ j.idOk = f.idOk /\ j.err = err
      /\ j.chunk = f.chunk + 1 /\ j.offset = f.offset /\ j.wpending = pending
      /\ j.wsum = f.wsum \o next /\ j.rbuf = f.rbuf /\ j.length = f.length
  BY ONLY <1>2, <1>4, pending \in Nat, err \in BOOLEAN DEF GridFile, ChunkCounted
<1>6. h = [j EXCEPT !.wbuf = <<>>] /\ <<>> \in Seq(Nat)
  <2>1. i.wpending = f.wpending /\ i.err = f.err /\ i.idOk = f.idOk
    BY ONLY <1>2 DEF ChunkCounted
  <2>2. (i.err \/ ~i.idOk) = err
    BY <1>3, <2>1 DEF GridFile
  <2>3. Underway(i) = [i EXCEPT !.wpending = i.wpending + 1, !.err = (i.err \/ ~i.idOk)]
    BY DEF Underway
  <2>4. j = Underway(i)
    BY ONLY <1>3, <1>4, <2>1, <2>2, <2>3
  <2>5. h = Flushed(j)
    BY ONLY <1>1, <2>4, h = Flushed(Underway(insertChunk(f, next)))
  <2>. QED
    BY <2>5, EmptySeq DEF Flushed
<1>. QED
  BY ONLY <1>3, <1>5, <1>6 DEF GridFile, Numbering

\* A chunk that no goroutine inserts: another one has failed, or it cannot be
\* marshalled.
LEMMA NotInserted ==
  ASSUME GridAssumption, GridInd, file.mode = "writing", doing.call \in {"write", "close"},
         NextChunk # <<>>, doing' = [doing EXCEPT !.todo = Rest, !.blocked = FALSE],
         NEW pending \in 0..MaxPending, Numbering(file, NextChunk, file', pending, TRUE),
         file.idOk => pending = file.wpending,
         UNCHANGED <<inserts, fetch, chunks, fileDoc, removal, failed, panicked, strayed>>
  PROVE  GridInd'
<1>0. PICK next : next = NextChunk
  OBVIOUS
<1>1. PICK f \in GridFile : f = file /\ next = NextChunk
  BY <1>0 DEF GridInd, GridTypes
<1>2. /\ file' \in GridFile /\ file'.mode = f.mode /\ file'.idOk = f.idOk /\ file'.err = TRUE
      /\ file'.chunk = f.chunk + 1 /\ file'.offset = f.offset
      /\ file'.wpending = pending /\ file'.wbuf = <<>> /\ file'.wsum = f.wsum \o next
      /\ file'.rbuf = f.rbuf /\ file'.length = f.length
  BY <1>1 DEF Numbering
<1>3. /\ doing' \in UserCall /\ file'.wsum \in Seq(Nat)
      /\ Follow(file'.wsum, file'.wbuf, doing'.todo, file'.length)
      /\ \A data : Earlier(data, Summed) => Earlier(data, Summed')
      /\ ModesOk' /\ DocOk' /\ PlacesOk' /\ FetchOk' /\ ReaderOk'
      /\ \A n, data : ChunkOk(n, data) => ChunkOk(n, data)'
  BY <1>1, <1>2, FlushedParts
<1>4. GridTypes'
  BY <1>1, <1>2, <1>3 DEF GridInd, GridTypes
<1>5. WriterOk'
  BY <1>3 DEF GridInd, WriterOk
<1>6. ChunksOk'
  <2>. SUFFICES ASSUME strayed = FALSE PROVE ChunksOk'
    BY DEF ChunksOk
  <2>1. /\ \A c \in chunks : ChunkOk(c.n, c.data) /\ c.n < f.chunk
        /\ \A c \in inserts : ChunkOk(c.n, c.data) /\ c.n < f.chunk
    BY <1>1 DEF GridInd, ChunksOk
  <2>2. \A n \in Nat : n < f.chunk => n < f.chunk + 1
    BY DEF GridFile
  <2>3. \A c \in chunks \cup inserts : ChunkOk(c.n, c.data)' /\ c.n < f.chunk + 1
    BY <1>3, <2>1, <2>2 DEF ChunkOk
  <2>. QED
    BY <1>2, <2>3 DEF ChunksOk
<1>7. SizesOk'
  <2>1. Len(file'.wbuf) = 0 /\ 0 <= ChunkSize
    BY <1>2, EmptySeq, Sizes
  <2>. QED
    BY <1>1, <1>2, <2>1, Sizes DEF GridInd, SizesOk, PendingExact
<1>. QED
  BY <1>3, <1>4, <1>5, <1>6, <1>7 DEF GridInd

LEMMA Spawning ==
  ASSUME GridAssumption, GridInd, file.mode = "writing", doing.call \in {"write", "close"},
         NextChunk # <<>>, ~Full,
         file' = [Underway(insertChunk(file, NextChunk)) EXCEPT !.wbuf = <<>>],
         inserts' = inserts \cup Spawned(NextChunk),
         doing' = [doing EXCEPT !.todo = Rest, !.blocked = FALSE],
         UNCHANGED <<fetch, chunks, fileDoc, removal, failed, panicked, strayed>>
  PROVE  GridInd'
<1>1. PICK f \in GridFile : f = file
  BY DEF GridInd, GridTypes
<1>2. PICK next : next = NextChunk
  OBVIOUS
<1>8. Numbering(f, next, file', f.wpending + 1, IF f.idOk THEN f.err ELSE TRUE)
  <2>1. f.wsum \o next \in Seq(Nat)
    BY <1>1, <1>2, NextChunkSeq
  <2>2. PICK h : h = Flushed(Underway(insertChunk(f, next)))
    OBVIOUS
  <2>3. file' = h
    BY <1>1, <1>2, <2>2 DEF Flushed
  <2>4. Numbering(f, next, h, f.wpending + 1, IF f.idOk THEN f.err ELSE TRUE)
    BY ONLY <2>1, <2>2, HandedOver, f \in GridFile, Zenon
  <2>. QED
    BY ONLY <2>3, <2>4
<1>9. f.wpending + 1 <= MaxPending /\ f.wpending \in Nat /\ MaxPending \in Nat
  <2>1. f.wpending \in Nat /\ MaxPending \in Nat
    BY Sizes DEF GridFile
  <2>2. ~(f.wpending >= MaxPending)
    BY <1>1 DEF Full
  <2>. QED
    BY ONLY <2>1, <2>2
<1>10. CASE f.idOk = FALSE
  <2>1. inserts' = inserts
    BY <1>1, <1>10 DEF Spawned
  <2>2. Numbering(file, NextChunk, file', f.wpending + 1, TRUE)
    BY <1>1, <1>2, <1>8, <1>10
  <2>3. f.wpending + 1 \in 0..MaxPending
    BY ONLY <1>9
  <2>. QED
    BY <1>1, <1>10, <2>1, <2>2, <2>3, NotInserted
<1>11. CASE f.idOk = TRUE
  <2>12. /\ file' \in GridFile /\ file'.mode = f.mode /\ file'.idOk = TRUE /\ file'.err = f.err
        /\ file'.chunk = f.chunk + 1 /\ file'.offset = f.offset
        /\ file'.wpending = f.wpending + 1 /\ file'.wbuf = <<>> /\ file'.wsum = f.wsum \o next
        /\ file'.rbuf = f.rbuf /\ file'.length = f.length
    BY ONLY <1>8, <1>11 DEF Numbering
  <2>3. /\ doing' \in UserCall /\ file'.wsum \in Seq(Nat) /\ next \in Seq(Nat)
        /\ Follow(file'.wsum, file'.wbuf, doing'.todo, file'.length)
        /\ Earlier(next, Summed') /\ ~Earlier(next, Summed)
        /\ \A data : Earlier(data, Summed) => Earlier(data, Summed')
        /\ ModesOk' /\ DocOk' /\ PlacesOk' /\ FetchOk' /\ ReaderOk'
        /\ strayed = FALSE => \E m, d : m = file.chunk /\ d = NextChunk /\ ChunkOk(m, d)'
        /\ \A n, data : ChunkOk(n, data) => ChunkOk(n, data)'
    BY <1>1, <1>2, <2>12, FlushedParts
  <2>4. PICK c \in Chunk :
          /\ c.n = f.chunk /\ c.data = next /\ inserts' = inserts \cup {c}
          /\ strayed = FALSE => ChunkOk(c.n, c.data)'
    <3>1. PICK m \in Nat : m = f.chunk
      BY DEF GridFile
    <3>2. PICK c : c = [n |-> m, data |-> next]
      OBVIOUS
    <3>3. c \in Chunk /\ c.n = m /\ c.data = next
      BY <2>3, <3>2 DEF Chunk
    <3>4. inserts' = inserts \cup {c}
      BY <1>1, <1>2, <1>11, <3>1, <3>2 DEF Spawned
    <3>5. strayed = FALSE => ChunkOk(c.n, c.data)'
      BY <1>1, <1>2, <2>3, <3>1, <3>3
    <3>. QED
      BY <3>1, <3>3, <3>4, <3>5
  <2>5. GridTypes'
    <3>1. IsFiniteSet(inserts')
      <4>1. IsFiniteSet(inserts)
        BY DEF GridInd, GridTypes
      <4>2. IsFiniteSet(inserts \cup {c})
        BY ONLY <4>1, FS_AddElement
      <4>. QED
        BY ONLY <2>4, <4>2
    <3>. QED
      BY <2>3, <2>4, <2>12, <3>1 DEF GridInd, GridTypes
  <2>6. WriterOk'
    <3>1. \A d \in inserts' : Earlier(d.data, Summed')
      BY <2>3, <2>4 DEF GridInd, WriterOk
    <3>. QED
      BY <2>3, <3>1 DEF WriterOk
  <2>7. ChunksOk'
    <3>. SUFFICES ASSUME strayed = FALSE PROVE ChunksOk'
      BY DEF ChunksOk
    <3>1. /\ \A d \in chunks : ChunkOk(d.n, d.data) /\ d.n < f.chunk
          /\ \A d \in inserts : ChunkOk(d.n, d.data) /\ d.n < f.chunk
          /\ ~f.err => \A n \in 0..(f.chunk - 1) : Present(n) \/ OnItsWay(n)
      BY <1>1 DEF GridInd, ChunksOk
    <3>2. f.chunk \in Nat /\ \A n \in Nat : n < f.chunk => n < f.chunk + 1
      BY DEF GridFile
    <3>3. \A d \in chunks \cup inserts : ChunkOk(d.n, d.data)' /\ d.n < f.chunk + 1
      BY <2>3, <3>1, <3>2 DEF ChunkOk
    <3>4. ChunkOk(c.n, c.data)' /\ c.n < f.chunk + 1
      BY <2>4, <3>2
    <3>5. \A n : (Present(n) => Present(n)') /\ (OnItsWay(n) => OnItsWay(n)')
      BY <2>4 DEF Present, OnItsWay
    <3>6. OnItsWay(f.chunk)'
      BY <2>4 DEF OnItsWay
    <3>7. ~file'.err => \A n \in 0..(f.chunk + 1 - 1) : Present(n)' \/ OnItsWay(n)'
      <4>1. \A n \in 0..(f.chunk + 1 - 1) : n \in 0..(f.chunk - 1) \/ n = f.chunk
        BY ONLY <3>2
      <4>. QED
        BY ONLY <2>12, <3>1, <3>5, <3>6, <4>1
    <3>8. \A d \in inserts' : ChunkOk(d.n, d.data)' /\ d.n < f.chunk + 1
      BY <2>4, <3>3, <3>4
    <3>9. /\ \A d \in chunks' : ChunkOk(d.n, d.data)' /\ d.n < file'.chunk
          /\ \A d \in inserts' : ChunkOk(d.n, d.data)' /\ d.n < file'.chunk
          /\ ~file'.err => \A n \in 0..(file'.chunk - 1) : Present(n)' \/ OnItsWay(n)'
      <4>1. chunks' = chunks
        OBVIOUS
      <4>2. file'.chunk = f.chunk + 1
        BY ONLY <2>12
      <4>3. ~file'.err => \A n \in 0..(file'.chunk - 1) : Present(n)' \/ OnItsWay(n)'
        <5>. SUFFICES ASSUME ~file'.err, NEW n \in 0..(file'.chunk - 1)
                      PROVE  Present(n)' \/ OnItsWay(n)'
          OBVIOUS
        <5>1. n \in 0..(f.chunk + 1 - 1)
          BY ONLY <3>2, <4>2, n \in 0..(file'.chunk - 1)
        <5>. QED
          BY <3>7, <5>1, Zenon
      <4>4. \A d \in chunks' : ChunkOk(d.n, d.data)' /\ d.n < file'.chunk
        BY ONLY <3>3, <4>1, <4>2, Zenon
      <4>5. \A d \in inserts' : ChunkOk(d.n, d.data)' /\ d.n < file'.chunk
        BY ONLY <3>8, <4>2, Zenon
      <4>. QED
        BY ONLY <4>3, <4>4, <4>5
    <3>. QED
      BY ONLY <3>9 DEF ChunksOk
  <2>8. SizesOk'
    <3>1. f.wpending = Cardinality(inserts) /\ IsFiniteSet(inserts)
      BY <1>1, <1>11 DEF GridInd, GridTypes, SizesOk, PendingExact
    <3>2. c \notin inserts
      BY <2>3, <2>4 DEF GridInd, WriterOk
    <3>3. Cardinality(inserts') = Cardinality(inserts) + 1
      BY ONLY <2>4, <3>1, <3>2, FS_AddElement
    <3>4. Len(file'.wbuf) = 0 /\ 0 <= ChunkSize
      BY <2>12, EmptySeq, Sizes
    <3>. QED
      BY <1>1, <1>9, <2>12, <3>1, <3>3, <3>4 DEF SizesOk, PendingExact
  <2>. QED
    BY <2>3, <2>5, <2>6, <2>7, <2>8 DEF GridInd
<1>. QED
  BY <1>10, <1>11 DEF GridFile

LEMMA NextChunkSame ==
  ASSUME doing'.call = doing.call, doing'.todo = doing.todo, file'.wbuf = file.wbuf
  PROVE  NextChunk' = NextChunk
<1>1. Missing' = Missing
  BY Zenon DEF Missing
<1>2. Fills' <=> Fills
  BY Zenon DEF Fills
<1>. QED
  BY <1>1, <1>2, Zenon DEF NextChunk

LEMMA FlushInd ==
  ASSUME GridAssumption, GridInd, Flush
  PROVE  GridInd'
<1>1. /\ doing.call \in {"write", "close"} /\ doing.blocked = FALSE /\ NextChunk # <<>>
      /\ UNCHANGED <<fetch, chunks, fileDoc, removal, failed, panicked, strayed>>
  BY DEF Flush, external, history, GridInd, GridTypes, UserCall
<1>2. file.mode = "writing"
  <2>1. ASSUME doing.call = "close", file.mode # "writing" PROVE FALSE
    <3>1. file.wbuf = <<>>
      BY <2>1 DEF GridInd, ModesOk
    <3>2. NextChunk = file.wbuf
      BY <2>1, NextChunkCases
    <3>. QED
      BY <1>1, <3>1, <3>2
  <2>. QED
    BY <1>1, <2>1 DEF GridInd, ModesOk
<1>3. CASE Full
  <2>1. UNCHANGED <<file, inserts>> /\ doing' = [doing EXCEPT !.blocked = TRUE]
    BY <1>3 DEF Flush
  <2>2. /\ doing' \in UserCall /\ doing'.call = doing.call /\ doing'.todo = doing.todo
        /\ doing'.blocked = TRUE
    BY <2>1 DEF GridInd, GridTypes, UserCall
  <2>3. NextChunk' # <<>>
    BY <1>1, <2>1, <2>2, NextChunkSame
  <2>4. GridTypes'
    BY <1>1, <2>1, <2>2 DEF GridInd, GridTypes
  <2>5. ModesOk'
    BY <1>1, <1>2, <2>1, <2>2, <2>3 DEF GridInd, ModesOk
  <2>6. WriterOk' /\ PlacesOk'
    BY <1>1, <2>1, <2>2 DEF GridInd, WriterOk, PlacesOk, Summed
  <2>7. ChunksOk' /\ DocOk' /\ FetchOk' /\ ReaderOk' /\ SizesOk'
    BY <1>1, <1>2, <2>1, ChunksSame, DocSame, FetchSame, ReaderSame, SizesSame DEF GridInd
  <2>. QED
    BY <2>4, <2>5, <2>6, <2>7 DEF GridInd
<1>4. CASE ~Full
  <2>1. /\ file' = [Underway(insertChunk(file, NextChunk)) EXCEPT !.wbuf = <<>>]
        /\ inserts' = inserts \cup Spawned(NextChunk)
        /\ doing' = [doing EXCEPT !.todo = Rest]
    BY <1>4 DEF Flush
  <2>2. doing' = [doing EXCEPT !.todo = Rest, !.blocked = FALSE]
    <3>1. PICK u \in UserCall : u = doing /\ u.blocked = FALSE
      BY <1>1 DEF GridInd, GridTypes
    <3>2. [u EXCEPT !.todo = Rest] = [u EXCEPT !.todo = Rest, !.blocked = FALSE]
      BY <3>1 DEF UserCall
    <3>. QED
      BY <2>1, <3>1, <3>2
  <2>. QED
    BY <1>1, <1>2, <1>4, <2>1, <2>2, Spawning
<1>. QED
  BY <1>3, <1>4

LEMMA FlushWokenInd ==
  ASSUME GridAssumption, GridInd, FlushWoken
  PROVE  GridInd'
<1>1. /\ file.mode = "writing" /\ doing.call \in {"write", "close"} /\ NextChunk # <<>>
      /\ ~Full /\ doing' = [doing EXCEPT !.todo = Rest, !.blocked = FALSE]
      /\ UNCHANGED <<fetch, chunks, fileDoc, removal, failed, panicked, strayed>>
  BY DEF FlushWoken, external, history, GridInd, ModesOk
<1>2. CASE ~file.err
  <2>1. /\ file' = [Underway(insertChunk(file, NextChunk)) EXCEPT !.wbuf = <<>>]
        /\ inserts' = inserts \cup Spawned(NextChunk)
    BY <1>2 DEF FlushWoken
  <2>. QED
    BY <1>1, <2>1, Spawning
<1>3. CASE file.err
  <2>1. file' = [insertChunk(file, NextChunk) EXCEPT !.wbuf = <<>>] /\ UNCHANGED inserts
    BY <1>3 DEF FlushWoken
  <2>0. PICK next : next = NextChunk
    OBVIOUS
  <2>2. PICK f \in GridFile : f = file /\ next = NextChunk /\ f.err = TRUE
    BY <1>3, <2>0 DEF GridInd, GridTypes, GridFile
  <2>3. PICK g : g = Flushed(insertChunk(f, next)) /\ g = file'
    BY <2>1, <2>2 DEF Flushed
  <2>4. f.wsum \o next \in Seq(Nat)
    BY <1>1, <2>2, NextChunkSeq
  <2>5. Numbering(f, next, g, f.wpending, f.err)
    BY ONLY <2>3, <2>4, GivenUp, f \in GridFile, Zenon
  <2>6. Numbering(file, NextChunk, file', file.wpending, TRUE)
    BY ONLY <2>2, <2>3, <2>5
  <2>7. file.wpending \in 0..MaxPending
    BY Sizes DEF GridInd, GridTypes, GridFile, SizesOk
  <2>. QED
    BY <1>1, <2>1, <2>6, <2>7, NotInserted
<1>. QED
  BY <1>2, <1>3

----------------------------------------------------------------------------
(* The goroutines that insert, and the end of Close                        *)

LEMMA InsertEndsInd ==
  ASSUME GridAssumption, GridInd, NEW c \in inserts, NEW ok \in BOOLEAN, InsertEnds(c, ok)
  PROVE  GridInd'
<1>1. /\ inserts' = inserts \ {c}
      /\ chunks' = IF ok THEN chunks \cup {c} ELSE chunks
      /\ file' = [file EXCEPT !.wpending = @ - 1, !.err = @ \/ ~ok]
      /\ UNCHANGED <<doing, fetch, fileDoc, removal, failed, panicked, strayed>>
  BY DEF InsertEnds, history
<1>2. /\ IsFiniteSet(inserts) /\ inserts \subseteq Chunk /\ file.idOk
      /\ file.wpending = Cardinality(inserts) /\ file.wpending \in Nat
      /\ file.wpending <= MaxPending
      /\ file.mode = "writing"
  BY DEF GridInd, GridTypes, GridFile, SizesOk, PendingExact
<1>3. /\ IsFiniteSet(inserts') /\ Cardinality(inserts') = file.wpending - 1
      /\ file.wpending - 1 \in Nat
  <2>1. IsFiniteSet(inserts \ {c}) /\ Cardinality(inserts \ {c}) = Cardinality(inserts) - 1
    BY ONLY <1>2, c \in inserts, FS_RemoveElement
  <2>2. Cardinality(inserts) # 0
    BY ONLY <1>2, c \in inserts, FS_EmptySet
  <2>3. inserts' = inserts \ {c}
    BY <1>1
  <2>. QED
    BY ONLY <1>2, <2>1, <2>2, <2>3
<1>4. /\ file' \in GridFile /\ file'.wpending = file.wpending - 1 /\ file'.err = (file.err \/ ~ok)
      /\ file'.mode = file.mode /\ file'.idOk = file.idOk
      /\ file'.chunk = file.chunk /\ file'.offset = file.offset
      /\ file'.wbuf = file.wbuf /\ file'.wsum = file.wsum /\ file'.rbuf = file.rbuf
      /\ file'.length = file.length
  <2>1. PICK f \in GridFile, p \in Nat, e \in BOOLEAN :
          f = file /\ p = file.wpending - 1 /\ e = (file.err \/ ~ok)
    <3>1. (file.err \/ ~ok) \in BOOLEAN
      OBVIOUS
    <3>2. file \in GridFile
      BY DEF GridInd, GridTypes
    <3>. QED
      BY ONLY <1>3, <3>1, <3>2
  <2>2. file' = [f EXCEPT !.wpending = p, !.err = e]
    BY ONLY <1>1, <2>1
  <2>3. /\ file' \in GridFile /\ file'.wpending = p /\ file'.err = e
        /\ file'.mode = f.mode /\ file'.idOk = f.idOk
        /\ file'.chunk = f.chunk /\ file'.offset = f.offset
        /\ file'.wbuf = f.wbuf /\ file'.wsum = f.wsum /\ file'.rbuf = f.rbuf
        /\ file'.length = f.length
    BY ONLY <2>2, f \in GridFile, p \in Nat, e \in BOOLEAN DEF GridFile
  <2>. QED
    BY ONLY <2>1, <2>3
<1>5. GridTypes'
  BY <1>1, <1>2, <1>3, <1>4 DEF GridInd, GridTypes
<1>6. ModesOk'
  <2>1. NextChunk' = NextChunk
    BY <1>1, <1>4, NextChunkSame
  <2>. QED
    BY <1>1, <1>2, <1>4, <2>1 DEF GridInd, ModesOk
<1>7. WriterOk' /\ PlacesOk'
  BY <1>1, <1>4 DEF GridInd, WriterOk, PlacesOk, Summed
<1>8. ChunksOk'
  <2>. SUFFICES ASSUME strayed = FALSE PROVE ChunksOk'
    BY <1>1 DEF ChunksOk
  <2>1. ASSUME NEW n, NEW data PROVE ChunkOk(n, data)' <=> ChunkOk(n, data)
    BY <1>4 DEF ChunkOk
  <2>2. /\ \A d \in chunks : ChunkOk(d.n, d.data) /\ d.n < file.chunk
        /\ \A d \in inserts : ChunkOk(d.n, d.data) /\ d.n < file.chunk
        /\ ~file.err => \A n \in 0..(file.chunk - 1) : Present(n) \/ OnItsWay(n)
    BY <1>2 DEF GridInd, ChunksOk
  <2>3. \A d \in chunks' \cup inserts' : ChunkOk(d.n, d.data)' /\ d.n < file.chunk
    <3>1. chunks' \cup inserts' \subseteq chunks \cup inserts
      BY <1>1
    <3>. QED
      BY <2>1, <2>2, <3>1
  <2>4. ASSUME ~file'.err, NEW n \in 0..(file.chunk - 1)
        PROVE  Present(n)' \/ OnItsWay(n)'
    <3>1. file.err = FALSE /\ ok = TRUE
      BY <1>4, <2>4 DEF GridInd, GridTypes, GridFile
    <3>2. chunks' = chunks \cup {c} /\ inserts' = inserts \ {c}
      BY <1>1, <3>1
    <3>3. Present(n) \/ OnItsWay(n)
      BY <2>2, <3>1
    <3>. QED
      BY ONLY <3>2, <3>3 DEF Present, OnItsWay
  <2>. QED
    BY <1>4, <2>3, <2>4 DEF ChunksOk
<1>9. FetchOk'
  BY <1>1, <1>4, FetchSame DEF GridInd
<1>10. ReaderOk'
  BY <1>1, <1>4, ReaderSame DEF GridInd
<1>12. DocOk'
  BY <1>1, <1>2 DEF GridInd, ModesOk, DocOk
<1>11. SizesOk'
  <2>1. file.wpending - 1 <= MaxPending
    BY <1>2, Sizes
  <2>. QED
    BY <1>2, <1>3, <1>4, <2>1 DEF GridInd, SizesOk, PendingExact
<1>. QED
  BY <1>5, <1>6, <1>7, <1>8, <1>9, <1>10, <1>11, <1>12 DEF GridInd

\* When all insertions have ended well, every chunk is in.
LEMMA AllIn ==
  ASSUME GridAssumption, GridInd, file.mode = "writing", doing.call = "close",
         NextChunk = <<>>, file.wpending = 0
  PROVE  /\ inserts = {} /\ file.wbuf = <<>> /\ file.wsum = Bytes(0, file.length)
         /\ ~file.err /\ strayed = FALSE =>
              \A n \in Nat : n * ChunkSize < file.length => Present(n)
<1>1. inserts = {}
  BY FS_EmptySet DEF GridInd, GridTypes, SizesOk, PendingExact
<1>2. PICK sum \in Seq(Nat), L \in Nat, m \in Nat :
        sum = file.wsum /\ L = file.length /\ m = file.chunk
  <2>1. file.wsum \in Seq(Nat) /\ file.chunk \in Nat
    BY DEF GridInd, GridTypes, GridFile
  <2>2. file.length \in Nat
    BY Sizes DEF GridInd, GridTypes, GridFile
  <2>. QED
    BY ONLY <2>1, <2>2
<1>3. file.wbuf = <<>>
  BY NextChunkCases
<1>4. doing.todo = <<>>
  BY DEF GridInd, ModesOk
<1>5. Follow(sum, <<>>, <<>>, L)
  BY <1>2, <1>3, <1>4 DEF GridInd, WriterOk
<1>6. Len(sum) = L /\ sum = Bytes(0, L)
  <2>1. Len(sum) + 0 + 0 = L /\ sum = Bytes(0, Len(sum))
    BY ONLY <1>5, EmptySeq DEF Follow
  <2>. QED
    BY ONLY <2>1, sum \in Seq(Nat)
<1>7. ASSUME file.err = FALSE, strayed = FALSE, NEW n \in Nat, n * ChunkSize < L
      PROVE  Present(n)
  <2>1. n * ChunkSize < m * ChunkSize
    <3>1. n * ChunkSize \in Nat /\ m * ChunkSize \in Nat
      BY Sizes
    <3>2. Len(sum) <= m * ChunkSize
      BY <1>2, <1>7 DEF GridInd, PlacesOk, Summed
    <3>. QED
      BY ONLY <1>6, <1>7, <3>1, <3>2, L \in Nat
  <2>2. n < m
    <3>1. ASSUME m <= n PROVE FALSE
      <4>1. m * ChunkSize <= n * ChunkSize
        <5>1. m < n => (m + 1) * ChunkSize <= n * ChunkSize
          BY ChunkPlaces
        <5>2. (m + 1) * ChunkSize = m * ChunkSize + ChunkSize /\ m * ChunkSize \in Nat
          BY ChunkPlaces
        <5>3. m < n \/ m = n
          BY <3>1
        <5>4. ChunkSize \in Nat /\ n * ChunkSize \in Nat
          BY Sizes
        <5>. QED
          BY ONLY <5>1, <5>2, <5>3, <5>4
      <4>2. n * ChunkSize \in Nat /\ m * ChunkSize \in Nat
        BY Sizes
      <4>. QED
        BY ONLY <2>1, <4>1, <4>2
    <3>. QED
      BY ONLY <3>1, n \in Nat, m \in Nat
  <2>3. \A i \in 0..(m - 1) : Present(i) \/ OnItsWay(i)
    BY <1>2, <1>7 DEF GridInd, ChunksOk
  <2>4. ~OnItsWay(n)
    BY <1>1 DEF OnItsWay
  <2>. QED
    BY ONLY <2>2, <2>3, <2>4, n \in Nat, m \in Nat
<1>8. ~file.err /\ strayed = FALSE => \A n \in Nat : n * ChunkSize < L => Present(n)
  <2>1. file.err \in BOOLEAN
    BY DEF GridInd, GridTypes, GridFile
  <2>. QED
    BY ONLY <1>7, <2>1
<1>. QED
  BY ONLY <1>1, <1>2, <1>3, <1>6, <1>8

LEMMA InsertFileInd ==
  ASSUME GridAssumption, GridInd, NEW ok \in BOOLEAN, InsertFile(ok)
  PROVE  GridInd'
<1>1. /\ doing.call = "close" /\ file.mode = "writing" /\ NextChunk = <<>> /\ file.wpending = 0
      /\ file' = [file EXCEPT !.mode = "closed", !.err = @ \/ ~ok]
      /\ doing' = Free
      /\ UNCHANGED <<inserts, fetch, chunks, removal, failed, panicked, strayed>>
      /\ \/ UNCHANGED fileDoc
         \/ ~file.err /\ fileDoc' = [length |-> file.length, sum |-> file.wsum]
  BY DEF InsertFile, history
<1>2. /\ inserts = {} /\ file.wbuf = <<>> /\ file.wsum = Bytes(0, file.length)
      /\ ~file.err /\ strayed = FALSE =>
           \A n \in Nat : n * ChunkSize < file.length => Present(n)
  BY <1>1, AllIn
<1>3. /\ file' \in GridFile /\ file'.mode = "closed" /\ file'.chunk = file.chunk
      /\ file'.idOk = file.idOk
      /\ file'.offset = file.offset /\ file'.wpending = file.wpending
      /\ file'.wbuf = file.wbuf /\ file'.wsum = file.wsum /\ file'.rbuf = file.rbuf
      /\ file'.length = file.length
  <2>1. PICK f \in GridFile, e \in BOOLEAN : f = file /\ e = (file.err \/ ~ok)
    BY DEF GridInd, GridTypes
  <2>2. file' = [f EXCEPT !.mode = "closed", !.err = e]
    BY ONLY <1>1, <2>1
  <2>3. /\ file' \in GridFile /\ file'.mode = "closed" /\ file'.chunk = f.chunk
        /\ file'.idOk = f.idOk
        /\ file'.offset = f.offset /\ file'.wpending = f.wpending
        /\ file'.wbuf = f.wbuf /\ file'.wsum = f.wsum /\ file'.rbuf = f.rbuf
        /\ file'.length = f.length
    BY ONLY <2>2, f \in GridFile, e \in BOOLEAN DEF GridFile
  <2>. QED
    BY ONLY <2>1, <2>3
<1>4. fileDoc = NoDoc /\ removal = "no"
  BY <1>1 DEF GridInd, ModesOk
<1>5. /\ fileDoc' \in [length : Int, sum : Seq(Nat)]
      /\ fileDoc' # NoDoc => /\ fileDoc' = [length |-> file.length, sum |-> Bytes(0, file.length)]
                             /\ ~file.err
  <2>1. PICK sum \in Seq(Nat), L \in Int : sum = file.wsum /\ L = file.length
    BY Sizes DEF GridInd, GridTypes, GridFile
  <2>2. \/ fileDoc' = fileDoc
        \/ ~file.err /\ fileDoc' = [length |-> L, sum |-> sum]
    BY ONLY <1>1, <2>1
  <2>3. fileDoc \in [length : Int, sum : Seq(Nat)]
    BY DEF GridInd, GridTypes
  <2>. QED
    BY ONLY <1>2, <1>4, <2>1, <2>2, <2>3
<1>6. GridTypes'
  BY <1>1, <1>3, <1>5, FreeIs DEF GridInd, GridTypes
<1>7. ModesOk'
  BY <1>1, <1>2, <1>3, FreeIs DEF ModesOk
<1>8. WriterOk' /\ PlacesOk'
  BY <1>3 DEF WriterOk, PlacesOk
<1>9. ChunksOk'
  BY <1>1, <1>3, ChunksSame DEF GridInd
<1>10. FetchOk'
  BY <1>1, <1>3, FetchSame DEF GridInd
<1>11. ReaderOk'
  BY <1>1, <1>3, ReaderSame DEF GridInd
<1>12. SizesOk'
  BY <1>1, <1>2, <1>3 DEF GridInd, SizesOk, PendingExact
<1>13. DocOk'
  <2>. SUFFICES ASSUME fileDoc' # NoDoc PROVE DocOk'
    BY DEF DocOk
  <2>1. strayed = FALSE => \A n \in Nat : n * ChunkSize < file.length => Present(n)'
    BY <1>1, <1>2, <1>5 DEF Present
  <2>. QED
    BY <1>1, <1>3, <1>4, <1>5, <2>1 DEF DocOk
<1>. QED
  BY <1>6, <1>7, <1>8, <1>9, <1>10, <1>11, <1>12, <1>13 DEF GridInd

----------------------------------------------------------------------------
(* Reading                                                                 *)

\* What every step of a reader leaves alone.
LEMMA ReaderStep ==
  ASSUME GridInd, file.mode # "writing", file' \in GridFile,
         file'.mode \in {"reading", "closed"}, file'.length = file.length,
         file'.wbuf = <<>>, file'.wpending = file.wpending, file'.idOk = file.idOk,
         doing' \in UserCall, doing'.todo = <<>>, doing'.blocked = FALSE,
         doing'.call # "write", doing'.call = "read" => file'.mode = "reading",
         file'.mode = "closed" => doing' = Free,
         fetch' \in Fetching, FetchOk', ReaderOk',
         failed' \in BOOLEAN, panicked' \in BOOLEAN,
         UNCHANGED <<inserts, chunks, fileDoc, removal, strayed>>
  PROVE  GridInd'
<1>1. inserts = {}
  BY DEF GridInd, SizesOk, PendingExact
<1>2. GridTypes'
  BY DEF GridInd, GridTypes
<1>3. ModesOk'
  BY DEF ModesOk
<1>4. WriterOk' /\ PlacesOk'
  BY DEF WriterOk, PlacesOk
<1>5. ChunksOk' /\ DocOk'
  BY <1>1, ChunksSame, DocSame DEF GridInd
<1>6. SizesOk'
  <2>1. file.wbuf = <<>>
    BY DEF GridInd, ModesOk
  <2>. QED
    BY <1>1, <2>1, SizesSame DEF GridInd
<1>. QED
  BY <1>2, <1>3, <1>4, <1>5, <1>6 DEF GridInd

\* What Seek and a fetch leave alone, in whatever mode the file is.
LEMMA SeekStep ==
  ASSUME GridInd, file' \in GridFile, file'.mode = file.mode, file'.err = file.err,
         file'.length = file.length, file'.wbuf = file.wbuf, file'.wsum = file.wsum,
         file'.wpending = file.wpending, file'.idOk = file.idOk,
         fetch' \in Fetching, FetchOk', ReaderOk',
         failed' \in BOOLEAN, panicked' \in BOOLEAN, strayed' \in BOOLEAN,
         strayed' = FALSE =>
           /\ strayed = FALSE
           /\ file.mode = "writing" =>
                /\ file'.chunk = file.chunk /\ file'.rbuf = <<>> /\ file'.offset = 0
                /\ fetch' = NoFetch,
         UNCHANGED <<doing, inserts, chunks, fileDoc, removal>>
  PROVE  GridInd'
<1>1. NextChunk' = NextChunk
  BY NextChunkSame
<1>2. GridTypes'
  BY DEF GridInd, GridTypes
<1>3. ModesOk'
  BY <1>1 DEF GridInd, ModesOk
<1>4. WriterOk' /\ PlacesOk'
  BY DEF GridInd, WriterOk, PlacesOk, Summed
<1>5. ChunksOk'
  <2>. SUFFICES ASSUME strayed' = FALSE PROVE ChunksOk'
    BY DEF ChunksOk
  <2>1. \/ file'.mode # "writing"
        \/ file'.mode = file.mode /\ file'.err = file.err /\ file'.chunk = file.chunk
    OBVIOUS
  <2>. QED
    BY <2>1, ChunksSame DEF GridInd
<1>6. DocOk'
  BY DocSame DEF GridInd
<1>7. SizesOk'
  BY SizesSame DEF GridInd
<1>. QED
  BY <1>2, <1>3, <1>4, <1>5, <1>6, <1>7 DEF GridInd

LEMMA PieceIs ==
  ASSUME GridAssumption, NEW n \in Nat, NEW length \in Nat, n * ChunkSize < length
  PROVE  \E from \in Nat, to \in Nat :
           /\ from = n * ChunkSize /\ to = Least((n + 1) * ChunkSize, length)
           /\ from <= to /\ to <= from + ChunkSize /\ to <= length
           /\ to <= (n + 1) * ChunkSize
           /\ Bytes(from, to) \in Seq(Nat) /\ Len(Bytes(from, to)) = to - from
           /\ Piece(n, length) = Bytes(from, to) /\ Piece(n, length) \in Seq(Nat)
<1>1. PICK a \in Nat, e \in Nat, C \in Nat : /\ a = n * ChunkSize /\ e = (n + 1) * ChunkSize
                                             /\ C = ChunkSize /\ e = a + C
  <2>1. (n + 1) * ChunkSize = n * ChunkSize + ChunkSize /\ n * ChunkSize \in Nat
    BY ChunkPlaces
  <2>2. ChunkSize \in Nat
    BY Sizes
  <2>. QED
    BY ONLY <2>1, <2>2
<1>2. PICK to \in Nat : to = Least(e, length)
  BY DEF Least
<1>3. a < length
  BY ONLY <1>1, n * ChunkSize < length
<1>4. a <= to /\ to <= a + C /\ to <= length /\ to <= e
  <2>1. to \in {e, length} /\ to <= e /\ to <= length
    BY ONLY <1>2, LeastIs, e \in Nat, length \in Nat
  <2>. QED
    BY ONLY <1>1, <1>3, <2>1, a \in Nat, e \in Nat, C \in Nat, length \in Nat
<1>5. Bytes(a, to) \in Seq(Nat) /\ Len(Bytes(a, to)) = to - a
  BY ONLY <1>4, BytesIs, a \in Nat, to \in Nat
<1>6. Piece(n, length) = Bytes(a, to)
  BY ONLY <1>1, <1>2 DEF Piece
<1>. QED
  BY ONLY <1>1, <1>2, <1>4, <1>5, <1>6

LEMMA NoFetchIs ==
  /\ NoFetch \in Fetching
  /\ NoFetch.n = -1 /\ NoFetch.done = FALSE /\ NoFetch.data = <<>> /\ NoFetch.ok = FALSE
<1>1. <<>> \in Seq(Nat)
  BY EmptySeq
<1>. QED
  BY <1>1 DEF NoFetch, Fetching

LEMMA CloseReaderInd ==
  ASSUME GridAssumption, GridInd, CloseReader
  PROVE  GridInd'
<1>1. /\ file.mode = "reading" /\ file' = [file EXCEPT !.mode = "closed"] /\ fetch' = NoFetch
      /\ doing' = Free
      /\ UNCHANGED <<inserts, chunks, fileDoc, removal, failed, panicked, strayed>>
  BY DEF CloseReader, external, history
<1>2. /\ file' \in GridFile /\ file'.mode = "closed" /\ file'.chunk = file.chunk
      /\ file'.offset = file.offset /\ file'.wpending = file.wpending
      /\ file'.idOk = file.idOk
      /\ file'.wbuf = file.wbuf /\ file'.rbuf = file.rbuf /\ file'.length = file.length
  BY <1>1 DEF GridInd, GridTypes, GridFile
<1>3. file.wbuf = <<>> /\ failed \in BOOLEAN /\ panicked \in BOOLEAN
  BY <1>1 DEF GridInd, ModesOk, GridTypes
<1>4. ReaderOk'
  BY <1>1, <1>2, ReaderSame DEF GridInd
<1>5. FetchOk'
  BY <1>1 DEF FetchOk
<1>. QED
  BY <1>1, <1>2, <1>3, <1>4, <1>5, FreeIs, NoFetchIs, ReaderStep

LEMMA OpenInd ==
  ASSUME GridAssumption, GridInd, Open
  PROVE  GridInd'
<1>1. /\ file.mode = "closed" /\ doing = Free /\ fileDoc # NoDoc
      /\ file' = [file EXCEPT !.mode = "reading", !.err = FALSE, !.chunk = 0, !.offset = 0,
                              !.rbuf = <<>>, !.wbuf = <<>>, !.wsum = <<>>,
                              !.length = fileDoc.length]
      /\ fetch' = NoFetch /\ failed' = FALSE /\ panicked' = FALSE
      /\ UNCHANGED <<doing, inserts, chunks, fileDoc, removal, strayed>>
  BY DEF Open
<1>2. PICK f \in GridFile : f = file /\ f.length = fileDoc.length
  BY <1>1 DEF GridInd, GridTypes, DocOk
<1>3. /\ file' \in GridFile /\ file'.mode = "reading" /\ file'.chunk = 0 /\ file'.offset = 0
      /\ file'.rbuf = <<>> /\ file'.wbuf = <<>> /\ file'.wpending = f.wpending
      /\ file'.length = f.length /\ file'.idOk = f.idOk
  <2>1. file' = [f EXCEPT !.mode = "reading", !.err = FALSE, !.chunk = 0, !.offset = 0,
                          !.rbuf = <<>>, !.wbuf = <<>>, !.wsum = <<>>, !.length = f.length]
    BY ONLY <1>1, <1>2
  <2>2. <<>> \in Seq(Nat)
    BY EmptySeq
  <2>. QED
    BY ONLY <2>1, <2>2, f \in GridFile DEF GridFile
<1>4. ReaderOk'
  <2>1. f.length \in Nat
    BY Sizes DEF GridFile
  <2>2. 0 * ChunkSize = 0 /\ 0 <= ChunkSize /\ Len(<<>>) = 0
    BY Sizes, EmptySeq
  <2>3. Least(0, f.length) = 0
    BY <2>1 DEF Least
  <2>4. Bytes(0, 0) = <<>>
    BY BytesEmpty
  <2>5. failed' = FALSE /\ panicked' = FALSE
    BY <1>1
  <2>6. ReaderAt(file', failed', panicked')
    BY ONLY <1>3, <2>1, <2>2, <2>3, <2>4, <2>5 DEF ReaderAt
  <2>. QED
    BY <2>6 DEF ReaderOk
<1>5. FetchOk'
  BY <1>1 DEF FetchOk
<1>. QED
  BY <1>1, <1>2, <1>3, <1>4, <1>5, FreeIs, NoFetchIs, ReaderStep DEF GridInd, GridTypes

\* What the database holds is of the right type and, unless a Seek came between
\* the writes, the part of the file that it should be.
LEMMA AnsweredIs ==
  ASSUME GridInd, NEW n, NEW ok \in BOOLEAN, NEW data, Answers(n, ok, data)
  PROVE  /\ data \in Seq(Nat) /\ (ok = FALSE => data = <<>>)
         /\ strayed = FALSE /\ ok = TRUE => ChunkOk(n, data)
<1>1. CASE ok = TRUE
  <2>1. PICK c \in chunks : c.n = n /\ c.data = data
    BY <1>1 DEF Answers, Stored
  <2>. QED
    BY <1>1, <2>1 DEF GridInd, GridTypes, Chunk, ChunksOk
<1>2. CASE ok = FALSE
  BY <1>2, EmptySeq DEF Answers
<1>. QED
  BY <1>1, <1>2

LEMMA FetchedInd ==
  ASSUME GridAssumption, GridInd, NEW ok \in BOOLEAN, Fetched(ok)
  PROVE  GridInd'
<1>1. /\ fetch # NoFetch
      /\ UNCHANGED <<file, doing, inserts, chunks, fileDoc, removal, failed, panicked,
                     strayed>>
  BY DEF Fetched, history
<1>9. PICK data \in Stored(fetch.n) \cup {<<>>} :
        /\ Answers(fetch.n, ok, data)
        /\ fetch' = [fetch EXCEPT !.done = TRUE, !.ok = ok, !.data = data]
  BY Zenon DEF Fetched
<1>2. /\ data \in Seq(Nat) /\ (ok = FALSE => data = <<>>)
      /\ strayed = FALSE /\ ok = TRUE => ChunkOk(fetch.n, data)
  BY <1>9, AnsweredIs
<1>3. PICK h \in Fetching : h = fetch
  BY DEF GridInd, GridTypes
<1>4. /\ fetch' \in Fetching
      /\ fetch'.n = h.n /\ fetch'.done = TRUE /\ fetch'.data = data /\ fetch'.ok = ok
  <2>1. fetch' = [h EXCEPT !.done = TRUE, !.ok = ok, !.data = data]
    BY ONLY <1>9, <1>3
  <2>2. data \in Seq(Nat)
    BY <1>2
  <2>. QED
    BY ONLY <2>1, <2>2, ok \in BOOLEAN, h \in Fetching DEF Fetching
<1>5. FetchOk'
  BY <1>1, <1>2, <1>3, <1>4 DEF GridInd, FetchOk, ChunkOk
<1>6. ReaderOk'
  BY <1>1, ReaderSame DEF GridInd
<1>7. strayed = FALSE => file.mode # "writing"
  BY <1>1 DEF GridInd, PlacesOk
<1>8. file \in GridFile /\ failed \in BOOLEAN /\ panicked \in BOOLEAN /\ strayed \in BOOLEAN
  BY DEF GridInd, GridTypes
<1>. QED
  BY <1>1, <1>4, <1>5, <1>6, <1>7, <1>8, SeekStep

LEMMA ReadInd ==
  ASSUME GridAssumption, GridInd, NEW k \in Nat, Read(k)
  PROVE  GridInd'
<1>1. /\ file.mode = "reading" /\ doing = Free
      /\ doing' = [Free EXCEPT !.call = "read", !.left = k]
      /\ UNCHANGED <<file, inserts, fetch, chunks, fileDoc, removal, failed, panicked,
                     strayed>>
  BY DEF Read, external, history
<1>2. /\ doing' \in UserCall /\ doing'.call = "read" /\ doing'.todo = <<>>
      /\ doing'.blocked = FALSE
  BY ONLY <1>1, ReadCall, k \in Nat, ZenonT(60)
<1>3. ReaderOk' /\ FetchOk'
  BY <1>1, ReaderSame, FetchSame DEF GridInd
<1>. QED
  BY <1>1, <1>2, <1>3, ReaderStep DEF GridInd, GridTypes, ModesOk

\* Bytes taken from the front of the buffer.
Past(f, k) == [f EXCEPT !.offset = f.offset + k,
                        !.rbuf = SubSeq(f.rbuf, k + 1, Len(f.rbuf))]

LEMMA Taken ==
  ASSUME NEW f \in GridFile, NEW k \in 0..Len(f.rbuf), NEW g, g = Past(f, k)
  PROVE  /\ g \in GridFile /\ g.mode = f.mode /\ g.chunk = f.chunk /\ g.length = f.length
         /\ g.wbuf = f.wbuf /\ g.wpending = f.wpending /\ g.offset = f.offset + k
         /\ g.idOk = f.idOk /\ g.err = f.err /\ g.wsum = f.wsum
         /\ k = Len(f.rbuf) => g.rbuf = <<>>
         /\ g.rbuf = SubSeq(f.rbuf, k + 1, Len(f.rbuf))
         /\ Len(g.rbuf) = Len(f.rbuf) - k
<1>1. PICK r \in Seq(Nat), o \in Nat, z \in Nat :
        r = f.rbuf /\ o = f.offset /\ z = Len(r)
  <2>1. f.rbuf \in Seq(Nat) /\ f.offset \in Nat
    BY DEF GridFile
  <2>2. Len(f.rbuf) \in Nat
    BY <2>1
  <2>. QED
    BY ONLY <2>1, <2>2
<1>2. k \in 0..z /\ k \in Nat /\ o + k \in Nat
  BY <1>1
<1>4. PICK s : s = SubSeq(r, k + 1, z)
  OBVIOUS
<1>5. s \in Seq(Nat) /\ Len(s) = z - k
  <2>1. \A i \in (k + 1)..z : r[i] \in Nat
    <3>1. \A i \in 1..z : r[i] \in Nat
      BY ONLY <1>1, ElementOfSeq, r \in Seq(Nat)
    <3>2. \A i \in (k + 1)..z : i \in 1..z
      BY ONLY <1>2, z \in Nat
    <3>. QED
      BY ONLY <3>1, <3>2
  <2>2. SubSeq(r, k + 1, z) \in Seq(Nat)
        /\ Len(SubSeq(r, k + 1, z)) = IF k + 1 <= z THEN z - (k + 1) + 1 ELSE 0
    BY ONLY <1>2, <2>1, z \in Nat, SubSeqProperties
  <2>. QED
    BY ONLY <1>2, <1>4, <2>2, z \in Nat
<1>6. g = [f EXCEPT !.offset = o + k, !.rbuf = s]
  BY <1>1, <1>4 DEF Past
<1>7. /\ g \in GridFile /\ g.mode = f.mode /\ g.chunk = f.chunk /\ g.length = f.length
      /\ g.wbuf = f.wbuf /\ g.wpending = f.wpending /\ g.offset = o + k /\ g.rbuf = s
      /\ g.idOk = f.idOk /\ g.err = f.err /\ g.wsum = f.wsum
  BY ONLY <1>2, <1>5, <1>6, f \in GridFile DEF GridFile
<1>8. k = z => s = <<>>
  BY <1>2, <1>5, EmptySeq
<1>. QED
  BY ONLY <1>1, <1>4, <1>5, <1>7, <1>8

LEMMA TakenAt ==
  ASSUME NEW f \in GridFile, NEW bad \in BOOLEAN, NEW panic, GridAssumption,
         ReaderAt(f, bad, panic), NEW k \in 0..Len(f.rbuf), NEW g, g = Past(f, k)
  PROVE  ReaderAt(g, bad, panic)
<1>1. PICK r \in Seq(Nat), o \in Nat, z \in Nat, L \in Nat, e \in Nat :
        /\ r = f.rbuf /\ o = f.offset /\ z = Len(r) /\ L = f.length
        /\ e = f.chunk * ChunkSize
  <2>1. /\ f.rbuf \in Seq(Nat) /\ f.offset \in Nat /\ f.length \in Nat /\ f.chunk \in Nat
        /\ ChunkSize \in Nat
    BY Sizes DEF GridFile
  <2>2. f.chunk * ChunkSize \in Nat /\ Len(f.rbuf) \in Nat
    BY ONLY <2>1
  <2>. QED
    BY ONLY <2>1, <2>2
<1>2. k \in 0..z /\ k \in Nat /\ o + k \in Nat
  BY ONLY <1>1, k \in 0..Len(f.rbuf), o \in Nat, z \in Nat
<1>3. o + z <= e /\ o + z <= L
  BY ONLY <1>1, ReaderAt(f, bad, panic) DEF ReaderAt
<1>4. PICK s : s = SubSeq(r, k + 1, z)
  OBVIOUS
<1>7. /\ g.mode = f.mode /\ g.chunk = f.chunk /\ g.length = f.length
      /\ g.offset = o + k /\ g.rbuf = s /\ Len(s) = z - k
  BY ONLY <1>1, <1>4, Taken, f \in GridFile, k \in 0..Len(f.rbuf), g = Past(f, k)
<1>9. o + k + Len(s) = o + z
  BY ONLY <1>2, <1>7, o \in Nat, z \in Nat
<1>10. ASSUME f.mode = "reading", bad = FALSE
       PROVE  s = Bytes(o + k, Least(e, L)) /\ ~panic
  <2>1. PICK to \in Nat : to = Least(e, L) /\ o + z <= to
    BY <1>3 DEF Least
  <2>2. r = Bytes(o, to) /\ ~panic
    BY ONLY <1>1, <1>10, <2>1, ReaderAt(f, bad, panic) DEF ReaderAt
  <2>3. z = to - o /\ o <= to
    <3>1. o <= to
      BY ONLY <2>1, o \in Nat, z \in Nat
    <3>2. Len(Bytes(o, to)) = to - o
      BY ONLY <3>1, BytesIs, o \in Nat, to \in Nat
    <3>. QED
      BY ONLY <1>1, <2>2, <3>1, <3>2
  <2>4. SubSeq(Bytes(o, to), k + 1, to - o) = Bytes(o + k, to)
    <3>1. k \in 0..(to - o)
      BY ONLY <1>2, <2>3
    <3>. QED
      BY ONLY <2>3, <3>1, BytesSplit, o \in Nat, to \in Nat
  <2>. QED
    BY ONLY <1>4, <2>1, <2>2, <2>3, <2>4
<1>11. g.offset + Len(g.rbuf) <= g.chunk * ChunkSize
  BY ONLY <1>1, <1>3, <1>7, <1>9
<1>12. g.offset + Len(g.rbuf) <= g.length
  BY ONLY <1>1, <1>3, <1>7, <1>9
<1>13. g.mode = "reading" /\ ~bad =>
         g.rbuf = Bytes(g.offset, Least(g.chunk * ChunkSize, g.length)) /\ ~panic
  BY ONLY <1>1, <1>7, <1>10, bad \in BOOLEAN
<1>. QED
  BY ONLY <1>11, <1>12, <1>13 DEF ReaderAt

LEMMA CopyIs ==
  ASSUME GridAssumption, GridInd, file.mode = "reading", NEW g, g = Copy
  PROVE  /\ Copied \in 0..Len(file.rbuf) /\ Copied \in {doing.left, Len(file.rbuf)}
         /\ Copied <= doing.left
         /\ g \in GridFile /\ g.mode = file.mode /\ g.chunk = file.chunk
         /\ g.length = file.length /\ g.wbuf = <<>> /\ g.wpending = file.wpending
         /\ g.idOk = file.idOk
         /\ g.offset = file.offset + Copied
         /\ Copied = Len(file.rbuf) => g.rbuf = <<>>
         /\ strayed = FALSE => ReaderAt(g, failed, panicked)
<1>1. PICK f \in GridFile, bad \in BOOLEAN : f = file /\ bad = failed
  BY DEF GridInd, GridTypes
<1>2. f.rbuf \in Seq(Nat) /\ doing.left \in Nat
  BY DEF GridInd, GridTypes, GridFile, UserCall
<1>3. PICK z \in Nat, l \in Nat : z = Len(f.rbuf) /\ l = doing.left
  BY <1>2
<1>4. Copied = Least(l, z)
  BY ONLY <1>1, <1>3 DEF Copied
<1>5. PICK k \in 0..z : k = Copied /\ k \in {l, z} /\ k <= l
  BY <1>4 DEF Least
<1>6. g = Past(f, k)
  BY <1>1, <1>5 DEF Copy, Past
<1>7. k \in 0..Len(f.rbuf)
  BY <1>3
<1>8. /\ g \in GridFile /\ g.mode = f.mode /\ g.chunk = f.chunk /\ g.length = f.length
      /\ g.wbuf = f.wbuf /\ g.wpending = f.wpending /\ g.offset = f.offset + k
      /\ g.idOk = f.idOk
      /\ k = Len(f.rbuf) => g.rbuf = <<>>
  BY ONLY <1>6, <1>7, Taken, f \in GridFile
<1>10. ASSUME strayed = FALSE PROVE ReaderAt(g, failed, panicked)
  <2>1. ReaderAt(f, bad, panicked)
    BY <1>1, <1>10 DEF GridInd, ReaderOk
  <2>2. ReaderAt(g, bad, panicked)
    BY ONLY <1>6, <1>7, <2>1, TakenAt, GridAssumption, f \in GridFile, bad \in BOOLEAN
  <2>. QED
    BY ONLY <1>1, <2>2
<1>9. file.wbuf = <<>>
  BY DEF GridInd, ModesOk
<1>. QED
  BY ONLY <1>1, <1>3, <1>5, <1>8, <1>9, <1>10

LEMMA ReadReturnsInd ==
  ASSUME GridAssumption, GridInd, ReadReturns
  PROVE  GridInd'
<1>1. /\ file.mode = "reading" /\ file' = Copy /\ doing' = Free
      /\ UNCHANGED <<inserts, fetch, chunks, fileDoc, removal, failed, panicked, strayed>>
  BY DEF ReadReturns, external, history, GridInd, ModesOk
<1>2. /\ file' \in GridFile /\ file'.mode = "reading" /\ file'.length = file.length
      /\ file'.idOk = file.idOk
      /\ file'.wbuf = <<>> /\ file'.wpending = file.wpending
      /\ strayed = FALSE => ReaderAt(file', failed, panicked)
  BY <1>1, CopyIs
<1>3. FetchOk'
  BY <1>1, <1>2, FetchSame DEF GridInd
<1>4. ReaderOk'
  BY <1>1, <1>2 DEF ReaderOk
<1>. QED
  BY <1>1, <1>2, <1>3, <1>4, FreeIs, ReaderStep DEF GridInd, GridTypes

\* What getChunk answers a reader at f, and that it notes when it fails.
Answered(f, ok, data) ==
  /\ ok => f.chunk * ChunkSize < f.length
  /\ data = IF ok THEN Bytes(f.chunk * ChunkSize, Least((f.chunk + 1) * ChunkSize, f.length))
                  ELSE <<>>
Noted(f, ok, bad, later) == ~later => ~bad /\ (ok \/ ~(f.offset < f.length))

LEMMA Got ==
  ASSUME GridAssumption, GridInd, NEW f \in GridFile, f.length = file.length,
         NEW ok \in BOOLEAN, NEW data, getChunk(f, ok, data), file'.length = file.length
  PROVE  /\ data \in Seq(Nat) /\ (strayed = FALSE => Answered(f, ok, data))
         /\ fetch' \in Fetching
         /\ FetchOk'
         /\ failed' \in BOOLEAN /\ Noted(f, ok, failed, failed')
<1>1. f.chunk \in Nat /\ f.length \in Nat
  BY Sizes DEF GridFile
<1>2. data \in Seq(Nat) /\ (strayed = FALSE => Answered(f, ok, data))
  <2>1. CASE Cached(f)
    <3>1. fetch.n = f.chunk /\ fetch.done /\ ok = fetch.ok /\ data = fetch.data
      BY <2>1 DEF getChunk, Cached
    <3>2. fetch # NoFetch
      BY <1>1, <3>1, NoFetchIs
    <3>3. data \in Seq(Nat)
      BY <3>1 DEF GridInd, GridTypes, Fetching
    <3>. QED
      BY <3>1, <3>2, <3>3, f.length = file.length DEF GridInd, FetchOk, Piece, Answered
  <2>2. CASE ~Cached(f)
    <3>1. Answers(f.chunk, ok, data)
      BY <2>2 DEF getChunk
    <3>2. /\ data \in Seq(Nat) /\ (ok = FALSE => data = <<>>)
          /\ strayed = FALSE /\ ok = TRUE => ChunkOk(f.chunk, data)
      BY <3>1, AnsweredIs
    <3>. QED
      BY <3>2, f.length = file.length DEF ChunkOk, Piece, Answered
  <2>. QED
    BY <2>1, <2>2
<1>3. fetch' \in Fetching /\ FetchOk'
  <2>1. CASE (f.chunk + 1) * ChunkSize < f.length
    <3>1. PICK n \in Nat : n = f.chunk + 1
      BY <1>1
    <3>2. PICK h : h = NoFetch /\ h \in Fetching /\ h.done = FALSE /\ h.data = <<>>
      BY NoFetchIs
    <3>3. fetch' = [h EXCEPT !.n = n]
      BY <2>1, <3>1, <3>2 DEF getChunk, Ahead
    <3>4. fetch' \in Fetching /\ fetch'.n = n /\ fetch'.done = FALSE /\ fetch'.data = <<>>
      BY ONLY <3>2, <3>3, n \in Nat DEF Fetching
    <3>. QED
      BY <2>1, <3>1, <3>4 DEF FetchOk
  <2>2. CASE ~((f.chunk + 1) * ChunkSize < f.length)
    <3>1. fetch' = NoFetch
      BY <2>2 DEF getChunk, Ahead
    <3>. QED
      BY <3>1, NoFetchIs DEF FetchOk
  <2>. QED
    BY <2>1, <2>2
<1>4. failed' \in BOOLEAN /\ Noted(f, ok, failed, failed')
  <2>1. failed' = (failed \/ (~ok /\ f.offset < f.length))
    BY DEF getChunk
  <2>2. failed \in BOOLEAN
    BY DEF GridInd, GridTypes
  <2>. QED
    BY ONLY <2>1, <2>2 DEF Noted
<1>. QED
  BY ONLY <1>2, <1>3, <1>4

LEMMA GottenIs ==
  ASSUME NEW f \in GridFile, NEW data \in Seq(Nat), NEW g, g = Gotten(f, data)
  PROVE  /\ g \in GridFile /\ g.mode = f.mode /\ g.length = f.length /\ g.wbuf = f.wbuf
         /\ g.wpending = f.wpending /\ g.offset = f.offset /\ g.chunk = f.chunk + 1
         /\ g.idOk = f.idOk /\ g.err = f.err /\ g.wsum = f.wsum
         /\ g.rbuf = data
<1>1. PICK n \in Nat : n = f.chunk + 1
  BY DEF GridFile
<1>2. g = [f EXCEPT !.chunk = n, !.rbuf = data]
  BY <1>1 DEF Gotten
<1>. QED
  BY ONLY <1>1, <1>2, f \in GridFile, data \in Seq(Nat) DEF GridFile

\* A reader at the end of its chunk has got the next one, or none.
LEMMA NextRead ==
  ASSUME GridAssumption, NEW f \in GridFile, NEW bad, NEW panic, ReaderAt(f, bad, panic), f.rbuf = <<>>,
         f.offset # f.length,
         NEW ok \in BOOLEAN, NEW data, Answered(f, ok, data),
         NEW later \in BOOLEAN, Noted(f, ok, bad, later),
         NEW g, g = Gotten(f, data)
  PROVE  data \in Seq(Nat) /\ ReaderAt(g, later, panic)
<1>1. PICK n \in Nat, o \in Nat, L \in Nat, C \in Nat, from \in Nat, e \in Nat :
        /\ n = f.chunk /\ o = f.offset /\ L = f.length /\ C = ChunkSize
        /\ from = n * ChunkSize /\ e = (n + 1) * ChunkSize /\ e = from + C
  <2>1. f.chunk \in Nat /\ f.offset \in Nat /\ f.length \in Nat /\ ChunkSize \in Nat
    BY Sizes DEF GridFile
  <2>2. PICK n \in Nat : n = f.chunk
    BY <2>1
  <2>3. n * ChunkSize \in Nat /\ (n + 1) * ChunkSize = n * ChunkSize + ChunkSize
    BY ChunkPlaces
  <2>. QED
    BY ONLY <2>1, <2>2, <2>3
<1>2. o <= from /\ o <= L /\ o # L
  <2>1. o + Len(<<>>) <= from /\ o + Len(<<>>) <= L
    BY ONLY <1>1, ReaderAt(f, bad, panic), f.rbuf = <<>> DEF ReaderAt
  <2>2. o # L
    BY ONLY <1>1, f.offset # f.length
  <2>. QED
    BY ONLY <2>1, <2>2, EmptySeq, o \in Nat
<1>3. CASE ok = TRUE
  <2>1. from < L /\ data = Bytes(from, Least(e, L))
    BY ONLY <1>1, <1>3, Answered(f, ok, data) DEF Answered
  <2>2. PICK to \in Nat :
           /\ to = Least(e, L) /\ from <= to /\ to <= from + ChunkSize /\ to <= L /\ to <= e
           /\ Bytes(from, to) \in Seq(Nat) /\ Len(Bytes(from, to)) = to - from
    <3>1. n * ChunkSize < L
      BY ONLY <1>1, <2>1
    <3>2. PICK a \in Nat, to \in Nat :
           /\ a = n * ChunkSize /\ to = Least((n + 1) * ChunkSize, L)
           /\ a <= to /\ to <= a + ChunkSize /\ to <= L
           /\ to <= (n + 1) * ChunkSize
           /\ Bytes(a, to) \in Seq(Nat) /\ Len(Bytes(a, to)) = to - a
      BY ONLY <3>1, PieceIs, GridAssumption, n \in Nat, L \in Nat
    <3>. QED
      BY ONLY <1>1, <3>2
  <2>3. data \in Seq(Nat) /\ Len(data) = to - from
    BY ONLY <2>1, <2>2
  <2>4. o + Len(data) <= e /\ o + Len(data) <= L /\ Len(data) <= C
    <3>1. to <= from + C
      BY ONLY <1>1, <2>2
    <3>2. PICK l \in Nat : l = Len(data) /\ l = to - from
      BY ONLY <2>2, <2>3, from \in Nat, to \in Nat
    <3>3. o <= from /\ from <= to /\ to <= e /\ to <= L
      BY ONLY <1>2, <2>2
    <3>4. o + l <= to /\ l <= C
      BY ONLY <3>1, <3>2, <3>3, o \in Nat, from \in Nat, to \in Nat, C \in Nat
    <3>5. o + l <= e /\ o + l <= L
      BY ONLY <3>3, <3>4, o \in Nat, l \in Nat, to \in Nat, e \in Nat, L \in Nat
    <3>6. Len(data) = l
      BY ONLY <3>2
    <3>. QED
      BY ONLY <3>4, <3>5, <3>6, Zenon
  <2>5. ASSUME f.mode = "reading", later = FALSE
        PROVE  data = Bytes(o, Least(e, L)) /\ ~panic
    <3>1. <<>> = Bytes(o, Least(from, L)) /\ ~panic
      BY ONLY <1>1, <2>5, ReaderAt(f, bad, panic), f.rbuf = <<>>,
              Noted(f, ok, bad, later) DEF ReaderAt, Noted
    <3>2. Least(from, L) = from
      BY ONLY <2>1, from \in Nat, L \in Nat DEF Least
    <3>3. o = from
      BY ONLY <1>2, <3>1, <3>2, BytesOfLength, o \in Nat, from \in Nat
    <3>. QED
      BY ONLY <2>1, <3>1, <3>3
  <2>6. /\ g.rbuf = data /\ g.offset = o /\ g.length = L /\ g.chunk = n + 1
        /\ g.mode = f.mode
    <3>1. /\ g \in GridFile /\ g.mode = f.mode /\ g.length = f.length /\ g.wbuf = f.wbuf
          /\ g.wpending = f.wpending /\ g.offset = f.offset /\ g.chunk = f.chunk + 1
          /\ g.rbuf = data
      BY ONLY <2>3, GottenIs, g = Gotten(f, data), f \in GridFile
    <3>. QED
      BY ONLY <1>1, <3>1
  <2>7. g.offset + Len(g.rbuf) <= g.chunk * ChunkSize
    BY ONLY <1>1, <2>4, <2>6
  <2>8. g.offset + Len(g.rbuf) <= g.length
    BY ONLY <1>1, <2>4, <2>6
  <2>9. g.mode = "reading" /\ ~later =>
          g.rbuf = Bytes(g.offset, Least(g.chunk * ChunkSize, g.length)) /\ ~panic
    BY ONLY <1>1, <2>5, <2>6, later \in BOOLEAN
  <2>. QED
    BY ONLY <2>3, <2>7, <2>8, <2>9 DEF ReaderAt
<1>4. CASE ok = FALSE
  <2>1. data = <<>> /\ data \in Seq(Nat) /\ Len(data) = 0
    BY ONLY <1>4, EmptySeq, Answered(f, ok, data) DEF Answered
  <2>2. later = TRUE
    <3>1. o < L
      BY ONLY <1>2, o \in Nat, L \in Nat
    <3>. QED
      BY ONLY <1>1, <1>4, <3>1, later \in BOOLEAN,
              Noted(f, ok, bad, later) DEF Noted
  <2>3. o + Len(data) <= e /\ o + Len(data) <= L /\ Len(data) <= C
    <3>1. from <= e
      BY ONLY <1>1
    <3>2. o <= e /\ o <= L /\ 0 <= C /\ o + 0 = o
      BY ONLY <1>2, <3>1, o \in Nat, from \in Nat, e \in Nat, C \in Nat
    <3>. QED
      BY ONLY <2>1, <3>2
  <2>6. /\ g.rbuf = data /\ g.offset = o /\ g.length = L /\ g.chunk = n + 1
        /\ g.mode = f.mode
    <3>1. /\ g \in GridFile /\ g.mode = f.mode /\ g.length = f.length /\ g.wbuf = f.wbuf
          /\ g.wpending = f.wpending /\ g.offset = f.offset /\ g.chunk = f.chunk + 1
          /\ g.rbuf = data
      <4>1. data \in Seq(Nat)
        BY ONLY <2>1
      <4>. QED
        BY ONLY <4>1, GottenIs, g = Gotten(f, data), f \in GridFile
    <3>. QED
      BY ONLY <1>1, <3>1
  <2>7. g.offset + Len(g.rbuf) <= g.chunk * ChunkSize
    BY ONLY <1>1, <2>3, <2>6
  <2>8. g.offset + Len(g.rbuf) <= g.length
    BY ONLY <1>1, <2>3, <2>6
  <2>. QED
    BY ONLY <2>1, <2>2, <2>7, <2>8 DEF ReaderAt
<1>. QED
  BY ONLY <1>3, <1>4, ok \in BOOLEAN

LEMMA ReadGoesOnInd ==
  ASSUME GridAssumption, GridInd, NEW ok \in BOOLEAN, ReadGoesOn(ok)
  PROVE  GridInd'
<1>1. PICK data : getChunk(Copy, ok, data) /\ file' = Gotten(Copy, data)
  BY Zenon DEF ReadGoesOn
<1>12. /\ file.mode = "reading" /\ doing.call = "read" /\ ~ReadEnough
       /\ doing' = IF ok THEN [doing EXCEPT !.left = @ - Copied] ELSE Free
       /\ UNCHANGED <<inserts, chunks, fileDoc, removal, panicked, strayed>>
  BY DEF ReadGoesOn, GridInd, ModesOk
<1>2. PICK f : f = Copy
  OBVIOUS
<1>3. /\ Copied \in {doing.left, Len(file.rbuf)} /\ Copied <= doing.left /\ Copied \in Nat
      /\ f \in GridFile /\ f.mode = file.mode /\ f.chunk = file.chunk
      /\ f.length = file.length /\ f.wbuf = <<>> /\ f.wpending = file.wpending
      /\ f.idOk = file.idOk
      /\ f.offset = file.offset + Copied
      /\ Copied = Len(file.rbuf) => f.rbuf = <<>>
      /\ strayed = FALSE => ReaderAt(f, failed, panicked)
  <2>1. file.rbuf \in Seq(Nat)
    BY DEF GridInd, GridTypes, GridFile
  <2>2. \A k \in 0..Len(file.rbuf) : k \in Nat
    BY <2>1
  <2>. QED
    BY <1>2, <1>12, <2>2, CopyIs
<1>4. f.rbuf = <<>> /\ f.offset # f.length
  <2>1. Copied # doing.left /\ file.offset + Copied # file.length
    BY <1>12 DEF ReadEnough
  <2>. QED
    BY ONLY <1>3, <2>1
<1>5. PICK bad, later \in BOOLEAN : bad = failed /\ later = failed'
  <2>1. failed' = (failed \/ (~ok /\ f.offset < f.length))
    BY <1>1, <1>2 DEF getChunk
  <2>2. failed' \in BOOLEAN /\ failed \in BOOLEAN
    BY <2>1 DEF GridInd, GridTypes
  <2>. QED
    BY ONLY <2>2
<1>6. file'.length = f.length
  BY ONLY <1>1, <1>2, <1>3 DEF Gotten, GridFile
<1>7. /\ data \in Seq(Nat) /\ (strayed = FALSE => Answered(f, ok, data))
      /\ fetch' \in Fetching
      /\ FetchOk'
      /\ failed' \in BOOLEAN /\ Noted(f, ok, failed, failed')
  <2>1. getChunk(f, ok, data) /\ f.length = file.length /\ file'.length = file.length
    BY <1>1, <1>2, <1>3, <1>6
  <2>. QED
    BY ONLY <1>3, <2>1, Got, GridAssumption, GridInd, ok \in BOOLEAN
<1>8. ASSUME strayed = FALSE PROVE ReaderAt(file', later, panicked)
  <2>1. /\ ReaderAt(f, bad, panicked) /\ Noted(f, ok, bad, later) /\ Answered(f, ok, data)
        /\ f \in GridFile /\ f.rbuf = <<>> /\ f.offset # f.length
    BY ONLY <1>3, <1>4, <1>5, <1>7, <1>8
  <2>2. PICK g : g = file' /\ g = Gotten(f, data)
    BY ONLY <1>1, <1>2
  <2>3. ReaderAt(g, later, panicked)
    BY ONLY <2>1, <2>2, NextRead, GridAssumption, ok \in BOOLEAN, later \in BOOLEAN
  <2>. QED
    BY ONLY <2>2, <2>3
<1>9. /\ file' \in GridFile /\ file'.mode = f.mode /\ file'.length = f.length
      /\ file'.wbuf = f.wbuf /\ file'.wpending = f.wpending /\ file'.idOk = f.idOk
  BY <1>1, <1>2, <1>3, <1>7, GottenIs
<1>10. ReaderOk'
  BY <1>5, <1>8, <1>12 DEF ReaderOk
<1>11. /\ doing' \in UserCall /\ doing'.todo = <<>> /\ doing'.blocked = FALSE
       /\ doing'.call \in {"none", "read"}
  <2>1. CASE ok = TRUE
    <3>1. PICK u \in UserCall, l \in Nat : /\ u = doing /\ l = doing.left - Copied
                                           /\ u.todo = <<>> /\ u.blocked = FALSE
      BY <1>12, <1>3 DEF GridInd, GridTypes, ModesOk, UserCall
    <3>2. doing' = [u EXCEPT !.left = l]
      BY <1>12, <2>1, <3>1
    <3>. QED
      BY <1>12, <3>1, <3>2 DEF UserCall
  <2>2. CASE ok = FALSE
    BY <1>12, <2>2, FreeIs
  <2>. QED
    BY <2>1, <2>2
<1>13. panicked' \in BOOLEAN
  BY <1>12 DEF GridInd, GridTypes
<1>. QED
  BY <1>12, <1>3, <1>7, <1>9, <1>10, <1>11, <1>13, ReaderStep

\* The chunk that a place of the file is in.
LEMMA SeekPlace ==
  ASSUME GridAssumption, NEW offset \in Nat
  PROVE  \E n \in Nat, skip \in Nat, end \in Nat :
           /\ n = SeekChunk(offset) /\ skip = offset % ChunkSize
           /\ offset = n * ChunkSize + skip /\ skip < ChunkSize
           /\ end = (n + 1) * ChunkSize /\ offset < end
<1>1. ChunkSize \in Nat \ {0}
  BY Sizes
<1>2. /\ offset \div ChunkSize \in Nat /\ offset % ChunkSize \in Nat
      /\ offset = (offset \div ChunkSize) * ChunkSize + (offset % ChunkSize)
      /\ offset % ChunkSize < ChunkSize
  BY ONLY <1>1, offset \in Nat
<1>3. PICK n \in Nat, skip \in Nat :
        /\ n = SeekChunk(offset) /\ skip = offset % ChunkSize
        /\ offset = n * ChunkSize + skip /\ skip < ChunkSize
  BY ONLY <1>2 DEF SeekChunk
<1>4. (n + 1) * ChunkSize = n * ChunkSize + ChunkSize /\ n * ChunkSize \in Nat
  BY ChunkPlaces
<1>5. PICK end \in Nat : end = (n + 1) * ChunkSize /\ offset < end
  BY ONLY <1>1, <1>3, <1>4, offset \in Nat, skip \in Nat
<1>. QED
  BY ONLY <1>3, <1>5

LEMMA SeekNearInd ==
  ASSUME GridAssumption, GridInd, NEW offset \in 0..MaxLength, SeekNear(offset)
  PROVE  GridInd'
<1>1. /\ offset <= file.length /\ offset >= file.offset
      /\ SeekChunk(offset) + 1 = file.chunk
      /\ file' = IF offset - file.offset > Len(file.rbuf) THEN file
                 ELSE [file EXCEPT !.rbuf = Cut(@, offset - file.offset), !.offset = offset]
      /\ panicked' = (panicked \/ offset - file.offset > Len(file.rbuf))
      /\ UNCHANGED <<doing, inserts, fetch, chunks, fileDoc, removal, failed, strayed>>
  BY DEF SeekNear, Near
<1>2. PICK f \in GridFile, bad \in BOOLEAN, panic \in BOOLEAN :
        f = file /\ bad = failed /\ panic = panicked
  BY DEF GridInd, GridTypes
<1>3. PICK o \in Nat, z \in Nat, k \in Nat, L \in Nat, e \in Nat :
        /\ o = f.offset /\ z = Len(f.rbuf) /\ k = offset - o /\ offset = o + k
        /\ L = f.length /\ e = f.chunk * ChunkSize /\ o + k < e /\ o + k <= L
  <2>1. PICK o \in Nat, L \in Nat, p \in Nat, z \in Nat :
          o = f.offset /\ L = f.length /\ p = offset /\ z = Len(f.rbuf)
    <3>1. f.offset \in Nat /\ f.rbuf \in Seq(Nat) /\ offset \in Nat /\ f.length \in Nat
      BY Sizes DEF GridFile
    <3>2. Len(f.rbuf) \in Nat
      BY ONLY <3>1
    <3>. QED
      BY ONLY <3>1, <3>2
  <2>2. PICK n \in Nat, skip \in Nat, e \in Nat :
          n = SeekChunk(p) /\ e = (n + 1) * ChunkSize /\ p < e
    BY ONLY SeekPlace, GridAssumption, p \in Nat
  <2>3. p >= o /\ p <= L /\ e = f.chunk * ChunkSize
    BY ONLY <1>1, <1>2, <2>1, <2>2
  <2>4. PICK k \in Nat : k = p - o /\ p = o + k
    BY ONLY <2>3, o \in Nat, p \in Nat
  <2>5. /\ o = f.offset /\ z = Len(f.rbuf) /\ k = offset - o /\ offset = o + k
        /\ L = f.length /\ e = f.chunk * ChunkSize /\ o + k < e /\ o + k <= L
    BY ONLY <2>1, <2>2, <2>3, <2>4, Zenon
  <2>. QED
    BY ONLY <2>5, Zenon
<1>4. CASE k > z
  <2>1. file' = file /\ panicked' = TRUE
    BY ONLY <1>1, <1>2, <1>3, <1>4
  <2>2. ASSUME strayed = FALSE, f.mode = "reading", bad = FALSE
        PROVE  FALSE
    <3>1. f.rbuf = Bytes(o, Least(e, L)) /\ o + z <= e /\ o + z <= L
      BY <1>2, <1>3, <2>2 DEF GridInd, ReaderOk, ReaderAt
    <3>2. PICK to \in Nat : to = Least(e, L) /\ o + k <= to
      <4>1. o + k < e /\ o + k <= L
        BY ONLY <1>3
      <4>2. o + k <= Least(e, L) /\ Least(e, L) \in Nat
        BY ONLY <4>1, e \in Nat, L \in Nat, o \in Nat, k \in Nat DEF Least
      <4>. QED
        BY ONLY <4>2
    <3>3. o <= to
      BY ONLY <3>2, o \in Nat, k \in Nat, to \in Nat
    <3>4. z = to - o
      BY ONLY <1>3, <3>1, <3>2, <3>3, BytesIs, o \in Nat, to \in Nat
    <3>. QED
      BY ONLY <1>4, <3>2, <3>4, o \in Nat, k \in Nat, z \in Nat, to \in Nat
  <2>3. ReaderOk'
    <3>. SUFFICES ASSUME strayed = FALSE PROVE ReaderAt(f, bad, TRUE)
      BY <1>1, <1>2, <2>1 DEF ReaderOk
    <3>1. ReaderAt(f, bad, panic)
      BY <1>2 DEF GridInd, ReaderOk
    <3>. QED
      BY <2>2, <3>1 DEF ReaderAt
  <2>4. FetchOk'
    BY <1>1, <2>1, FetchSame DEF GridInd
  <2>5. strayed = FALSE /\ file.mode = "writing" =>
          file.rbuf = <<>> /\ file.offset = 0 /\ fetch = NoFetch
    BY DEF GridInd, PlacesOk
  <2>6. fetch \in Fetching /\ failed \in BOOLEAN /\ strayed \in BOOLEAN /\ file \in GridFile
    BY DEF GridInd, GridTypes
  <2>. QED
    BY <1>1, <2>1, <2>3, <2>4, <2>5, <2>6, SeekStep
<1>5. CASE k <= z
  <2>1. ~(offset - file.offset > Len(file.rbuf))
    <3>1. offset - file.offset = k /\ Len(file.rbuf) = z
      BY ONLY <1>2, <1>3
    <3>. QED
      BY ONLY <1>5, <3>1, k \in Nat, z \in Nat
  <2>2. file' = [f EXCEPT !.rbuf = SubSeq(f.rbuf, k + 1, Len(f.rbuf)), !.offset = f.offset + k]
        /\ panicked' = panic
    BY ONLY <1>1, <1>2, <1>3, <2>1, panic \in BOOLEAN DEF Cut
  <2>3. file' = Past(f, k)
    BY ONLY <2>2, f \in GridFile DEF Past, GridFile
  <2>4. k \in 0..Len(f.rbuf)
    BY ONLY <1>3, <1>5
  <2>5. /\ file' \in GridFile /\ file'.mode = f.mode /\ file'.chunk = f.chunk
        /\ file'.length = f.length /\ file'.wbuf = f.wbuf /\ file'.wpending = f.wpending
        /\ file'.offset = f.offset + k
        /\ file'.idOk = f.idOk /\ file'.err = f.err /\ file'.wsum = f.wsum
        /\ k = Len(f.rbuf) => file'.rbuf = <<>>
    BY ONLY <2>3, <2>4, Taken, f \in GridFile
  <2>6. ReaderOk'
    <3>. SUFFICES ASSUME strayed = FALSE PROVE ReaderAt(file', bad, panic)
      BY <1>1, <1>2, <2>2 DEF ReaderOk
    <3>1. ReaderAt(f, bad, panic)
      BY <1>2 DEF GridInd, ReaderOk
    <3>. QED
      BY ONLY <2>3, <2>4, <3>1, TakenAt, GridAssumption, f \in GridFile, bad \in BOOLEAN
  <2>7. FetchOk'
    BY <1>1, <1>2, <2>5, FetchSame DEF GridInd
  <2>8. strayed = FALSE /\ file.mode = "writing" =>
          file'.rbuf = <<>> /\ file'.offset = 0 /\ fetch = NoFetch
    <3>. SUFFICES ASSUME strayed = FALSE, file.mode = "writing"
                  PROVE  file'.rbuf = <<>> /\ file'.offset = 0 /\ fetch = NoFetch
      OBVIOUS
    <3>1. f.rbuf = <<>> /\ f.offset = 0 /\ fetch = NoFetch
      BY <1>2 DEF GridInd, PlacesOk
    <3>2. z = 0 /\ k = 0
      BY ONLY <1>3, <1>5, <3>1, EmptySeq, k \in Nat, z \in Nat
    <3>. QED
      BY ONLY <1>3, <2>5, <3>1, <3>2
  <2>9. fetch \in Fetching /\ failed \in BOOLEAN /\ strayed \in BOOLEAN
    BY DEF GridInd, GridTypes
  <2>. QED
    BY <1>1, <1>2, <2>2, <2>5, <2>6, <2>7, <2>8, <2>9, SeekStep
<1>. QED
  BY ONLY <1>4, <1>5, k \in Nat, z \in Nat

LEMMA SeekFarInd ==
  ASSUME GridAssumption, GridInd, NEW offset \in 0..MaxLength, NEW ok \in BOOLEAN,
         SeekFar(offset, ok)
  PROVE  GridInd'
<1>0. /\ doing = Free /\ offset <= file.length
      /\ strayed' = (strayed \/ file.mode = "writing")
      /\ UNCHANGED <<doing, inserts, chunks, fileDoc, removal>>
  BY DEF SeekFar
<1>1. PICK f, data, short, rest :
        /\ f = [file EXCEPT !.offset = offset, !.chunk = SeekChunk(offset), !.rbuf = <<>>]
        /\ short = (ok /\ (offset % ChunkSize) > Len(data))
        /\ rest = IF ok /\ ~short THEN Cut(data, offset % ChunkSize) ELSE data
        /\ getChunk(f, ok, data) /\ file' = Gotten(f, rest)
        /\ panicked' = (panicked \/ short)
  BY Zenon DEF SeekFar
<1>2. PICK o \in Nat : o = offset
  BY Sizes
<1>3. PICK n \in Nat, skip \in Nat, end \in Nat :
        /\ n = SeekChunk(o) /\ skip = o % ChunkSize
        /\ o = n * ChunkSize + skip /\ skip < ChunkSize
        /\ end = (n + 1) * ChunkSize /\ o < end
  BY ONLY SeekPlace, GridAssumption, o \in Nat
<1>4. /\ f \in GridFile /\ f.mode = file.mode /\ f.offset = o /\ f.chunk = n
      /\ f.rbuf = <<>> /\ f.length = file.length /\ f.wbuf = file.wbuf
      /\ f.wpending = file.wpending /\ f.idOk = file.idOk /\ f.err = file.err
      /\ f.wsum = file.wsum
  <2>1. PICK g \in GridFile : g = file
    BY DEF GridInd, GridTypes
  <2>2. f = [g EXCEPT !.offset = o, !.chunk = n, !.rbuf = <<>>] /\ <<>> \in Seq(Nat)
    BY ONLY <1>1, <1>2, <1>3, <2>1, EmptySeq
  <2>3. /\ f \in GridFile /\ f.mode = g.mode /\ f.offset = o /\ f.chunk = n
        /\ f.rbuf = <<>> /\ f.length = g.length /\ f.wbuf = g.wbuf
        /\ f.wpending = g.wpending /\ f.idOk = g.idOk /\ f.err = g.err
        /\ f.wsum = g.wsum
    BY ONLY <2>2, g \in GridFile, o \in Nat, n \in Nat DEF GridFile
  <2>. QED
    BY ONLY <2>1, <2>3
<1>5. file'.length = f.length
  BY ONLY <1>1, <1>4 DEF Gotten, GridFile
<1>6. /\ data \in Seq(Nat) /\ (strayed = FALSE => Answered(f, ok, data))
      /\ fetch' \in Fetching /\ FetchOk'
      /\ failed' \in BOOLEAN /\ Noted(f, ok, failed, failed')
  <2>1. getChunk(f, ok, data) /\ f.length = file.length /\ file'.length = file.length
    BY ONLY <1>1, <1>4, <1>5
  <2>. QED
    BY ONLY <1>4, <2>1, Got, GridAssumption, GridInd, ok \in BOOLEAN
<1>7. rest \in Seq(Nat)
  <2>1. CASE ok /\ ~short
    <3>1. PICK z \in Nat : z = Len(data)
      BY ONLY <1>6
    <3>2. rest = SubSeq(data, skip + 1, z)
      BY ONLY <1>1, <1>2, <1>3, <2>1, <3>1 DEF Cut
    <3>3. \A i \in (skip + 1)..z : data[i] \in Nat
      <4>1. \A i \in 1..z : data[i] \in Nat
        BY ONLY <1>6, <3>1, ElementOfSeq
      <4>2. \A i \in (skip + 1)..z : i \in 1..z
        BY ONLY skip \in Nat, z \in Nat
      <4>. QED
        BY ONLY <4>1, <4>2
    <3>. QED
      BY ONLY <3>2, <3>3, skip \in Nat, z \in Nat, SubSeqProperties
  <2>2. CASE ~(ok /\ ~short)
    BY ONLY <1>1, <1>6, <2>2
  <2>. QED
    BY ONLY <2>1, <2>2
<1>8. /\ file' \in GridFile /\ file'.mode = f.mode /\ file'.length = f.length
      /\ file'.wbuf = f.wbuf /\ file'.wpending = f.wpending /\ file'.offset = f.offset
      /\ file'.idOk = f.idOk /\ file'.err = f.err /\ file'.wsum = f.wsum
      /\ file'.chunk = f.chunk + 1 /\ file'.rbuf = rest
  <2>1. f \in GridFile /\ file' = Gotten(f, rest)
    BY ONLY <1>1, <1>4
  <2>. QED
    BY ONLY <1>7, <2>1, GottenIs
<1>9. strayed' = FALSE => strayed = FALSE /\ file.mode # "writing"
  <2>1. strayed \in BOOLEAN
    BY DEF GridInd, GridTypes
  <2>. QED
    BY ONLY <1>0, <2>1
<1>10. PICK L \in Nat, later \in BOOLEAN : L = f.length /\ later = failed'
  <2>1. f.length \in Nat
    BY <1>4, Sizes DEF GridFile
  <2>. QED
    BY ONLY <1>6, <2>1
<1>11. ASSUME strayed = FALSE
       PROVE  /\ short = FALSE /\ o + Len(rest) <= end /\ o + Len(rest) <= L
              /\ later = FALSE => rest = Bytes(o, Least(end, L))
  <2>1. PICK from \in Nat, C \in Nat :
          from = n * ChunkSize /\ C = ChunkSize /\ end = from + C
    <3>1. n * ChunkSize \in Nat /\ (n + 1) * ChunkSize = n * ChunkSize + ChunkSize
          /\ ChunkSize \in Nat
      BY Sizes, ChunkPlaces
    <3>. QED
      BY ONLY <1>3, <3>1
  <2>2. o = from + skip /\ skip < C /\ o < end /\ from <= o
    <3>1. o = from + skip /\ skip < C /\ o < end
      BY ONLY <1>3, <2>1
    <3>. QED
      BY ONLY <3>1, skip \in Nat, from \in Nat
  <2>3. o <= L
    BY ONLY <1>0, <1>2, <1>4, <1>10
  <2>4. CASE ok = TRUE
    <3>1. PICK to \in Nat : to = Least(end, L)
      BY ONLY end \in Nat, L \in Nat DEF Least
    <3>2. to \in {end, L} /\ to <= end /\ to <= L
      BY ONLY <3>1, LeastIs, end \in Nat, L \in Nat
    <3>3. o <= to
      BY ONLY <2>2, <2>3, <3>2, o \in Nat, to \in Nat, end \in Nat, L \in Nat
    <3>4. data = Bytes(from, to)
      BY ONLY <1>3, <1>4, <1>6, <1>10, <1>11, <2>1, <2>4, <3>1 DEF Answered
    <3>5. Len(data) = to - from
      <4>1. from <= to
        BY ONLY <2>2, <3>3, o \in Nat, from \in Nat, to \in Nat
      <4>. QED
        BY ONLY <3>4, <4>1, BytesIs, from \in Nat, to \in Nat
    <3>6. skip <= to - from
      BY ONLY <2>2, <3>3, o \in Nat, skip \in Nat, from \in Nat, to \in Nat
    <3>7. short = FALSE
      <4>1. ~(skip > Len(data))
        BY ONLY <3>5, <3>6, skip \in Nat, from \in Nat, to \in Nat
      <4>2. short = (ok /\ skip > Len(data))
        BY ONLY <1>1, <1>2, <1>3
      <4>. QED
        BY ONLY <4>1, <4>2
    <3>8. rest = SubSeq(Bytes(from, to), skip + 1, to - from)
      BY ONLY <1>1, <1>2, <1>3, <2>4, <3>4, <3>5, <3>7 DEF Cut
    <3>9. SubSeq(Bytes(from, to), skip + 1, to - from) = Bytes(from + skip, to)
      <4>1. skip \in 0..(to - from) /\ from <= to
        BY ONLY <2>2, <3>3, o \in Nat, skip \in Nat, from \in Nat, to \in Nat
      <4>. QED
        BY ONLY <4>1, BytesSplit, from \in Nat, to \in Nat
    <3>10. rest = Bytes(o, to)
      BY ONLY <2>2, <3>8, <3>9
    <3>11. Len(rest) = to - o
      BY ONLY <3>3, <3>10, BytesIs, o \in Nat, to \in Nat
    <3>12. o + Len(rest) <= end /\ o + Len(rest) <= L
      BY ONLY <3>2, <3>3, <3>11, o \in Nat, to \in Nat, end \in Nat, L \in Nat
    <3>. QED
      BY ONLY <3>1, <3>7, <3>10, <3>12
  <2>5. CASE ok = FALSE
    <3>1. rest = <<>> /\ Len(rest) = 0 /\ short = FALSE
      <4>1. data = <<>>
        BY ONLY <1>6, <1>11, <2>5 DEF Answered
      <4>2. rest = data /\ short = FALSE
        BY ONLY <1>1, <2>5
      <4>. QED
        BY ONLY <4>1, <4>2, EmptySeq
    <3>2. ASSUME later = FALSE
          PROVE  rest = Bytes(o, Least(end, L))
      <4>1. ~(o < L)
        BY ONLY <1>4, <1>6, <1>10, <2>5, <3>2 DEF Noted
      <4>2. o = L
        BY ONLY <2>3, <4>1, o \in Nat, L \in Nat
      <4>3. Least(end, L) = L
        BY ONLY <2>2, <4>2, end \in Nat, L \in Nat DEF Least
      <4>4. Bytes(L, L) = <<>>
        BY BytesEmpty
      <4>. QED
        BY ONLY <3>1, <4>2, <4>3, <4>4
    <3>3. o + Len(rest) <= end /\ o + Len(rest) <= L
      BY ONLY <2>2, <2>3, <3>1, o \in Nat, end \in Nat
    <3>. QED
      BY ONLY <3>1, <3>2, <3>3
  <2>. QED
    BY ONLY <2>4, <2>5, ok \in BOOLEAN
<1>12. panicked' \in BOOLEAN /\ strayed' \in BOOLEAN
  <2>1. panicked \in BOOLEAN /\ strayed \in BOOLEAN
    BY DEF GridInd, GridTypes
  <2>. QED
    BY ONLY <1>0, <1>1, <2>1
<1>13. ReaderOk'
  <2>. SUFFICES ASSUME strayed' = FALSE PROVE ReaderAt(file', later, panicked')
    BY <1>10 DEF ReaderOk
  <2>1. /\ file'.offset = o /\ file'.rbuf = rest /\ file'.length = L
        /\ file'.chunk * ChunkSize = end
    BY ONLY <1>3, <1>4, <1>8, <1>10
  <2>2. strayed = FALSE /\ panicked' = (panicked \/ short)
    BY <1>1, <1>9
  <2>3. file'.mode = "reading" /\ later = FALSE => panicked' = FALSE
    <3>. SUFFICES ASSUME file'.mode = "reading", later = FALSE PROVE panicked' = FALSE
      OBVIOUS
    <3>1. file.mode = "reading"
      BY ONLY <1>4, <1>8, file'.mode = "reading"
    <3>2. failed = FALSE
      <4>1. failed \in BOOLEAN
        BY DEF GridInd, GridTypes
      <4>. QED
        BY ONLY <1>6, <1>10, <4>1, later = FALSE DEF Noted
    <3>3. panicked = FALSE
      <4>1. panicked \in BOOLEAN
        BY DEF GridInd, GridTypes
      <4>. QED
        BY <2>2, <3>1, <3>2, <4>1 DEF GridInd, ReaderOk, ReaderAt
    <3>. QED
      BY ONLY <1>11, <2>2, <3>3
  <2>. QED
    BY ONLY <1>11, <2>1, <2>2, <2>3, later \in BOOLEAN DEF ReaderAt
<1>14. strayed' = FALSE =>
         /\ strayed = FALSE
         /\ file.mode = "writing" =>
              /\ file'.chunk = file.chunk /\ file'.rbuf = <<>> /\ file'.offset = 0
              /\ fetch' = NoFetch
  BY ONLY <1>9
<1>. QED
  BY ONLY <1>0, <1>4, <1>6, <1>8, <1>12, <1>13, <1>14, SeekStep, GridInd

----------------------------------------------------------------------------
(* The other client                                                        *)

LEMMA RemoveDocInd ==
  ASSUME GridAssumption, GridInd, RemoveDoc
  PROVE  GridInd'
<1>1. /\ fileDoc # NoDoc /\ fileDoc' = NoDoc
      /\ UNCHANGED <<file, doing, inserts, fetch, chunks, failed, panicked, strayed>>
  BY DEF RemoveDoc, history
<1>2. file.mode # "writing"
  BY <1>1 DEF GridInd, ModesOk
<1>3. GridTypes'
  <2>1. NoDoc \in [length : Int, sum : Seq(Nat)]
    BY EmptySeq DEF NoDoc
  <2>. QED
    BY <1>1, <2>1 DEF GridInd, GridTypes
<1>4. ModesOk'
  BY <1>1, <1>2 DEF GridInd, ModesOk
<1>5. WriterOk' /\ PlacesOk'
  BY <1>1, <1>2 DEF WriterOk, PlacesOk
<1>6. ChunksOk' /\ DocOk'
  BY <1>1, ChunksSame DEF GridInd, DocOk
<1>7. FetchOk' /\ ReaderOk'
  BY <1>1, FetchSame, ReaderSame DEF GridInd
<1>8. SizesOk'
  BY <1>1, SizesSame, <1>2 DEF GridInd
<1>. QED
  BY <1>3, <1>4, <1>5, <1>6, <1>7, <1>8 DEF GridInd

LEMMA RemoveChunksInd ==
  ASSUME GridAssumption, GridInd, NEW ok \in BOOLEAN, RemoveChunks(ok)
  PROVE  GridInd'
<1>1. /\ removal = "half" /\ chunks' \in {{}, chunks}
      /\ UNCHANGED <<file, doing, inserts, fetch, fileDoc, failed, panicked, strayed>>
  BY DEF RemoveChunks, history
<1>2. file.mode # "writing" /\ fileDoc = NoDoc
  BY <1>1 DEF GridInd, ModesOk, DocOk
<1>3. GridTypes'
  BY <1>1 DEF GridInd, GridTypes
<1>4. ModesOk'
  BY <1>1, <1>2 DEF GridInd, ModesOk
<1>5. WriterOk' /\ PlacesOk' /\ DocOk'
  BY <1>1, <1>2 DEF WriterOk, PlacesOk, DocOk
<1>6. ChunksOk'
  <2>1. ASSUME NEW n, NEW data PROVE ChunkOk(n, data)' <=> ChunkOk(n, data)
    BY <1>1 DEF ChunkOk
  <2>. QED
    BY <1>1, <1>2, <2>1 DEF GridInd, ChunksOk
<1>7. FetchOk' /\ ReaderOk'
  BY <1>1, FetchSame, ReaderSame DEF GridInd
<1>8. SizesOk'
  BY <1>1, SizesSame, <1>2 DEF GridInd
<1>. QED
  BY <1>3, <1>4, <1>5, <1>6, <1>7, <1>8 DEF GridInd

----------------------------------------------------------------------------
(* The theorem                                                             *)

LEMMA StutterInd ==
  ASSUME GridInd, UNCHANGED gridVars
  PROVE  GridInd'
<1>1. UNCHANGED <<file, doing, inserts, fetch, chunks, fileDoc, removal, failed, panicked,
                  strayed>>
  BY DEF gridVars
<1>2. GridTypes'
  BY <1>1 DEF GridInd, GridTypes
<1>3. ModesOk'
  BY <1>1, NextChunkSame DEF GridInd, ModesOk
<1>4. WriterOk' /\ PlacesOk'
  BY <1>1 DEF GridInd, WriterOk, PlacesOk, Summed
<1>5. ChunksOk' /\ DocOk' /\ FetchOk' /\ ReaderOk' /\ SizesOk'
  BY <1>1, ChunksSame, DocSame, FetchSame, ReaderSame DEF GridInd, SizesOk, PendingExact
<1>. QED
  BY <1>2, <1>3, <1>4, <1>5 DEF GridInd

LEMMA NextInd ==
  ASSUME GridAssumption, GridInd, [GridNext]_gridVars
  PROVE  GridInd'
<1>1. CASE \/ Flush \/ FlushWoken \/ WriteReturns \/ Close \/ CloseReader \/ Open
           \/ ReadReturns \/ RemoveDoc
  BY <1>1, FlushInd, FlushWokenInd, WriteReturnsInd, CloseInd, CloseReaderInd, OpenInd,
     ReadReturnsInd, RemoveDocInd
<1>2. ASSUME NEW k \in 1..MaxPiece, Write(k) \/ Read(k)
      PROVE  GridInd'
  <2>1. k \in Nat
    BY DEF GridAssumption
  <2>. QED
    BY <1>2, <2>1, WriteInd, ReadInd
<1>3. ASSUME NEW offset \in 0..MaxLength, SeekNear(offset)
      PROVE  GridInd'
  BY <1>3, SeekNearInd
<1>4. ASSUME NEW ok \in BOOLEAN,
             \/ InsertFile(ok) \/ Fetched(ok) \/ ReadGoesOn(ok) \/ RemoveChunks(ok)
             \/ \E c \in inserts : InsertEnds(c, ok)
             \/ \E offset \in 0..MaxLength : SeekFar(offset, ok)
      PROVE  GridInd'
  BY <1>4, InsertFileInd, FetchedInd, ReadGoesOnInd, RemoveChunksInd, InsertEndsInd,
     SeekFarInd
<1>5. CASE UNCHANGED gridVars
  BY <1>5, StutterInd
<1>. QED
  BY <1>1, <1>2, <1>3, <1>4, <1>5 DEF GridNext

LEMMA IndTypes ==
  ASSUME GridAssumption, GridInd
  PROVE  TypeOK
<1>1. /\ file.mode \in {"writing", "reading", "closed"} /\ file.err \in BOOLEAN
      /\ file.chunk \in Nat /\ file.offset \in Nat /\ file.wpending \in Nat
      /\ file.length \in 0..MaxLength
      /\ doing.call \in {"none", "write", "close", "read"}
  BY DEF GridInd, GridTypes, GridFile, UserCall
<1>2. file.wpending \in 0..MaxPending /\ Len(file.wbuf) <= ChunkSize
  BY <1>1, Sizes DEF GridInd, SizesOk
<1>. QED
  BY ONLY <1>1, <1>2 DEF TypeOK

LEMMA IndDoc ==
  ASSUME GridAssumption, GridInd
  PROVE  DocMeansWhole
<1>. SUFFICES ASSUME fileDoc # NoDoc PROVE DocMeansWhole
  BY DEF DocMeansWhole
<1>1. PICK L \in Nat : L = file.length
  BY Sizes DEF GridInd, GridTypes, GridFile
<1>2. fileDoc.length = L /\ fileDoc.sum = Bytes(0, L)
  BY <1>1 DEF GridInd, DocOk
<1>3. PICK last \in Int : last = (L + ChunkSize - 1) \div ChunkSize - 1
  <2>1. ChunkSize \in Nat \ {0}
    BY Sizes
  <2>. QED
    BY ONLY <2>1, L \in Nat
<1>4. \A n \in Nat : n * ChunkSize < L <=> n <= last
  BY ONLY <1>3, ChunksOfLength, GridAssumption, L \in Nat
<1>5. ASSUME strayed = FALSE
      PROVE  chunks = {[n |-> i, data |-> Piece(i, L)] : i \in 0..last}
  <2>1. \A c \in chunks : c \in Chunk /\ ChunkOk(c.n, c.data)
    BY <1>5 DEF GridInd, GridTypes, ChunksOk
  <2>2. ASSUME NEW c \in chunks
        PROVE  c \in {[n |-> i, data |-> Piece(i, L)] : i \in 0..last}
    <3>1. PICK i \in Nat : i = c.n /\ i * ChunkSize < L /\ c.data = Piece(i, L)
      BY <1>1, <2>1 DEF ChunkOk
    <3>2. i \in 0..last
      BY ONLY <1>4, <3>1, i \in Nat, last \in Int
    <3>3. c = [n |-> i, data |-> Piece(i, L)]
      BY <2>1, <3>1 DEF Chunk
    <3>. QED
      BY ONLY <3>2, <3>3
  <2>3. ASSUME NEW i \in 0..last
        PROVE  [n |-> i, data |-> Piece(i, L)] \in chunks
    <3>1. i \in Nat /\ i <= last
      BY ONLY i \in 0..last, last \in Int
    <3>2. i * ChunkSize < L
      BY ONLY <1>4, <3>1
    <3>3. PICK c \in chunks : c.n = i
      BY <1>1, <1>5, <3>1, <3>2 DEF GridInd, DocOk, Present
    <3>4. c.data = Piece(i, L)
      BY <1>1, <2>1, <3>3 DEF ChunkOk
    <3>5. c = [n |-> i, data |-> Piece(i, L)]
      BY <2>1, <3>3, <3>4 DEF Chunk
    <3>. QED
      BY ONLY <3>5, c \in chunks
  <2>. QED
    BY ONLY <2>2, <2>3
<1>6. strayed \in BOOLEAN
  BY DEF GridInd, GridTypes
<1>. QED
  BY ONLY <1>2, <1>3, <1>5, <1>6 DEF DocMeansWhole

LEMMA IndWritten ==
  ASSUME GridAssumption, GridInd
  PROVE  WrittenInOrder
<1>. SUFFICES ASSUME file.mode = "writing"
              PROVE  file.wsum \o file.wbuf \o doing.todo = Bytes(0, file.length)
  BY DEF WrittenInOrder
<1>1. PICK sum \in Seq(Nat), buf \in Seq(Nat), todo \in Seq(Nat), L \in Nat :
        sum = file.wsum /\ buf = file.wbuf /\ todo = doing.todo /\ L = file.length
  <2>1. file.wsum \in Seq(Nat) /\ file.wbuf \in Seq(Nat)
    BY DEF GridInd, GridTypes, GridFile
  <2>2. doing.todo \in Seq(Nat)
    BY DEF GridInd, GridTypes, UserCall
  <2>3. file.length \in Nat
    BY Sizes DEF GridInd, GridTypes, GridFile
  <2>. QED
    BY ONLY <2>1, <2>2, <2>3
<1>2. Follow(sum, buf, todo, L)
  BY <1>1 DEF GridInd, WriterOk
<1>3. PICK s \in Nat, b \in Nat, t \in Nat : s = Len(sum) /\ b = Len(buf) /\ t = Len(todo)
  OBVIOUS
<1>4. PICK m \in Nat : m = s + b
  OBVIOUS
<1>5. sum = Bytes(0, s) /\ buf = Bytes(s, m) /\ todo = Bytes(m, L) /\ m + t = L
  BY ONLY <1>2, <1>3, <1>4 DEF Follow
<1>6. s <= m /\ m <= L
  BY ONLY <1>4, <1>5, s \in Nat, b \in Nat, t \in Nat, m \in Nat, L \in Nat
<1>7. PICK z \in Nat : z = 0 /\ z <= s /\ z <= m
  <2>1. 0 \in Nat /\ 0 <= s /\ 0 <= m
    BY ONLY s \in Nat, m \in Nat
  <2>. QED
    BY ONLY <2>1
<1>8. Bytes(z, s) \o Bytes(s, m) = Bytes(z, m)
  BY ONLY <1>6, <1>7, BytesConcat, z \in Nat, s \in Nat, m \in Nat
<1>9. Bytes(z, m) \o Bytes(m, L) = Bytes(z, L)
  BY ONLY <1>6, <1>7, BytesConcat, z \in Nat, L \in Nat, m \in Nat
<1>. QED
  BY ONLY <1>1, <1>5, <1>7, <1>8, <1>9

LEMMA IndAligned ==
  ASSUME GridAssumption, GridInd
  PROVE  BufferAligned
<1>. SUFFICES ASSUME strayed = FALSE PROVE BufferAligned
  BY DEF BufferAligned, GridInd, GridTypes
<1>1. PICK o \in Nat, z \in Nat, e \in Nat :
        o = file.offset /\ z = Len(file.rbuf) /\ e = file.chunk * ChunkSize
  <2>1. file.offset \in Nat /\ file.rbuf \in Seq(Nat) /\ file.chunk \in Nat /\ ChunkSize \in Nat
    BY Sizes DEF GridInd, GridTypes, GridFile
  <2>2. Len(file.rbuf) \in Nat /\ file.chunk * ChunkSize \in Nat
    BY ONLY <2>1
  <2>. QED
    BY ONLY <2>1, <2>2
<1>2. /\ o + z <= e /\ o + z <= file.length
      /\ file.mode = "reading" /\ ~failed =>
           file.rbuf = Bytes(o, Least(e, file.length)) /\ ~panicked
  BY <1>1 DEF GridInd, ReaderOk, ReaderAt
<1>3. Greatest(e, o) = e
  BY ONLY <1>2, o \in Nat, z \in Nat, e \in Nat DEF Greatest
<1>. QED
  BY ONLY <1>1, <1>2, <1>3 DEF BufferAligned

LEMMA IndInv ==
  ASSUME GridAssumption, GridInd
  PROVE  GridInv
BY IndTypes, IndDoc, IndWritten, IndAligned DEF GridInv, GridInd, SizesOk

\* A file of GridFS that can be found has the checksum of all its bytes and,
\* unless a Seek came between its writes, is whole: its chunks are all stored,
\* none twice, each with its part of the file, in whatever order the goroutines
\* that insert them end and whichever of them fail; the pending insertions are
\* counted exactly if the Id of the file can be marshalled, and Close leaves
\* none behind; and a reader's buffer holds the bytes from its offset on, and no
\* Seek panics, however Read and Seek are mixed, until a fetch fails (gridfs.go
\* Write, Close, insertChunk, insertFile, Read, Seek, getChunk).
THEOREM GridCorrect == GridSpec => []GridInv
<1>1. GridInit => GridInd
  BY InitInd, GridAssumption
<1>2. GridInd /\ [GridNext]_gridVars => GridInd'
  BY NextInd, GridAssumption
<1>3. GridInd => GridInv
  BY IndInv, GridAssumption
<1>. QED
  BY <1>1, <1>2, <1>3, PTL DEF GridSpec

----------------------------------------------------------------------------
(* Transactions: the inductive invariant                                   *)

\* How a transaction may change its state: what it decided it keeps to.
Onward(s, u) ==
  /\ s \in {"applying", "applied"} => u \in {"applying", "applied"}
  /\ s = "applied" => u = "applied"
  /\ s = "aborting" => u \in {"aborting", "aborted"}
  /\ s = "aborted" => u = "aborted"

\* A copy c of a transaction that is in state s: what it says of a decision holds.
Known(s, c) == DOMAIN c = {"s", "n", "r"} /\ Onward(c.s, s)

\* What a call of advance, at a step of applying or aborting, has made of its
\* copy.  x are the transactions in the database.
Edits == {"update", "pushNonce", "markRemove", "restash", "removeDoc", "markInsert",
          "insertDoc", "dropStash", "pullStash", "setApplied"}
Aborts == {"pullAborted", "setAborted"}
FrameFields == {"t", "c", "pull", "force", "pc", "i", "tok", "revno", "revnos", "retry",
                "why", "q"}
CallOk(x, fr) ==
  /\ DOMAIN fr = FrameFields
  /\ fr.t \in Txns => /\ Known(x[fr.t].s, fr.c)
                      /\ fr.pc \in Edits => fr.c.s = "applying"
                      /\ fr.pc \in Aborts => fr.c.s = "aborting"

FlusherFields == {"goal", "seen", "queue", "path", "frames", "sorting", "order"}
FlusherOk(x, f) ==
  /\ DOMAIN f = FlusherFields /\ DOMAIN f.seen = Txns
  /\ \A t \in Txns : Known(x[t].s, f.seen[t])
  /\ f.frames \in Seq(Range(f.frames)) /\ \A fr \in Range(f.frames) : CallOk(x, fr)

TxnInd ==
  /\ scenario \in Scenarios
  /\ DOMAIN txn = Txns /\ \A t \in Txns : DOMAIN txn[t] = {"s", "n", "r"}
  /\ DOMAIN flusher = Runners /\ \A r \in Runners : FlusherOk(txn, flusher[r])
  /\ result \in [Txns -> {"", "applied", "aborted"}] /\ ResultsTrue

LEMMA FrontInSeq ==
  ASSUME NEW S, NEW s \in Seq(S), s # <<>>
  PROVE  Front(s) \in Seq(S)
<1>1. PICK n \in Nat : n = Len(s) - 1 /\ n + 1 = Len(s)
  BY EmptySeq
<1>2. \A i \in 1 .. n : s[i] \in S
  BY <1>1, ElementOfSeq
<1>3. SubSeq(s, 1, n) \in Seq(S)
  BY <1>2, SubSeqProperties
<1>. QED
  BY <1>1, <1>3 DEF Front

----------------------------------------------------------------------------
(* What keeps a flusher well                                               *)

LEMMA CallMoved ==
  ASSUME NEW x, NEW fr, CallOk(x, fr), NEW g, DOMAIN g = FrameFields,
         g.t = fr.t, g.c = fr.c,
         fr.t \in Txns => /\ g.pc \in Edits => fr.c.s = "applying"
                          /\ g.pc \in Aborts => fr.c.s = "aborting"
  PROVE  CallOk(x, g)
BY DEF CallOk

\* The calls may be any that are well.
LEMMA FramesSet ==
  ASSUME NEW x, NEW f, FlusherOk(x, f),
         NEW S, NEW s \in Seq(S), \A fr \in S : CallOk(x, fr)
  PROVE  /\ FlusherOk(x, [f EXCEPT !.frames = s]) /\ [f EXCEPT !.frames = s].frames = s
<1>. DEFINE g == [f EXCEPT !.frames = s]
<1>1. DOMAIN g = FlusherFields /\ g.frames = s /\ g.seen = f.seen
  BY DEF FlusherOk, FlusherFields
<1>2. Range(s) \subseteq S /\ s \in Seq(Range(s))
  BY RangeOfSeq, SeqOfRange
<1>. HIDE DEF g
<1>3. FlusherOk(x, g)
  BY <1>1, <1>2 DEF FlusherOk
<1>. QED
  BY <1>1, <1>3 DEF g

LEMMA TopOk ==
  ASSUME NEW x, NEW f, FlusherOk(x, f), f.frames # <<>>
  PROVE  CallOk(x, Top(f))
<1>1. Len(f.frames) \in DOMAIN f.frames
  BY EmptySeq, LenProperties DEF FlusherOk
<1>. QED
  BY <1>1 DEF FlusherOk, Top, Last, Range

LEMMA WithTopOk ==
  ASSUME NEW x, NEW f, FlusherOk(x, f), f.frames # <<>>, NEW fr, CallOk(x, fr)
  PROVE  FlusherOk(x, WithTop(f, fr)) /\ WithTop(f, fr).frames # <<>>
<1>. DEFINE S == Range(f.frames) \cup {fr}
<1>1. f.frames \in Seq(S) /\ \A g \in S : CallOk(x, g)
  BY SeqMonotonic DEF FlusherOk
<1>2. fr \in S
  OBVIOUS
<1>. HIDE DEF S
<1>3. PICK s \in Seq(S) : s = f.frames
  BY <1>1
<1>4. PICK n \in 1 .. Len(s) : n = Len(s)
  BY <1>3, EmptySeq
<1>5. PICK u : u = [s EXCEPT ![n] = fr]
  OBVIOUS
<1>6. u \in Seq(S) /\ Len(u) = Len(s)
  BY <1>2, <1>4, <1>5, ExceptSeq
<1>7. u # <<>>
  BY <1>4, <1>6, EmptySeq
<1>8. WithTop(f, fr) = [f EXCEPT !.frames = u]
  BY <1>3, <1>4, <1>5 DEF WithTop, FlusherOk, FlusherFields
<1>. QED
  BY <1>1, <1>6, <1>7, <1>8, FramesSet

LEMMA FrameOk ==
  ASSUME NEW x, NEW t, NEW c, t \in Txns => Known(x[t].s, c), NEW pull, NEW force, NEW pc,
         pc \notin Edits \cup Aborts
  PROVE  CallOk(x, Frame(t, c, pull, force, pc))
<1>1. PICK g : g = Frame(t, c, pull, force, pc)
  OBVIOUS
<1>2. DOMAIN g = FrameFields /\ g.t = t /\ g.c = c /\ g.pc = pc
  BY <1>1 DEF Frame, FrameFields
<1>3. CallOk(x, g)
  BY <1>2 DEF CallOk
<1>. QED
  BY <1>1, <1>3

LEMMA LoadOk ==
  ASSUME NEW x, NEW f, FlusherOk(x, f), f.frames # <<>>, NEW fr, CallOk(x, fr), NEW t
  PROVE  FlusherOk(x, LoadAndApply(f, fr, t))
<1>1. PICK g : g = WithTop(f, fr)
  OBVIOUS
<1>2. PICK e : e = Frame(t, NoCopy, {t}, TRUE, "load")
  OBVIOUS
<1>3. FlusherOk(x, g)
  BY <1>1, WithTopOk
<1>4. \A u : Known(u, NoCopy)
  BY DEF Known, NoCopy, Onward
<1>5. CallOk(x, e)
  BY <1>2, <1>4, FrameOk DEF Edits, Aborts
<1>. DEFINE S == Range(g.frames) \cup {e}
<1>6. g.frames \in Seq(S) /\ e \in S /\ \A h \in S : CallOk(x, h)
  BY <1>3, <1>5, SeqMonotonic DEF FlusherOk
<1>. HIDE DEF S
<1>7. PICK u \in Seq(S) : u = Append(g.frames, e)
  BY <1>6, AppendProperties
<1>8. LoadAndApply(f, fr, t) = [g EXCEPT !.frames = u]
  BY <1>1, <1>2, <1>3, <1>7 DEF LoadAndApply, FlusherOk, FlusherFields
<1>9. FlusherOk(x, [g EXCEPT !.frames = u])
  BY <1>3, <1>6, FramesSet
<1>. QED
  BY <1>8, <1>9

LEMMA ReturnCopy ==
  ASSUME NEW x, NEW f, FlusherOk(x, f), f.frames # <<>>,
         NEW fr, fr.t \in Txns => Known(x[fr.t].s, fr.c), NEW preReqs
  PROVE  FlusherOk(x, Return(f, fr, preReqs))
<1>. DEFINE S == Range(f.frames)
<1>1. f.frames \in Seq(S) /\ \A g \in S : CallOk(x, g)
  BY DEF FlusherOk
<1>. HIDE DEF S
<1>2. PICK below \in Seq(S) : below = Front(f.frames)
  BY <1>1, FrontInSeq
<1>3. CASE below # <<>>
  <2>1. Return(f, fr, preReqs) = [f EXCEPT !.frames = below]
    BY <1>2, <1>3 DEF Return
  <2>. QED
    BY <1>1, <1>2, <2>1, FramesSet
<1>4. CASE below = <<>>
  <2>1. PICK g : g = Return(f, fr, preReqs)
    OBVIOUS
  <2>2. /\ DOMAIN g = FlusherFields /\ g.frames = <<>>
        /\ g.seen = [f.seen EXCEPT ![fr.t] = fr.c]
    BY <1>2, <1>4, <2>1 DEF Return, FlusherOk, FlusherFields
  <2>3. DOMAIN g.seen = Txns /\ \A t \in Txns : Known(x[t].s, g.seen[t])
    BY <2>2 DEF FlusherOk
  <2>4. g.frames \in Seq(Range(g.frames)) /\ Range(g.frames) = {}
    <3>1. PICK s \in Seq({}) : s = g.frames
      BY <2>2, EmptySeq
    <3>2. Range(s) \in SUBSET {} /\ s \in Seq(Range(s))
      BY RangeOfSeq, SeqOfRange
    <3>. QED
      BY <3>1, <3>2
  <2>. QED
    BY <2>1, <2>2, <2>3, <2>4 DEF FlusherOk
<1>. QED
  BY <1>3, <1>4

LEMMA ReturnOk ==
  ASSUME NEW x, NEW f, FlusherOk(x, f), f.frames # <<>>, NEW fr, CallOk(x, fr),
         NEW preReqs
  PROVE  FlusherOk(x, Return(f, fr, preReqs))
BY ReturnCopy DEF CallOk

\* Operations are numbered.
OpsOk == \A t \in Txns : DOMAIN Ops(t) \subseteq Nat

LEMMA ApplyFromOk ==
  ASSUME NEW x, NEW f, FlusherOk(x, f), f.frames # <<>>, NEW fr, CallOk(x, fr), NEW i,
         fr.t \in Txns => fr.c.s = "applying", OpsOk
  PROVE  FlusherOk(x, ApplyFrom(f, fr, i))
<1>1. PICK g : ApplyFrom(f, fr, i) = WithTop(f, g) /\ DOMAIN g = FrameFields
               /\ g.t = fr.t /\ g.c = fr.c /\ (fr.t \in Txns => g.pc \notin Aborts)
  <2>. DEFINE ops == Ops(fr.t)
              asks(j) == \/ ops[j].kind \in {"update", "remove"} /\ fr.c.r[j] >= 0
                         \/ ops[j].kind = "insert" /\ fr.c.r[j] < 0
              left == {j \in DOMAIN ops : j >= i /\ asks(j)}
              at == CHOOSE y \in left : \A z \in left : y <= z
  <2>1. CASE left = {}
    <3>1. PICK g : g = [fr EXCEPT !.pc = "setApplied", !.q = <<>>]
      OBVIOUS
    <3>2. DOMAIN g = FrameFields /\ g.t = fr.t /\ g.c = fr.c /\ g.pc = "setApplied"
      BY <3>1 DEF CallOk, FrameFields
    <3>3. ApplyFrom(f, fr, i) = WithTop(f, g)
      BY <2>1, <3>1 DEF ApplyFrom
    <3>. QED
      BY <3>2, <3>3 DEF Aborts
  <2>2. CASE left # {}
    <3>1. PICK g : g = [fr EXCEPT !.pc = Request(ops[at].kind), !.i = at, !.q = <<>>]
      OBVIOUS
    <3>2. DOMAIN g = FrameFields /\ g.t = fr.t /\ g.c = fr.c /\ g.pc = Request(ops[at].kind)
      BY <3>1 DEF CallOk, FrameFields
    <3>3. ApplyFrom(f, fr, i) = WithTop(f, g)
      BY <2>2, <3>1 DEF ApplyFrom
    <3>4. ASSUME fr.t \in Txns PROVE ops[at].kind \in {"update", "remove", "insert"}
      <4>1. left \subseteq Nat
        BY <3>4 DEF OpsOk
      <4>2. \E y \in left : \A z \in left : y <= z
        <5>. HIDE DEF left
        <5>. QED
          BY <2>2, <4>1, HasLeast
      <4>3. at \in left
        <5>. HIDE DEF left
        <5>. QED
          BY <4>2
      <4>. QED
        BY <4>3
    <3>5. fr.t \in Txns => g.pc \notin Aborts
      <4>. HIDE DEF at, ops
      <4>. QED
        BY <3>2, <3>4 DEF Aborts, Request
    <3>. QED
      BY <3>2, <3>3, <3>5
  <2>. QED
    BY <2>1, <2>2
<1>2. CallOk(x, g)
  BY <1>1, CallMoved
<1>. QED
  BY <1>1, <1>2, WithTopOk

LEMMA EnterOk ==
  ASSUME NEW x, NEW f, FlusherOk(x, f), f.frames # <<>>, NEW fr, CallOk(x, fr), NEW r, OpsOk
  PROVE  FlusherOk(x, Enter(r, f, fr))
<1>. DEFINE new(pc, tok) == [Frame(fr.t, fr.c, fr.pull, fr.force, pc) EXCEPT !.tok = tok]
            tok == Token(fr.t, fr.c.n)
            pre == HasPreReqs(f, tok, DocKeys(fr.t))
            s == fr.c.s
<1>1. ASSUME NEW pc, NEW k, pc \notin Edits \cup Aborts
      PROVE  CallOk(x, new(pc, k)) /\ new(pc, k).t = fr.t /\ new(pc, k).c = fr.c
  <2>1. PICK g : g = Frame(fr.t, fr.c, fr.pull, fr.force, pc)
    OBVIOUS
  <2>2. PICK h : h = [g EXCEPT !.tok = k]
    OBVIOUS
  <2>3. CallOk(x, g)
    <3>1. fr.t \in Txns => Known(x[fr.t].s, fr.c)
      BY DEF CallOk
    <3>. QED
      BY <1>1, <2>1, <3>1, FrameOk
  <2>4. g.t = fr.t /\ g.c = fr.c /\ g.pc = pc
    BY <2>1 DEF Frame
  <2>5. DOMAIN h = FrameFields /\ h.t = g.t /\ h.c = g.c /\ h.pc = pc
    BY <2>2, <2>3, <2>4 DEF CallOk, FrameFields
  <2>6. CallOk(x, h)
    BY <1>1, <2>3, <2>5, CallMoved
  <2>. QED
    BY <2>1, <2>2, <2>4, <2>5, <2>6
<1>2. /\ "mark" \notin Edits \cup Aborts /\ "rescan" \notin Edits \cup Aborts
      /\ "" \notin Edits \cup Aborts /\ "panic" \notin Edits \cup Aborts
      /\ "setAborted" \notin Edits
  BY DEF Edits, Aborts
<1>3. CallOk(x, new("setAborted", tok)) \/ s # "aborting"
  <2>1. PICK g : g = new("", tok)
    OBVIOUS
  <2>2. PICK h : h = new("setAborted", tok)
    OBVIOUS
  <2>3. CallOk(x, g) /\ g.t = fr.t /\ g.c = fr.c
    BY <1>1, <1>2, <2>1
  <2>4. DOMAIN h = FrameFields /\ h.t = fr.t /\ h.c = fr.c /\ h.pc = "setAborted"
    BY <2>2 DEF Frame, FrameFields
  <2>5. s = "aborting" => CallOk(x, h)
    BY <1>2, <2>3, <2>4, CallMoved
  <2>. QED
    BY <2>2, <2>5
<1>4. CASE s = "preparing"
  <2>1. Enter(r, f, fr) = WithTop(f, new("mark", Token(fr.t, <<r, life[r]>>)))
    BY <1>4 DEF Enter, Done
  <2>. HIDE DEF new
  <2>. QED
    BY <1>1, <1>2, <2>1, WithTopOk
<1>5. CASE s = "prepared"
  <2>1. \/ Enter(r, f, fr) = Return(f, fr, TRUE)
        \/ Enter(r, f, fr) = WithTop(f, new("rescan", tok))
    BY <1>5 DEF Enter, Done
  <2>. HIDE DEF new
  <2>. QED
    BY <1>1, <1>2, <2>1, WithTopOk, ReturnOk
<1>6. CASE s = "applying"
  <2>1. Enter(r, f, fr) = ApplyFrom(f, new("", tok), 1)
    BY <1>6 DEF Enter, Done
  <2>. HIDE DEF new
  <2>2. CallOk(x, new("", tok)) /\ new("", tok).c.s = "applying"
    BY <1>1, <1>2, <1>6
  <2>. QED
    BY <2>1, <2>2, ApplyFromOk
<1>7. CASE s = "aborting"
  <2>1. Enter(r, f, fr) = WithTop(f, new("setAborted", tok))
    BY <1>7 DEF Enter, Done
  <2>. HIDE DEF new
  <2>. QED
    BY <1>3, <1>7, <2>1, WithTopOk
<1>8. CASE Done(s)
  <2>1. Enter(r, f, fr) = Return(f, fr, FALSE)
    BY <1>8 DEF Enter, Done
  <2>. QED
    BY <2>1, ReturnOk
<1>9. CASE s \notin {"preparing", "prepared", "applying", "aborting"} /\ ~Done(s)
  <2>1. Enter(r, f, fr) = WithTop(f, new("panic", tok))
    BY <1>9 DEF Enter
  <2>. HIDE DEF new
  <2>. QED
    BY <1>1, <1>2, <2>1, WithTopOk
<1>. QED
  BY <1>4, <1>5, <1>6, <1>7, <1>8, <1>9

\* Moving on within a call: pc, places and what was read of the documents.
LEMMA MovedOk ==
  ASSUME NEW x, NEW f, FlusherOk(x, f), f.frames # <<>>, NEW fr, CallOk(x, fr),
         NEW g, DOMAIN g = FrameFields, g.t = fr.t, g.c = fr.c,
         g.pc \in Edits => fr.t \notin Txns \/ fr.c.s = "applying",
         g.pc \in Aborts => fr.t \notin Txns \/ fr.c.s = "aborting"
  PROVE  FlusherOk(x, WithTop(f, g)) /\ CallOk(x, g)
<1>1. CallOk(x, g)
  BY CallMoved
<1>. QED
  BY <1>1, WithTopOk

LEMMA AssertFromOk ==
  ASSUME NEW x, NEW f, FlusherOk(x, f), f.frames # <<>>, NEW fr, CallOk(x, fr), NEW i
  PROVE  FlusherOk(x, AssertFrom(f, fr, i))
<1>1. PICK g : /\ AssertFrom(f, fr, i) = WithTop(f, g)
               /\ DOMAIN g = FrameFields /\ g.t = fr.t /\ g.c = fr.c
               /\ g.pc \in {"setApplying", "setAborting", "assert"}
  <2>. DEFINE ops == Ops(fr.t)
              asks(j) == /\ ops[j].assert # "none"
                         /\ ops[j].assert = "missing" => fr.revnos[j] >= 0
              left == {j \in DOMAIN ops : j >= i /\ asks(j)}
              at == CHOOSE y \in left : \A z \in left : y <= z
  <2>. DEFINE g == IF left = {} THEN [fr EXCEPT !.pc = "setApplying"]
                   ELSE IF ops[at].assert = "missing" THEN [fr EXCEPT !.pc = "setAborting"]
                   ELSE [fr EXCEPT !.pc = "assert", !.i = at]
  <2>2. AssertFrom(f, fr, i) = WithTop(f, g)
    BY DEF AssertFrom
  <2>. HIDE DEF ops, left, at
  <2>3. /\ DOMAIN g = FrameFields /\ g.t = fr.t /\ g.c = fr.c
        /\ g.pc \in {"setApplying", "setAborting", "assert"}
    BY DEF CallOk, FrameFields
  <2>. HIDE DEF g
  <2>. QED
    BY <2>2, <2>3
<1>. QED
  BY <1>1, MovedOk DEF Edits, Aborts

LEMMA QueuedOk ==
  ASSUME NEW x, NEW f, FlusherOk(x, f), f.frames # <<>>, NEW fr, CallOk(x, fr),
         NEW rescanning
  PROVE  FlusherOk(x, Queued(f, fr, rescanning))
<1>. DEFINE tok == Token(fr.t, fr.c.n)
            pre == HasPreReqs(f, tok, DocKeys(fr.t))
<1>1. PICK g : g = [fr EXCEPT !.pc = IF rescanning THEN "panic" ELSE "rescan",
                              !.i = 1, !.tok = tok]
  OBVIOUS
<1>2. PICK h : h = [fr EXCEPT !.tok = tok, !.revnos = Revnos(fr.t, fr.revno, rescanning)]
  OBVIOUS
<1>3. \/ Queued(f, fr, rescanning) = WithTop(f, g)
      \/ Queued(f, fr, rescanning) = Return(f, fr, TRUE)
      \/ Queued(f, fr, rescanning) = AssertFrom(f, h, 1)
  BY <1>1, <1>2 DEF Queued
<1>. HIDE DEF tok, pre
<1>4. /\ DOMAIN g = FrameFields /\ g.t = fr.t /\ g.c = fr.c /\ g.pc \in {"panic", "rescan"}
      /\ DOMAIN h = FrameFields /\ h.t = fr.t /\ h.c = fr.c /\ h.pc = fr.pc
  BY <1>1, <1>2 DEF CallOk, FrameFields
<1>5. FlusherOk(x, WithTop(f, g))
  BY <1>4, MovedOk DEF Edits, Aborts
<1>6. CallOk(x, h)
  BY <1>4, CallMoved DEF CallOk
<1>. QED
  BY <1>3, <1>5, <1>6, ReturnOk, AssertFromOk

LEMMA NextDocOk ==
  ASSUME NEW x, NEW f, FlusherOk(x, f), f.frames # <<>>, NEW fr, CallOk(x, fr),
         NEW q, NEW n, NEW rescanning \in BOOLEAN
  PROVE  FlusherOk(x, NextDoc(f, fr, q, n, rescanning))
<1>. DEFINE d == DocKeys(fr.t)[fr.i]
<1>1. PICK g : g = [f EXCEPT !.queue[d] = q]
  OBVIOUS
<1>2. PICK h : h = [fr EXCEPT !.revno[d] = n, !.i = fr.i + 1, !.retry = 0, !.q = <<>>]
  OBVIOUS
<1>3. PICK m : m = [h EXCEPT !.pc = IF rescanning THEN "rescan" ELSE "mark"]
  OBVIOUS
<1>4. PICK one : one = [h EXCEPT !.i = 1]
  OBVIOUS
<1>5. PICK p : p = [h EXCEPT !.pc = "setPrepared", !.i = 1]
  OBVIOUS
<1>6. \/ NextDoc(f, fr, q, n, rescanning) = WithTop(g, m)
      \/ NextDoc(f, fr, q, n, rescanning) = Queued(g, one, TRUE)
      \/ NextDoc(f, fr, q, n, rescanning) = WithTop(g, p)
  BY <1>1, <1>2, <1>3, <1>4, <1>5 DEF NextDoc
<1>. HIDE DEF d
<1>7. FlusherOk(x, g) /\ g.frames # <<>>
  <2>1. DOMAIN g = FlusherFields /\ g.frames = f.frames /\ g.seen = f.seen
    BY <1>1 DEF FlusherOk, FlusherFields
  <2>. QED
    BY <2>1 DEF FlusherOk
<1>8. DOMAIN h = FrameFields /\ h.t = fr.t /\ h.c = fr.c /\ h.pc = fr.pc
  BY <1>2 DEF CallOk, FrameFields
<1>9. /\ DOMAIN m = FrameFields /\ m.t = fr.t /\ m.c = fr.c /\ m.pc \in {"rescan", "mark"}
      /\ DOMAIN one = FrameFields /\ one.t = fr.t /\ one.c = fr.c /\ one.pc = fr.pc
      /\ DOMAIN p = FrameFields /\ p.t = fr.t /\ p.c = fr.c /\ p.pc = "setPrepared"
  BY <1>3, <1>4, <1>5, <1>8 DEF FrameFields
<1>10. FlusherOk(x, WithTop(g, m)) /\ FlusherOk(x, WithTop(g, p))
  BY <1>7, <1>9, MovedOk DEF Edits, Aborts
<1>11. CallOk(x, one)
  BY <1>9, CallMoved DEF CallOk
<1>. QED
  BY <1>6, <1>7, <1>10, <1>11, QueuedOk

----------------------------------------------------------------------------
(* Steps                                                                   *)

Forward == \A t \in Txns : Onward(txn[t].s, txn'[t].s)
Steps == TxnInd' /\ Forward

LEMMA OnwardOk ==
  /\ \A s : Onward(s, s)
  /\ \A s, u, v : Onward(s, u) /\ Onward(u, v) => Onward(s, v)
BY DEF Onward

LEMMA ScenarioOk ==
  ASSUME TxnInd
  PROVE  OpsOk /\ scenario.runners \subseteq Runners
<1>1. scenario.runners \subseteq Runners
  BY TxnAssumption DEF TxnInd
<1>. DEFINE Op == [doc : Docs, kind : {"insert", "update", "remove", "assert"},
                   assert : {"none", "exists", "fresh", "missing"}]
<1>2. scenario.ops \in [Txns -> Seq(Op)]
  BY TxnAssumption DEF TxnInd
<1>. HIDE DEF Op
<1>3. ASSUME NEW t \in Txns PROVE DOMAIN Ops(t) \subseteq Nat
  <2>1. Ops(t) \in Seq(Op)
    BY <1>2 DEF Ops
  <2>2. PICK n \in Nat : DOMAIN Ops(t) = 1 .. n
    BY <2>1, LenProperties
  <2>. QED
    BY <2>2
<1>. QED
  BY <1>1, <1>3 DEF OpsOk

\* A flusher that is well stays so while the transactions move forward.
LEMMA StaysOk ==
  ASSUME NEW x, NEW y, \A t \in Txns : Onward(x[t].s, y[t].s),
         NEW f, FlusherOk(x, f)
  PROVE  FlusherOk(y, f)
<1>1. \A t \in Txns : \A c : Known(x[t].s, c) => Known(y[t].s, c)
  BY OnwardOk DEF Known
<1>2. \A fr : CallOk(x, fr) => CallOk(y, fr)
  BY <1>1 DEF CallOk
<1>. QED
  BY <1>1, <1>2 DEF FlusherOk

LEMMA Written ==
  ASSUME TxnInd, NEW r, NEW f, Become(r, f), Forward, DOMAIN txn' = Txns,
         \A t \in Txns : DOMAIN txn'[t] = {"s", "n", "r"}, FlusherOk(txn', f),
         UNCHANGED <<scenario, result>>
  PROVE  Steps
<1>1. \A p \in Runners : FlusherOk(txn', flusher'[p])
  <2>1. \A p \in Runners : FlusherOk(txn', flusher[p])
    <3>1. \A t \in Txns : Onward(txn[t].s, txn'[t].s)
      BY DEF Forward
    <3>. QED
      BY <3>1, StaysOk DEF TxnInd
  <2>. QED
    BY <2>1 DEF TxnInd, Become
<1>2. DOMAIN flusher' = Runners
  BY DEF TxnInd, Become
<1>3. ResultsTrue'
  <2>1. ASSUME NEW t \in Txns, result[t] # "" PROVE txn'[t].s = result[t]
    <3>1. txn[t].s = result[t] /\ Onward(txn[t].s, txn'[t].s)
      BY <2>1 DEF TxnInd, ResultsTrue, Forward
    <3>2. result[t] \in {"applied", "aborted"}
      BY <2>1 DEF TxnInd
    <3>. QED
      BY <3>1, <3>2 DEF Onward
  <2>. QED
    BY <2>1 DEF ResultsTrue
<1>. QED
  BY <1>1, <1>2, <1>3 DEF Steps, TxnInd

LEMMA Kept ==
  ASSUME TxnInd, NEW r, NEW f, Become(r, f), FlusherOk(txn, f),
         UNCHANGED <<scenario, txn, result>>
  PROVE  Steps
<1>1. Forward
  BY OnwardOk DEF Forward
<1>2. /\ DOMAIN txn' = Txns /\ \A t \in Txns : DOMAIN txn'[t] = {"s", "n", "r"}
      /\ FlusherOk(txn', f)
  BY DEF TxnInd
<1>. QED
  BY <1>1, <1>2, Written

LEMMA AskOk ==
  ASSUME TxnInd, NEW r \in Runners, NEW pc, Ask(r, pc)
  PROVE  /\ FlusherOk(txn, flusher[r]) /\ flusher[r].frames # <<>>
         /\ CallOk(txn, Top(flusher[r])) /\ Top(flusher[r]).pc = pc
         /\ OpsOk
<1>1. FlusherOk(txn, flusher[r]) /\ flusher[r].frames # <<>> /\ Top(flusher[r]).pc = pc
  BY DEF TxnInd, Ask
<1>. QED
  BY <1>1, TopOk, ScenarioOk

LEMMA GotoOk ==
  ASSUME TxnInd, NEW r \in Runners, flusher[r].frames # <<>>,
         NEW fr, CallOk(txn, fr), NEW pc, Goto(r, fr, pc),
         pc \in Edits => fr.t \notin Txns \/ fr.c.s = "applying",
         pc \in Aborts => fr.t \notin Txns \/ fr.c.s = "aborting",
         UNCHANGED <<scenario, txn, result>>
  PROVE  Steps
<1>1. PICK g : g = [fr EXCEPT !.pc = pc]
  OBVIOUS
<1>2. DOMAIN g = FrameFields /\ g.t = fr.t /\ g.c = fr.c /\ g.pc = pc
  BY <1>1 DEF CallOk, FrameFields
<1>3. FlusherOk(txn, flusher[r])
  BY DEF TxnInd
<1>4. FlusherOk(txn, WithTop(flusher[r], g))
  BY <1>2, <1>3, MovedOk
<1>5. Become(r, WithTop(flusher[r], g))
  BY <1>1 DEF Goto
<1>. QED
  BY <1>4, <1>5, Kept

LEMMA NoFlusherOk ==
  ASSUME NEW x
  PROVE  FlusherOk(x, NoFlusher)
<1>1. \A s : Known(s, NoCopy)
  BY DEF Known, NoCopy, Onward
<1>2. /\ DOMAIN NoFlusher = FlusherFields /\ NoFlusher.frames = <<>>
      /\ DOMAIN NoFlusher.seen = Txns /\ \A t \in Txns : NoFlusher.seen[t] = NoCopy
  BY DEF NoFlusher, FlusherFields
<1>3. NoFlusher.frames \in Seq(Range(NoFlusher.frames)) /\ Range(NoFlusher.frames) = {}
  <2>1. PICK s \in Seq({}) : s = NoFlusher.frames
    BY <1>2, EmptySeq
  <2>2. Range(s) \in SUBSET {} /\ s \in Seq(Range(s))
    BY RangeOfSeq, SeqOfRange
  <2>. QED
    BY <2>1, <2>2
<1>. QED
  BY <1>1, <1>2, <1>3 DEF FlusherOk

LEMMA FirstCall ==
  ASSUME NEW x, NEW f, FlusherOk(x, f), NEW fr, CallOk(x, fr),
         NEW g, DOMAIN g = FlusherFields, g.seen = f.seen, g.frames = <<fr>>
  PROVE  FlusherOk(x, g) /\ g.frames # <<>>
<1>1. PICK s \in Seq({fr}) : s = <<fr>> /\ s # <<>>
  <2>1. <<fr>> \in Seq({fr}) /\ <<fr>> # <<>>
    OBVIOUS
  <2>. QED
    BY <2>1
<1>2. Range(s) \in SUBSET {fr} /\ s \in Seq(Range(s))
  BY RangeOfSeq, SeqOfRange
<1>. QED
  BY <1>1, <1>2 DEF FlusherOk

LEMMA FailOk ==
  ASSUME TxnInd, NEW r, Fail(r), UNCHANGED <<scenario, txn, result>>
  PROVE  Steps
BY NoFlusherOk, Kept DEF Fail

----------------------------------------------------------------------------
(* The steps of a flusher                                                  *)

\* Preparing: the transaction is queued on each document.
LEMMA QueuesToken ==
  ASSUME TxnInd, NEW r \in Runners,
         Mark(r) \/ MarkStash(r) \/ ConfirmDoc(r) \/ ConfirmStash(r) \/ Unstash(r)
  PROVE  Steps
<1>. DEFINE f == flusher[r]
            fr == Top(f)
            d == TheDoc(fr)
<1>0. \E pc \in {"mark", "markStash", "confirmDoc", "confirmStash", "unstash"} : Ask(r, pc)
  BY DEF Mark, MarkStash, ConfirmDoc, ConfirmStash, Unstash
<1>1. FlusherOk(txn, f) /\ f.frames # <<>> /\ CallOk(txn, fr)
  BY <1>0, AskOk
<1>2. UNCHANGED <<scenario, txn, result>>
  BY DEF Mark, MarkStash, ConfirmDoc, ConfirmStash, Unstash
<1>. HIDE DEF f, fr
<1>3. ASSUME NEW g, NEW pc \in {"markStash", "confirmStash", "confirmDoc", "unstash", "mark"},
             Goto(r, fr, pc)
      PROVE  Steps
  BY <1>1, <1>2, <1>3, GotoOk DEF f, Edits, Aborts
<1>4. ASSUME NEW q, NEW n, Become(r, NextDoc(f, fr, q, n, FALSE))
      PROVE  Steps
  BY <1>1, <1>2, <1>4, NextDocOk, Kept
<1>5. CASE Mark(r)
  <2>1. \/ \E q, n : Become(r, NextDoc(f, fr, q, n, FALSE))
        \/ \E t : Become(r, LoadAndApply(f, fr, t))
        \/ Goto(r, fr, "markStash")
    BY <1>5 DEF Mark, f, fr
  <2>2. ASSUME NEW t, Become(r, LoadAndApply(f, fr, t)) PROVE Steps
    BY <1>1, <1>2, <2>2, LoadOk, Kept
  <2>. QED
    BY <1>3, <1>4, <2>1, <2>2
<1>6. CASE MarkStash(r)
  <2>1. PICK g : g = [fr EXCEPT !.pc = "mark"]
    OBVIOUS
  <2>2. \/ \E t : Become(r, LoadAndApply(f, g, t))
        \/ Goto(r, fr, "confirmDoc")
    BY <1>6, <2>1 DEF MarkStash, f, fr
  <2>3. DOMAIN g = FrameFields /\ g.t = fr.t /\ g.c = fr.c /\ g.pc = "mark"
    BY <1>1, <2>1 DEF CallOk, FrameFields
  <2>4. CallOk(txn, g)
    BY <1>1, <2>3, CallMoved DEF Edits, Aborts
  <2>5. ASSUME NEW t, Become(r, LoadAndApply(f, g, t)) PROVE Steps
    BY <1>1, <1>2, <2>4, <2>5, LoadOk, Kept
  <2>. QED
    BY <1>3, <2>2, <2>5
<1>7. CASE ConfirmDoc(r)
  <2>1. \/ \E q, n : Become(r, NextDoc(f, fr, q, n, FALSE))
        \/ Goto(r, fr, "confirmStash") \/ Goto(r, fr, "unstash")
    BY <1>7 DEF ConfirmDoc, f, fr
  <2>. QED
    BY <1>3, <1>4, <2>1
<1>8. CASE ConfirmStash(r)
  <2>1. \/ \E q, n : Become(r, NextDoc(f, fr, q, n, FALSE))
        \/ Goto(r, fr, "unstash")
    BY <1>8 DEF ConfirmStash, f, fr
  <2>. QED
    BY <1>3, <1>4, <2>1
<1>9. CASE Unstash(r)
  <2>1. Goto(r, fr, "mark")
    BY <1>9 DEF Unstash, f, fr
  <2>. QED
    BY <1>3, <2>1
<1>. QED
  BY <1>5, <1>6, <1>7, <1>8, <1>9

\* A call with another copy of its transaction.
LEMMA CopyRead ==
  ASSUME NEW x, NEW fr, CallOk(x, fr), NEW c, fr.t \in Txns => Known(x[fr.t].s, c),
         NEW g, g = [fr EXCEPT !.c = c], fr.pc \notin Edits \cup Aborts
  PROVE  CallOk(x, g) /\ g.t = fr.t /\ g.c = c /\ g.pc = fr.pc /\ DOMAIN g = FrameFields
<1>1. DOMAIN g = FrameFields /\ g.t = fr.t /\ g.c = c /\ g.pc = fr.pc
  BY DEF CallOk, FrameFields
<1>. QED
  BY <1>1 DEF CallOk

LEMMA Prepares ==
  ASSUME TxnInd, NEW r \in Runners, SetPrepared(r)
  PROVE  Steps
<1>. DEFINE f == flusher[r]
            fr == Top(f)
<1>0. Ask(r, "setPrepared")
  BY DEF SetPrepared
<1>1. FlusherOk(txn, f) /\ f.frames # <<>> /\ CallOk(txn, fr) /\ fr.pc = "setPrepared"
  BY <1>0, AskOk
<1>2. UNCHANGED <<scenario, result>>
  BY DEF SetPrepared
<1>3. CASE txn[fr.t].s = "preparing"
  <2>1. PICK c : /\ c = [s |-> "prepared", n |-> fr.tok[2], r |-> <<>>]
                 /\ c.s = "prepared" /\ DOMAIN c = {"s", "n", "r"}
    <3>. DEFINE c == [s |-> "prepared", n |-> fr.tok[2], r |-> <<>>]
    <3>1. c.s = "prepared" /\ DOMAIN c = {"s", "n", "r"}
      OBVIOUS
    <3>. QED
      BY <3>1
  <2>2. PICK g : g = [fr EXCEPT !.c = c]
    OBVIOUS
  <2>3. txn' = [txn EXCEPT ![fr.t] = c] /\ Become(r, Queued(f, g, FALSE))
    BY <1>3, <2>1, <2>2 DEF SetPrepared
  <2>. HIDE DEF f, fr
  <2>4. /\ DOMAIN txn' = Txns /\ \A t \in Txns : DOMAIN txn'[t] = {"s", "n", "r"}
        /\ fr.t \in Txns => txn'[fr.t] = c
        /\ \A t \in Txns : t # fr.t => txn'[t] = txn[t]
    BY <2>1, <2>3 DEF TxnInd
  <2>5. Forward
    BY <1>3, <2>1, <2>4 DEF Forward, Onward
  <2>6. FlusherOk(txn', f) /\ CallOk(txn', fr)
    <3>1. FlusherOk(txn', f)
      BY <1>1, <2>5, StaysOk DEF Forward
    <3>. QED
      BY <1>1, <3>1, TopOk DEF fr
  <2>7. fr.t \in Txns => Known(txn'[fr.t].s, c)
    BY <2>1, <2>4 DEF Known, Onward
  <2>8. CallOk(txn', g)
    BY <1>1, <2>2, <2>6, <2>7, CopyRead DEF Edits, Aborts
  <2>9. FlusherOk(txn', Queued(f, g, FALSE))
    BY <1>1, <2>6, <2>8, QueuedOk
  <2>. QED
    BY <1>2, <2>3, <2>4, <2>5, <2>9, Written
<1>4. CASE txn[fr.t].s # "preparing"
  <2>1. PICK g : g = [fr EXCEPT !.pc = "reload", !.why = "prepare"]
    OBVIOUS
  <2>2. txn' = txn /\ Become(r, WithTop(f, g))
    BY <1>4, <2>1 DEF SetPrepared
  <2>. HIDE DEF f, fr
  <2>3. DOMAIN g = FrameFields /\ g.t = fr.t /\ g.c = fr.c /\ g.pc = "reload"
    BY <1>1, <2>1 DEF CallOk, FrameFields
  <2>4. FlusherOk(txn, WithTop(f, g))
    BY <1>1, <2>3, MovedOk DEF Edits, Aborts
  <2>. QED
    BY <1>2, <2>2, <2>4, Kept
<1>. QED
  BY <1>3, <1>4

LEMMA Reloads ==
  ASSUME TxnInd, NEW r \in Runners, Reload(r)
  PROVE  Steps
<1>. DEFINE f == flusher[r]
            top == Top(f)
<1>0. Ask(r, "reload")
  BY DEF Reload
<1>1. FlusherOk(txn, f) /\ f.frames # <<>> /\ CallOk(txn, top) /\ top.pc = "reload" /\ OpsOk
  BY <1>0, AskOk
<1>2. UNCHANGED <<scenario, txn, result>>
  BY DEF Reload
<1>3. PICK c : c = txn[top.t]
  OBVIOUS
<1>4. PICK fr : fr = [top EXCEPT !.c = c]
  OBVIOUS
<1>5. PICK again : again = [fr EXCEPT !.pc = "rescan", !.retry = @ + 1]
  OBVIOUS
<1>6. PICK one : one = [fr EXCEPT !.i = 1]
  OBVIOUS
<1>7. \/ Goto(r, fr, "panic")
      \/ Become(r, Queued(f, fr, FALSE))
      \/ Become(r, WithTop(f, again))
      \/ Fail(r)
      \/ c.s = "aborting" /\ Goto(r, one, "pullAborted")
      \/ Become(r, Enter(r, f, fr))
  <2>1. fr.c = c
    BY <1>1, <1>4 DEF CallOk, FrameFields
  <2>. QED
    BY <1>3, <1>4, <1>5, <1>6, <2>1 DEF Reload
<1>. HIDE DEF f, top
<1>8. top.t \in Txns => Known(txn[top.t].s, c)
  BY <1>3, OnwardOk DEF Known, TxnInd
<1>9. /\ CallOk(txn, fr) /\ fr.t = top.t /\ fr.c = c /\ fr.pc = "reload"
      /\ DOMAIN fr = FrameFields
  <2>1. top.pc \notin Edits \cup Aborts
    BY <1>1 DEF Edits, Aborts
  <2>2. CallOk(txn, fr)
    BY <1>1, <1>4, <1>8, <2>1, CopyRead
  <2>3. /\ fr.t = top.t /\ fr.c = c /\ fr.pc = top.pc /\ DOMAIN fr = FrameFields
    BY <1>1, <1>4 DEF CallOk, FrameFields
  <2>. QED
    BY <1>1, <2>2, <2>3
<1>10. /\ DOMAIN one = FrameFields /\ one.t = fr.t /\ one.c = fr.c /\ one.pc = "reload"
       /\ DOMAIN again = FrameFields /\ again.t = fr.t /\ again.c = fr.c /\ again.pc = "rescan"
  BY <1>5, <1>6, <1>9 DEF FrameFields
<1>11. CallOk(txn, one)
  BY <1>9, <1>10, CallMoved DEF Edits, Aborts
<1>12. FlusherOk(txn, WithTop(f, again))
  BY <1>1, <1>9, <1>10, MovedOk DEF Edits, Aborts
<1>13. CASE Goto(r, fr, "panic")
  BY <1>1, <1>2, <1>9, <1>13, GotoOk DEF f, Edits, Aborts
<1>14. CASE Become(r, Queued(f, fr, FALSE))
  BY <1>1, <1>2, <1>9, <1>14, QueuedOk, Kept
<1>15. CASE Become(r, WithTop(f, again))
  BY <1>2, <1>12, <1>15, Kept
<1>16. CASE Fail(r)
  BY <1>2, <1>16, FailOk
<1>17. CASE c.s = "aborting" /\ Goto(r, one, "pullAborted")
  BY <1>1, <1>2, <1>9, <1>10, <1>11, <1>17, GotoOk DEF f, Edits, Aborts
<1>18. CASE Become(r, Enter(r, f, fr))
  BY <1>1, <1>2, <1>9, <1>18, EnterOk, Kept
<1>. QED
  BY <1>7, <1>13, <1>14, <1>15, <1>16, <1>17, <1>18

LEMMA LooksAgain ==
  ASSUME TxnInd, NEW r \in Runners, Rescan(r) \/ RescanStash(r)
  PROVE  Steps
<1>. DEFINE f == flusher[r]
            fr == Top(f)
            d == TheDoc(fr)
<1>0. Ask(r, "rescan") \/ Ask(r, "rescanStash")
  BY DEF Rescan, RescanStash
<1>1. /\ FlusherOk(txn, f) /\ f.frames # <<>> /\ CallOk(txn, fr)
      /\ fr.pc \in {"rescan", "rescanStash"}
  BY <1>0, AskOk
<1>2. UNCHANGED <<scenario, txn, result>>
  BY DEF Rescan, RescanStash
<1>3. PICK popped : popped = [fr EXCEPT !.pc = "reload", !.why = "popped"]
  OBVIOUS
<1>4. PICK missing : missing = [fr EXCEPT !.pc = "reload", !.why = "missing"]
  OBVIOUS
<1>5. PICK again : again = [fr EXCEPT !.pc = "rescan"]
  OBVIOUS
<1>6. \/ Goto(r, fr, "rescanStash")
      \/ \E t : Become(r, LoadAndApply(f, fr, t)) \/ Become(r, LoadAndApply(f, again, t))
      \/ Become(r, WithTop(f, missing))
      \/ \E q, n : Found(r, q, n)
  BY <1>4, <1>5 DEF Rescan, RescanStash
<1>7. ASSUME NEW q, NEW n, Found(r, q, n)
      PROVE  \/ Become(r, NextDoc(f, fr, q, n, TRUE))
             \/ \E g : g = [f EXCEPT !.queue[d] = q] /\ Become(r, WithTop(g, popped))
  BY <1>3, <1>7 DEF Found
<1>. HIDE DEF f, fr, d
<1>8. /\ DOMAIN popped = FrameFields /\ popped.t = fr.t /\ popped.c = fr.c
      /\ popped.pc = "reload"
      /\ DOMAIN missing = FrameFields /\ missing.t = fr.t /\ missing.c = fr.c
      /\ missing.pc = "reload"
      /\ DOMAIN again = FrameFields /\ again.t = fr.t /\ again.c = fr.c /\ again.pc = "rescan"
  BY <1>1, <1>3, <1>4, <1>5 DEF CallOk, FrameFields
<1>9. CallOk(txn, popped) /\ CallOk(txn, missing) /\ CallOk(txn, again)
  BY <1>1, <1>8, CallMoved DEF Edits, Aborts
<1>10. CASE Goto(r, fr, "rescanStash")
  BY <1>1, <1>2, <1>10, GotoOk DEF f, Edits, Aborts
<1>11. ASSUME NEW t, Become(r, LoadAndApply(f, fr, t)) \/ Become(r, LoadAndApply(f, again, t))
       PROVE  Steps
  BY <1>1, <1>2, <1>9, <1>11, LoadOk, Kept
<1>12. CASE Become(r, WithTop(f, missing))
  BY <1>1, <1>2, <1>9, <1>12, WithTopOk, Kept
<1>13. ASSUME NEW q, NEW n, Found(r, q, n)
       PROVE  Steps
  <2>1. CASE Become(r, NextDoc(f, fr, q, n, TRUE))
    BY <1>1, <1>2, <2>1, NextDocOk, Kept
  <2>2. ASSUME NEW g, g = [f EXCEPT !.queue[d] = q], Become(r, WithTop(g, popped))
        PROVE  Steps
    <3>1. DOMAIN g = FlusherFields /\ g.frames = f.frames /\ g.seen = f.seen
      BY <1>1, <2>2 DEF FlusherOk, FlusherFields
    <3>2. FlusherOk(txn, g) /\ g.frames # <<>>
      BY <1>1, <3>1 DEF FlusherOk
    <3>. QED
      BY <1>2, <1>9, <2>2, <3>2, WithTopOk, Kept
  <2>. QED
    BY <1>7, <1>13, <2>1, <2>2
<1>. QED
  BY <1>6, <1>10, <1>11, <1>12, <1>13

LEMMA Loads ==
  ASSUME TxnInd, NEW r \in Runners, Load(r)
  PROVE  Steps
<1>. DEFINE f == flusher[r]
            fr == Top(f)
<1>0. Ask(r, "load")
  BY DEF Load
<1>1. FlusherOk(txn, f) /\ f.frames # <<>> /\ CallOk(txn, fr) /\ fr.pc = "load" /\ OpsOk
  BY <1>0, AskOk
<1>2. PICK c : c = txn[fr.t]
  OBVIOUS
<1>3. PICK g : g = [fr EXCEPT !.c = c]
  OBVIOUS
<1>4. Become(r, Enter(r, f, g)) /\ UNCHANGED <<scenario, txn, result>>
  BY <1>2, <1>3 DEF Load
<1>. HIDE DEF f, fr
<1>5. fr.t \in Txns => Known(txn[fr.t].s, c)
  BY <1>2, OnwardOk DEF Known, TxnInd
<1>6. CallOk(txn, g)
  BY <1>1, <1>3, <1>5, CopyRead DEF Edits, Aborts
<1>. QED
  BY <1>1, <1>4, <1>6, EnterOk, Kept

LEMMA Tests ==
  ASSUME TxnInd, NEW r \in Runners, TestAssert(r)
  PROVE  Steps
<1>. DEFINE f == flusher[r]
            fr == Top(f)
<1>0. Ask(r, "assert")
  BY DEF TestAssert
<1>1. FlusherOk(txn, f) /\ f.frames # <<>> /\ CallOk(txn, fr)
  BY <1>0, AskOk
<1>2. /\ Become(r, AssertFrom(f, fr, fr.i + 1)) \/ Goto(r, fr, "setAborting")
      /\ UNCHANGED <<scenario, txn, result>>
  BY DEF TestAssert
<1>. HIDE DEF f, fr
<1>3. CASE Become(r, AssertFrom(f, fr, fr.i + 1))
  BY <1>1, <1>2, <1>3, AssertFromOk, Kept
<1>4. CASE Goto(r, fr, "setAborting")
  BY <1>1, <1>2, <1>4, GotoOk DEF f, Edits, Aborts
<1>. QED
  BY <1>2, <1>3, <1>4

\* One transaction gets the copy c.
LEMMA OneWritten ==
  ASSUME TxnInd, NEW t, NEW c, txn' = [txn EXCEPT ![t] = c],
         t \in Txns => DOMAIN c = {"s", "n", "r"} /\ Onward(txn[t].s, c.s)
  PROVE  /\ Forward /\ DOMAIN txn' = Txns
         /\ \A u \in Txns : DOMAIN txn'[u] = {"s", "n", "r"}
         /\ t \in Txns => txn'[t] = c
<1>1. /\ DOMAIN txn' = Txns
      /\ \A u \in Txns : txn'[u] = IF u = t THEN c ELSE txn[u]
  BY DEF TxnInd
<1>2. Forward
  BY <1>1, OnwardOk DEF Forward
<1>3. \A u \in Txns : DOMAIN txn'[u] = {"s", "n", "r"}
  BY <1>1 DEF TxnInd
<1>. QED
  BY <1>1, <1>2, <1>3

\* The flusher and its latest call are well in what a step makes of txn.
LEMMA TopForward ==
  ASSUME NEW f, FlusherOk(txn, f), f.frames # <<>>, Forward
  PROVE  FlusherOk(txn', f) /\ CallOk(txn', Top(f))
<1>1. FlusherOk(txn', f)
  BY StaysOk DEF Forward
<1>. QED
  BY <1>1, TopOk

LEMMA StartsToAbort ==
  ASSUME TxnInd, NEW r \in Runners, SetAborting(r)
  PROVE  Steps
<1>. DEFINE f == flusher[r]
            fr == Top(f)
<1>0. Ask(r, "setAborting")
  BY DEF SetAborting
<1>1. FlusherOk(txn, f) /\ f.frames # <<>> /\ CallOk(txn, fr) /\ fr.pc = "setAborting"
  BY <1>0, AskOk
<1>2. UNCHANGED <<scenario, result>>
  BY DEF SetAborting
<1>3. CASE txn[fr.t].s = "prepared"
  <2>1. PICK c : c = [txn[fr.t] EXCEPT !.s = "aborting"]
    OBVIOUS
  <2>2. PICK e : e = [fr.c EXCEPT !.s = "aborting"]
    OBVIOUS
  <2>3. PICK h : h = [fr EXCEPT !.i = 1, !.c.s = "aborting"]
    OBVIOUS
  <2>4. PICK g : g = [h EXCEPT !.pc = "pullAborted"]
    OBVIOUS
  <2>5. txn' = [txn EXCEPT ![fr.t] = c] /\ Become(r, WithTop(f, g))
    BY <1>3, <2>1, <2>3, <2>4 DEF SetAborting, Goto
  <2>. HIDE DEF f
  <2>. DEFINE t == fr.t
  <2>6. t \in Txns => DOMAIN c = {"s", "n", "r"} /\ c.s = "aborting"
    BY <2>1 DEF TxnInd
  <2>7. t \in Txns => Onward(txn[t].s, c.s)
    BY <1>3 DEF Onward
  <2>8. /\ Forward /\ DOMAIN txn' = Txns /\ \A u \in Txns : DOMAIN txn'[u] = {"s", "n", "r"}
        /\ t \in Txns => txn'[t] = c
    <3>. HIDE DEF fr
    <3>. QED
      BY <2>5, <2>6, <2>7, OneWritten
  <2>9. FlusherOk(txn', f) /\ CallOk(txn', fr)
    BY <1>1, <2>8, TopForward
  <2>. HIDE DEF fr
  <2>10. DOMAIN g = FrameFields /\ g.t = t /\ g.c = e /\ g.pc = "pullAborted"
    <3>1. DOMAIN h = FrameFields /\ h.t = t /\ h.c = e
      BY <1>1, <2>2, <2>3 DEF CallOk, FrameFields
    <3>. QED
      BY <2>4, <3>1 DEF FrameFields
  <2>11. t \in Txns => DOMAIN e = {"s", "n", "r"} /\ e.s = "aborting"
    BY <1>1, <2>2 DEF CallOk, Known
  <2>12. CallOk(txn', g)
    BY <2>6, <2>8, <2>10, <2>11, OnwardOk DEF CallOk, Known, Edits
  <2>13. FlusherOk(txn', WithTop(f, g))
    BY <1>1, <2>9, <2>12, WithTopOk
  <2>. QED
    BY <1>2, <2>5, <2>8, <2>13, Written
<1>4. CASE txn[fr.t].s # "prepared"
  <2>1. PICK g : g = [fr EXCEPT !.pc = "reload", !.why = "abort"]
    OBVIOUS
  <2>2. txn' = txn /\ Become(r, WithTop(f, g))
    BY <1>4, <2>1 DEF SetAborting
  <2>. HIDE DEF f, fr
  <2>3. DOMAIN g = FrameFields /\ g.t = fr.t /\ g.c = fr.c /\ g.pc = "reload"
    BY <1>1, <2>1 DEF CallOk, FrameFields
  <2>4. FlusherOk(txn, WithTop(f, g))
    BY <1>1, <2>3, MovedOk DEF Edits, Aborts
  <2>. QED
    BY <1>2, <2>2, <2>4, Kept
<1>. QED
  BY <1>3, <1>4

LEMMA PullsAborted ==
  ASSUME TxnInd, NEW r \in Runners, PullAborted(r)
  PROVE  Steps
<1>. DEFINE f == flusher[r]
            fr == Top(f)
<1>0. Ask(r, "pullAborted")
  BY DEF PullAborted
<1>1. FlusherOk(txn, f) /\ f.frames # <<>> /\ CallOk(txn, fr) /\ fr.pc = "pullAborted"
  BY <1>0, AskOk
<1>2. PICK g : g = [fr EXCEPT !.i = @ + 1]
  OBVIOUS
<1>3. /\ Goto(r, fr, "setAborted") \/ Goto(r, g, "pullAborted")
      /\ UNCHANGED <<scenario, txn, result>>
  BY <1>2 DEF PullAborted
<1>. HIDE DEF f, fr
<1>4. fr.t \notin Txns \/ fr.c.s = "aborting"
  BY <1>1 DEF CallOk, Aborts
<1>5. DOMAIN g = FrameFields /\ g.t = fr.t /\ g.c = fr.c /\ g.pc = fr.pc
  BY <1>1, <1>2 DEF CallOk, FrameFields
<1>6. CallOk(txn, g)
  BY <1>1, <1>5, CallMoved DEF CallOk
<1>7. "setAborted" \notin Edits /\ "pullAborted" \notin Edits
  BY DEF Edits
<1>8. CASE Goto(r, fr, "setAborted")
  BY <1>1, <1>3, <1>4, <1>7, <1>8, GotoOk DEF f
<1>9. CASE Goto(r, g, "pullAborted")
  BY <1>1, <1>3, <1>4, <1>5, <1>6, <1>7, <1>9, GotoOk DEF f
<1>. QED
  BY <1>3, <1>8, <1>9

LEMMA Aborted ==
  ASSUME TxnInd, NEW r \in Runners, SetAborted(r)
  PROVE  Steps
<1>. DEFINE f == flusher[r]
            fr == Top(f)
            t == fr.t
<1>0. Ask(r, "setAborted")
  BY DEF SetAborted
<1>1. FlusherOk(txn, f) /\ f.frames # <<>> /\ CallOk(txn, fr) /\ fr.pc = "setAborted"
  BY <1>0, AskOk
<1>2. PICK c : c = [txn[t] EXCEPT !.s = "aborted"]
  OBVIOUS
<1>3. PICK e : e = [fr.c EXCEPT !.s = "aborted"]
  OBVIOUS
<1>4. PICK g : g = [fr EXCEPT !.c.s = "aborted"]
  OBVIOUS
<1>5. DOMAIN g = FrameFields /\ g.t = t /\ g.c = e /\ g.pc = "setAborted"
  <2>. HIDE DEF f, fr
  <2>. QED
    BY <1>1, <1>3, <1>4 DEF CallOk, FrameFields
<1>6. /\ txn' = [txn EXCEPT ![t] = c] /\ Become(r, Return(f, g, FALSE))
      /\ UNCHANGED <<scenario, result>>
  BY <1>2, <1>4, <1>5 DEF SetAborted
<1>7. t \in Txns => DOMAIN c = {"s", "n", "r"} /\ c.s = "aborted"
  BY <1>2 DEF TxnInd
<1>8. t \in Txns => Onward(txn[t].s, c.s)
  <2>1. t \in Txns => Onward("aborting", txn[t].s)
    BY <1>1 DEF CallOk, Known, Aborts
  <2>. QED
    BY <1>7, <2>1 DEF Onward
<1>9. /\ Forward /\ DOMAIN txn' = Txns /\ \A u \in Txns : DOMAIN txn'[u] = {"s", "n", "r"}
      /\ t \in Txns => txn'[t] = c
  <2>. HIDE DEF t
  <2>. QED
    BY <1>6, <1>7, <1>8, OneWritten
<1>10. FlusherOk(txn', f)
  BY <1>1, <1>9, TopForward
<1>. HIDE DEF f, fr
<1>11. t \in Txns => DOMAIN e = {"s", "n", "r"} /\ e.s = "aborted"
  BY <1>1, <1>3 DEF CallOk, Known
<1>12. g.t \in Txns => Known(txn'[g.t].s, g.c)
  BY <1>5, <1>7, <1>9, <1>11, OnwardOk DEF Known
<1>13. FlusherOk(txn', Return(f, g, FALSE))
  BY <1>1, <1>10, <1>12, ReturnCopy
<1>. QED
  BY <1>6, <1>9, <1>13, Written

LEMMA StartsToApply ==
  ASSUME TxnInd, NEW r \in Runners, SetApplying(r)
  PROVE  Steps
<1>. DEFINE f == flusher[r]
            fr == Top(f)
            t == fr.t
<1>0. Ask(r, "setApplying")
  BY DEF SetApplying
<1>1. FlusherOk(txn, f) /\ f.frames # <<>> /\ CallOk(txn, fr) /\ fr.pc = "setApplying" /\ OpsOk
  BY <1>0, AskOk
<1>2. UNCHANGED <<scenario, result>>
  BY DEF SetApplying
<1>3. CASE txn[t].s = "prepared"
  <2>1. PICK c : c = [txn[t] EXCEPT !.s = "applying", !.r = fr.revnos]
    OBVIOUS
  <2>2. PICK e : e = [fr.c EXCEPT !.s = "applying", !.r = fr.revnos]
    OBVIOUS
  <2>3. PICK g : g = [fr EXCEPT !.c = e]
    OBVIOUS
  <2>4. txn' = [txn EXCEPT ![t] = c] /\ Become(r, Enter(r, f, g))
    BY <1>3, <2>1, <2>2, <2>3 DEF SetApplying
  <2>5. t \in Txns => DOMAIN c = {"s", "n", "r"} /\ c.s = "applying"
    BY <2>1 DEF TxnInd
  <2>6. t \in Txns => Onward(txn[t].s, c.s)
    BY <1>3 DEF Onward
  <2>7. /\ Forward /\ DOMAIN txn' = Txns /\ \A u \in Txns : DOMAIN txn'[u] = {"s", "n", "r"}
        /\ t \in Txns => txn'[t] = c
    <3>. HIDE DEF t
    <3>. QED
      BY <2>4, <2>5, <2>6, OneWritten
  <2>8. FlusherOk(txn', f) /\ CallOk(txn', fr)
    BY <1>1, <2>7, TopForward
  <2>. HIDE DEF f, fr
  <2>9. t \in Txns => DOMAIN e = {"s", "n", "r"} /\ e.s = "applying"
    BY <1>1, <2>2 DEF CallOk, Known
  <2>10. fr.t \in Txns => Known(txn'[fr.t].s, e)
    BY <2>5, <2>7, <2>9, OnwardOk DEF Known
  <2>11. CallOk(txn', g)
    <3>1. fr.pc \notin Edits \cup Aborts
      BY <1>1 DEF Edits, Aborts
    <3>. QED
      BY <2>3, <2>8, <2>10, <3>1, CopyRead
  <2>12. FlusherOk(txn', Enter(r, f, g))
    BY <1>1, <2>8, <2>11, EnterOk
  <2>. QED
    BY <1>2, <2>4, <2>7, <2>12, Written
<1>4. CASE txn[t].s # "prepared"
  <2>1. PICK g : g = [fr EXCEPT !.pc = "reload", !.why = "checkpoint"]
    OBVIOUS
  <2>2. txn' = txn /\ Become(r, WithTop(f, g))
    BY <1>4, <2>1 DEF SetApplying
  <2>. HIDE DEF f, fr
  <2>3. DOMAIN g = FrameFields /\ g.t = fr.t /\ g.c = fr.c /\ g.pc = "reload"
    BY <1>1, <2>1 DEF CallOk, FrameFields
  <2>4. FlusherOk(txn, WithTop(f, g))
    BY <1>1, <2>3, MovedOk DEF Edits, Aborts
  <2>. QED
    BY <1>2, <2>2, <2>4, Kept
<1>. QED
  BY <1>3, <1>4

\* The requests of the operations: the copy says that it is being applied.
Editing(r) ==
  \/ Update(r) \/ PushNonce(r) \/ MarkRemove(r) \/ Restash(r) \/ DeleteDoc(r)
  \/ MarkInsert(r) \/ InsertDoc(r) \/ DropStash(r) \/ PullStash(r)

LEMMA Applies ==
  ASSUME TxnInd, NEW r \in Runners, Editing(r)
  PROVE  Steps
<1>. DEFINE f == flusher[r]
            fr == Top(f)
<1>0. \E pc \in Edits : Ask(r, pc)
  BY DEF Editing, Update, PushNonce, MarkRemove, Restash, DeleteDoc, MarkInsert, InsertDoc,
         DropStash, PullStash, Edits
<1>1. FlusherOk(txn, f) /\ f.frames # <<>> /\ CallOk(txn, fr) /\ OpsOk /\ fr.pc \in Edits
  BY <1>0, AskOk
<1>2. UNCHANGED <<scenario, txn, result>>
  BY DEF Editing, Update, PushNonce, MarkRemove, Restash, DeleteDoc, MarkInsert, InsertDoc,
         DropStash, PullStash
<1>3. \/ NextOp(r, f, fr)
      \/ \E pc \in Edits : \/ Goto(r, fr, pc)
                           \/ \E q, g : g = [fr EXCEPT !.q = q] /\ Goto(r, g, pc)
  <2>1. CASE Update(r) \/ DeleteDoc(r) \/ PullStash(r)
    BY <2>1 DEF Update, DeleteDoc, PullStash
  <2>2. CASE PushNonce(r)
    BY <2>2 DEF PushNonce, Edits
  <2>3. CASE MarkRemove(r)
    BY <2>3 DEF MarkRemove, Edits
  <2>4. CASE Restash(r)
    BY <2>4 DEF Restash, Edits
  <2>5. CASE MarkInsert(r)
    BY <2>5 DEF MarkInsert, Edits
  <2>6. CASE InsertDoc(r)
    BY <2>6 DEF InsertDoc, Edits
  <2>7. CASE DropStash(r)
    BY <2>7 DEF DropStash, Edits
  <2>. QED
    BY <2>1, <2>2, <2>3, <2>4, <2>5, <2>6, <2>7 DEF Editing
<1>. HIDE DEF f, fr
<1>4. fr.t \in Txns => fr.c.s = "applying"
  BY <1>1 DEF CallOk
<1>5. \A pc \in Edits : pc \notin Aborts
  BY DEF Edits, Aborts
<1>6. CASE NextOp(r, f, fr)
  BY <1>1, <1>2, <1>4, <1>6, ApplyFromOk, Kept DEF NextOp
<1>7. ASSUME NEW pc \in Edits, Goto(r, fr, pc) PROVE Steps
  BY <1>1, <1>2, <1>4, <1>5, <1>7, GotoOk DEF f
<1>8. ASSUME NEW pc \in Edits, NEW q, NEW g, g = [fr EXCEPT !.q = q], Goto(r, g, pc)
      PROVE  Steps
  <2>1. DOMAIN g = FrameFields /\ g.t = fr.t /\ g.c = fr.c /\ g.pc = fr.pc
    BY <1>1, <1>8 DEF CallOk, FrameFields
  <2>2. CallOk(txn, g)
    BY <1>1, <2>1, CallMoved DEF CallOk
  <2>. QED
    BY <1>1, <1>2, <1>4, <1>5, <1>8, <2>1, <2>2, GotoOk DEF f
<1>. QED
  BY <1>3, <1>6, <1>7, <1>8

LEMMA Applied ==
  ASSUME TxnInd, NEW r \in Runners, SetApplied(r)
  PROVE  Steps
<1>. DEFINE f == flusher[r]
            fr == Top(f)
            t == fr.t
<1>0. Ask(r, "setApplied")
  BY DEF SetApplied
<1>1. FlusherOk(txn, f) /\ f.frames # <<>> /\ CallOk(txn, fr) /\ fr.pc = "setApplied"
  BY <1>0, AskOk
<1>2. PICK c : c = IF txn[t].s = "applying" THEN [txn[t] EXCEPT !.s = "applied"] ELSE txn[t]
  OBVIOUS
<1>3. PICK e : e = [fr.c EXCEPT !.s = "applied"]
  OBVIOUS
<1>4. PICK g : g = [fr EXCEPT !.c.s = "applied"]
  OBVIOUS
<1>5. DOMAIN g = FrameFields /\ g.t = t /\ g.c = e
  <2>. HIDE DEF f, fr
  <2>. QED
    BY <1>1, <1>3, <1>4 DEF CallOk, FrameFields
<1>6. /\ txn' = IF txn[t].s = "applying" THEN [txn EXCEPT ![t].s = "applied"] ELSE txn
      /\ Become(r, Return(f, g, FALSE)) /\ UNCHANGED <<scenario, result>>
  <2>1. txn' = IF txn[g.t].s = "applying" THEN [txn EXCEPT ![g.t].s = "applied"] ELSE txn
    BY <1>4 DEF SetApplied
  <2>2. Become(r, Return(f, g, FALSE)) /\ UNCHANGED <<scenario, result>>
    BY <1>4 DEF SetApplied
  <2>. HIDE DEF t
  <2>. QED
    BY <1>5, <2>1, <2>2
<1>7. t \in Txns => txn[t].s \in {"applying", "applied"}
  BY <1>1 DEF CallOk, Known, Onward, Edits
<1>. HIDE DEF f, fr, t
<1>8. t \in Txns => DOMAIN c = {"s", "n", "r"} /\ c.s = "applied"
  BY <1>2, <1>7 DEF TxnInd
<1>9. /\ Forward /\ DOMAIN txn' = Txns /\ \A u \in Txns : DOMAIN txn'[u] = {"s", "n", "r"}
      /\ t \in Txns => txn'[t] = c
  <2>1. CASE txn[t].s = "applying"
    <3>1. txn' = [txn EXCEPT ![t] = c]
      BY <1>2, <1>6, <2>1
    <3>2. t \in Txns => Onward(txn[t].s, c.s)
      BY <1>8, <2>1 DEF Onward
    <3>. QED
      BY <1>8, <3>1, <3>2, OneWritten
  <2>2. CASE txn[t].s # "applying"
    <3>1. txn' = txn /\ c = txn[t]
      BY <1>2, <1>6, <2>2
    <3>2. Forward
      BY <3>1, OnwardOk DEF Forward
    <3>. QED
      BY <3>1, <3>2 DEF TxnInd
  <2>. QED
    BY <2>1, <2>2
<1>10. FlusherOk(txn', f)
  BY <1>1, <1>9, TopForward
<1>11. t \in Txns => DOMAIN e = {"s", "n", "r"} /\ e.s = "applied"
  BY <1>1, <1>3 DEF CallOk, Known, t
<1>12. g.t \in Txns => Known(txn'[g.t].s, g.c)
  BY <1>5, <1>8, <1>9, <1>11, OnwardOk DEF Known
<1>13. FlusherOk(txn', Return(f, g, FALSE))
  BY <1>1, <1>10, <1>12, ReturnCopy
<1>. QED
  BY <1>6, <1>9, <1>13, Written

----------------------------------------------------------------------------
(* Run, Resume and flusher.run                                             *)

LEMMA Flushes ==
  ASSUME NEW x, NEW r, NEW t, NEW c, t \in Txns => Known(x[t].s, c), FlushTxn(r, t, c), OpsOk
  PROVE  \E f : FlusherOk(x, f) /\ Become(r, f)
<1>1. PICK fr : fr = Frame(t, c, {t}, FALSE, "")
  OBVIOUS
<1>2. PICK g : g = [NoFlusher EXCEPT !.goal = t, !.frames = <<fr>>]
  OBVIOUS
<1>3. Become(r, Enter(r, g, fr))
  BY <1>1, <1>2 DEF FlushTxn
<1>4. CallOk(x, fr)
  BY <1>1, FrameOk DEF Edits, Aborts
<1>5. DOMAIN g = FlusherFields /\ g.seen = NoFlusher.seen /\ g.frames = <<fr>>
  BY <1>2 DEF NoFlusher, FlusherFields
<1>6. FlusherOk(x, g) /\ g.frames # <<>>
  BY <1>4, <1>5, NoFlusherOk, FirstCall
<1>. QED
  BY <1>3, <1>4, <1>6, EnterOk

LEMMA Runs ==
  ASSUME TxnInd, NEW r \in Runners, NEW t \in Txns, Run(r, t)
  PROVE  Steps
<1>1. PICK c : c = [NoCopy EXCEPT !.s = "preparing"]
  OBVIOUS
<1>2. DOMAIN c = {"s", "n", "r"} /\ c.s = "preparing"
  BY <1>1 DEF NoCopy
<1>3. /\ txn' = [txn EXCEPT ![t] = c] /\ FlushTxn(r, t, c) /\ txn[t].s = "none"
      /\ UNCHANGED <<scenario, result>>
  BY <1>1 DEF Run
<1>4. /\ Forward /\ DOMAIN txn' = Txns /\ \A u \in Txns : DOMAIN txn'[u] = {"s", "n", "r"}
      /\ txn'[t] = c
  <2>1. Onward(txn[t].s, c.s)
    BY <1>3 DEF Onward
  <2>. QED
    BY <1>2, <1>3, <2>1, OneWritten
<1>5. Known(txn'[t].s, c)
  BY <1>2, <1>4, OnwardOk DEF Known
<1>6. PICK f : FlusherOk(txn', f) /\ Become(r, f)
  BY <1>3, <1>5, Flushes, ScenarioOk
<1>. QED
  BY <1>3, <1>4, <1>6, Written

LEMMA Resumed ==
  ASSUME TxnInd, NEW r \in Runners, NEW t \in Txns, Resume(r, t)
  PROVE  Steps
<1>1. FlushTxn(r, t, txn[t]) /\ UNCHANGED <<scenario, txn, result>>
  BY DEF Resume
<1>2. Known(txn[t].s, txn[t])
  BY OnwardOk DEF Known, TxnInd
<1>3. PICK f : FlusherOk(txn, f) /\ Become(r, f)
  BY <1>1, <1>2, Flushes, ScenarioOk
<1>. QED
  BY <1>1, <1>3, Kept

LEMMA Recurses ==
  ASSUME TxnInd, NEW r \in Runners, Recurse(r)
  PROVE  Steps
<1>. DEFINE f == flusher[r]
            m == GreatestOf(CallsLeft(f))
            e == f.path[m]
            k == LeastOf(KeysLeft(f, e))
            q == QueueAt(f, e, k)
            i == LeastOf(Unseen(f, q))
            path == Append(SubSeq(f.path, 1, m - 1),
                           [e EXCEPT !.k = k, !.rest = SubSeq(q, i + 1, Len(q))])
<1>1. PICK t : t = Id(q[i])
  OBVIOUS
<1>2. PICK c : c = txn[t]
  OBVIOUS
<1>3. PICK fr : fr = Frame(t, c, {t}, FALSE, "")
  OBVIOUS
<1>4. PICK g : g = [f EXCEPT !.path = path, !.frames = <<fr>>]
  OBVIOUS
<1>5. Become(r, Enter(r, g, fr)) /\ UNCHANGED <<scenario, txn, result>>
  BY <1>1, <1>2, <1>3, <1>4 DEF Recurse
<1>6. FlusherOk(txn, f) /\ OpsOk
  BY ScenarioOk DEF TxnInd
<1>. HIDE DEF f, m, e, k, q, i, path
<1>7. t \in Txns => Known(txn[t].s, c)
  BY <1>2, OnwardOk DEF Known, TxnInd
<1>8. CallOk(txn, fr)
  BY <1>3, <1>7, FrameOk DEF Edits, Aborts
<1>9. DOMAIN g = FlusherFields /\ g.seen = f.seen /\ g.frames = <<fr>>
  BY <1>4, <1>6 DEF FlusherOk, FlusherFields
<1>10. FlusherOk(txn, g) /\ g.frames # <<>>
  BY <1>6, <1>8, <1>9, FirstCall
<1>11. FlusherOk(txn, Enter(r, g, fr))
  BY <1>6, <1>8, <1>10, EnterOk
<1>. QED
  BY <1>5, <1>11, Kept

LEMMA Sorts ==
  ASSUME TxnInd, NEW r \in Runners, Sort(r)
  PROVE  Steps
<1>. DEFINE f == flusher[r]
            succ == Successors(f)
            ready == \A t \in DOMAIN succ : f.goal \notin succ[t]
            order == IF ready THEN <<[t |-> f.goal, pull |-> {f.goal}]>>
                     ELSE Ordered(Components(succ))
<1>1. PICK g : g = [f EXCEPT !.sorting = TRUE, !.path = <<>>, !.order = order]
  OBVIOUS
<1>2. Become(r, g) /\ UNCHANGED <<scenario, txn, result>>
  BY <1>1 DEF Sort
<1>3. FlusherOk(txn, f)
  BY DEF TxnInd
<1>. HIDE DEF f, order
<1>4. DOMAIN g = FlusherFields /\ g.seen = f.seen /\ g.frames = f.frames
  BY <1>1, <1>3 DEF FlusherOk, FlusherFields
<1>5. FlusherOk(txn, g)
  BY <1>3, <1>4 DEF FlusherOk
<1>. QED
  BY <1>2, <1>5, Kept

LEMMA Advances ==
  ASSUME TxnInd, NEW r \in Runners, Advance(r)
  PROVE  Steps
<1>. DEFINE f == flusher[r]
            o == Head(f.order)
<1>1. PICK t : t = o.t
  OBVIOUS
<1>2. PICK fr : fr = Frame(t, f.seen[t], o.pull, TRUE, "")
  OBVIOUS
<1>3. PICK g : g = [f EXCEPT !.order = Tail(@), !.frames = <<fr>>]
  OBVIOUS
<1>4. Become(r, Enter(r, g, fr)) /\ UNCHANGED <<scenario, txn, result>>
  BY <1>1, <1>2, <1>3 DEF Advance
<1>5. FlusherOk(txn, f) /\ OpsOk
  BY ScenarioOk DEF TxnInd
<1>. HIDE DEF f, o
<1>6. t \in Txns => Known(txn[t].s, f.seen[t])
  BY <1>5 DEF FlusherOk
<1>7. CallOk(txn, fr)
  BY <1>2, <1>6, FrameOk DEF Edits, Aborts
<1>8. DOMAIN g = FlusherFields /\ g.seen = f.seen /\ g.frames = <<fr>>
  BY <1>3, <1>5 DEF FlusherOk, FlusherFields
<1>9. FlusherOk(txn, g) /\ g.frames # <<>>
  BY <1>5, <1>7, <1>8, FirstCall
<1>10. FlusherOk(txn, Enter(r, g, fr))
  BY <1>5, <1>7, <1>9, EnterOk
<1>. QED
  BY <1>4, <1>10, Kept

LEMMA Finishes ==
  ASSUME TxnInd, NEW r \in Runners, Finish(r)
  PROVE  Steps
<1>. DEFINE f == flusher[r]
            t == f.goal
            s == f.seen[t].s
<1>1. FlusherOk(txn, f)
  BY DEF TxnInd
<1>2. UNCHANGED <<scenario, txn>>
  BY DEF Finish
<1>3. CASE Done(s)
  <2>1. result' = [result EXCEPT ![t] = s] /\ Become(r, NoFlusher)
    BY <1>3 DEF Finish
  <2>2. t \in Txns => txn[t].s = s
    BY <1>1, <1>3 DEF FlusherOk, Known, Onward, Done
  <2>. HIDE DEF f, t, s
  <2>3. ResultsTrue'
    BY <1>2, <2>1, <2>2 DEF ResultsTrue, TxnInd
  <2>4. result' \in [Txns -> {"", "applied", "aborted"}]
    BY <1>3, <2>1 DEF TxnInd, Done
  <2>5. /\ DOMAIN flusher' = Runners
        /\ \A p \in Runners : FlusherOk(txn, flusher'[p])
    BY <2>1, NoFlusherOk DEF TxnInd, Become
  <2>6. Forward
    BY <1>2, OnwardOk DEF Forward
  <2>. QED
    BY <1>2, <2>3, <2>4, <2>5, <2>6 DEF Steps, TxnInd
<1>4. CASE ~Done(s)
  <2>1. PICK fr : fr = Frame(t, f.seen[t], {}, TRUE, "panic")
    OBVIOUS
  <2>2. PICK g : g = [f EXCEPT !.frames = <<fr>>]
    OBVIOUS
  <2>3. Become(r, g) /\ UNCHANGED result
    BY <1>4, <2>1, <2>2 DEF Finish
  <2>4. t \in Txns => Known(txn[t].s, f.seen[t])
    BY <1>1 DEF FlusherOk
  <2>. HIDE DEF f, t
  <2>5. CallOk(txn, fr)
    BY <2>1, <2>4, FrameOk DEF Edits, Aborts
  <2>6. DOMAIN g = FlusherFields /\ g.seen = f.seen /\ g.frames = <<fr>>
    BY <1>1, <2>2 DEF FlusherOk, FlusherFields
  <2>7. FlusherOk(txn, g)
    BY <1>1, <2>5, <2>6, FirstCall
  <2>. QED
    BY <1>2, <2>3, <2>7, Kept
<1>. QED
  BY <1>3, <1>4

LEMMA Killed ==
  ASSUME TxnInd, NEW r \in Runners, Kill(r)
  PROVE  Steps
BY FailOk DEF Kill

----------------------------------------------------------------------------
(* Every step                                                              *)

LEMMA TxnSteps ==
  ASSUME TxnInd, [TxnNext]_txnVars
  PROVE  Steps
<1>1. CASE TxnNext
  <2>1. PICK r \in Runners : FlushStep(r) \/ Kill(r) \/ \E t \in Txns : Run(r, t) \/ Resume(r, t)
    BY <1>1, ScenarioOk DEF TxnNext
  <2>2. CASE Kill(r) \/ \E t \in Txns : Run(r, t) \/ Resume(r, t)
    BY <2>2, Killed, Runs, Resumed
  <2>3. CASE FlushStep(r)
    BY <2>3, QueuesToken, Prepares, Reloads, LooksAgain, Loads, Tests, StartsToAbort,
       PullsAborted, Aborted, StartsToApply, Applies, Applied, Recurses, Sorts, Advances,
       Finishes DEF FlushStep, Editing
  <2>. QED
    BY <2>1, <2>2, <2>3
<1>2. CASE UNCHANGED txnVars
  <2>1. UNCHANGED <<scenario, txn, flusher, result>>
    BY <1>2 DEF txnVars
  <2>2. Forward
    BY <2>1, OnwardOk DEF Forward
  <2>3. TxnInd'
    BY <2>1 DEF TxnInd, ResultsTrue
  <2>. QED
    BY <2>2, <2>3 DEF Steps
<1>. QED
  BY <1>1, <1>2

LEMMA TxnStarts ==
  ASSUME TxnInit
  PROVE  TxnInd
<1>1. scenario \in Scenarios
  BY DEF TxnInit
<1>2. DOMAIN txn = Txns /\ \A t \in Txns : DOMAIN txn[t] = {"s", "n", "r"}
  BY DEF TxnInit, NoCopy
<1>3. DOMAIN flusher = Runners /\ \A r \in Runners : FlusherOk(txn, flusher[r])
  BY NoFlusherOk DEF TxnInit
<1>4. result \in [Txns -> {"", "applied", "aborted"}] /\ ResultsTrue
  BY DEF TxnInit, ResultsTrue
<1>. QED
  BY <1>1, <1>2, <1>3, <1>4 DEF TxnInd

----------------------------------------------------------------------------
(* What transactions leave in the documents                                *)

DocFields == {"live", "revno", "queue", "remove", "val"}
StashFields == {"there", "revno", "queue", "insert", "n"}

TraceInd ==
  /\ DOMAIN doc = Docs /\ DOMAIN stash = Docs
  /\ \A d \in Docs : /\ DOMAIN doc[d] = DocFields /\ DOMAIN stash[d] = StashFields
                     /\ doc[d].val \in Seq(Range(doc[d].val))
  /\ NoTraces

\* A document, or its stash, before and after t changes it.
DocFrom(t, old, new) ==
  /\ DOMAIN new = DocFields /\ new.remove \in {old.remove, t, None}
  /\ new.val \in {old.val, Append(old.val, t), <<t>>, <<>>}
StashFrom(t, old, new) ==
  DOMAIN new = StashFields /\ new.insert \in {old.insert, t, None}
DocsFrom(t) == DOMAIN doc' = Docs /\ \A d \in Docs : DocFrom(t, doc[d], doc'[d])
StashesFrom(t) == DOMAIN stash' = Docs /\ \A d \in Docs : StashFrom(t, stash[d], stash'[d])

LEMMA ValueFrom ==
  ASSUME NEW v, v \in Seq(Range(v)), NEW t, NEW w, w \in {v, Append(v, t), <<t>>, <<>>}
  PROVE  w \in Seq(Range(w)) /\ Range(w) \subseteq Range(v) \cup {t}
<1>. DEFINE S == Range(v) \cup {t}
<1>1. v \in Seq(S) /\ t \in S
  BY SeqMonotonic
<1>2. <<>> \in Seq(S)
  BY EmptySeq
<1>3. <<t>> \in Seq(S)
  BY <1>1
<1>. HIDE DEF S
<1>4. Append(v, t) \in Seq(S)
  BY <1>1, AppendProperties
<1>5. w \in Seq(S)
  BY <1>1, <1>2, <1>3, <1>4
<1>6. Range(w) \in SUBSET S /\ w \in Seq(Range(w))
  BY <1>5, RangeOfSeq, SeqOfRange
<1>. QED
  BY <1>6 DEF S

LEMMA TraceStep ==
  ASSUME TraceInd, Forward, NEW t, t \in Txns => txn[t].s \in {"applying", "applied"},
         DocsFrom(t), StashesFrom(t)
  PROVE  TraceInd'
<1>1. ASSUME NEW d \in Docs
      PROVE  /\ doc'[d].val \in Seq(Range(doc'[d].val))
             /\ Range(doc'[d].val) \subseteq Range(doc[d].val) \cup {t}
  <2>1. PICK v : v = doc[d].val /\ v \in Seq(Range(v))
    BY DEF TraceInd
  <2>2. PICK w : w = doc'[d].val /\ w \in {v, Append(v, t), <<t>>, <<>>}
    BY <2>1 DEF DocsFrom, DocFrom
  <2>. QED
    BY <2>1, <2>2, ValueFrom
<1>2. ASSUME NEW u \in Txns, txn'[u].s \notin {"applying", "applied"}, NEW d \in Docs
      PROVE  u \notin Range(doc'[d].val) /\ doc'[d].remove # u /\ stash'[d].insert # u
  <2>1. txn[u].s \notin {"applying", "applied"}
    BY <1>2 DEF Forward, Onward
  <2>2. u # t /\ u # None
    BY <2>1, TxnAssumption
  <2>3. u \notin Range(doc[d].val) /\ doc[d].remove # u /\ stash[d].insert # u
    BY <2>1 DEF TraceInd, NoTraces
  <2>. QED
    BY <1>1, <2>2, <2>3 DEF DocsFrom, DocFrom, StashesFrom, StashFrom
<1>3. NoTraces'
  BY <1>2 DEF NoTraces
<1>. QED
  BY <1>1, <1>3 DEF TraceInd, DocsFrom, DocFrom, StashesFrom, StashFrom

LEMMA DocsSame ==
  ASSUME TraceInd, UNCHANGED doc
  PROVE  \A t : DocsFrom(t)
BY DEF TraceInd, DocsFrom, DocFrom

LEMMA StashesSame ==
  ASSUME TraceInd, UNCHANGED stash
  PROVE  \A t : StashesFrom(t)
BY DEF TraceInd, StashesFrom, StashFrom

LEMMA DocWritten ==
  ASSUME TraceInd, NEW d, NEW e, doc' = [doc EXCEPT ![d] = e], NEW t,
         d \in Docs => DocFrom(t, doc[d], e)
  PROVE  DocsFrom(t)
BY DEF TraceInd, DocsFrom, DocFrom

LEMMA StashWritten ==
  ASSUME TraceInd, NEW d, NEW e, stash' = [stash EXCEPT ![d] = e], NEW t,
         d \in Docs => StashFrom(t, stash[d], e)
  PROVE  StashesFrom(t)
BY DEF TraceInd, StashesFrom, StashFrom

\* Only its queue changes.
LEMMA DocQueue ==
  ASSUME TraceInd, NEW d, NEW q, doc' = [doc EXCEPT ![d].queue = q]
  PROVE  \A t : DocsFrom(t)
<1>1. PICK e : e = [doc[d] EXCEPT !.queue = q]
  OBVIOUS
<1>2. d \in Docs => DOMAIN e = DocFields /\ e.remove = doc[d].remove /\ e.val = doc[d].val
  BY <1>1 DEF TraceInd, DocFields
<1>3. doc' = [doc EXCEPT ![d] = e]
  BY <1>1
<1>. QED
  BY <1>2, <1>3, DocWritten DEF DocFrom

LEMMA StashQueue ==
  ASSUME TraceInd, NEW d, NEW q, stash' = [stash EXCEPT ![d].queue = q]
  PROVE  \A t : StashesFrom(t)
<1>1. PICK e : e = [stash[d] EXCEPT !.queue = q]
  OBVIOUS
<1>2. d \in Docs => DOMAIN e = StashFields /\ e.insert = stash[d].insert
  BY <1>1 DEF TraceInd, StashFields
<1>3. stash' = [stash EXCEPT ![d] = e]
  BY <1>1
<1>. QED
  BY <1>2, <1>3, StashWritten DEF StashFrom

LEMMA NewStash ==
  DOMAIN NoStash = StashFields /\ NoStash.insert = None
BY DEF NoStash, StashFields

LEMMA NewDoc ==
  DOMAIN Gone = DocFields /\ Gone.remove = None /\ Gone.val = <<>>
BY DEF Gone, DocFields

\* Who edits is applying, and the transaction has been told so.
LEMMA MayEdit ==
  ASSUME TxnInd, NEW r \in Runners, NEW pc \in Edits, Ask(r, pc)
  PROVE  Top(flusher[r]).t \in Txns => txn[Top(flusher[r]).t].s \in {"applying", "applied"}
<1>. DEFINE fr == Top(flusher[r])
<1>1. CallOk(txn, fr) /\ fr.pc = pc
  BY AskOk
<1>. HIDE DEF fr
<1>2. fr.t \in Txns => txn[fr.t].s \in {"applying", "applied"}
  BY <1>1 DEF CallOk, Known, Onward
<1>. QED
  BY <1>2 DEF fr

Leaves(t) == DocsFrom(t) /\ StashesFrom(t)

\* Whoever queues a token or takes tokens away leaves nothing of itself.
LEMMA Marked ==
  ASSUME TraceInd, NEW r, Mark(r)
  PROVE  Leaves(None)
<1>1. UNCHANGED stash
  BY DEF Mark
<1>2. UNCHANGED doc \/ \E d, q : doc' = [doc EXCEPT ![d].queue = q]
  BY DEF Mark
<1>. QED
  BY <1>1, <1>2, StashesSame, DocsSame, DocQueue DEF Leaves

LEMMA StashMarked ==
  ASSUME TraceInd, NEW r, MarkStash(r)
  PROVE  Leaves(None)
<1>1. UNCHANGED doc
  BY DEF MarkStash
<1>2. PICK d, q : stash' = [stash EXCEPT ![d] = [@ EXCEPT !.there = TRUE, !.queue = q]]
  BY DEF MarkStash
<1>3. PICK e : e = [stash[d] EXCEPT !.there = TRUE, !.queue = q]
  OBVIOUS
<1>4. d \in Docs => DOMAIN e = StashFields /\ e.insert = stash[d].insert
  BY <1>3 DEF TraceInd, StashFields
<1>5. stash' = [stash EXCEPT ![d] = e]
  BY <1>2, <1>3
<1>6. StashesFrom(None)
  BY <1>4, <1>5, StashWritten DEF StashFrom
<1>. QED
  BY <1>1, <1>6, DocsSame DEF Leaves

LEMMA Unstashed ==
  ASSUME TraceInd, NEW r, Unstash(r)
  PROVE  Leaves(None)
<1>1. UNCHANGED doc
  BY DEF Unstash
<1>2. \E d, q : stash' = [stash EXCEPT ![d].queue = q]
  BY DEF Unstash
<1>. QED
  BY <1>1, <1>2, DocsSame, StashQueue DEF Leaves

LEMMA PulledAborted ==
  ASSUME TraceInd, NEW r, PullAborted(r)
  PROVE  Leaves(None)
<1>1. UNCHANGED <<doc, stash>> \/ \E d, toks, stashed : PullFrom(d, toks, stashed)
  BY DEF PullAborted
<1>2. CASE UNCHANGED <<doc, stash>>
  BY <1>2, DocsSame, StashesSame DEF Leaves
<1>3. ASSUME NEW d, NEW toks, NEW stashed, PullFrom(d, toks, stashed) PROVE Leaves(None)
  <2>1. CASE stashed
    <3>1. UNCHANGED doc /\ \E q : stash' = [stash EXCEPT ![d].queue = q]
      BY <1>3, <2>1 DEF PullFrom
    <3>. QED
      BY <3>1, DocsSame, StashQueue DEF Leaves
  <2>2. CASE ~stashed
    <3>1. UNCHANGED stash /\ \E q : doc' = [doc EXCEPT ![d].queue = q]
      BY <1>3, <2>2 DEF PullFrom
    <3>. QED
      BY <3>1, StashesSame, DocQueue DEF Leaves
  <2>. QED
    BY <2>1, <2>2
<1>. QED
  BY <1>1, <1>2, <1>3

LEMMA Others ==
  ASSUME TraceInd, NEW r,
         \/ ConfirmDoc(r) \/ ConfirmStash(r) \/ SetPrepared(r) \/ Reload(r) \/ Rescan(r)
         \/ RescanStash(r) \/ Load(r) \/ TestAssert(r) \/ SetAborting(r) \/ SetAborted(r)
         \/ SetApplying(r) \/ SetApplied(r) \/ Recurse(r) \/ Sort(r) \/ Advance(r)
         \/ Finish(r) \/ Kill(r) \/ \E t \in Txns : Run(r, t) \/ Resume(r, t)
  PROVE  Leaves(None)
<1>1. UNCHANGED <<doc, stash>>
  <2>1. CASE \/ ConfirmDoc(r) \/ ConfirmStash(r) \/ SetPrepared(r) \/ Reload(r) \/ Rescan(r)
             \/ RescanStash(r) \/ Load(r) \/ TestAssert(r)
    BY <2>1 DEF ConfirmDoc, ConfirmStash, SetPrepared, Reload, Rescan, RescanStash, Load, TestAssert
  <2>2. CASE \/ SetAborting(r) \/ SetAborted(r) \/ SetApplying(r) \/ SetApplied(r)
    BY <2>2 DEF SetAborting, SetAborted, SetApplying, SetApplied
  <2>3. CASE \/ Recurse(r) \/ Sort(r) \/ Advance(r) \/ Finish(r) \/ Kill(r)
             \/ \E t \in Txns : Run(r, t) \/ Resume(r, t)
    BY <2>3 DEF Recurse, Sort, Advance, Finish, Kill, Run, Resume
  <2>. QED
    BY <2>1, <2>2, <2>3
<1>. QED
  BY <1>1, DocsSame, StashesSame DEF Leaves

\* Whoever applies leaves itself, in one document.
LEMMA Updated ==
  ASSUME TraceInd, NEW r, Update(r)
  PROVE  Leaves(Top(flusher[r]).t)
<1>. DEFINE f == flusher[r]
            fr == Top(f)
            d == OpDoc(fr)
            q == Pulled(doc[d].queue, PullAll(f, fr))
            n == doc[d].revno + 1
            t == fr.t
<1>1. PICK e : e = [doc[d] EXCEPT !.queue = q, !.revno = n, !.val = Append(doc[d].val, t)]
  OBVIOUS
<1>2. UNCHANGED doc \/ doc' = [doc EXCEPT ![d] = e]
  BY <1>1 DEF Update
<1>3. UNCHANGED stash
  BY DEF Update
<1>. HIDE DEF d, q, n, t
<1>4. d \in Docs => /\ DOMAIN e = DocFields /\ e.remove = doc[d].remove
                    /\ e.val = Append(doc[d].val, t)
  BY <1>1 DEF TraceInd, DocFields
<1>5. ASSUME doc' = [doc EXCEPT ![d] = e] PROVE DocsFrom(t)
  BY <1>4, <1>5, DocWritten DEF DocFrom
<1>6. DocsFrom(t)
  BY <1>2, <1>5, DocsSame
<1>. QED
  BY <1>3, <1>6, StashesSame DEF Leaves, t

LEMMA MarkedRemoved ==
  ASSUME TraceInd, NEW r, MarkRemove(r)
  PROVE  Leaves(Top(flusher[r]).t)
<1>. DEFINE t == Top(flusher[r]).t
<1>1. UNCHANGED stash
  BY DEF MarkRemove
<1>2. UNCHANGED doc \/ \E d : doc' = [doc EXCEPT ![d].remove = t]
  BY DEF MarkRemove
<1>. HIDE DEF t
<1>3. ASSUME NEW d, doc' = [doc EXCEPT ![d].remove = t]
      PROVE  DocsFrom(t)
  <2>1. PICK e : e = [doc[d] EXCEPT !.remove = t]
    OBVIOUS
  <2>2. d \in Docs => DOMAIN e = DocFields /\ e.remove = t /\ e.val = doc[d].val
    BY <2>1 DEF TraceInd, DocFields
  <2>3. doc' = [doc EXCEPT ![d] = e]
    BY <1>3, <2>1
  <2>. QED
    BY <2>2, <2>3, DocWritten DEF DocFrom
<1>4. DocsFrom(t)
  BY <1>2, <1>3, DocsSame
<1>. QED
  BY <1>1, <1>4, StashesSame DEF Leaves, t

LEMMA DocMadeOrDeleted ==
  ASSUME TraceInd, NEW r, InsertDoc(r) \/ DeleteDoc(r)
  PROVE  Leaves(Top(flusher[r]).t)
<1>. DEFINE t == Top(flusher[r]).t
<1>1. UNCHANGED stash
  BY DEF InsertDoc, DeleteDoc
<1>2. \/ UNCHANGED doc
      \/ \E d : doc' = [doc EXCEPT ![d] = Gone]
      \/ \E d, n, q : doc' = [doc EXCEPT ![d] = [live |-> TRUE, revno |-> n, queue |-> q,
                                                remove |-> None, val |-> <<t>>]]
  BY DEF InsertDoc, DeleteDoc
<1>. HIDE DEF t
<1>3. ASSUME NEW d, doc' = [doc EXCEPT ![d] = Gone]
      PROVE  DocsFrom(t)
  BY <1>3, NewDoc, DocWritten DEF DocFrom
<1>4. ASSUME NEW d, NEW n, NEW q,
             doc' = [doc EXCEPT ![d] = [live |-> TRUE, revno |-> n, queue |-> q,
                                        remove |-> None, val |-> <<t>>]]
      PROVE  DocsFrom(t)
  <2>1. PICK e : e = [live |-> TRUE, revno |-> n, queue |-> q, remove |-> None, val |-> <<t>>]
    OBVIOUS
  <2>2. DOMAIN e = DocFields /\ e.remove = None /\ e.val = <<t>>
    BY <2>1 DEF DocFields
  <2>3. doc' = [doc EXCEPT ![d] = e]
    BY <1>4, <2>1
  <2>. QED
    BY <2>2, <2>3, DocWritten DEF DocFrom
<1>5. DocsFrom(t)
  BY <1>2, <1>3, <1>4, DocsSame
<1>. QED
  BY <1>1, <1>5, StashesSame DEF Leaves, t

LEMMA MarkedInserted ==
  ASSUME TraceInd, NEW r, MarkInsert(r)
  PROVE  Leaves(Top(flusher[r]).t)
<1>. DEFINE t == Top(flusher[r]).t
<1>1. UNCHANGED doc
  BY DEF MarkInsert
<1>2. UNCHANGED stash \/ \E d : stash' = [stash EXCEPT ![d].insert = t]
  BY DEF MarkInsert
<1>. HIDE DEF t
<1>3. ASSUME NEW d, stash' = [stash EXCEPT ![d].insert = t]
      PROVE  StashesFrom(t)
  <2>1. PICK e : e = [stash[d] EXCEPT !.insert = t]
    OBVIOUS
  <2>2. d \in Docs => DOMAIN e = StashFields /\ e.insert = t
    BY <2>1 DEF TraceInd, StashFields
  <2>3. stash' = [stash EXCEPT ![d] = e]
    BY <1>3, <2>1
  <2>. QED
    BY <2>2, <2>3, StashWritten DEF StashFrom
<1>4. StashesFrom(t)
  BY <1>2, <1>3, StashesSame
<1>. QED
  BY <1>1, <1>4, DocsSame DEF Leaves, t

LEMMA StashKept ==
  ASSUME TraceInd, NEW r, PushNonce(r) \/ Restash(r) \/ DropStash(r) \/ PullStash(r)
  PROVE  Leaves(Top(flusher[r]).t)
<1>. DEFINE t == Top(flusher[r]).t
<1>1. UNCHANGED doc
  BY DEF PushNonce, Restash, DropStash, PullStash
<1>2. \/ UNCHANGED stash
      \/ \E d, n : stash' = [stash EXCEPT ![d] = [@ EXCEPT !.there = TRUE, !.n = n]]
      \/ \E d, q, n : stash' = [stash EXCEPT ![d] = [@ EXCEPT !.queue = q, !.n = {}, !.revno = n]]
      \/ \E d : stash' = [stash EXCEPT ![d] = NoStash]
      \/ \E d, q : stash' = [stash EXCEPT ![d].queue = q]
  <2>1. CASE PushNonce(r)
    BY <2>1 DEF PushNonce
  <2>2. CASE Restash(r)
    BY <2>2 DEF Restash
  <2>3. CASE DropStash(r)
    BY <2>3 DEF DropStash
  <2>4. CASE PullStash(r)
    BY <2>4 DEF PullStash
  <2>. QED
    BY <2>1, <2>2, <2>3, <2>4
<1>. HIDE DEF t
<1>3. ASSUME NEW d, NEW n,
             stash' = [stash EXCEPT ![d] = [@ EXCEPT !.there = TRUE, !.n = n]]
      PROVE  StashesFrom(t)
  <2>1. PICK e : e = [stash[d] EXCEPT !.there = TRUE, !.n = n]
    OBVIOUS
  <2>2. d \in Docs => DOMAIN e = StashFields /\ e.insert = stash[d].insert
    BY <2>1 DEF TraceInd, StashFields
  <2>3. stash' = [stash EXCEPT ![d] = e]
    BY <1>3, <2>1
  <2>. QED
    BY <2>2, <2>3, StashWritten DEF StashFrom
<1>4. ASSUME NEW d, NEW q, NEW n,
             stash' = [stash EXCEPT ![d] = [@ EXCEPT !.queue = q, !.n = {}, !.revno = n]]
      PROVE  StashesFrom(t)
  <2>1. PICK e : e = [stash[d] EXCEPT !.queue = q, !.n = {}, !.revno = n]
    OBVIOUS
  <2>2. d \in Docs => DOMAIN e = StashFields /\ e.insert = stash[d].insert
    BY <2>1 DEF TraceInd, StashFields
  <2>3. stash' = [stash EXCEPT ![d] = e]
    BY <1>4, <2>1
  <2>. QED
    BY <2>2, <2>3, StashWritten DEF StashFrom
<1>5. ASSUME NEW d, stash' = [stash EXCEPT ![d] = NoStash]
      PROVE  StashesFrom(t)
  BY <1>5, NewStash, StashWritten DEF StashFrom
<1>6. UNCHANGED stash => StashesFrom(t)
  BY StashesSame
<1>7. ASSUME NEW d, NEW q, stash' = [stash EXCEPT ![d].queue = q] PROVE StashesFrom(t)
  BY <1>7, StashQueue
<1>8. StashesFrom(t)
  BY <1>2, <1>3, <1>4, <1>5, <1>6, <1>7
<1>. QED
  BY <1>1, <1>8, DocsSame DEF Leaves, t

LEMMA TraceSteps ==
  ASSUME TxnInd, TraceInd, [TxnNext]_txnVars
  PROVE  TraceInd'
<1>1. Forward
  BY TxnSteps DEF Steps
<1>2. ASSUME NEW r \in Runners, Editing(r) PROVE TraceInd'
  <2>1. \E pc \in Edits : Ask(r, pc)
    BY <1>2 DEF Editing, Update, PushNonce, MarkRemove, Restash, DeleteDoc, MarkInsert,
       InsertDoc, DropStash, PullStash, Edits
  <2>2. Leaves(Top(flusher[r]).t)
    BY <1>2, Updated, MarkedRemoved, DocMadeOrDeleted, MarkedInserted, StashKept DEF Editing
  <2>3. Top(flusher[r]).t \in Txns => txn[Top(flusher[r]).t].s \in {"applying", "applied"}
    BY <2>1, MayEdit
  <2>. QED
    BY <1>1, <2>2, <2>3, TraceStep DEF Leaves
<1>3. ASSUME Leaves(None) PROVE TraceInd'
  BY <1>1, <1>3, TxnAssumption, TraceStep DEF Leaves
<1>4. CASE UNCHANGED txnVars
  <2>1. UNCHANGED <<doc, stash>>
    BY <1>4 DEF txnVars
  <2>. QED
    BY <1>3, <2>1, DocsSame, StashesSame DEF Leaves
<1>5. CASE TxnNext
  <2>1. PICK r \in Runners : FlushStep(r) \/ Kill(r) \/ \E t \in Txns : Run(r, t) \/ Resume(r, t)
    BY <1>5, ScenarioOk DEF TxnNext
  <2>2. CASE Kill(r) \/ \E t \in Txns : Run(r, t) \/ Resume(r, t)
    BY <1>3, <2>2, Others
  <2>3. CASE FlushStep(r)
    BY <1>2, <1>3, <2>3, Marked, StashMarked, Unstashed, PulledAborted, Others
       DEF FlushStep, Editing
  <2>. QED
    BY <2>1, <2>2, <2>3
<1>. QED
  BY <1>4, <1>5

LEMMA TraceStarts ==
  ASSUME TxnInit
  PROVE  TraceInd
<1>1. \A d \in Docs : /\ DOMAIN doc[d] = DocFields /\ doc[d].remove = None
                      /\ doc[d].val = <<>>
  BY NewDoc DEF TxnInit, Gone, DocFields
<1>2. PICK s \in Seq({}) : s = <<>>
  BY EmptySeq
<1>3. Range(s) \in SUBSET {} /\ s \in Seq(Range(s))
  BY RangeOfSeq, SeqOfRange
<1>4. \A d \in Docs : doc[d].val \in Seq(Range(doc[d].val)) /\ Range(doc[d].val) = {}
  BY <1>1, <1>2, <1>3
<1>5. \A d \in Docs : DOMAIN stash[d] = StashFields /\ stash[d].insert = None
  BY NewStash DEF TxnInit
<1>6. DOMAIN doc = Docs /\ DOMAIN stash = Docs
  BY DEF TxnInit
<1>. QED
  BY <1>1, <1>4, <1>5, <1>6, TxnAssumption DEF TraceInd, NoTraces

----------------------------------------------------------------------------
(* The theorem                                                             *)

\* Whatever transactions do, however many flush them, are killed and resume: one
\* that was applied or aborted stays so, one being applied is not aborted, Run and
\* Resume tell the truth, and one that is not being applied and was not has left
\* nothing in any document (flusher.go:abortOrReload, checkpoint, apply).
THEOREM TxnCorrect == TxnSpec => []ResultsTrue /\ []NoTraces /\ Decides
<1>1. TxnInit => TxnInd /\ TraceInd
  BY TxnStarts, TraceStarts
<1>2. TxnInd /\ TraceInd /\ [TxnNext]_txnVars => TxnInd' /\ TraceInd'
  BY TxnSteps, TraceSteps DEF Steps
<1>3. TxnInd /\ TraceInd => ResultsTrue /\ NoTraces
  BY DEF TxnInd, TraceInd
<1>4. TxnInd /\ [TxnNext]_txnVars =>
        [\A t \in Txns : /\ Done(txn[t].s) => txn'[t].s = txn[t].s
                         /\ txn[t].s = "applying" => txn'[t].s \in {"applying", "applied"}]_txn
  <2>1. SUFFICES ASSUME TxnInd, [TxnNext]_txnVars, NEW t \in Txns
                 PROVE  /\ Done(txn[t].s) => txn'[t].s = txn[t].s
                        /\ txn[t].s = "applying" => txn'[t].s \in {"applying", "applied"}
    OBVIOUS
  <2>2. Onward(txn[t].s, txn'[t].s)
    <3>1. Steps
      BY <2>1, TxnSteps
    <3>. QED
      BY <3>1 DEF Steps, Forward
  <2>. QED
    BY <2>2 DEF Onward, Done
<1>. QED
  BY <1>1, <1>2, <1>3, <1>4, PTL DEF TxnSpec, Decides
=============================================================================
