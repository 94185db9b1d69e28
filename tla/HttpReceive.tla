----------------------------- MODULE HttpReceive -----------------------------
(***************************************************************************)
(* The reception of one answer by one slot: the statuses 99 (headers), 1   *)
(* (body), 98 and 97 (lines of a chunked body) of back_wait (htsback.c),   *)
(* http_xfread1 (htslib.c), back_finalize and back_maydeletehttp.          *)
(*                                                                         *)
(* The server is external: an exchange says what is asked, what is already *)
(* on disk and what is sent, as a sequence of tokens.  The bytes of the    *)
(* resource are numbered; the file is the sequence of the bytes written.   *)
(* A token of a line stands for a whole line, its line feed included; the  *)
(* bytes of the resource hold no line feed.                                *)
(***************************************************************************)
EXTENDS Integers, Sequences

CONSTANTS
  Exchanges,  \* the requests and what the server sends back
  Faults      \* what else may go wrong: a subset of AllFaults

AllFaults == {"cut", "reset", "silent", "create", "append", "write", "big",
              "cancel", "slow"}
Kinds == {"get", "conditional", "range", "head", "gettest", "test"}
Framings == {"length", "chunked", "close"}
Tokens == [is : {"continue", "head", "byte", "size", "line", "bad"}, n : Int]

(* kind: what is asked; page: HTML, kept in memory; have: the bytes on     *)
(* disk; code, framing, length, keep: what the headers say; body: the      *)
(* bytes of the whole resource; wire: what is sent.                        *)
ASSUME ExchangesAssumption ==
  /\ Exchanges \subseteq
       [kind : Kinds, page : BOOLEAN, have : Seq(Int), code : Nat \ {0},
        framing : Framings, length : Nat, keep : BOOLEAN, body : Seq(Int),
        wire : Seq(Tokens)]
  /\ \A e \in Exchanges : e.code = 206 => ~e.page
  /\ Faults \subseteq AllFaults

VARIABLES
  x,     \* the exchange
  wire,  \* what the server has still to send
  peer,  \* the other end of the connection
  cut,   \* history: the server stopped before the end of its answer
  file,  \* the bytes of the file on disk
  slot   \* the slot of back[] and its htsblk

vars == <<x, wire, peer, cut, file, slot>>

-----------------------------------------------------------------------------
(* A server that is honest: what it sends is what its headers say.         *)

Bare(e) == e.kind = "head" \/ e.code = 304     \* no body follows the headers
IsByte(t) == t.is = "byte"
Numbers(tokens) == [i \in DOMAIN tokens |-> tokens[i].n]
AreBytes(tokens) == \A i \in DOMAIN tokens : IsByte(tokens[i])
Sizes(tokens) == {i \in DOMAIN tokens : tokens[i].is = "size"}

(* The bytes it has to send: all, or those after what is on disk.          *)
ToSend(e, rest) ==
  IF e.code = 200 THEN e.body
  ELSE IF e.code = 206 THEN SubSeq(e.body, Len(e.have) + 1, Len(e.body))
  ELSE Numbers(SelectSeq(rest, IsByte))

(* Chunks of the bytes, each behind its size and before a line, and after  *)
(* the last one a size of 0, headers perhaps, and an empty line.  off: how *)
(* many bytes come before a size.                                          *)
IsChunk(tokens, bytes, off, i) ==
  LET n == tokens[i].n
  IN /\ i + n + 2 \in Sizes(tokens)
     /\ off[i + n + 2] = off[i] + n
     /\ \A j \in 1..n : IsByte(tokens[i + j]) /\ tokens[i + j].n = bytes[off[i] + j]
     /\ tokens[i + n + 1].is = "line"

IsLastChunk(tokens, bytes, off, i) ==
  /\ tokens[i].n = 0 /\ off[i] = Len(bytes) /\ i < Len(tokens)
  /\ \A j \in i + 1..Len(tokens) :
       tokens[j].is = IF j = Len(tokens) THEN "line" ELSE "bad"

AreChunks(tokens, bytes, off) ==
  /\ 1 \in Sizes(tokens) /\ off[1] = 0
  /\ \A i \in Sizes(tokens) :
       IF tokens[i].n > 0 THEN IsChunk(tokens, bytes, off, i)
                          ELSE IsLastChunk(tokens, bytes, off, i)

Framed(e, rest, bytes) ==
  IF e.framing = "chunked"
  THEN \E off \in [Sizes(rest) -> 0..Len(bytes)] : AreChunks(rest, bytes, off)
  ELSE /\ AreBytes(rest) /\ Numbers(rest) = bytes
       /\ e.framing = "length" => e.length = Len(bytes)
       /\ e.framing = "close" => ~e.keep

(* The headers end at h, and what follows them is as they say.             *)
Headed(e, h) ==
  \A i \in 1..h : e.wire[i].is = IF i = h THEN "head" ELSE "continue"
After(e, h) == SubSeq(e.wire, h + 1, Len(e.wire))
Sincere(e, h) ==
  /\ Headed(e, h)
  /\ LET rest == After(e, h)
     IN IF Bare(e) THEN rest = <<>> ELSE Framed(e, rest, ToSend(e, rest))

Honest(e) ==
  /\ e.code = 206 =>
       Len(e.have) <= Len(e.body) /\ e.have = SubSeq(e.body, 1, Len(e.have))
  /\ \E h \in DOMAIN e.wire : Sincere(e, h)

Codes == (Nat \ {0}) \cup {-1, -2, -3, -4, -5, -7, -10}
INVALID == -1
TIMEOUT == -2
SLOW == -3
CONNERROR == -4
NON_FATAL == -5
TOO_BIG == -7
TEST_OK == -10

(* size, total: r.size and r.totalsize (-1: unknown); block: the size of   *)
(* the last chunk, 0 before the first and -1 after the last; write: is_write*)
(* and its open stream; alloc: r.adr # NULL; chunked: is_chunk; guessed:   *)
(* is_file; ref: the reference of a file in progress; entry: the code of   *)
(* the entry in the cache (0: none), of length kept.                       *)
Slot == [status : {"headers", "body", "size", "crlf", "ready", "free"},
         code : Codes, size : Nat, total : Nat \cup {-1},
         block : Nat \cup {-1}, write : BOOLEAN, alloc : BOOLEAN,
         chunked : BOOLEAN, guessed : BOOLEAN, ref : BOOLEAN,
         final : BOOLEAN, entry : Codes \cup {0}, kept : Nat,
         soc : {"open", "parked", "closed"}]

(* The values of the variables. *)
TypeOK ==
  /\ x \in Exchanges /\ cut \in BOOLEAN
  /\ wire \in Seq(Tokens) /\ file \in Seq(Int)
  /\ peer \in {"up", "closed", "reset", "silent"}
  /\ slot \in Slot

NewSlot(e) ==
  [status |-> "headers", code |-> INVALID, size |-> 0, total |-> -1,
   block |-> 0, write |-> FALSE, alloc |-> FALSE, chunked |-> FALSE,
   guessed |-> FALSE, ref |-> e.kind = "range", final |-> FALSE, entry |-> 0,
   kept |-> 0, soc |-> "open"]

Init ==
  /\ x \in Exchanges
  /\ wire = x.wire /\ peer = "up" /\ cut = FALSE
  /\ file = x.have
  /\ slot = NewSlot(x)

(* HEAD, or GET when HEAD loops (BACK_ADD_TEST2): head_request.            *)
HeadersOnly == x.kind \in {"head", "gettest"}
Tested == x.kind \in {"head", "gettest", "test"}
Good(s) == s.code > 0
Closed(s) == [s EXCEPT !.soc = "closed"]
Ready(s) == [s EXCEPT !.status = "ready"]

-----------------------------------------------------------------------------
(* The end of an answer.                                                   *)

WrongLength(s) == s.total >= 0 /\ s.size # s.total

(* Mutant: broken files are stored as well.                                *)
FinalizeBroken(s) ==
  IF s.final THEN s
  ELSE IF s.status = "ready" /\ Good(s) /\ ~Tested
    THEN LET d == [s EXCEPT !.final = TRUE, !.ref = s.ref /\ ~s.write]
         IN IF s.guessed THEN d
                         ELSE [d EXCEPT !.entry = s.code, !.kept = s.size]
    ELSE [s EXCEPT !.final = TRUE]

(* back_finalize: once; "don't store broken files"; the reference of a     *)
(* file that is written is removed; cache_mayadd stores what is not a      *)
(* guess from the disk.                                                    *)
Finalize(s) ==
  IF s.final THEN s
  ELSE IF WrongLength(s) /\ Good(s) THEN [s EXCEPT !.final = TRUE]
  ELSE IF s.status = "ready" /\ Good(s) /\ ~Tested
    THEN LET d == [s EXCEPT !.final = TRUE, !.ref = s.ref /\ ~s.write]
         IN IF s.guessed THEN d
                         ELSE [d EXCEPT !.entry = s.code, !.kept = s.size]
    ELSE [s EXCEPT !.final = TRUE]

(* back_maydeletehttp: the connection of a good answer is given to a free  *)
(* slot, should there be one; else it is closed.                           *)
MayPark(s) == s.soc = "open" /\ s.code >= 0 /\ ~s.guessed /\ x.keep
Kept(s) == IF MayPark(s) THEN {"parked", "closed"} ELSE {"closed"}
AfterPark(s) == {[s EXCEPT !.soc = c] : c \in Kept(s)}

(* Mutant: what is too short is freed, and its code left as it is.         *)
MeasuredFreed(s) ==
  IF ~WrongLength(s) THEN s ELSE [s EXCEPT !.alloc = FALSE]

(* The length of what was received is compared after all the rest.         *)
Measured(s) ==
  IF ~WrongLength(s) THEN s
  ELSE [s EXCEPT !.alloc = FALSE,
                 !.code = IF s.size < s.total THEN CONNERROR ELSE s.code]

(* End of reception: an error, or the end of the file or of the connection.*)
Ends(s, error) ==
  LET r == Ready([s EXCEPT !.code = IF error THEN CONNERROR ELSE s.code])
  IN {Measured(IF Good(p) THEN Finalize(p) ELSE p) :
        p \in IF r.soc = "open" THEN AfterPark(r) ELSE {r}}

-----------------------------------------------------------------------------
(* The headers.                                                            *)

AtHead == slot.status = "headers" /\ wire # <<>> /\ Head(wire).is = "head"

(* What treatfirstline and treathead read.                                 *)
Got == [slot EXCEPT !.code = x.code,
                    !.total = IF x.framing = "length" THEN x.length ELSE -1]

(* 100: the real headers follow.                                           *)
Interim ==
  /\ slot.status = "headers" /\ wire # <<>> /\ Head(wire).is = "continue"
  /\ slot' = [slot EXCEPT !.size = 0, !.total = -1, !.code = INVALID]
  /\ UNCHANGED file

(* The limit of size of the filters, or the general one.                   *)
TooBig ==
  /\ "big" \in Faults /\ AtHead /\ Got.total >= 0
  /\ ~(x.code = 416 /\ Len(file) = Len(x.body))
  /\ slot' = Closed(Ready([Got EXCEPT !.code = TOO_BIG]))
  /\ UNCHANGED file

(* A test needs the headers only.                                          *)
TestHead ==
  /\ AtHead /\ HeadersOnly
  /\ slot' = Ready(Got)
  /\ UNCHANGED file

(* 304: the entry of the cache, or a guess from the file.                  *)
FromDisk(cached) ==
  Ready([Got EXCEPT !.code = 200, !.guessed = ~cached,
                    !.size = Len(file), !.total = Len(file)])

NotModified ==
  /\ AtHead /\ ~HeadersOnly /\ x.code = 304
  /\ \E cached \in BOOLEAN : slot' = Finalize(FromDisk(cached))
  /\ UNCHANGED file

(* 416 that gives the length of the file on disk: it was complete, and the *)
(* connection is closed.                                                   *)
AlreadyComplete ==
  /\ AtHead /\ ~HeadersOnly /\ x.code = 416 /\ Len(file) = Len(x.body)
  /\ \E cached \in BOOLEAN : slot' = Finalize(Closed(FromDisk(cached)))
  /\ UNCHANGED file

(* What is left to receive, once the status says so.                       *)
StartBody(s) ==
  IF x.kind = "test"
    THEN {Closed(Ready([s EXCEPT !.code = IF s.code = 200 THEN TEST_OK
                                                          ELSE s.code]))}
  ELSE IF x.framing = "length" /\ x.length = 0
    THEN {Finalize(Ready([p EXCEPT !.alloc = TRUE])) : p \in AfterPark(s)}
  ELSE IF x.framing = "chunked"
    THEN {[s EXCEPT !.status = "size", !.chunked = TRUE, !.total = -1]}
  ELSE {[s EXCEPT !.status = "body"]}

Start ==
  /\ AtHead /\ ~HeadersOnly
  /\ x.code \notin {304, 206}
  /\ ~(x.code = 416 /\ Len(file) = Len(x.body))
  /\ slot' \in StartBody(Got)
  /\ UNCHANGED file

(* Mutant: the stream of the rest is opened anew.                          *)
PartialStartAnew ==
  /\ AtHead /\ ~HeadersOnly /\ x.code = 206
  /\ slot' \in StartBody([Got EXCEPT
       !.code = 200, !.write = TRUE, !.ref = TRUE, !.size = Len(file),
       !.total = IF Got.total >= 0 THEN Got.total + Len(file) ELSE -1])
  /\ file' = <<>>

(* 206: what follows is appended to the file.                              *)
PartialStart ==
  /\ AtHead /\ ~HeadersOnly /\ x.code = 206
  /\ slot' \in StartBody([Got EXCEPT
       !.code = 200, !.write = TRUE, !.ref = TRUE, !.size = Len(file),
       !.total = IF Got.total >= 0 THEN Got.total + Len(file) ELSE -1])
  /\ UNCHANGED file

PartialRefused ==
  /\ "append" \in Faults /\ AtHead /\ ~HeadersOnly /\ x.code = 206
  /\ slot' = Closed(Ready([Got EXCEPT !.code = NON_FATAL]))
  /\ UNCHANGED file

HeadStep ==
  /\ \/ Interim \/ TooBig \/ TestHead \/ NotModified \/ AlreadyComplete
     \/ Start \/ PartialStart \/ PartialRefused
  /\ wire' = Tail(wire)
  /\ UNCHANGED peer

-----------------------------------------------------------------------------
(* The body.                                                               *)

Receiving == slot.status \in {"body", "size", "crlf"}

(* A good answer that is not a page goes to disk as soon as something      *)
(* comes.                                                                  *)
Opens == ~slot.write /\ ~slot.alloc /\ slot.code = 200 /\ ~x.page
Opened == IF Opens THEN [slot EXCEPT !.write = TRUE, !.ref = TRUE] ELSE slot
OpenedFile == IF Opens THEN <<>> ELSE file

(* The file cannot be created: the code stays what it was.                 *)
CreateFails ==
  /\ "create" \in Faults /\ Receiving /\ Opens
  /\ wire # <<>> \/ peer # "up"
  /\ slot' \in Ends(Closed(slot), FALSE)
  /\ UNCHANGED <<wire, peer, file>>

Bytes(n) == n <= Len(wire) /\ \A i \in 1..n : wire[i].is = "byte"
Content(n) == [i \in 1..n |-> wire[i].n]
Skip(n) == wire' = SubSeq(wire, n + 1, Len(wire))

(* After n more bytes: to disk, or in memory.                              *)
Longer(n) == [Opened EXCEPT !.size = @ + n, !.alloc = @ \/ ~Opened.write]
Written(n) ==
  file' = IF Opened.write THEN OpenedFile \o Content(n) ELSE OpenedFile

(* A body with a length or none: a page is read up to its length, a file   *)
(* as it comes; both end with the length (READ_EOF).                       *)
ReadBody ==
  /\ slot.status = "body" /\ ~slot.chunked
  /\ \E n \in 1..Len(wire) :
       /\ Bytes(n)
       /\ Opened.write \/ slot.total < 0 \/ n <= slot.total - slot.size
       /\ Skip(n) /\ Written(n)
       /\ slot' \in IF Longer(n).size = Longer(n).total
                      THEN Ends(Longer(n), FALSE) ELSE {Longer(n)}
  /\ UNCHANGED peer

(* The disk refuses the bytes: their number is counted all the same.       *)
WriteFails ==
  /\ "write" \in Faults /\ slot.status = "body" /\ ~slot.chunked
  /\ Opened.write
  /\ \E n \in 1..Len(wire) :
       /\ Bytes(n) /\ Skip(n) /\ file' = OpenedFile
       /\ LET s == [Longer(n) EXCEPT !.code = INVALID]
          IN slot' \in Ends(s, s.size # s.total)
  /\ UNCHANGED peer

(* The data of a chunk: what is missing to reach the total announced so    *)
(* far, which is where a file continued by 206 goes wrong: its total       *)
(* starts at the first chunk, its size at what is on disk.                 *)
Missing == slot.total - slot.size

ReadChunk ==
  /\ slot.status = "body" /\ slot.chunked /\ Missing > 0
  /\ \E n \in 1..Missing :
       /\ Bytes(n) /\ Skip(n) /\ Written(n)
       /\ slot' = IF n = Missing THEN [Longer(n) EXCEPT !.status = "crlf"]
                                 ELSE Longer(n)
  /\ UNCHANGED peer

ChunkFull ==
  /\ slot.status = "body" /\ slot.chunked /\ Missing = 0
  /\ slot' = [slot EXCEPT !.status = "crlf"]
  /\ UNCHANGED <<wire, peer, file>>

(* A negative number of bytes to read stands for other things in           *)
(* http_xfread1: -2 to reserve memory, the others to read one line there.  *)
Reserve ==
  /\ slot.status = "body" /\ slot.chunked /\ Missing = -2 /\ wire # <<>>
  /\ IF slot.alloc THEN slot' \in Ends(slot, TRUE)
                   ELSE slot' = [slot EXCEPT !.alloc = TRUE, !.size = 0]
  /\ UNCHANGED <<wire, peer, file>>

Width(t) == IF t.is = "byte" \/ t.is = "line" THEN 1 ELSE 2
ReadLineInstead ==
  /\ slot.status = "body" /\ slot.chunked /\ Missing < 0 /\ Missing # -2
  /\ \E n \in 1..Len(wire) :
       /\ Bytes(n - 1)
       /\ Skip(n)
       /\ LET size == (IF slot.alloc THEN slot.size ELSE 0)
                        + (n - 1) + Width(wire[n])
          IN slot' = [slot EXCEPT !.alloc = TRUE, !.size = size,
                        !.status = IF size = slot.total THEN "crlf" ELSE @]
  /\ UNCHANGED <<peer, file>>

(* The lines of a chunked body are read in a buffer of their own; what is  *)
(* left of the data in front of a line makes it an illegal one.            *)
NoLine == \A i \in 1..Len(wire) : wire[i].is = "byte"

(* The size of the next chunk; -1: illegal.                                *)
Value(alone, t) ==
  IF ~alone THEN -1
  ELSE IF slot.status = "size" THEN (IF t.is = "size" THEN t.n ELSE -1)
  ELSE IF t.is # "line" THEN -1
  ELSE IF slot.block > 0 THEN slot.block ELSE 0

(* What the line says is added to the total, and makes room in memory.     *)
Announced(v) ==
  LET s == [Opened EXCEPT !.total = IF @ < 0 THEN 0 ELSE @]
  IN IF slot.status = "size" /\ v >= 0
       THEN [s EXCEPT !.total = @ + v, !.block = IF v > 0 THEN v ELSE -1,
                      !.alloc = @ \/ ~s.write]
       ELSE s

(* The end of the chunks: stored first, and only then an illegal line, or  *)
(* a wrong length, is an error.                                            *)
ChunkEnd(s, v) ==
  LET p == Finalize(Ready(s))
  IN IF p.soc # "open" THEN p
     ELSE IF v < 0
       THEN Closed([p EXCEPT !.alloc = FALSE, !.code = INVALID])
     ELSE IF WrongLength(p)
       THEN [p EXCEPT !.alloc = FALSE, !.code = INVALID]
     ELSE p

(* Mutant: the last chunk ends the answer.                                 *)
AfterLineAtOnce(s, v) ==
  IF slot.status = "crlf" /\ v > 0 THEN [s EXCEPT !.status = "size"]
  ELSE IF slot.status = "size" /\ v > 0 THEN [s EXCEPT !.status = "body"]
  ELSE ChunkEnd(s, v)

AfterLine(s, v) ==
  IF slot.status = "crlf" /\ v > 0 THEN [s EXCEPT !.status = "size"]
  ELSE IF slot.status = "size" /\ v = 0 THEN [s EXCEPT !.status = "crlf"]
  ELSE IF slot.status = "size" /\ v > 0 THEN [s EXCEPT !.status = "body"]
  ELSE ChunkEnd(s, v)

ReadLine ==
  /\ slot.status \in {"size", "crlf"}
  /\ \E n \in 1..Len(wire) :
       /\ Bytes(n - 1) /\ wire[n].is # "byte"
       /\ Skip(n)
       /\ LET v == Value(n = 1, wire[n])
          IN slot' = AfterLine(Announced(v), v)
  /\ file' = OpenedFile
  /\ UNCHANGED peer

BodyStep ==
  \/ CreateFails \/ ReadBody \/ WriteFails \/ ReadChunk \/ ChunkFull
  \/ Reserve \/ ReadLineInstead \/ ReadLine

-----------------------------------------------------------------------------
(* The end of the connection, of patience and of the slot.                 *)

Busy == slot.status \notin {"ready", "free"}
Readable ==
  /\ wire # <<>>
  /\ slot.status \in {"size", "crlf"} => ~NoLine

PeerEnd ==
  /\ Busy /\ ~Readable /\ peer \in {"closed", "reset"}
  /\ slot' \in Ends(Opened, peer = "reset" \/ ~Good(slot))
  /\ file' = OpenedFile /\ wire' = <<>>
  /\ UNCHANGED peer

(* Mutant: only the body is timed.                                         *)
TimeoutOfBody ==
  /\ Receiving /\ ~Readable /\ peer \in {"up", "silent"}
  /\ slot' = Closed(Ready([slot EXCEPT !.code = TIMEOUT]))
  /\ UNCHANGED <<wire, peer, file>>

(* Nothing came for the time allowed: an error in any status.              *)
Timeout ==
  /\ Busy /\ ~Readable /\ peer \in {"up", "silent"}
  /\ slot' = Closed(Ready([slot EXCEPT !.code = TIMEOUT]))
  /\ UNCHANGED <<wire, peer, file>>

(* A body, or the lines of its chunks, that comes too slowly.              *)
Slow ==
  /\ "slow" \in Faults /\ Receiving
  /\ slot' = Closed(Ready([slot EXCEPT !.code = SLOW]))
  /\ UNCHANGED <<wire, peer, file>>

Cancel ==
  /\ "cancel" \in Faults /\ Busy
  /\ slot' = Closed(Ready([slot EXCEPT !.code = INVALID]))
  /\ UNCHANGED <<wire, peer, file>>

(* back_clean gives back the connection of what is ready.                  *)
Park ==
  /\ slot.status = "ready" /\ slot.soc = "open"
  /\ slot' \in AfterPark(slot)
  /\ UNCHANGED <<wire, peer, file>>

(* back_maydelete: finalized at last, the connection kept or not.          *)
Delete ==
  /\ slot.status = "ready"
  /\ LET d == [Finalize(slot) EXCEPT !.status = "free"]
     IN slot' \in IF slot.soc = "open" THEN AfterPark(d) ELSE {d}
  /\ UNCHANGED <<wire, peer, file>>

-----------------------------------------------------------------------------
(* The server stops sending, for good: by closing, by a reset, or silent.  *)
PeerStops ==
  /\ peer = "up" /\ Busy
  /\ \E k \in 0..(Len(wire) - 1), f \in Faults :
       /\ wire' = SubSeq(wire, 1, k)
       /\ \/ f = "cut" /\ peer' = "closed"
          \/ f = "reset" /\ peer' = "reset"
          \/ f = "silent" /\ peer' = "silent"
  /\ cut' = TRUE
  /\ UNCHANGED <<x, file, slot>>

PeerCloses ==
  /\ peer = "up" /\ wire = <<>> /\ ~x.keep
  /\ peer' = "closed"
  /\ UNCHANGED <<x, wire, cut, file, slot>>

(* What a turn of the loop does with the slot, and what else may happen.   *)
Turn ==
  /\ HeadStep \/ BodyStep \/ PeerEnd \/ Timeout \/ Park \/ Delete
  /\ UNCHANGED <<x, cut>>

Interrupted == (Slow \/ Cancel) /\ UNCHANGED <<x, cut>>

Next == Turn \/ Interrupted \/ PeerStops \/ PeerCloses

(* The loop of the engine calls back_wait, which looks at every slot, and  *)
(* deletes what is ready; nothing is assumed of the server nor of the user.*)
Spec ==
  /\ Init /\ [][Next]_vars
  /\ WF_vars(Turn)

-----------------------------------------------------------------------------
Over == slot.status \in {"ready", "free"}

Complete == IF slot.write THEN file = x.body ELSE slot.kept = Len(x.body)

(* The rest of a file, in chunks ("check that it works", back_wait says).  *)
ChunkedRest == x.code = 206 /\ x.framing = "chunked"

(* An answer stored as complete is complete, when its server said how long *)
(* it is or did not break off, and what was asked was not the rest of a    *)
(* file: the bytes of the file, or their number in memory, are those of    *)
(* the resource.                                                           *)
StoredWhole ==
  /\ slot.entry = 200 /\ Honest(x) /\ ~ChunkedRest
  /\ slot.write \/ slot.alloc
  /\ x.framing = "length" \/ ~cut
  => Complete

(* "Don't store broken files" (back_finalize): this holds as well when the *)
(* rest of a file comes in chunks.                                         *)
ChunkedRestCompletes ==
  ChunkedRest /\ slot.entry = 200 /\ Honest(x) /\ ~cut => Complete

(* A connection that is kept for the next request, by anything but a test  *)
(* by GET, holds nothing of this one.                                      *)
ParkedInSync ==
  slot.soc = "parked" /\ Honest(x) /\ x.kind # "gettest" => wire = <<>>

(* What is on disk can be continued: it is what was there or the beginning *)
(* of one version of the resource, and a file that was begun and not stored*)
(* keeps the reference by which the next session asks for the rest.  The   *)
(* rest of a file in chunks is excepted: where the first chunk is shorter  *)
(* than what is on disk its bytes are lost, and those of the next appended.*)
Continuable ==
  /\ Honest(x) /\ ~ChunkedRest => file = x.have \/ file = SubSeq(x.body, 1, Len(file))
  /\ Over /\ slot.write /\ slot.entry = 0 => slot.ref

(* An answer that is over with its good code was stored, unless it is the  *)
(* file on disk that is trusted: what is short is an error, that is tried  *)
(* again.                                                                  *)
GoodMeansStored ==
  /\ slot.status = "free" /\ slot.code = 200 /\ ~Tested
  /\ Honest(x) /\ ~ChunkedRest
  => slot.entry = 200 \/ slot.guessed

(* Whatever the server does, the slot is given back.                       *)
EveryTransferEnds == <>(slot.status = "free")
=============================================================================
