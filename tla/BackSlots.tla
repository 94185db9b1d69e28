------------------------------ MODULE BackSlots ------------------------------
(***************************************************************************)
(* The background download pool of the HTTrack engine (htsback.c) under the*)
(* protocols of its callers (htscore.c back_fill, htsparse.c               *)
(* hts_mirror_wait_for_next_file and hts_wait_delayed) and beside the FTP  *)
(* threads (htsftp.c).                                                     *)
(*                                                                         *)
(* The engine is one thread.  A call of back_wait or back_add first runs   *)
(* back_clean, whose loops over the slots are one step per slot here, then *)
(* handles the events of the sockets or fills a slot.  The FTP threads and *)
(* the thread of the user interface take their steps between any two of    *)
(* them.                                                                   *)
(***************************************************************************)
EXTENDS Naturals, FiniteSets

CONSTANTS
  Links,         \* the links of the mirror
  NoLink,        \* "no link"
  HostOf,        \* the host of each link
  NoHost,        \* "no address"
  FtpLinks,      \* links fetched by an FTP thread
  SecureLinks,   \* https links
  UntypedLinks,  \* links whose final name needs the type in the headers
  DiskLinks,     \* links that are not hypertext: stored directly on disk
  KnownLinks,    \* links that the cache of a previous mirror answers for
  BackMax,       \* slots of the pool
  MaxSoc,        \* opt->maxsoc
  OneMore,       \* connection granted on top of it while links are tested
  FillReserve,   \* slots back_fill leaves available (8 in the code)
  MinFree,       \* free slots under which back_fill stops (2 in the code)
  Retries,       \* opt->retry
  HostControl,   \* opt->hostcontrol: hosts that time out are banned
  UserStops,     \* the user may stop the mirror and cancel links
  DiskMayFail    \* temporary files of the pool may fail to write or read

Slots == 0 .. (BackMax - 1)
Socks == 0 .. BackMax          \* one more than the slots can hold
NoSock == BackMax + 1
NoSlot == BackMax

(* url_adr: the host, with its scheme unless it is http. *)
Scheme(l) ==
  IF l \in FtpLinks THEN "ftp" ELSE IF l \in SecureLinks THEN "https" ELSE "http"
Address(l) == <<HostOf[l], Scheme(l)>>
Addresses == {Address(l) : l \in Links}

ASSUME PoolAssumption ==
  /\ BackMax \in Nat \ {0}
  /\ MaxSoc \in Nat \ {0}
  /\ {OneMore, FillReserve, MinFree, Retries} \subseteq Nat
  /\ {HostControl, UserStops, DiskMayFail} \subseteq BOOLEAN

ASSUME LinkAssumption ==
  /\ NoLink \notin Links
  /\ NoHost \notin Addresses
  /\ FtpLinks \subseteq Links
  /\ SecureLinks \subseteq Links \ FtpLinks
  /\ UntypedLinks \subseteq Links \ FtpLinks
  /\ DiskLinks \subseteq Links
  /\ KnownLinks \subseteq Links \ (FtpLinks \cup UntypedLinks)

VARIABLES
  slot,     \* sback->lnk
  open,     \* descriptors the process holds open
  stored,   \* slots swapped to disk: the hashtable sback->ready
  ghost,    \* keys of sback->ready whose file could not be read back
  ftp,      \* running FTP threads, with the slot and the link of each
  lk,       \* what the engine knows of each link
  tries,    \* retries left
  cached,   \* links whose body was handed to the cache
  call,     \* the pool function the engine is in, and how far it is
  eng,      \* what the engine is doing with which link and slot
  budget,   \* links that back_fill may still add
  stop      \* opt->state.stop

vars ==
  <<slot, open, stored, ghost, ftp, lk, tries, cached, call, eng, budget, stop>>

-----------------------------------------------------------------------------
(* Slots *)

OnWire == {"connecting", "handshake", "secured", "headers", "transfer"}
Busy == OnWire \cup {"ftp", "ftpready"}                        \* status > 0
Statuses == Busy \cup {"free", "alive", "ready"}

(* The save name: still delayed, guessed from the URL, or final. *)
Kinds == {"delayed", "guessed", "final"}

(* r.statuscode: -1, another negative code, 0, and the classes above 0 *)
Codes == {"invalid", "failed", "zero", "ok", "moved", "error"}
Positive == {"ok", "moved", "error"}

SlotType ==
  [st : Statuses, link : Links \cup {NoLink}, kind : Kinds,
   host : Addresses \cup {NoHost}, code : Codes, soc : Socks \cup {NoSock},
   ka : BOOLEAN, out : Kinds \cup {"none"}, final : BOOLEAN,
   locked : BOOLEAN, early : BOOLEAN]

FreeSlot ==
  [st |-> "free", link |-> NoLink, kind |-> "final", host |-> NoHost,
   code |-> "zero", soc |-> NoSock, ka |-> FALSE, out |-> "none",
   final |-> FALSE, locked |-> FALSE, early |-> FALSE]

AliveSlot(h, k) ==
  [FreeSlot EXCEPT !.st = "alive", !.host = h, !.soc = k, !.ka = TRUE]

NewSlot(l, kd) ==
  [FreeSlot EXCEPT !.st = "ready", !.link = l, !.kind = kd,
                   !.host = Address(l), !.code = "invalid"]

(* A slot that has ended with an error, its socket closed. *)
Failed(s, c) ==
  [s EXCEPT !.st = "ready", !.code = c, !.soc = NoSock, !.ka = FALSE]

Lowest(S) == {q \in S : \A r \in S : q <= r}
Free == {q \in Slots : slot[q].st = "free"}
Alive == {q \in Slots : slot[q].st = "alive"}
Receiving == {q \in Slots : slot[q].st \in Busy}

(* The place back_search finds: a free slot, or else an idle connection,   *)
(* which it closes.                                                        *)
Search == IF Free # {} THEN Lowest(Free) ELSE Lowest(Alive)

(* The slots and the stored answers back_index and back_exist look at. *)
InSlots(l) == {q \in Slots : slot[q].link = l /\ slot[q].st \notin {"free", "alive"}}
InStore(l, kd) == {s \in stored : s.link = l /\ s.kind = kd}
(* Fault: the answers swapped to disk are forgotten. *)
ExistsInSlotsOnly(l, kd) == InSlots(l) # {}

Exists(l, kd) == \/ InSlots(l) # {}
                 \/ InStore(l, kd) # {}
                 \/ <<l, kd>> \in ghost

(* What back_finalize gives to the cache with its body. *)
Offered(s) ==
  IF /\ ~s.final
     /\ s.st = "ready"
     /\ s.code = "ok"
     /\ s.kind # "delayed"
  THEN {s.link} ELSE {}

(* A connection that can be kept (the time left on it is not modelled: a   *)
(* kept connection may always be found too old instead).                   *)
Reusable(s) ==
  s.soc # NoSock /\ s.ka /\ s.code \notin {"invalid", "failed"}

(* back_delete, and back_maydelete, which may leave the connection alive. *)
Delete(p) ==
  /\ slot' = [slot EXCEPT ![p] = FreeSlot]
  /\ open' = open \ {slot[p].soc}
  /\ cached' = cached \cup Offered(slot[p])

Keep(p) ==
  /\ Reusable(slot[p])
  /\ slot' = [slot EXCEPT ![p] = AliveSlot(slot[p].host, slot[p].soc)]
  /\ UNCHANGED open
  /\ cached' = cached \cup Offered(slot[p])

MayDelete(p) == Keep(p) \/ Delete(p)

(* back_maydeletehttp on slot p, which becomes s without its connection:   *)
(* the connection moves to a slot of its own, or is closed.                *)
Hangup(s) == [s EXCEPT !.soc = NoSock, !.ka = FALSE]

(* Fault: the slot keeps the connection it has given away. *)
ParkShared(p, s) ==
  /\ Reusable(slot[p])
  /\ \E q \in Search \ {p} :
       /\ slot' = [slot EXCEPT ![p] = s,
                               ![q] = AliveSlot(slot[p].host, slot[p].soc)]
       /\ open' = open \ {slot[q].soc}

Park(p, s) ==
  /\ Reusable(slot[p])
  /\ \E q \in Search \ {p} :
       /\ slot' = [slot EXCEPT ![p] = Hangup(s),
                               ![q] = AliveSlot(slot[p].host, slot[p].soc)]
       /\ open' = open \ {slot[q].soc}

Close(p, s) ==
  /\ slot' = [slot EXCEPT ![p] = Hangup(s)]
  /\ open' = open \ {slot[p].soc}

MayDeleteHttp(p, s) == Park(p, s) \/ Close(p, s)

-----------------------------------------------------------------------------
(* The call in progress *)

Ops == {"wait", "add", "addif"}
Places == {"idle", "sweep", "park", "trim", "store", "exist", "net", "fill"}
Idle == [op |-> "wait", at |-> "idle", i |-> 0, link |-> NoLink, kind |-> "final"]
CallType ==
  [op : Ops, at : Places, i : Slots, link : Links \cup {NoLink}, kind : Kinds]

Modes == {"main", "begin", "fetch", "type", "retype", "hold", "record",
          "panic", "end"}
InMain == [mode |-> "main", link |-> NoLink, b |-> NoSlot]
EngType ==
  [mode : Modes, link : Links \cup {NoLink}, b : Slots \cup {NoSlot}]

(* Every function of the pool starts with back_clean. *)
Begin(op, l, kd) ==
  call' = [op |-> op, at |-> "sweep", i |-> 0, link |-> l, kind |-> kd]

(* The loops of back_clean: slot after slot, then the next loop. *)
Turn(at) ==
  call' = IF call.i + 1 < BackMax THEN [call EXCEPT !.i = @ + 1]
          ELSE [call EXCEPT !.at = at, !.i = 0]

Ready == call.at = "idle" /\ budget = 0     \* the engine's own code runs

-----------------------------------------------------------------------------
(* back_clean *)

Cleanable(s) == s.st = "ready" /\ s.code = "ok"

OnHeap(s) == s.kind = "final" /\ lk[s.link] \notin {"new", "refused"}

(* Fault: a file in memory passes for one written to disk. *)
FinalizableAnyOutput(s) == ~s.early \/ OnHeap(s)

(* Written to disk, not to be parsed, and known to the heap. *)
Finalizable(s) == s.out # "none" /\ (~s.early \/ OnHeap(s))

(* Fault: the slot is freed and the heap is not told. *)
SweepUntold ==
  /\ call.at = "sweep"
  /\ Cleanable(slot[call.i])
  /\ Finalizable(slot[call.i])
  /\ MayDelete(call.i)
  /\ Turn("park")
  /\ UNCHANGED <<stored, ghost, ftp, lk, tries, eng, budget, stop>>

(* First loop: files written in the background are done. *)
SweepWritten ==
  /\ call.at = "sweep"
  /\ LET i == call.i
         l == slot[i].link
     IN  /\ Cleanable(slot[i])
         /\ Finalizable(slot[i])
         /\ lk' = IF OnHeap(slot[i]) /\ lk[l] = "recorded"
                  THEN [lk EXCEPT ![l] = "done"] ELSE lk
         /\ MayDelete(i)
  /\ Turn("park")
  /\ UNCHANGED <<stored, ghost, ftp, tries, eng, budget, stop>>

(* First loop: an idle connection that is too old is closed. *)
SweepAlive ==
  /\ call.at = "sweep"
  /\ slot[call.i].st = "alive"
  /\ Delete(call.i)
  /\ Turn("park")
  /\ UNCHANGED <<stored, ghost, ftp, lk, tries, eng, budget, stop>>

(* First loop, any other slot: an answer kept in memory and not finalized  *)
(* gives its connection back.                                              *)
SweepOther ==
  /\ call.at = "sweep"
  /\ LET s == slot[call.i]
     IN  /\ ~(Cleanable(s) /\ Finalizable(s))
         /\ IF Cleanable(s) /\ ~s.final /\ s.soc # NoSock
            THEN MayDeleteHttp(call.i, s)
            ELSE UNCHANGED <<slot, open>>
  /\ Turn("park")
  /\ UNCHANGED <<stored, ghost, ftp, lk, tries, cached, eng, budget, stop>>

(* Second loop: no finished slot keeps a connection. *)
ParkReady ==
  /\ call.at = "park"
  /\ LET s == slot[call.i]
     IN  IF s.st = "ready" /\ s.soc # NoSock
         THEN MayDeleteHttp(call.i, s)
         ELSE UNCHANGED <<slot, open>>
  /\ Turn("trim")
  /\ UNCHANGED <<stored, ghost, ftp, lk, tries, cached, eng, budget, stop>>

(* Third loop: idle connections go while there are too many of them. *)
Overall == Cardinality(Receiving \cup Alive)

TrimAlive ==
  /\ call.at = "trim"
  /\ IF slot[call.i].st = "alive" /\ Overall > MaxSoc + OneMore
     THEN Delete(call.i)
     ELSE UNCHANGED <<slot, open, cached>>
  /\ Turn("store")
  /\ UNCHANGED <<stored, ghost, ftp, lk, tries, eng, budget, stop>>

(* Mutant: a slot in use is swapped out. *)
StorableLocked(s) == s.st = "ready"

(* Fourth loop, back_cleanup_background: finished slots go to the disk. *)
Storable(s) == s.st = "ready" /\ ~s.locked

(* What each function does once the slots are cleaned. *)
Body == [wait |-> "net", add |-> "fill", addif |-> "exist"]

StoreReady ==
  /\ call.at = "store"
  /\ LET s == slot[call.i]
         key == <<s.link, s.kind>>
     IN  \/ /\ Storable(s)
            /\ stored' = (stored \ InStore(s.link, s.kind)) \cup {s}
            /\ ghost' = ghost \ {key}
            /\ slot' = [slot EXCEPT ![call.i] = FreeSlot]
            /\ open' = open \ {s.soc}
         \/ /\ Storable(s) => DiskMayFail
            /\ UNCHANGED <<slot, open, stored, ghost>>
  /\ call' = IF call.i + 1 < BackMax THEN [call EXCEPT !.i = @ + 1]
             ELSE [call EXCEPT !.at = Body[call.op], !.i = 0]
  /\ UNCHANGED <<ftp, lk, tries, cached, eng, budget, stop>>

CleanStep ==
  SweepWritten \/ SweepAlive \/ SweepOther \/ ParkReady \/ TrimAlive \/ StoreReady

-----------------------------------------------------------------------------
(* back_add_if_not_exists, after back_clean: back_add, unless the link has *)
(* an entry.                                                               *)
AddIfNotExists ==
  /\ call.at = "exist"
  /\ call' = IF Exists(call.link, call.kind) THEN Idle
             ELSE [call EXCEPT !.op = "add", !.at = "sweep"]
  /\ UNCHANGED <<slot, open, stored, ghost, ftp, lk, tries, cached, eng,
                 budget, stop>>

(* back_add, after back_clean: slot q becomes s *)

Put(q, s) ==
  /\ slot' = [slot EXCEPT ![q] = s]
  /\ open' = open \ {slot[q].soc}

AddAt(q, s) ==
  /\ call.at = "fill"
  /\ q \in Search
  /\ Put(q, s)
  /\ call' = Idle
  /\ UNCHANGED <<stored, ghost, lk, tries, eng, budget, stop>>

(* The mirror is stopped: the entry fails at once, in an update only when  *)
(* the cache has not answered.                                             *)
AddStopped ==
  /\ stop
  /\ \E q \in Slots : AddAt(q, NewSlot(call.link, call.kind))
  /\ UNCHANGED <<ftp, cached>>

(* The cache answers without a request, even once the mirror is stopped. *)
AddKnown ==
  /\ call.link \in KnownLinks
  /\ \E q \in Slots, c \in Positive :
       LET s == [NewSlot(call.link, call.kind) EXCEPT !.code = c]
       IN  /\ AddAt(q, [s EXCEPT !.final = TRUE])
           /\ cached' = cached \cup Offered(s)
  /\ UNCHANGED ftp

(* A thread fetches the file. *)
AddFtp ==
  /\ ~stop
  /\ call.link \in FtpLinks
  /\ \E q \in Slots :
       /\ AddAt(q, [NewSlot(call.link, call.kind) EXCEPT !.st = "ftp"])
       /\ ftp' = ftp \cup {[b |-> q, link |-> call.link]}
  /\ UNCHANGED cached

(* back_trylive: an idle connection to the same host is taken over. *)
AddLive ==
  /\ ~stop
  /\ call.at = "fill"
  /\ call.link \notin FtpLinks
  /\ \E q \in Search : \E i \in Alive \ {q} :
       /\ slot[i].host = Address(call.link)
       /\ slot' = [slot EXCEPT
            ![q] = [NewSlot(call.link, call.kind) EXCEPT
                      !.st = IF call.link \in SecureLinks THEN "secured"
                             ELSE "connecting",
                      !.soc = slot[i].soc, !.ka = TRUE],
            ![i] = FreeSlot]
       /\ open' = open \ {slot[q].soc}
  /\ call' = Idle
  /\ UNCHANGED <<stored, ghost, ftp, lk, tries, cached, eng, budget, stop>>

(* http_xfopen: a new connection. *)
AddConnect ==
  /\ ~stop
  /\ call.at = "fill"
  /\ call.link \notin FtpLinks
  /\ \E q \in Search :
       \E k \in Lowest(Socks \ (open \ {slot[q].soc})) :
         /\ slot' = [slot EXCEPT
              ![q] = [NewSlot(call.link, call.kind) EXCEPT
                        !.st = "connecting", !.code = "failed", !.soc = k]]
         /\ open' = (open \ {slot[q].soc}) \cup {k}
  /\ call' = Idle
  /\ UNCHANGED <<stored, ghost, ftp, lk, tries, cached, eng, budget, stop>>

(* http_xfopen fails. *)
AddRefused ==
  /\ ~stop
  /\ call.link \notin FtpLinks
  /\ \E q \in Slots :
       AddAt(q, [NewSlot(call.link, call.kind) EXCEPT !.code = "failed"])
  /\ UNCHANGED <<ftp, cached>>

(* No slot: an error for the callers, fatal for hts_wait_delayed. *)
AddFull ==
  /\ call.at = "fill"
  /\ Search = {}
  /\ call' = Idle
  /\ eng' = IF eng.mode \in {"type", "retype"} THEN [InMain EXCEPT !.mode = "panic"] ELSE eng
  /\ budget' = 0
  /\ UNCHANGED <<slot, open, stored, ghost, ftp, lk, tries, cached, stop>>

AddStep ==
  AddIfNotExists \/ AddStopped \/ AddKnown \/ AddFtp \/ AddLive \/ AddConnect \/ AddRefused \/ AddFull

-----------------------------------------------------------------------------
(* back_wait, after back_clean: the events of the sockets *)

NetStep(i) == call.at = "net" /\ UNCHANGED <<stored, ghost, ftp, lk, tries,
                                             call, eng, budget, stop>>

(* Fault: a connection that is never established has no time out. *)
BrokenConnected(i) ==
  /\ NetStep(i)
  /\ slot[i].st \in OnWire \ {"connecting"}
  /\ slot' = [slot EXCEPT ![i] = Failed(slot[i], "failed")]
  /\ open' = open \ {slot[i].soc}
  /\ UNCHANGED cached

(* Fault: the time outs reach the slots of the FTP threads. *)
BrokenThread(i) ==
  /\ NetStep(i)
  /\ slot[i].st \in Busy
  /\ slot' = [slot EXCEPT ![i] = Failed(slot[i], "failed")]
  /\ open' = open \ {slot[i].soc}
  /\ UNCHANGED cached

(* Socket error, connection closed, length too short, bad header, time out *)
(* or rate too low: the slot ends with an error.                           *)
Broken(i) ==
  /\ NetStep(i)
  /\ slot[i].st \in OnWire
  /\ slot' = [slot EXCEPT ![i] = Failed(slot[i], "failed")]
  /\ open' = open \ {slot[i].soc}
  /\ UNCHANGED cached

(* Connected: the request is sent, on an https connection only once it has *)
(* its TLS session (STATUS_CONNECTING again after the handshake).          *)
Connected(i) ==
  /\ NetStep(i)
  /\ \/ slot[i].st = "secured"
     \/ slot[i].st = "connecting" /\ slot[i].link \notin SecureLinks
  /\ slot' = [slot EXCEPT ![i].st = "headers"]
  /\ UNCHANGED <<open, cached>>

Handshake(i) ==
  /\ NetStep(i)
  /\ slot[i].link \in SecureLinks
  /\ \/ slot[i].st = "connecting" /\ slot' = [slot EXCEPT ![i].st = "handshake"]
     \/ slot[i].st = "handshake" /\ slot' = [slot EXCEPT ![i].st = "secured"]
  /\ UNCHANGED <<open, cached>>

(* The headers: a body follows, and the connection may be kept after it. *)
Headers(i) ==
  /\ NetStep(i)
  /\ slot[i].st = "headers"
  /\ \E c \in Positive, k \in BOOLEAN :
       slot' = [slot EXCEPT ![i].st = "transfer", ![i].code = c, ![i].ka = k]
  /\ UNCHANGED <<open, cached>>

(* 304: the answer is the one of the cache, the socket stays in the slot.  *)
(* An entry that cannot be read, without a file on disk, is an error.      *)
NotModified(i) ==
  /\ NetStep(i)
  /\ slot[i].st = "headers"
  /\ slot[i].link \in KnownLinks
  /\ \E c \in Positive \cup {"invalid"}, k \in BOOLEAN :
       LET s == [slot[i] EXCEPT !.st = "ready", !.code = c, !.ka = k]
       IN  /\ slot' = [slot EXCEPT ![i] = [s EXCEPT !.final = c # "invalid"]]
           /\ cached' = cached \cup Offered(s)
  /\ UNCHANGED open

(* First data of a file that is not hypertext: the output file is created  *)
(* under the name the slot has now.                                        *)
ToDisk(s) == s.code = "ok" /\ s.link \in DiskLinks

OpenOutput(i) ==
  /\ NetStep(i)
  /\ slot[i].st = "transfer"
  /\ ToDisk(slot[i])
  /\ slot[i].out = "none"
  /\ slot' = [slot EXCEPT ![i].out = slot[i].kind]
  /\ UNCHANGED <<open, cached>>

(* Fault: finalized before its status says that it is ready. *)
BodyEndLatched(i, short) ==
  /\ NetStep(i)
  /\ slot[i].st = "transfer"
  /\ ToDisk(slot[i]) => slot[i].out # "none"
  /\ MayDeleteHttp(i, [slot[i] EXCEPT !.st = "ready", !.final = TRUE,
                                      !.code = IF short THEN "failed" ELSE @])
  /\ UNCHANGED cached

(* End of the body.  The connection is kept or closed before the length is *)
(* compared; a short body then turns into an error.                        *)
BodyEnd(i, short) ==
  /\ NetStep(i)
  /\ slot[i].st = "transfer"
  /\ ToDisk(slot[i]) => slot[i].out # "none"
  /\ LET s == [slot[i] EXCEPT !.st = "ready"]
         d == [s EXCEPT !.final = @ \/ s.kind # "delayed"]
     IN  IF short
         THEN /\ MayDeleteHttp(i, [d EXCEPT !.code = "failed"])
              /\ UNCHANGED cached
         ELSE /\ MayDeleteHttp(i, d)
              /\ cached' = cached \cup Offered(s)

(* End of a chunked body: the answer is finalized, its connection stays in *)
(* the slot until back_clean.  An illegal chunk or a wrong length is found *)
(* after that.                                                             *)
ChunkEnd(i) ==
  /\ NetStep(i)
  /\ slot[i].st = "transfer"
  /\ ToDisk(slot[i]) => slot[i].out # "none"
  /\ LET s == [slot[i] EXCEPT !.st = "ready"]
         d == [s EXCEPT !.final = @ \/ s.kind # "delayed"]
         f == [d EXCEPT !.code = "invalid"]
     IN  \/ /\ slot' = [slot EXCEPT ![i] = d]
            /\ UNCHANGED open
            /\ cached' = cached \cup Offered(s)
         \/ /\ Close(i, f)
            /\ cached' \in {cached, cached \cup Offered(s)}
         \/ /\ slot' = [slot EXCEPT ![i] = f]
            /\ UNCHANGED <<open, cached>>

(* An FTP thread is over: its slot is finished. *)
FtpCollect(i) ==
  /\ NetStep(i)
  /\ slot[i].st = "ftpready"
  /\ LET s == [slot[i] EXCEPT !.st = "ready"]
     IN  /\ slot' = [slot EXCEPT ![i] = [s EXCEPT !.final = s.code = "ok"]]
         /\ cached' = cached \cup Offered(s)
  /\ UNCHANGED open

WaitReturns ==
  /\ call.at = "net"
  /\ call' = Idle
  /\ UNCHANGED <<slot, open, stored, ghost, ftp, lk, tries, cached, eng,
                 budget, stop>>

Events(i) ==
  \/ Broken(i) \/ Connected(i) \/ Handshake(i) \/ Headers(i) \/ NotModified(i)
  \/ OpenOutput(i) \/ (\E short \in BOOLEAN : BodyEnd(i, short)) \/ ChunkEnd(i)
  \/ FtpCollect(i)

(* The end of an FTP thread: it writes the result into its slot, whatever  *)
(* the slot has become (once the mirror is over, into memory that has been *)
(* freed).                                                                 *)
FtpThreadEnds(t) ==
  /\ t \in ftp
  /\ ftp' = ftp \ {t}
  /\ IF eng.mode = "end" THEN UNCHANGED slot
     ELSE \E c \in {"ok", "failed"} :
            slot' = [slot EXCEPT ![t.b].st = "ftpready", ![t.b].code = c]
  /\ UNCHANGED <<open, stored, ghost, lk, tries, cached, call, eng, budget, stop>>

-----------------------------------------------------------------------------
(* back_fill: the links of the heap are added while connections and slots  *)
(* are left.                                                               *)

(* Fault: the transfers under way are not counted. *)
PluggableSlots ==
  LET f == Cardinality(Free)
  IN  IF f <= FillReserve \/ f <= MinFree THEN 0
      ELSE IF MaxSoc <= f - FillReserve THEN MaxSoc ELSE f - FillReserve

Pluggable ==
  LET n == Cardinality(Receiving)
      f == Cardinality(Free)
  IN  IF n >= MaxSoc \/ f <= FillReserve \/ f <= MinFree THEN 0
      ELSE IF MaxSoc - n <= f - FillReserve THEN MaxSoc - n
      ELSE f - FillReserve

Settling(l) == InSlots(l) # {} /\ \A q \in InSlots(l) : slot[q].st \in Busy

(* Where back_fillmax is called: while parsing, before the first turn of   *)
(* the waiting loop of the current link, and in it while the link is under *)
(* way; and while the type of a link is awaited.                           *)
StartFill ==
  /\ Ready
  /\ ~stop
  /\ eng.mode \in {"main", "begin", "fetch", "hold"}
  /\ eng.mode = "fetch" => Settling(eng.link)
  /\ Pluggable > 0
  /\ \E l \in Links : lk[l] = "recorded" /\ ~Exists(l, "final")
  /\ budget' = Pluggable
  /\ UNCHANGED <<slot, open, stored, ghost, ftp, lk, tries, cached, call, eng, stop>>

FillAdd(l) ==
  /\ call.at = "idle"
  /\ budget > 0
  /\ lk[l] = "recorded"
  /\ eng.mode \in {"begin", "fetch"} => l # eng.link
  /\ ~Exists(l, "final")
  /\ Begin("add", l, "final")
  /\ budget' = budget - 1
  /\ UNCHANGED <<slot, open, stored, ghost, ftp, lk, tries, cached, eng, stop>>

FillEnds ==
  /\ call.at = "idle"
  /\ budget > 0
  /\ budget' = 0
  /\ UNCHANGED <<slot, open, stored, ghost, ftp, lk, tries, cached, call, eng, stop>>

-----------------------------------------------------------------------------
(* The engine: hts_mirror_wait_for_next_file *)

Calls == UNCHANGED <<slot, open, stored, ghost, ftp, lk, tries, cached, budget, stop>>

(* Pauses, and waits for a connection, before and after a link is handled. *)
MainWait ==
  /\ Ready
  /\ eng.mode \in {"main", "record"}
  /\ Begin("wait", NoLink, "final")
  /\ UNCHANGED eng
  /\ Calls

(* The main loop has come to link l. *)
BeginFetch(l) ==
  /\ Ready
  /\ eng.mode = "main"
  /\ lk[l] = "recorded"
  /\ eng' = [mode |-> "begin", link |-> l, b |-> NoSlot]
  /\ IF Exists(l, "final") THEN UNCHANGED call ELSE Begin("add", l, "final")
  /\ Calls

Fetching == Ready /\ eng.mode \in {"begin", "fetch"}

FetchWait ==
  /\ Fetching
  /\ Settling(eng.link)
  /\ Begin("wait", NoLink, "final")
  /\ eng' = [eng EXCEPT !.mode = "fetch"]
  /\ Calls

(* The user pauses, or the connections are used up: slots are cleaned and  *)
(* received even though the answer of the current link may be ready.       *)
FetchPause ==
  /\ Fetching
  /\ Begin("wait", NoLink, "final")
  /\ eng' = [eng EXCEPT !.mode = "fetch"]
  /\ Calls

(* back_index_ready: the stored answer is read back into a slot.           *)
Wake(s, q) ==
  /\ q \in Search
  /\ Put(q, [s EXCEPT !.locked = TRUE])
  /\ stored' = stored \ {s}

FetchThaw ==
  /\ Fetching
  /\ InSlots(eng.link) = {}
  /\ \E s \in InStore(eng.link, "final"), q \in Slots : Wake(s, q)
  /\ eng' = [eng EXCEPT !.mode = "fetch"]
  /\ UNCHANGED <<ghost, ftp, lk, tries, cached, call, budget, stop>>

(* Fault: the unreadable entry is kept beside its key. *)
ThawFailsKept ==
  /\ Fetching
  /\ InSlots(eng.link) = {}
  /\ \E s \in InStore(eng.link, "final") :
       /\ DiskMayFail \/ Search = {}
       /\ ghost' = ghost \cup {<<s.link, s.kind>>}
  /\ eng' = [eng EXCEPT !.mode = "fetch"]
  /\ UNCHANGED <<slot, open, stored, ftp, lk, tries, cached, call, budget, stop>>

(* The temporary file cannot be read, or no slot can take the answer: the  *)
(* file is deleted, its key stays.                                         *)
ThawFails ==
  /\ Fetching
  /\ InSlots(eng.link) = {}
  /\ \E s \in InStore(eng.link, "final") :
       /\ DiskMayFail \/ Search = {}
       /\ stored' = stored \ {s}
       /\ ghost' = ghost \cup {<<s.link, s.kind>>}
  /\ eng' = [eng EXCEPT !.mode = "fetch"]
  /\ UNCHANGED <<slot, open, ftp, lk, tries, cached, call, budget, stop>>

(* back_index finds nothing: the link is skipped. *)
FetchGone ==
  /\ Fetching
  /\ InSlots(eng.link) = {}
  /\ InStore(eng.link, "final") = {}
  /\ lk' = IF lk[eng.link] = "recorded" THEN [lk EXCEPT ![eng.link] = "skipped"]
           ELSE lk
  /\ eng' = InMain
  /\ UNCHANGED <<slot, open, stored, ghost, ftp, tries, cached, call, budget, stop>>

(* The answer is ready: it is copied, and its slot released.               *)
Arrived(b) ==
  /\ Fetching
  /\ b \in InSlots(eng.link)
  /\ slot[b].st = "ready"
  /\ eng' = InMain
  /\ UNCHANGED <<stored, ghost, ftp, call, budget, stop>>

Settle(l, how) == lk' = [lk EXCEPT ![l] = how]

Deliver(b) ==
  /\ Arrived(b)
  /\ slot[b].code \in Positive
  /\ Settle(eng.link, IF slot[b].code = "ok" THEN "taken" ELSE "answered")
  /\ MayDelete(b)
  /\ UNCHANGED tries

(* Fault: the retry is not checked against what is left of them. *)
DeliverRetryAlways(b) ==
  /\ Arrived(b)
  /\ slot[b].code \in {"failed", "error"}
  /\ tries' = [tries EXCEPT ![eng.link] = @ - 1]
  /\ MayDelete(b)
  /\ UNCHANGED lk

(* An error, of the connection or of the server (408, 409, 500, 502, 504), *)
(* is retried: the link is recorded again, one retry less.                 *)
DeliverRetry(b) ==
  /\ Arrived(b)
  /\ slot[b].code \in {"failed", "error"}
  /\ tries[eng.link] > 0
  /\ tries' = [tries EXCEPT ![eng.link] = @ - 1]
  /\ MayDelete(b)
  /\ UNCHANGED lk

DeliverError(b) ==
  /\ Arrived(b)
  /\ \/ slot[b].code = "invalid"
     \/ slot[b].code = "failed" /\ tries[eng.link] = 0
  /\ Settle(eng.link, "failed")
  /\ Delete(b)
  /\ UNCHANGED tries

(* host_ban, after the last retry of a link that timed out or was too slow:*)
(* the slots of the host fail, running or ready, and its links are no      *)
(* longer wanted.  The address of a slot is compared with the bare name of *)
(* the host, which only that of an http link equals.                       *)
OfHost(q, h) ==
  /\ slot[q].st \notin {"free", "alive"}
  /\ slot[q].host = <<h, "http">>

DeliverBan(b) ==
  /\ HostControl
  /\ Arrived(b)
  /\ slot[b].code = "failed"
  /\ tries[eng.link] = 0
  /\ LET h == HostOf[eng.link]
     IN  /\ lk' = [l \in Links |->
                     IF l = eng.link THEN "failed"
                     ELSE IF HostOf[l] = h /\ lk[l] = "recorded" THEN "banned"
                     ELSE lk[l]]
         /\ slot' = [q \in Slots |->
                       IF q = b THEN FreeSlot
                       ELSE IF OfHost(q, h) THEN Failed(slot[q], "failed")
                       ELSE slot[q]]
         /\ open' = open \ {slot[q].soc : q \in {r \in Slots : OfHost(r, h)}}
  /\ UNCHANGED <<tries, cached>>

(* The user cancels a file by its name, seen while the current link is     *)
(* awaited (a running FTP thread is asked to stop instead).                *)
CancelFile(i) ==
  /\ UserStops
  /\ Ready
  /\ eng.mode = "fetch"
  /\ InSlots(eng.link) # {}
  /\ slot[i].st \in Busy \ {"ftp"}
  /\ Put(i, Failed(slot[i], "invalid"))
  /\ UNCHANGED <<stored, ghost, ftp, lk, tries, cached, call, eng, budget, stop>>

FetchStep ==
  \/ FetchWait \/ FetchThaw \/ ThawFails \/ FetchGone
  \/ \E b \in Slots :
       Deliver(b) \/ DeliverRetry(b) \/ DeliverError(b) \/ DeliverBan(b)

-----------------------------------------------------------------------------
(* The engine: hts_wait_delayed, for a link whose type is not known *)

BeginType(l) ==
  /\ Ready
  /\ ~stop
  /\ eng.mode = "main"
  /\ lk[l] = "new"
  /\ Cardinality(Receiving) < MaxSoc       \* WAIT_FOR_AVAILABLE_SOCKET
  /\ eng' = [mode |-> "type", link |-> l, b |-> NoSlot]
  /\ Begin("addif", l, "delayed")
  /\ Calls

Typing == Ready /\ eng.mode \in {"type", "retype"}

(* The slot comes back with the code of a failed cache read: it is removed *)
(* and, unless the filters refuse its type, added again under the name     *)
(* guessed from the URL.                                                   *)
TypeRestart ==
  /\ Typing
  /\ eng.mode = "type"
  /\ \E q \in InSlots(eng.link) :
       /\ slot[q].code = "invalid"
       /\ \/ /\ slot[q].soc # NoSock /\ slot[q].ka
             /\ slot' = [slot EXCEPT ![q] = AliveSlot(slot[q].host, slot[q].soc)]
             /\ UNCHANGED open
          \/ Put(q, FreeSlot)
  /\ \/ /\ eng' = [eng EXCEPT !.mode = "retype"]
        /\ Begin("addif", eng.link, "guessed")
        /\ UNCHANGED lk
     \/ /\ Settle(eng.link, "refused")
        /\ eng' = InMain
        /\ UNCHANGED call
  /\ UNCHANGED <<stored, ghost, ftp, tries, cached, budget, stop>>

(* The slot is held while the headers are awaited.                         *)
TypeHold ==
  /\ Typing
  /\ \E q \in InSlots(eng.link) :
       /\ eng.mode = "type" => slot[q].code # "invalid"
       /\ eng' = [eng EXCEPT !.mode = "hold", !.b = q]
       /\ slot' = [slot EXCEPT ![q].early = TRUE, ![q].locked = TRUE]
  /\ UNCHANGED <<open, stored, ghost, ftp, lk, tries, cached, call, budget, stop>>

Holding == Ready /\ eng.mode = "hold"

(* Fault: the headers are not awaited. *)
PendingConnection(s) ==
  \/ s.st \in {"connecting", "secured"}
  \/ s.st \in Busy /\ s.code \in {"moved", "error"}

(* Status 99 to 101 (the handshake is 102), or the end of a redirect or of *)
(* an error page.                                                          *)
Pending(s) ==
  \/ s.st \in {"connecting", "secured", "headers"}
  \/ s.st \in Busy /\ s.code \in {"moved", "error"}

HoldWait ==
  /\ Holding
  /\ Pending(slot[eng.b])
  /\ Begin("wait", NoLink, "final")
  /\ UNCHANGED eng
  /\ Calls

(* Nothing is awaited any more: the slot is unlocked and the link takes    *)
(* its final name; a finished slot is finalized just before.               *)
HoldNamed ==
  /\ Holding
  /\ LET s == slot[eng.b]
     IN  /\ ~Pending(s)
         /\ s.code # "moved"
         /\ slot' = [slot EXCEPT ![eng.b] =
              [s EXCEPT !.locked = FALSE, !.kind = "final",
                        !.final = @ \/ s.st = "ready"]]
         /\ cached' = cached \cup Offered(s)
  /\ eng' = [eng EXCEPT !.mode = "record", !.b = NoSlot]
  /\ UNCHANGED <<open, stored, ghost, ftp, lk, tries, call, budget, stop>>

(* A redirect: the slot is removed and another link takes over, or, when   *)
(* it leads nowhere or to itself, the link is recorded without a slot.     *)
HoldMoved ==
  /\ Holding
  /\ ~Pending(slot[eng.b])
  /\ slot[eng.b].code = "moved"
  /\ MayDelete(eng.b)
  /\ \/ Settle(eng.link, "refused") /\ eng' = InMain
     \/ eng' = [eng EXCEPT !.mode = "record", !.b = NoSlot] /\ UNCHANGED lk
  /\ UNCHANGED <<stored, ghost, ftp, tries, call, budget, stop>>

(* The filters refuse the type: the slot is unlocked and left to itself.   *)
HoldRefused ==
  /\ Holding
  /\ ~Pending(slot[eng.b])
  /\ slot[eng.b].code # "moved"
  /\ slot' = [slot EXCEPT ![eng.b].locked = FALSE]
  /\ Settle(eng.link, "refused")
  /\ eng' = InMain
  /\ UNCHANGED <<open, stored, ghost, ftp, tries, cached, call, budget, stop>>

(* The user cancels the parsing: the slot is deleted, and the link takes   *)
(* the name its URL suggests.                                              *)
HoldCancelled ==
  /\ UserStops
  /\ Holding
  /\ Delete(eng.b)
  /\ eng' = [eng EXCEPT !.mode = "record", !.b = NoSlot]
  /\ UNCHANGED <<stored, ghost, ftp, lk, tries, call, budget, stop>>

(* hts_record_link: the link is on the heap. *)
Record ==
  /\ Ready
  /\ eng.mode = "record"
  /\ Settle(eng.link, "recorded")
  /\ eng' = InMain
  /\ UNCHANGED <<slot, open, stored, ghost, ftp, tries, cached, call, budget, stop>>

TypeStep ==
  \/ TypeRestart \/ TypeHold \/ HoldWait \/ HoldNamed \/ HoldMoved
  \/ HoldRefused \/ HoldCancelled \/ Record

-----------------------------------------------------------------------------
(* hts_request_stop, from the user's thread. *)
StopMirror ==
  /\ UserStops
  /\ ~stop
  /\ eng.mode \notin {"panic", "end"}
  /\ stop' = TRUE
  /\ UNCHANGED <<slot, open, stored, ghost, ftp, lk, tries, cached, call, eng, budget>>

(* No link is left: back_delete_all. *)
Finish ==
  /\ Ready
  /\ eng.mode = "main"
  /\ \A l \in Links : lk[l] # "recorded" /\ (lk[l] = "new" => stop)
  /\ slot' = [q \in Slots |-> FreeSlot]
  /\ open' = open \ {slot[q].soc : q \in Slots}
  /\ cached' = cached \cup UNION {Offered(slot[q]) : q \in Slots}
  /\ stored' = {}
  /\ ghost' = {}
  /\ eng' = [InMain EXCEPT !.mode = "end"]
  /\ UNCHANGED <<ftp, lk, tries, call, budget, stop>>

Terminated == eng.mode \in {"panic", "end"} /\ UNCHANGED vars

-----------------------------------------------------------------------------
Init ==
  /\ slot = [q \in Slots |-> FreeSlot]
  /\ open = {}
  /\ stored = {}
  /\ ghost = {}
  /\ ftp = {}
  /\ lk = [l \in Links |-> IF l \in UntypedLinks THEN "new" ELSE "recorded"]
  /\ tries = [l \in Links |-> Retries]
  /\ cached = {}
  /\ call = Idle
  /\ eng = InMain
  /\ budget = 0
  /\ stop = FALSE

EngineStep ==
  \/ CleanStep \/ AddStep \/ WaitReturns \/ FillEnds
  \/ (\E i \in Slots : Events(i) \/ CancelFile(i))
  \/ StartFill \/ (\E l \in Links : FillAdd(l))
  \/ MainWait \/ FetchPause \/ (\E l \in Links : BeginFetch(l) \/ BeginType(l))
  \/ FetchStep \/ TypeStep \/ Finish

Next ==
  \/ EngineStep
  \/ (\E t \in ftp : FtpThreadEnds(t))
  \/ StopMirror
  \/ Terminated

Spec == Init /\ [][Next]_vars

(* A call of the pool is sequential code that runs to its end. *)
CallStep == CleanStep \/ AddStep \/ WaitReturns \/ FillEnds

(* The main loop goes on to the next link, and round its waiting loops. *)
EngineTurn == FetchStep \/ TypeStep \/ (\E l \in Links : BeginFetch(l))

(* A transfer that is waited for again and again ends, at the latest by its*)
(* time out or when its thread is over.                                    *)
TransferEnds == \E i \in Slots : Broken(i) \/ FtpCollect(i)

Fairness ==
  /\ WF_vars(CallStep)
  /\ SF_vars(EngineTurn)
  /\ SF_vars(TransferEnds)
  /\ WF_vars(\E t \in ftp : FtpThreadEnds(t))

FairSpec == Spec /\ Fairness

-----------------------------------------------------------------------------
(* Properties *)

LinkStates ==
  {"new", "recorded", "done", "taken", "answered", "failed", "skipped",
   "refused", "banned"}

(* The values of the variables. *)
TypeOK ==
  /\ slot \in [Slots -> SlotType]
  /\ open \subseteq Socks
  /\ stored \subseteq SlotType
  /\ ghost \subseteq Links \X Kinds
  /\ ftp \subseteq [b : Slots, link : Links]
  /\ lk \in [Links -> LinkStates]
  /\ tries \in [Links -> 0 .. Retries]
  /\ cached \subseteq Links
  /\ call \in CallType
  /\ eng \in EngType
  /\ budget \in 0 .. MaxSoc
  /\ stop \in BOOLEAN

(* Every descriptor the process holds belongs to exactly one slot, and a   *)
(* slot only ever refers to a descriptor that is open: connections moved   *)
(* between slots (back_connxfr) are neither leaked, closed twice nor shared.*)
SocketOwnership ==
  /\ open = {slot[q].soc : q \in Slots} \ {NoSock}
  /\ \A p, q \in Slots :
       p # q /\ slot[p].soc # NoSock => slot[p].soc # slot[q].soc

(* A link has one entry in the pool: in a slot, or swapped to disk.  The   *)
(* code calls a second entry "unexpected duplicate" (htsback.c:273).       *)
OneEntry ==
  \A l \in Links :
    Cardinality(InSlots(l)) + Cardinality({s \in stored : s.link = l})
      + Cardinality({k \in ghost : k[1] = l}) <= 1

(* While hts_wait_delayed keeps the index of its slot across the calls of  *)
(* back_wait and back_fillmax, the slot stays that of its link.            *)
HeldSlotStays ==
  eng.mode = "hold" =>
    /\ slot[eng.b].link = eng.link
    /\ slot[eng.b].st \notin {"free", "alive"}

(* The slot an FTP thread writes into when it ends is still its own.       *)
FtpOwnsSlot ==
  \A t \in ftp : slot[t.b].link = t.link /\ slot[t.b].st = "ftp"

(* Transfers never exceed the limit of the user by more than the one of the*)
(* current link; once back_clean has trimmed the idle connections, they and*)
(* the transfers are within the limit, or no idle connection is left.      *)
LimitsKept ==
  /\ Cardinality(Receiving) <= MaxSoc + 1
  /\ call.at = "store" => Overall <= MaxSoc + OneMore \/ Alive = {}

(* A link is never skipped for having no entry: "it's because it has       *)
(* already been downloaded in background" (htsparse.c:4237).               *)
SkippedMeansDone == \A l \in Links : lk[l] # "skipped"

(* A good answer, when the link is settled by it, has gone to the cache.   *)
AnswerCached ==
  \A l \in Links : lk[l] \in {"taken", "done"} => l \in cached

(* A file is declared written in the background only from a complete       *)
(* answer stored under the final name of the link.                         *)
WrittenUnderItsName ==
  [][\A l \in Links :
       lk'[l] = "done" /\ lk[l] # "done" =>
         \E q \in InSlots(l) :
           slot[q].st = "ready" /\ slot[q].code = "ok" /\ slot[q].out = "final"]_vars

(* A link keeps its transfer and takes its name only once the headers are  *)
(* there or the transfer has ended: "Wait for headers to be received"      *)
(* (htsparse.c:4519).                                                      *)
NamedFromHeaders ==
  [][/\ eng.mode = "hold"
     /\ eng'.mode = "record"
     /\ slot'[eng.b].st # "free"
     => slot[eng.b].st \in {"transfer", "ready"}]_vars

(* Every link the main loop has to handle is settled in the end, unless no *)
(* slot is left for the type of another one and the mirror gives up.       *)
EveryLinkSettles ==
  \A l \in Links :
    lk[l] = "recorded" ~> lk[l] # "recorded" \/ eng.mode = "panic"

-----------------------------------------------------------------------------
(* The pool implements what it promises.                                   *)
Entry(l) == {slot[q] : q \in InSlots(l)} \cup {s \in stored : s.link = l}

Transfer(l) ==
  IF Entry(l) = {} THEN "none"
  ELSE IF \E s \in Entry(l) : s.st \in Busy THEN "active"
  ELSE IF \E s \in Entry(l) : s.code \in {"ok", "moved"} THEN "good"
  ELSE IF \E s \in Entry(l) : s.code = "error" THEN "error"
  ELSE "bad"

FateOf(l) ==
  CASE lk[l] = "new" -> "new"
    [] lk[l] = "recorded" -> "open"
    [] lk[l] \in {"taken", "answered"} -> "taken"
    [] lk[l] = "done" -> "written"
    [] OTHER -> "dropped"

D == INSTANCE Downloads WITH
       xfer <- [l \in Links |-> Transfer(l)],
       fate <- [l \in Links |-> FateOf(l)]

Promise == D!Spec
=============================================================================
